\* Two reports, of one process or of two that share a directory.
CONSTANTS
  Report = {r1, r2}
  Process = {p1, p2}
  Given = {FALSE}
  MaxTime = 1
  NoReport = NoReport
  r1 = r1
  r2 = r2
  p1 = p1
  p2 = p2
SPECIFICATION Spec
INVARIANTS TypeOK SymbolsExclusive CrashExplained LossTold DumpNotShared
PROPERTY TextSpec
SYMMETRY Symmetry
VIEW OutputReduced

\* One report.
CONSTANTS
  Report = {r1}
  Process = {p1}
  Given = {TRUE}
  MaxTime = 0
  NoReport = NoReport
  r1 = r1
  r2 = r2
  p1 = p1
  p2 = p2
SPECIFICATION Spec
INVARIANTS GivenPointersUsed

\* Both threads have crExceptionFilter() around them; reports crash as well.  The process may hang.
CONSTANTS
  AppThread = {a1, a2}
  HelperThread = {h1}
  MainThread = a1
  Guarded = {a1, a2}
  AppCrash = {"Seh", "StackOverflow", "Terminate"}
  NestedCrash = {"Seh", "New"}
  MaxNesting = 1
  MaxChance = 3
  NoThread = NoThread
  a1 = a1
  a2 = a2
  h1 = h1
SPECIFICATION FairSpec
INVARIANTS HandlersExclusive DropNeedsAnother
PROPERTIES NeverUnlocked CrashResolved
CHECK_DEADLOCK FALSE
VIEW OutputReduced

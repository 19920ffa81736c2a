\* Generating a report may overflow the stack.
CONSTANTS
  AppThread = {a1, a2}
  HelperThread = {h1}
  MainThread = a1
  Guarded = {}
  AppCrash = {"Seh"}
  NestedCrash = {"StackOverflow"}
  MaxNesting = 1
  MaxChance = 2
  NoThread = NoThread
  a1 = a1
  a2 = a2
  h1 = h1
SPECIFICATION FairSpec
PROPERTIES GuardEnds
CHECK_DEADLOCK FALSE

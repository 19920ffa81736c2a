\* One thread has crExceptionFilter() around it, the other does not.
CONSTANTS
  AppThread = {a1, a2}
  HelperThread = {h1}
  MainThread = a1
  Guarded = {a2}
  AppCrash = {"Seh"}
  NestedCrash = {}
  MaxNesting = 0
  MaxChance = 2
  NoThread = NoThread
  a1 = a1
  a2 = a2
  h1 = h1
SPECIFICATION Spec
INVARIANTS InsideAlone

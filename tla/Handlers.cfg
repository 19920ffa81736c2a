\* No crExceptionFilter() in use; no stack overflow inside report generation.
CONSTANTS
  AppThread = {a1, a2}
  HelperThread = {h1}
  MainThread = a1
  Guarded = {}
  AppCrash = {"Seh", "StackOverflow", "Terminate", "Sigterm"}
  NestedCrash = {"Seh", "New", "Sigabrt", "Sigterm"}
  MaxNesting = 2
  MaxChance = 3
  NoThread = NoThread
  a1 = a1
  a2 = a2
  h1 = h1
SPECIFICATION FairSpec
INVARIANTS TypeOK SingleReport NoSilentTermination
PROPERTIES GuardSpec CrashEnds

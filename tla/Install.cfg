\* Two threads install while the application sets handlers of its own.
CONSTANTS
  Thread = {t1, t2}
  MscVer = 1400
  FlagSets = {{}, {"SEH", "SIGABRT", "SIGILL", "NO_GUI"}}
  AppSlots = {"Sigabrt"}
  Process = Process
  t1 = t1
  t2 = t2
SPECIFICATION Spec
INVARIANTS TypeOK FlagsHonoured InstallerIntercepts OthersProtected

\* One flag at a time.
CONSTANTS
  Thread = {t1}
  MscVer = 1900
  FlagSets = {{"SIGTERM"}, {"TERMINATE"}}
  AppSlots = {}
  Process = Process
  t1 = t1
  t2 = t2
SPECIFICATION Spec
INVARIANTS SigtermFlagHonoured

\* One thread installs and uninstalls.
CONSTANTS
  Thread = {t1}
  MscVer = 1900
  FlagSets = {{}}
  AppSlots = {"Sigabrt"}
  Process = Process
  t1 = t1
  t2 = t2
SPECIFICATION Spec
INVARIANTS UninstallRestores

\* One report's system information; paths of up to ten characters, cut at seven.
CONSTANTS
  Path <- MCPath
  MaxFName = 8
  Size <- MCSize
  Width <- MCWidth
  Length <- MCLength
  Version <- MCVersion
SPECIFICATION Spec
INVARIANTS TypeOK TextWhole AppNamed MemoryOrdered NamesSeparate SystemNamed CrashHasReason

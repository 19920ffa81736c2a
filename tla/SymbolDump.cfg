\* Two frames of up to two symbols; types that may contain themselves.
CONSTANTS
  Index <- MCIndex
  Children <- MCChildren
  Offset <- MCOffset
  Length <- MCLength
  Basic <- MCBasic
  Symbol <- MCSymbol
  AddrFrame <- MCAddrFrame
  MaxDumpDepth = 2
  MaxStack = 3
  MaxSymbols = 2
  Wild = Wild
SPECIFICATION FairSpec
INVARIANTS TypeOK LineWhole ValuesRight OverflowsCorrupted DiesOfSecond
PROPERTIES WalkReturns

\* One symbol with a type that may contain itself; room for more levels than MAX_DUMP_DEPTH.
CONSTANTS
  Index <- MCIndex
  Children <- MCChildren
  Offset <- MCOffset
  Length <- MCLength
  Basic <- MCBasic
  Symbol <- MCSymbol
  AddrFrame <- MCAddrFrame
  MaxDumpDepth = 1
  MaxStack = 3
  MaxSymbols = 1
  Wild = Wild
SPECIFICATION Spec
INVARIANTS EmbeddingLimited

SPECIFICATION CompiledSpec
CONSTANTS
  Name <- MCName
  Programs <- NarrowGlobals
  Node <- MCNode
  LocalsSum <- SumTo
  ByteBits = 2
  StackWords = 20
  Garbage = 5
INVARIANT
  GlobalHoldsItsWidth

SPECIFICATION CompiledSpec
CONSTANTS
  Name <- MCName
  Programs <- InitialisedGlobals
  Node <- MCNode
  LocalsSum <- SumTo
  ByteBits = 2
  StackWords = 20
  Garbage = 5
INVARIANT
  GlobalStartsInitialised

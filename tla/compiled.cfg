SPECIFICATION CompiledSpec
CONSTANTS
  Name <- MCName
  Programs <- MCPrograms
  Node <- MCNode
  LocalsSum <- SumTo
  ByteBits = 1
  StackWords = 60
  Garbage = 5
INVARIANTS
  ResultCorrect
  AlignedAtRuntime
PROPERTY
  FramesRestored

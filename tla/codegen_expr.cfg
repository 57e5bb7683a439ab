SPECIFICATION Spec
CONSTANTS
  Name <- MCName
  Programs <- MCPrograms
  Node <- MCNode
  LocalsSum <- SumTo
INVARIANTS
  TypeOK
  CallAligned
  DepthMatchesStack
  JumpsKeepStack

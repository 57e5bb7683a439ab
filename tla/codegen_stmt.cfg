SPECIFICATION FairSpec
CONSTANTS
  Name <- MCName
  Programs <- MCPrograms
  Node <- MCNode
  LocalsSum <- SumTo
INVARIANTS
  LabelsResolve
  LexicalScoping
  LocalsInFrame
  Balanced
PROPERTY
  Termination

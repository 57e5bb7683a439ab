SPECIFICATION Spec
CONSTANT
  CommandLines <- MCCommandLines
INVARIANTS
  SuccessMeansBuilt
  NoPartLinked
  SourceSurvives
  AssemblyBeside

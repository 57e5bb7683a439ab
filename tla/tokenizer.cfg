SPECIFICATION FairSpec
CONSTANTS
  Sources <- MCSources
  MAX_LEXEME = 5
  Capacity = 1
  IdxBound = 20
INVARIANTS
  CursorsAgree
  LinesTrue
  LexemesFit
  OverrunsExplained
  EofEnds
PROPERTIES
  LexerSpec
  Ends

SPECIFICATION FairSpec
CONSTANTS
  Sources <- MCDecimals
  MAX_LEXEME = 5
  Capacity = 1
  IdxBound = 20
PROPERTY
  NumbersRead

SPECIFICATION Spec
CONSTANTS
  alpha = alpha
  beta = beta
  gamma = gamma
  x = x
  Key <- MCKey
  Value = {1, 2}
  NULL = NULL
  capacity = 2
  hash <- MCHash
  MaxSize = 6
INVARIANTS
  TypeOK
  OneNodePerKey
PROPERTY
  DictionarySpec

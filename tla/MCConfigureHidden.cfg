CONSTANTS
  a = a
  b = b
  c = c
  leaf = leaf
  none = none
  Names <- MCNames
  Nameless = none
  Submissions <- Hidden
  Later <- MCLater
  Tokens <- MCTokens
  Requested <- MCRequested
  MaxGroupDepth = 2
SPECIFICATION Spec
INVARIANTS
  ActiveSound

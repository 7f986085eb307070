CONSTANTS
  a = a
  b = b
  c = c
  leaf = leaf
  none = none
  Names <- MCNames
  Nameless = none
  Submissions <- MCSubmissions
  Later <- MCLater
  Tokens <- MCTokens
  Requested <- MCRequested
  MaxGroupDepth = 2
SPECIFICATION Spec
INVARIANTS
  TypeOK
  ActiveSound
  RefusedForCause
  ManualKept
  GuardRight

SPECIFICATION Spec
CONSTANTS
  WORD_BITS = 10
  PAGE_BITS = 4
  LARGE_DATA = 2
  BUDDY_MAX_ORDER = 3
  UNSIGNED_RANGE = 20
  Sizes <- FittingSizes
INVARIANTS
  OrderIsLeast
PROPERTY
  RequestAnswered

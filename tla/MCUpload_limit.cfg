SPECIFICATION Spec
CONSTANTS
  t1 = t1  t2 = t2
  Transfers = {t1, t2}
  Loads <- ByForm
  Sizes = {4}
  Part = 2
  Limit = 3
  Chunks = 2
  MaxWrites = 0
  Forms <- OneFile
CHECK_DEADLOCK FALSE
INVARIANTS LimitRefuses

SPECIFICATION LiveSpec
CONSTANTS
  Expenses = {x1}
  Requests = {r1, r2}
  Titles = {t1, t2}
  Amounts = {1, 2}
  MaxRev = 3
  Keep = Keep
INVARIANTS
  SharesMatchAmount
  CacheIsFresh
PROPERTIES
  DeletedStaysDeleted
  StalenessEnds

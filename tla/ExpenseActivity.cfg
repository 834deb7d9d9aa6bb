SPECIFICATION ActivitySpec
CONSTANTS
  Requests = {r1, r2}
  Marks = {m1}
  Receipts = {f1}
  Categories <- MCCategories
  NoSub = NoSub
  Keys <- MCKeys
  MaxHits = 2
SYMMETRY Symmetric
INVARIANTS
  TrailIsSound
  NoHitIsLost
  ReportsAreSwept

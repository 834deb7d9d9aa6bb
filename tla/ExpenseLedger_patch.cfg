SPECIFICATION Spec
CONSTANTS
  Expenses = {x1}
  Requests = {r1, r2}
  Titles = {t1, t2}
  Amounts = {1, 2}
  MaxRev = 3
  Keep = Keep
PROPERTY NoLostUpdate

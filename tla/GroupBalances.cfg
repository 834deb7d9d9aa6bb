SPECIFICATION Spec
CONSTANTS
  Users = {a, b, c, d}
  StartNets <- MCStartNets
  Totals <- MCTotals
  ShareValues <- MCShares
  Percentages <- MCPercentages
  MaxBills = 1
  MaxParties = 3
SYMMETRY Symmetry
INVARIANTS
  SplitIsFair
  SoundBillsAreSplit
  NetsBalance
  NobodyOverpays
  SettlesInFewTransfers

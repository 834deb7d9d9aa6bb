SPECIFICATION FairSpec
CONSTANTS
  Users = {u1, u2}
  Tokens = {1, 2, 3}
  Families = {1, 2}
  Requests = {1, 2, 3}
  NoRow = NoRow
  NoToken = NoToken
  MaxFailures = 1
CONSTRAINT InOrder
INVARIANTS
  NoFalseRevocation
  ReusedMeansRevoked
PROPERTIES
  ReuseEndsSessions
  ImplementsChain
CHECK_DEADLOCK FALSE

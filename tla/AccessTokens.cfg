SPECIFICATION Spec
CONSTANTS
  Users = {u1, u2}
  Second = 3
  AccessTTL = 2
  Tolerance = 1
  FlagTTL = 3
  NoFlag = NoFlag
  MaxNow = 17
  MaxIssued = 2
CONSTRAINT FewTokens
INVARIANTS
  RevokedStaysRevoked
CHECK_DEADLOCK FALSE

SPECIFICATION Spec
CONSTANTS
  Phones = {p1}
  Sessions = {s1, s2}
  Requests = {r1, r2}
  Expiry = 2
  Cooldown = 1
  LockTime = 7
  VerifiedTTL = 1
  MaxAttempts = 2
  Skew = 1
  NoSession = NoSession
  NoPhone = NoPhone
SYMMETRY Symmetric
INVARIANTS
  BoundedGuesses
  SingleUse
PROPERTIES
  LockIsFinal
  ImplementsCode

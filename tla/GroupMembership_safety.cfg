SPECIFICATION Spec
CONSTANTS
  Users = {u1, u2, u3}
  Groups = {g1}
  Requests = {r1, r2}
  NoUser = NoUser
  NoRow = NoRow
  NoInvite = NoInvite
  NoGroup = NoGroup
SYMMETRY Symmetric
INVARIANTS
  OneOwner
  NoOrphans
  InvitedByAuthority
PROPERTIES
  RoleChangesByOwner
  JoiningIsConsent
  PhoneInviteWaits

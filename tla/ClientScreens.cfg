SPECIFICATION MCSpec
CONSTANTS
  Comments = {1, 2, 3}
  Root = 2
  MaxCalls = 2
  Screens <- MCScreens
  Limit = 1
  MaxClock = 1
  NoParent = NoParent
  NoCursor = NoCursor
  NoPage = NoPage
  Groups = {g1, g2}
  MaxInFlight = 2
  NoGroup = NoGroup
INVARIANTS
  NothingSkipped
  InOrder
  NeverStuck
  InboxIsRight
SYMMETRY Symmetric

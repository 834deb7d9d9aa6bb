SPECIFICATION Spec
CONSTANTS
  p1 = p1
  p2 = p2
  Syncs = {1, 2, 3}
  Phones = {p1, p2}
  Me = p1
  Uploads <- MCUploads
INVARIANTS
  UploadsAreWhole
PROPERTY SyncReplaces
CHECK_DEADLOCK FALSE

SPECIFICATION RoomSpec
CONSTANTS
  Users = {alice, bob, carol, dave}
  alice = alice
  bob = bob
  carol = carol
  dave = dave
  None = None
  Version = "V2_1_1"
  BaseRoom <- WithoutCarol
  Drafts <- BannedInviter
  MaxEvents = 13
CONSTRAINT BannedInviterGraph
INVARIANTS
  DeltaPathAgrees
CHECK_DEADLOCK FALSE

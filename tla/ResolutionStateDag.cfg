SPECIFICATION RoomSpec
CONSTANTS
  Users = {alice, bob, carol, dave}
  alice = alice
  bob = bob
  carol = carol
  dave = dave
  None = None
  Version = "V2_2"
  BaseRoom <- TwoModerators
  Drafts <- SplitMembership
  MaxEvents = 12
INVARIANTS
  CachesAreTransparent
CHECK_DEADLOCK FALSE

SPECIFICATION RoomsSpec
CONSTANTS
  Users = {alice, bob, carol, dave}
  alice = alice
  bob = bob
  carol = carol
  dave = dave
  None = None
  Version = "V2"
  BaseRoom <- MCBaseRoom
  Drafts <- Moderation
  MaxEvents = 9
INVARIANTS
  BansStand
  PowerStaysGranted
  CachesStayTransparent
CHECK_DEADLOCK FALSE

SPECIFICATION RoomSpec
CONSTANTS
  Users = {alice, bob, carol, dave}
  alice = alice
  bob = bob
  carol = carol
  dave = dave
  None = None
  Version = "V2_1"
  BaseRoom <- MCBaseRoom
  Drafts <- Moderation
  MaxEvents = 9
INVARIANTS
  EntryPointsAgree
CHECK_DEADLOCK FALSE

---------------------------- MODULE MCResolution ----------------------------
(***************************************************************************)
(* Small rooms for Resolution: alice created the room, bob is a moderator, *)
(* carol and dave are users.                                               *)
(***************************************************************************)
EXTENDS Resolution

CONSTANTS alice, bob, carol, dave

Draft(key, sender, content, ts) ==
  [key |-> key, sender |-> sender, content |-> content, via |-> None, ts |-> ts]

Levels(users) ==
  [users  |-> [u \in Users |-> IF u \in DOMAIN users THEN users[u] ELSE None],
   fields |-> [f \in LevelFields |-> None]]

Mod(level) ==
  Levels([u \in (IF is_v2_1_plus(Version) THEN {bob} ELSE {alice, bob}) |->
            IF u = alice THEN 100 ELSE level])

MCBaseRoom ==
  << Draft("create", alice, [creator |-> None, additional_creators |-> {}], 0),
     Draft(alice, alice, "join", 0),
     Draft("power_levels", alice, Mod(50), 0),
     Draft("join_rules", alice, "public", 0),
     Draft(bob, bob, "join", 0),
     Draft(carol, carol, "join", 0) >>

(***************************************************************************)
(* The room before carol joined, and one in which carol is a moderator.    *)
(***************************************************************************)
WithoutCarol == SubSeq(MCBaseRoom, 1, 5)

Grant(bobs, carols) ==
  Levels([u \in {alice, bob, carol} |->
            CASE u = alice -> IF is_v2_1_plus(Version) THEN None ELSE 100
              [] u = bob   -> bobs
              [] u = carol -> carols])

TwoModerators == [MCBaseRoom EXCEPT ![3].content = Grant(50, 50)]

(***************************************************************************)
(* The levels, and the room, of the versions whose creator needs no level. *)
(***************************************************************************)
BobOnly(level) == Levels([u \in {bob} |-> level])

HardenedRoom == [MCBaseRoom EXCEPT ![3].content = BobOnly(50)]

Stamped(draft) == {[draft EXCEPT !.ts = t] : t \in {1, 2}}

(***************************************************************************)
(* Moderators act against carol and against each other.                    *)
(***************************************************************************)
Moderation(n) ==
  UNION {Stamped(d) : d \in
    {Draft(carol, bob, "ban", 0), Draft(carol, alice, "ban", 0),
     Draft(bob, alice, "ban", 0), Draft(alice, bob, "ban", 0),
     Draft(carol, bob, "leave", 0), Draft(carol, carol, "join", 0),
     Draft("topic", bob, None, 0),
     Draft("join_rules", bob, "invite", 0),
     Draft("power_levels", alice, Mod(0), 0),
     Draft("power_levels", bob, Grant(50, 50), 0),
     Draft("power_levels", bob, Grant(100, None), 0)}}

(***************************************************************************)
(* Constraint: the generated events have the given parents.                *)
(***************************************************************************)
Shaped(parents) ==
  \A i \in Len(BaseRoom) + 1 .. Len(room) : room[i].prev = parents[i - Len(BaseRoom)]

(***************************************************************************)
(* bob invites carol, who invites dave; elsewhere alice bans carol.        *)
(***************************************************************************)
BannedInviter(n) ==
  Stamped(<< Draft(carol, bob, "invite", 0), Draft(carol, carol, "join", 0),
             Draft(dave, carol, "invite", 0), Draft(dave, dave, "join", 0),
             Draft(dave, dave, "leave", 0), Draft(carol, alice, "ban", 0),
             Draft("topic", alice, None, 0),
             Draft("topic", alice, None, 0) >>[n])

BannedInviterGraph ==
  Shaped(<< << 5 >>, << 6 >>, << 7 >>, << 8 >>, << 9 >>, << 5 >>,
            << 10, 11 >>, << 11 >> >>)

(***************************************************************************)
(* bob is said to have joined on one branch and left on the other, and the *)
(* author of an event of the first branch is banned on the second.         *)
(***************************************************************************)
SplitMembership(n) ==
  {<< Draft(bob, bob, "join", 2), Draft("topic", carol, None, 1),
      Draft(bob, bob, "leave", 1), Draft(carol, alice, "ban", 1),
      Draft("topic", bob, None, 2), Draft("topic", alice, None, 1) >>[n]}

-----------------------------------------------------------------------------
(***************************************************************************)
(* Rooms of two versions: a V2 room in which moderators act against carol  *)
(* and against each other, and a V2.1.1 room, whose creator is above the   *)
(* power levels, in which carol is banned, let in and comes back while     *)
(* bob's power is taken away.                                              *)
(***************************************************************************)

VARIABLE hardened  \* whether the room is the V2.1.1 one

Quarrel(n) ==
  {Draft(carol, carol, "join", 1), Draft(carol, bob, "leave", 2),
   Draft(carol, bob, "ban", 1), Draft("topic", bob, None, 2),
   Draft("power_levels", alice, BobOnly(0), 1), Draft(bob, alice, "ban", 2)}

H == INSTANCE Resolution WITH
  Version <- "V2_1_1", BaseRoom <- HardenedRoom, Drafts <- Quarrel, MaxEvents <- 10

\* One room, of the version and with the drafts of the configuration.
RoomSpec == hardened = FALSE /\ Init /\ [][Next /\ UNCHANGED hardened]_<<hardened, vars>>

RoomsInit == hardened \in BOOLEAN /\ IF hardened THEN H!Init ELSE Init

RoomsNext ==
  \/ ~hardened /\ Next /\ UNCHANGED hardened
  \/ hardened /\ H!Next /\ UNCHANGED hardened

RoomsSpec == RoomsInit /\ [][RoomsNext]_<<hardened, vars>>

----------------------------------------------------------------------------
\* A user banned on both sides of a fork stays banned in the resolved state, with
\* the plain and with the hardened algorithm.
BansStand == IF hardened THEN H!BansHold ELSE BansHold

\* No merge puts a user above the levels the room's owner granted.
PowerStaysGranted == ~hardened => PowerIsGranted

\* The caches of a walk never change what a fork resolves to, and hold only what
\* the room has.
CachesStayTransparent ==
  IF hardened THEN H!TypeOK /\ H!CachesAreTransparent ELSE TypeOK
=============================================================================

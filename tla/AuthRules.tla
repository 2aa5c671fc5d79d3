------------------------------ MODULE AuthRules ------------------------------
(***************************************************************************)
(* The authorization rules of src/auth/: whether an event is allowed by a  *)
(* room state, and which entries of that state it cites in auth_events.    *)
(*                                                                         *)
(* An event is a record                                                    *)
(*                                                                         *)
(*   key      the state key it sets: a type, or the user whose membership  *)
(*            it is about                                                  *)
(*   sender   who sent it                                                  *)
(*   content  a membership, a join rule, power levels, or the creators     *)
(*   via      the member that vouches for a restricted join, or None       *)
(*   auth     the events it cites, prev_state_events in V2.2               *)
(*   prev     its parents                                                  *)
(*   ts       origin_server_ts                                             *)
(*   level    power_level, the caller's precomputed level of the sender    *)
(*                                                                         *)
(* A state is a function `get' from keys to events (the trait              *)
(* StateProvider), None where the state has no entry.  Rejected events are *)
(* never part of a state, so the flag is left out, as are third-party      *)
(* invites, aliases, redactions and rooms that do not federate.            *)
(***************************************************************************)
EXTENDS Integers, Sequences

CONSTANTS Users, None

(***************************************************************************)
(* The versions of the algorithm are "V2", "V2_1", "V2_1_1" and "V2_2";    *)
(* the rooms of V2 have version 10 or 11.                                  *)
(***************************************************************************)
is_v2_1_plus(v) == v # "V2"

has_ban_evasion_hardening(v) == v \in {"V2_1_1", "V2_2"}

OtherTypes == {"power_levels", "join_rules", "topic"}

StateKeys == {"create"} \cup OtherTypes \cup Users

(***************************************************************************)
(* The integers of a power_levels event: the scalars, and the `events' map *)
(* under the name of each type.                                            *)
(***************************************************************************)
LevelFields ==
  {"users_default", "events_default", "state_default", "ban", "kick",
   "redact", "invite"} \cup OtherTypes

MAX_POWER_LEVEL_RUST == 1000

Or(x, default) == IF x = None THEN default ELSE x

membership(get, u) == IF get[u] = None THEN "leave" ELSE get[u].content

pl_field_or_default(get, field, default) ==
  IF get["power_levels"] = None THEN default
  ELSE Or(get["power_levels"].content.fields[field], default)

join_rule(get) ==
  IF get["join_rules"] = None THEN "invite" ELSE get["join_rules"].content

user_level(pl, u) == Or(pl.users[u], Or(pl.fields["users_default"], 0))

has_infinite_power(create, u, v) ==
  /\ is_v2_1_plus(v)
  /\ create # None
  /\ create.sender = u \/ u \in create.content.additional_creators

get_sender_power_level(u, get, v) ==
  CASE has_infinite_power(get["create"], u, v) -> MAX_POWER_LEVEL_RUST
    [] get["power_levels"] # None -> user_level(get["power_levels"].content, u)
    [] /\ get["create"] # None
       /\ u = Or(get["create"].content.creator, get["create"].sender) -> 100
    [] OTHER -> 0

get_required_power_level(key, get) ==
  pl_field_or_default(get, key, pl_field_or_default(get, "state_default", 50))

-----------------------------------------------------------------------------
(***************************************************************************)
(* m.room.power_levels.                                                    *)
(***************************************************************************)
check_scalar_pl(old, new, sender_pl) ==
  \/ old = new
  \/ /\ old = None \/ old <= sender_pl
     /\ new = None \/ new <= sender_pl

\* A plausible mistake: a sender may set any level of their own.
check_user_pl_own_exempt(old, new, sender_pl, is_sender) ==
  \/ old = new
  \/ is_sender
  \/ /\ old = None \/ old < sender_pl
     /\ new = None \/ new <= sender_pl

check_user_pl(old, new, sender_pl, is_sender) ==
  \/ old = new
  \/ /\ old = None \/ is_sender \/ old < sender_pl
     /\ new = None \/ new <= sender_pl

check_power_levels_rules(sender, new, prev, sender_pl) ==
  /\ \A f \in LevelFields :
       check_scalar_pl(prev.fields[f], new.fields[f], sender_pl)
  /\ \A u \in Users :
       check_user_pl(prev.users[u], new.users[u], sender_pl, u = sender)

lists_creator(create, users) ==
  \E u \in Users : /\ users[u] # None
                   /\ \/ u = create.content.creator
                      \/ u \in create.content.additional_creators

check_power_levels(ev, get, v) ==
  /\ get["create"] # None
  /\ ~(is_v2_1_plus(v) /\ lists_creator(get["create"], ev.content.users))
  /\ get["power_levels"] # None =>
       check_power_levels_rules(ev.sender, ev.content,
                                get["power_levels"].content,
                                get_sender_power_level(ev.sender, get, v))

-----------------------------------------------------------------------------
(***************************************************************************)
(* m.room.member.                                                          *)
(***************************************************************************)
check_authorising_user(ev, get, v) ==
  /\ ev.via # None
  /\ membership(get, ev.via) = "join"
  /\ get_sender_power_level(ev.via, get, v)
       >= pl_field_or_default(get, "invite", 0)

check_join_rules(ev, get, v) ==
  /\ ev.key = ev.sender
  /\ get["create"] # None
  /\ \/ get["create"].sender = ev.sender
     \/ join_rule(get) = "public"
     \/ membership(get, ev.key) \in {"invite", "join"}
     \/ /\ join_rule(get) \in {"restricted", "knock_restricted"}
        /\ check_authorising_user(ev, get, v)

check_leave_rules(ev, get, v) ==
  LET field == IF membership(get, ev.key) = "ban" THEN "ban" ELSE "kick"
  IN  IF ev.key = ev.sender
      THEN membership(get, ev.key) \in {"invite", "join", "knock"}
      ELSE get_sender_power_level(ev.sender, get, v)
             >= pl_field_or_default(get, field, 50)

check_ban_rules(ev, get, v) ==
  /\ ev.key # ev.sender
  /\ get_sender_power_level(ev.sender, get, v)
       >= pl_field_or_default(get, "ban", 50)

check_invite_rules(ev, get, v) ==
  /\ ev.key # ev.sender
  /\ get_sender_power_level(ev.sender, get, v)
       >= pl_field_or_default(get, "invite", 0)
  /\ membership(get, ev.key) \notin {"join", "ban"}

check_knock_rules(ev, get) ==
  /\ ev.key = ev.sender
  /\ membership(get, ev.key) \notin {"ban", "invite", "join"}
  /\ get["create"] # None
  /\ join_rule(get) \in {"knock", "knock_restricted"}

check_membership_pl_hierarchies(ev, get, v) ==
  ev.key # ev.sender /\ ev.content \in {"leave", "ban"} =>
    get_sender_power_level(ev.sender, get, v)
      > get_sender_power_level(ev.key, get, v)

check_membership(ev, get, v) ==
  /\ \/ ev.content = "join" /\ check_join_rules(ev, get, v)
     \/ ev.content = "leave" /\ check_leave_rules(ev, get, v)
     \/ ev.content = "ban" /\ check_ban_rules(ev, get, v)
     \/ ev.content = "invite" /\ check_invite_rules(ev, get, v)
     \/ ev.content = "knock" /\ check_knock_rules(ev, get)
  /\ check_membership_pl_hierarchies(ev, get, v)

-----------------------------------------------------------------------------
(***************************************************************************)
(* check_auth_with_context, without the optional verifier and the check of *)
(* the citations.                                                          *)
(***************************************************************************)
sender_in_room(ev, get) ==
  /\ membership(get, ev.sender) # "ban"
  /\ \/ membership(get, ev.sender) = "join"
     \/ ev.key = ev.sender /\ ev.content # "ban"

sender_has_level(ev, get, v) ==
  \/ ev.key \in Users
  \/ ev.key = "power_levels" /\ get["power_levels"] = None
  \/ get_sender_power_level(ev.sender, get, v)
       >= get_required_power_level(ev.key, get)

check_auth(ev, get, v) ==
  IF ev.key = "create" THEN ev.prev = << >>
  ELSE /\ sender_in_room(ev, get)
       /\ sender_has_level(ev, get, v)
       /\ ev.key = "power_levels" => check_power_levels(ev, get, v)
       /\ ev.key \in Users => check_membership(ev, get, v)

(***************************************************************************)
(* The state entries an event must cite, in the order of the code.         *)
(***************************************************************************)
auth_types_for_event(ev, v) ==
  LET member == ev.key \in Users
      only(cond, key) == IF cond THEN << key >> ELSE << >>
  IN  IF ev.key = "create" THEN << >>
      ELSE only(~is_v2_1_plus(v), "create")
             \o << ev.sender, "power_levels" >>
             \o only(member /\ ev.key # ev.sender, ev.key)
             \o only(member /\ ev.content \in {"join", "invite", "knock"},
                     "join_rules")
             \o only(member /\ ev.content = "join" /\ ev.via # None, ev.via)
=============================================================================

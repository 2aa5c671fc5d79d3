----------------------------- MODULE AuthChain ------------------------------
(***************************************************************************)
(* The checks that accept events into a room (src/auth/mod.rs):            *)
(*                                                                         *)
(*   check_auth_chain            a batch in topological order, each event  *)
(*                               against the state that the accepted ones  *)
(*                               before it have built                      *)
(*   validate_forward_extremity  one received event, against the events it *)
(*                               cites and against the current state       *)
(*                                                                         *)
(* An event is one of AuthRules with, besides, its id, auth as a sequence  *)
(* of ids, the room it declares ([of, domain] or None), whether it was     *)
(* rejected when it was received, and whether it verifies.  The content of *)
(* a create event has also federate and room_version, "unknown" for a      *)
(* label that is malformed or not recognised.                              *)
(***************************************************************************)
EXTENDS AuthRules, FiniteSets, SequencesExt

CONSTANTS
  Domain,        \* the server of each user
  MaxAuthEvents, \* 10, or 20 with the state DAG
  Pool,          \* the events by id
  Histories      \* [mode, version, initial : key -> id or 0, events : ids in topological order]

VARIABLES
  history,
  todo,          \* the positions in history.events still to be checked or received
  state,         \* the room state: key -> id, 0 for none
  accepted, soft_failed, rejected   \* sets of ids

chainVars == <<history, todo, state, accepted, soft_failed, rejected>>

Version == history.version

\* The events of the batch and those of the initial state.
KnownIds == ToSet(history.events) \cup ({history.initial[k] : k \in StateKeys} \ {0})

EventAt(entries) == [k \in StateKeys |-> IF entries[k] = 0 THEN None ELSE Pool[entries[k]]]

-----------------------------------------------------------------------------
(***************************************************************************)
(* check_auth_with_context: what comes before the rules of AuthRules.      *)
(***************************************************************************)
flagged_keys(ev) ==
  {"create", "power_levels", ev.sender}
    \cup {k \in {ev.key} : k \in Users}
    \cup {k \in {"join_rules"} : ev.key \in Users /\ ev.content \in {"join", "invite", "knock"}}
    \cup {k \in {ev.via} : ev.key \in Users /\ ev.content = "join" /\ ev.via # None}

\* reject_flagged_auth_state.
no_flagged_auth_state(ev, get, flagged) ==
  \A k \in flagged_keys(ev) : get[k] # None => get[k].id \notin flagged

federates(ev, create) == create.content.federate \/ Domain[ev.sender] = Domain[create.sender]

\* Rules 2.1 to 2.4, for the versions without a state DAG.
cites_well(ev, get, flagged) ==
  LET cited == ToSet(ev.auth)
  IN  /\ ~is_v2_1_plus(Version) => get["create"] # None /\ get["create"].id \in cited
      /\ \A id \in cited :
           /\ id \in KnownIds /\ id \notin flagged
           /\ is_v2_1_plus(Version) => Pool[id].key # "create"
           /\ Pool[id].key # "topic"
      /\ \A m, n \in DOMAIN ev.auth : m # n => Pool[ev.auth[m]].key # Pool[ev.auth[n]].key
      /\ \A k \in ToSet(auth_types_for_event(ev, Version)) :
           get[k] # None => get[k].id \in cited

\* flagged are the ids whose event carries the rejected flag.
check_auth_with_context(ev, get, flagged, context) ==
  /\ Len(ev.auth) <= MaxAuthEvents
  /\ ev.id \notin flagged
  /\ no_flagged_auth_state(ev, get, flagged)
  /\ IF ev.key = "create" THEN ev.prev = << >> /\ ev.content.room_version # "unknown"
     ELSE /\ get["create"] # None => /\ get["create"].content.room_version # "unknown"
                                     /\ federates(ev, get["create"])
          /\ context /\ Version # "V2_2" => cites_well(ev, get, flagged)
          /\ check_auth(ev, get, Version)

-----------------------------------------------------------------------------
(***************************************************************************)
(* check_auth_chain.                                                       *)
(***************************************************************************)
check_create_room_id(ev) ==
  ev.key = "create" /\ ev.room # None =>
    ~is_v2_1_plus(Version) /\ ev.room.domain = Domain[ev.sender]

check_room_id_matches_accepted_create(ev) ==
  is_v2_1_plus(Version) /\ ev.key # "create" /\ ev.room # None =>
    /\ state["create"] # 0 /\ state["create"] \notin rejected
    /\ ev.room = [of |-> state["create"], domain |-> None]

check_not_citing_rejected_auth_event(ev) == ToSet(ev.auth) \cap rejected = {}

check_foreign_room_citation(ev) ==
  ev.room # None => \A id \in ToSet(ev.auth) \cap KnownIds : Pool[id].room = ev.room

pre_check(ev) ==
  /\ check_create_room_id(ev)
  /\ check_room_id_matches_accepted_create(ev)
  /\ check_not_citing_rejected_auth_event(ev)
  /\ check_foreign_room_citation(ev)

FlaggedOnReceipt == {id \in KnownIds : Pool[id].rejected}

CheckNext ==
  /\ history.mode = "batch" /\ todo # {}
  /\ LET n == CHOOSE m \in todo : \A k \in todo : m <= k
         ev == Pool[history.events[n]]
     IN  /\ todo' = todo \ {n}
         /\ IF pre_check(ev) /\ check_auth_with_context(ev, EventAt(state), FlaggedOnReceipt, TRUE)
            THEN /\ accepted' = accepted \cup {ev.id}
                 /\ state' = [state EXCEPT ![ev.key] = ev.id]
                 /\ UNCHANGED rejected
            ELSE rejected' = rejected \cup {ev.id} /\ UNCHANGED <<accepted, state>>
  /\ UNCHANGED <<history, soft_failed>>

-----------------------------------------------------------------------------
(***************************************************************************)
(* validate_forward_extremity.  The caller (external) hands each event     *)
(* over once the ones it cites have arrived, flags the rejected ones and   *)
(* enters only the valid ones into the room's state.                       *)
(***************************************************************************)
AuthEventsState(ev) ==
  [k \in StateKeys |->
     LET of_key == SelectSeq(ev.auth, LAMBDA id : Pool[id].key = k)
     IN  IF of_key = << >> THEN None ELSE Pool[Last(of_key)]]

\* A plausible mistake: the current state is asked instead of the auth events.
validate_by_current_state(ev) ==
  IF ev.verified /\ check_auth_with_context(ev, EventAt(state), rejected, FALSE)
  THEN "Valid"
  ELSE "Rejected"

validate_forward_extremity(ev) ==
  IF ev.verified /\ check_auth_with_context(ev, AuthEventsState(ev), rejected, FALSE)
  THEN IF check_auth_with_context(ev, EventAt(state), rejected, FALSE) THEN "Valid" ELSE "SoftFailed"
  ELSE "Rejected"

Receive ==
  /\ history.mode = "receive"
  /\ \E n \in todo :
       LET ev == Pool[history.events[n]]
           verdict == validate_forward_extremity(ev)
       IN  /\ \A m \in todo : history.events[m] \notin ToSet(ev.auth)
           /\ todo' = todo \ {n}
           /\ rejected' = IF verdict = "Rejected" THEN rejected \cup {ev.id} ELSE rejected
           /\ soft_failed' = IF verdict = "SoftFailed" THEN soft_failed \cup {ev.id} ELSE soft_failed
           /\ accepted' = IF verdict = "Valid" THEN accepted \cup {ev.id} ELSE accepted
           /\ state' = IF verdict = "Valid" THEN [state EXCEPT ![ev.key] = ev.id] ELSE state
  /\ UNCHANGED history

Init ==
  /\ history \in Histories
  /\ todo = DOMAIN history.events
  /\ state = history.initial
  /\ accepted = {} /\ soft_failed = {} /\ rejected = {}

Next == CheckNext \/ Receive

-----------------------------------------------------------------------------
RECURSIVE Chain(_)
Chain(S) ==
  LET more == S \cup UNION {ToSet(Pool[id].auth) \cap KnownIds : id \in S}
  IN  IF more = S THEN S ELSE Chain(more)

\* check_auth_chain accepts no event whose auth chain holds, at any distance, an
\* event that was rejected before or in the same batch, or, when the event
\* declares its room, one that does not declare the same room.
AcceptedChainsAreSound ==
  history.mode = "batch" =>
    \A id \in accepted :
      /\ Chain({id}) \cap (rejected \cup (IF Version = "V2_2" THEN {} ELSE FlaggedOnReceipt)) = {}
      /\ Pool[id].room # None => \A a \in Chain({id}) : Pool[a].room = Pool[id].room

RECURSIVE RejectedAlone(_)
RejectedAlone(ev) ==
  LET flagged == {id \in ToSet(ev.auth) : RejectedAlone(Pool[id])}
  IN  \/ ~ev.verified
      \/ ~check_auth_with_context(ev, AuthEventsState(ev), flagged, FALSE)

\* Whether a received event is rejected depends on the event and on what it
\* cites, never on the order of arrival or on the current state: servers that see
\* the same events in different orders reject the same ones.
RejectionIsOrderFree ==
  history.mode = "receive" =>
    \A n \in DOMAIN history.events \ todo :
      history.events[n] \in rejected <=> RejectedAlone(Pool[history.events[n]])
=============================================================================

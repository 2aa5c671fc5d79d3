------------------------------ MODULE StateDag ------------------------------
(***************************************************************************)
(* The state graph of MSC4242 rooms (src/state/dag.rs), in which events    *)
(* cite the state events they build on (prev_state_events):                *)
(*                                                                         *)
(*   walk_state_dag        is the graph behind some events complete?       *)
(*   order_missing_state_events_deterministic                              *)
(*                         what to send to a server that lacks it          *)
(*   compute_state_before_from_dag                                         *)
(*                         the room state an event builds on, and the      *)
(*                         auth events that follow from it                 *)
(*                                                                         *)
(* An event is a record: create, whether it is m.room.create; key, its     *)
(* state entry or None; cites, the sequence of its prev_state_events; room;*)
(* rejected.  A state is a function from entries to ids, 0 for none.       *)
(***************************************************************************)
EXTENDS Integers, FiniteSets, Sequences, SequencesExt, TLC

CONSTANTS
  None,
  CreateKey,    \* the entry of m.room.create with the empty state key
  Keys,
  MaxFanout,    \* MAX_PREV_STATE_EVENTS
  Resolve(_),   \* the iterative resolution of a set of different states
  Maps,         \* the event maps: id -> event
  Calls         \* [mode, starts : a sequence of ids, limit, stop_first, version, required : a set of keys]

VARIABLES
  events, call, phase, outcome,
  queue, seen, missing, disconnected, create, truncated,   \* the two breadth-first walks
  stack, active, done,                                     \* the colour walk
  out_degree, processed, state_after,                      \* the states
  flagged, derived                                         \* the auth events

dagVars == <<events, call, phase, outcome, queue, seen, missing, disconnected, create, truncated,
             stack, active, done, out_degree, processed, state_after, flagged, derived>>

walkVars == <<queue, seen, missing, disconnected, create, truncated>>
colourVars == <<stack, active, done>>
stateVars == <<out_degree, processed, state_after, flagged, derived>>

Known == DOMAIN events

Running == outcome = <<>>

Return(result) == outcome' = <<result>> /\ phase' = "done"

-----------------------------------------------------------------------------
(***************************************************************************)
(* walk_state_dag.                                                         *)
(***************************************************************************)
Incomplete ==
  [complete |-> FALSE, missing |-> missing, disconnected |-> disconnected, reached |-> ToSet(seen)]

WalkPop ==
  /\ phase = "walk" /\ queue # <<>> /\ ~truncated
  /\ LET id == Head(queue)
     IN  \/ /\ id \in ToSet(seen)
            /\ queue' = Tail(queue)
            /\ UNCHANGED <<phase, outcome, seen, missing, disconnected, create, truncated>>
         \/ /\ id \notin ToSet(seen) /\ Len(seen) >= call.limit
            /\ truncated' = TRUE
            /\ UNCHANGED <<phase, outcome, queue, seen, missing, disconnected, create>>
         \/ /\ id \notin ToSet(seen) /\ Len(seen) < call.limit /\ id \notin Known
            /\ queue' = Tail(queue) /\ missing' = missing \cup {id}
            /\ IF call.stop_first THEN Return([Incomplete EXCEPT !.missing = missing'])
               ELSE UNCHANGED <<phase, outcome>>
            /\ UNCHANGED <<seen, disconnected, create, truncated>>
         \/ /\ id \notin ToSet(seen) /\ Len(seen) < call.limit /\ id \in Known
            /\ seen' = Append(seen, id)
            /\ create' = IF events[id].create /\ create = 0 THEN id ELSE create
            /\ disconnected' = IF ~events[id].create /\ events[id].cites = <<>>
                               THEN disconnected \cup {id} ELSE disconnected
            /\ queue' = IF events[id].create THEN Tail(queue)
                        ELSE Tail(queue) \o SelectSeq(events[id].cites,
                                                      LAMBDA p : p \notin ToSet(seen'))
            /\ UNCHANGED <<phase, outcome, missing, truncated>>
  /\ UNCHANGED <<events, call, colourVars, stateVars>>

WalkEnd ==
  /\ phase = "walk" /\ (queue = <<>> \/ truncated)
  /\ phase' = "colour"
  /\ UNCHANGED <<events, call, outcome, walkVars, colourVars, stateVars>>

\* The next event the colour walk starts from: the first one not done.
ColourRoot ==
  /\ phase = "colour" /\ stack = <<>>
  /\ \E n \in DOMAIN seen :
       /\ seen[n] \notin done /\ \A m \in 1..(n - 1) : seen[m] \in done
       /\ stack' = <<[id |-> seen[n], exiting |-> FALSE]>>
  /\ UNCHANGED <<events, call, phase, outcome, walkVars, active, done, stateVars>>

ColourPop ==
  /\ phase = "colour" /\ stack # <<>>
  /\ LET top == Last(stack)
         inner == SelectSeq(Reverse(events[top.id].cites), LAMBDA p : p \in ToSet(seen))
     IN  \/ /\ top.exiting
            /\ stack' = Front(stack) /\ active' = active \ {top.id} /\ done' = done \cup {top.id}
            /\ UNCHANGED <<phase, outcome>>
         \/ /\ ~top.exiting /\ top.id \in active
            /\ Return(Incomplete)
            /\ UNCHANGED colourVars
         \/ /\ ~top.exiting /\ top.id \notin active /\ top.id \in done
            /\ stack' = Front(stack)
            /\ UNCHANGED <<phase, outcome, active, done>>
         \/ /\ ~top.exiting /\ top.id \notin active /\ top.id \notin done
            /\ active' = active \cup {top.id}
            /\ stack' = Append(Front(stack), [id |-> top.id, exiting |-> TRUE])
                          \o [n \in DOMAIN inner |-> [id |-> inner[n], exiting |-> FALSE]]
            /\ UNCHANGED <<phase, outcome, done>>
  /\ UNCHANGED <<events, call, walkVars, stateVars>>

ColourEnd ==
  /\ phase = "colour" /\ stack = <<>> /\ ToSet(seen) \subseteq done
  /\ IF ~truncated /\ missing = {} /\ disconnected = {} /\ create # 0
     THEN Return([complete |-> TRUE, create |-> create, count |-> Len(seen)])
     ELSE Return(Incomplete)
  /\ UNCHANGED <<events, call, walkVars, colourVars, stateVars>>

-----------------------------------------------------------------------------
(***************************************************************************)
(* order_missing_state_events_deterministic: the queue holds ids with      *)
(* their hops, seen the first hops of each.                                *)
(***************************************************************************)
WithHops(ids, hops) == [n \in DOMAIN ids |-> [id |-> ids[n], hops |-> hops]]

Hops(id) == {n \in DOMAIN seen : seen[n].id = id}

HopPop ==
  /\ phase = "hops" /\ queue # <<>>
  /\ LET head == Head(queue)
         visit == Hops(head.id) = {} /\ head.id \in Known /\ ~events[head.id].create
     IN  /\ seen' = IF Hops(head.id) = {} THEN Append(seen, head) ELSE seen
         /\ queue' = Tail(queue) \o
              (IF visit THEN WithHops(events[head.id].cites, head.hops + 1) ELSE <<>>)
  /\ UNCHANGED <<events, call, phase, outcome, missing, disconnected, create, truncated,
                 colourVars, stateVars>>

HopsEnd ==
  /\ phase = "hops" /\ queue = <<>>
  /\ LET ordered == SortSeq(seen, LAMBDA a, b : a.hops < b.hops \/ (a.hops = b.hops /\ a.id < b.id))
     IN  Return([n \in 1..(IF Len(seen) > call.limit THEN call.limit ELSE Len(seen)) |-> ordered[n].id])
  /\ UNCHANGED <<events, call, walkVars, colourVars, stateVars>>

-----------------------------------------------------------------------------
(***************************************************************************)
(* compute_state_before_from_dag for the event call.starts[1].             *)
(***************************************************************************)
target == events[call.starts[1]]

parent_error(e, p) ==
  CASE p \notin Known -> "MissingReferencedEvent"
    [] events[p].key = None -> "ReferencedNonStateEvent"
    [] events[p].rejected -> "ReferencedRejectedEvent"
    [] e.room # None /\ events[p].room # e.room -> "ReferencedForeignRoom"
    [] OTHER -> "ok"

validate_msc4242_prev_state_events(e) ==
  LET bad == {n \in DOMAIN e.cites : parent_error(e, e.cites[n]) # "ok"}
  IN  CASE e.create /\ e.cites # <<>> -> "CreateWithPrevStateEvents"
        [] e.create /\ e.cites = <<>> /\ e.key = None -> "CreateWithMissingStateKey"
        [] e.create /\ e.cites = <<>> /\ e.key \notin {None, CreateKey} -> "CreateWithNonEmptyStateKey"
        [] ~e.create /\ e.cites = <<>> -> "NonCreateWithoutPrevStateEvents"
        [] Len(e.cites) > MaxFanout -> "FanoutExceeded"
        [] bad # {} /\ Len(e.cites) <= MaxFanout /\ ~e.create -> parent_error(e, e.cites[Min(bad)])
        [] OTHER -> "ok"

Error(kind) == Return([error |-> kind])

CheckTarget ==
  /\ phase = "target"
  /\ LET verdict == validate_msc4242_prev_state_events(target)
     IN  \/ call.version # "V2_2" /\ Error("UnsupportedVersionForDag") /\ UNCHANGED stack
         \/ call.version = "V2_2" /\ verdict # "ok" /\ Error(verdict) /\ UNCHANGED stack
         \/ /\ call.version = "V2_2" /\ verdict = "ok" /\ target.create
            /\ Return([state |-> [k \in Keys |-> 0]]) /\ UNCHANGED stack
         \/ /\ call.version = "V2_2" /\ verdict = "ok" /\ ~target.create
            /\ phase' = "validate" /\ stack' = target.cites /\ UNCHANGED outcome
  /\ UNCHANGED <<events, call, walkVars, active, done, stateVars>>

\* validate_state_dag_ancestors: done are the ids already checked.
ValidateAncestor ==
  /\ phase = "validate" /\ stack # <<>>
  /\ LET id == Last(stack)
     IN  IF id \in done
         THEN stack' = Front(stack) /\ UNCHANGED <<phase, outcome, done>>
         ELSE LET verdict == validate_msc4242_prev_state_events(events[id])
              IN  /\ done' = done \cup {id}
                  /\ IF verdict = "ok"
                     THEN stack' = Front(stack) \o events[id].cites /\ UNCHANGED <<phase, outcome>>
                     ELSE Error(verdict) /\ UNCHANGED stack
  /\ UNCHANGED <<events, call, walkVars, active, stateVars>>

\* collect_state_dag_ancestor_short_ids_batch.
RECURSIVE Collected(_)
Collected(S) ==
  LET more == S \cup UNION {ToSet(events[e].cites) \cap Known : e \in S}
  IN  IF more = S THEN S ELSE Collected(more)

Index == Collected(ToSet(target.cites) \cap Known)

Citations(e, p) == Cardinality({n \in DOMAIN e.cites : e.cites[n] = p})

RECURSIVE SumOver(_, _)
SumOver(S, p) ==
  IF S = {} THEN 0
  ELSE LET e == CHOOSE x \in S : TRUE IN Citations(events[e], p) + SumOver(S \ {e}, p)

\* A plausible mistake: the citations of the target are not counted.
degrees_without_target == [p \in Index |-> SumOver(Index, p)]

\* The out-degrees of the sort, with one more reference for each citation of the target.
out_degrees == [p \in Index |-> SumOver(Index, p) + Citations(target, p)]

Collect ==
  /\ phase = "validate" /\ stack = <<>>
  /\ phase' = "states"
  /\ out_degree' = out_degrees
  /\ UNCHANGED <<events, call, outcome, walkVars, colourVars, processed, state_after, flagged, derived>>

Ready == {e \in Index \ processed : ToSet(events[e].cites) \cap Index \subseteq processed}

record_own_state(state, id) ==
  IF events[id].key # None /\ ~events[id].rejected
  THEN [state EXCEPT ![events[id].key] = id] ELSE state

\* resolve_merged_parent_states.
merged(states) ==
  CASE states = <<>> -> [k \in Keys |-> 0]
    [] states # <<>> /\ \A n \in DOMAIN states : states[n] = states[1] -> states[1]
    [] OTHER -> Resolve(ToSet(states))

\* The states of the cited events that are still held, a repeated citation twice.
parent_states(e) ==
  LET held == SelectSeq(e.cites, LAMBDA p : p \in DOMAIN state_after)
  IN  [n \in DOMAIN held |-> state_after[held[n]]]

\* One event of the topological order: take_finalized_parent for each citation,
\* the merge, the event's own entry, retain_state_for_children.
ProcessEvent ==
  /\ phase = "states"
  /\ \E id \in Ready :
       LET e == events[id]
           state == record_own_state(merged(parent_states(e)), id)
           left == [p \in Index |-> out_degree[p] - Citations(e, p)]
           kept == {p \in DOMAIN state_after : p \in ToSet(e.cites) => left[p] > 0}
                     \cup {x \in {id} : left[x] > 0}
       IN  /\ out_degree' = left
           /\ processed' = processed \cup {id}
           /\ state_after' = [p \in kept |-> IF p = id THEN state ELSE state_after[p]]
  /\ UNCHANGED <<events, call, phase, outcome, walkVars, colourVars, flagged, derived>>

\* The cycle check on the length of the sort, and finish_state_after_from_dag.
FinishState ==
  /\ phase = "states" /\ Ready = {}
  /\ IF processed # Index THEN Error("CycleDetected")
     ELSE Return([state |-> merged(parent_states(target))])
  /\ UNCHANGED <<events, call, walkVars, colourVars, stateVars>>

-----------------------------------------------------------------------------
(***************************************************************************)
(* The caller keeps the state and derives the auth events from it later;   *)
(* an event may be found to be rejected in between.                        *)
(***************************************************************************)
HasState == phase = "done" /\ call.mode = "state" /\ "state" \in DOMAIN outcome[1] /\ derived = <<>>

FlagRejected ==
  /\ HasState /\ flagged = {}
  /\ \E id \in Known :
       /\ ~events[id].rejected
       /\ events' = [events EXCEPT ![id].rejected = TRUE]
       /\ flagged' = {id}
  /\ UNCHANGED <<call, phase, outcome, walkVars, colourVars, out_degree, processed, state_after, derived>>

RequiredEntries == {outcome[1].state[k] : k \in call.required} \ {0}

derive_auth_events_from_state_dag ==
  IF target.create THEN [auth |-> {}]
  ELSE IF \E id \in RequiredEntries : events[id].rejected THEN [error |-> "RejectedAuthEvent"]
  ELSE [auth |-> RequiredEntries]

DeriveAuth ==
  /\ HasState
  /\ derived' = <<derive_auth_events_from_state_dag>>
  /\ UNCHANGED <<events, call, phase, outcome, walkVars, colourVars,
                 out_degree, processed, state_after, flagged>>

-----------------------------------------------------------------------------
LatestCites(m, c) == FlattenSeq([n \in DOMAIN c.starts |->
                       IF c.starts[n] \in DOMAIN m THEN m[c.starts[n]].cites ELSE <<>>])

Init ==
  /\ events \in Maps /\ call \in Calls
  /\ call.mode = "state" => call.starts[1] \in DOMAIN events
  /\ CASE call.mode = "walk" -> phase = "walk" /\ queue = call.starts /\ outcome = <<>>
       [] call.mode = "hops" /\ call.limit > 0 ->
            phase = "hops" /\ queue = WithHops(LatestCites(events, call), 1) /\ outcome = <<>>
       [] call.mode = "hops" /\ call.limit = 0 -> phase = "done" /\ queue = <<>> /\ outcome = <<<<>>>>
       [] call.mode = "state" -> phase = "target" /\ queue = <<>> /\ outcome = <<>>
  /\ seen = <<>> /\ missing = {} /\ disconnected = {} /\ create = 0 /\ truncated = FALSE
  /\ stack = <<>> /\ active = {} /\ done = {}
  /\ out_degree = <<>> /\ processed = {} /\ state_after = <<>>
  /\ flagged = {} /\ derived = <<>>

Next ==
  \/ WalkPop \/ WalkEnd \/ ColourRoot \/ ColourPop \/ ColourEnd
  \/ HopPop \/ HopsEnd
  \/ CheckTarget \/ ValidateAncestor \/ Collect \/ ProcessEvent \/ FinishState
  \/ FlagRejected \/ DeriveAuth

-----------------------------------------------------------------------------
(***************************************************************************)
(* References, over the graph itself.                                      *)
(***************************************************************************)
RECURSIVE Behind(_, _)
Behind(S, through_create) ==
  LET more == S \cup UNION {ToSet(events[e].cites) :
                           e \in {x \in S \cap Known : through_create \/ ~events[x].create}}
  IN  IF more = S THEN S ELSE Behind(more, through_create)

Above(S, e) == LET first == ToSet(events[e].cites) \cap S
               IN  Behind(first, TRUE)

Cyclic(S) == \E e \in S \cap Known : e \in Above(S, e)

Answered(mode) == phase = "done" /\ call.mode = mode

Reached == Behind(ToSet(call.starts), FALSE)

\* walk_state_dag calls the graph complete exactly when every event behind the
\* start is held, no chain of citations comes back to itself, every chain ends
\* in a create event and the step limit was not needed; and unless it was cut
\* short the two lists it reports are all there is to fetch.
WalkJudgesCompleteness ==
  Answered("walk") =>
    LET result == outcome[1]
        leaves == {e \in Reached \cap Known : ~events[e].create /\ events[e].cites = <<>>}
    IN  /\ result.complete <=> /\ Reached \subseteq Known /\ leaves = {}
                               /\ \E e \in Reached : events[e].create
                               /\ ~Cyclic(Reached) /\ Cardinality(Reached) <= call.limit
        /\ result.complete => result.count = Cardinality(Reached) /\ result.create \in Reached
        /\ ~result.complete /\ ~truncated /\ ~call.stop_first =>
             /\ result.missing = Reached \ Known
             /\ result.disconnected = leaves
             /\ result.reached = Reached \cap Known

RECURSIVE Within(_, _)
Within(S, hops) ==
  IF hops = 1 THEN S
  ELSE Within(S \cup UNION {ToSet(events[e].cites) : e \in {x \in S \cap Known : ~events[x].create}}, hops - 1)

\* order_missing_state_events_deterministic answers by the true distance from the
\* latest events and then by id, however the citations cross, and a limit keeps
\* the nearest.
HopOrderIsShortest ==
  Answered("hops") /\ call.limit > 0 =>
    LET order == outcome[1]
        start == ToSet(LatestCites(events, call))
        all == Behind(start, FALSE)
        far == [e \in all |-> CHOOSE h \in 1..Cardinality(all) :
                  e \in Within(start, h) /\ \A g \in 1..(h - 1) : e \notin Within(start, g)]
        before(a, b) == far[a] < far[b] \/ (far[a] = far[b] /\ a < b)
    IN  /\ ToSet(order) \subseteq all
        /\ Len(order) = Min({Cardinality(all), call.limit})
        /\ \A m, n \in DOMAIN order : m < n => before(order[m], order[n])
        /\ \A e \in all \ ToSet(order), n \in DOMAIN order : before(order[n], e)

RECURSIVE StateAfter(_)
StateAfter(id) ==
  record_own_state(merged([n \in DOMAIN events[id].cites |-> StateAfter(events[id].cites[n])]), id)

\* compute_state_before_from_dag answers exactly when the event and everything
\* behind it is valid and acyclic, and its answer merges the states after the
\* cited events, whatever the order in which the ancestors are processed and
\* although each state is dropped at its last use.
StateMergesAllParents ==
  Answered("state") /\ flagged = {} /\ call.version = "V2_2" =>
    LET behind == Behind(ToSet(target.cites), TRUE)
        sound == /\ validate_msc4242_prev_state_events(target) = "ok"
                 /\ behind \subseteq Known
                 /\ \A e \in behind : validate_msc4242_prev_state_events(events[e]) = "ok"
                 /\ ~Cyclic(behind)
    IN  /\ "state" \in DOMAIN outcome[1] <=> sound
        /\ sound => outcome[1].state =
                      merged([n \in DOMAIN target.cites |-> StateAfter(target.cites[n])])

\* While the ancestors are processed, every event not processed yet will find the
\* state of each processed event it cites: no state is dropped before its last use
\* and the counters never pass zero (the debug_assert of the loop).
NoStateDroppedEarly ==
  phase = "states" =>
    /\ \A p \in Index : out_degree[p] >= 0
    /\ \A e \in Index \ processed : ToSet(events[e].cites) \cap processed \subseteq DOMAIN state_after
    /\ ToSet(target.cites) \cap processed \subseteq DOMAIN state_after

\* Auth events that are derived from a computed state are accepted at that moment,
\* and the derivation fails only when an event was rejected after the state was
\* computed.
DerivedAuthIsAccepted ==
  HasState =>
    IF "auth" \in DOMAIN derive_auth_events_from_state_dag
    THEN \A id \in derive_auth_events_from_state_dag.auth : ~events[id].rejected
    ELSE flagged # {}

=============================================================================

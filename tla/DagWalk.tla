------------------------------- MODULE DagWalk -------------------------------
(***************************************************************************)
(* The crawler of a remote room (rezzy-cli/src/federation.rs): the queue   *)
(* of event ids that are still to be asked for, and what one fetched event *)
(* or one response does to it.  GapFill and RemoteDag drive it.            *)
(*                                                                         *)
(* An event is a number (ids are handled in sorted order).  Its PDU names  *)
(* Prev[e] and Auth[e].  The settings --max-depth and the request log are  *)
(* left out.                                                               *)
(***************************************************************************)
EXTENDS Naturals, SequencesExt, FiniteSetsExt

CONSTANTS
    Event,      \* the events of the room
    Prev,       \* [Event -> SUBSET Event]
    Auth,       \* [Event -> SUBSET Event]
    Inline,     \* the events whose PDU carries its event_id
    Remote,     \* the events that the destination can give out
    BATCH       \* ids per request (50 in the code)

\* The elements of a set of events in ascending order.
in_order(S) ==
    SelectSeq([i \in 1..(IF S = {} THEN 0 ELSE Max(S)) |-> i], LAMBDA i : i \in S)

----------------------------------------------------------------------------
\* DagWalkState: [queue, queued, seen, unresolved, requested, failures,
\* unreachable, follow, out].  out holds the lines in the writer's buffer, requested the
\* ids asked for one by one since the last checkpoint, failures whether some
\* request failed.

\* initialize_dag
initialize_dag(starts, known) ==
    LET ids == in_order(starts \ known)
    IN  [queue |-> ids, queued |-> ToSet(ids), seen |-> {}, unresolved |-> {},
         requested |-> <<>>, failures |-> FALSE, unreachable |-> FALSE, follow |-> TRUE,
         out |-> <<>>]

\* write_dag_event: a new event is written and its unknown parents are queued,
\* unless follow_prev_events is off.
write_dag_event(w, e, known, skip) ==
    LET seen == w.seen \cup {e}
        parents == IF w.follow THEN in_order(Prev[e] \ (known \cup skip \cup seen \cup w.queued))
                   ELSE <<>>
    IN  IF e \in known \cup w.seen THEN w
        ELSE [w EXCEPT !.seen = seen,
                       !.queue = @ \o parents,
                       !.queued = @ \cup ToSet(parents),
                       !.out = Append(@, e)]

\* The loop over the PDUs of a response, which stops at the limit.
RECURSIVE write_dag_events(_, _, _, _, _)
write_dag_events(w, pdus, known, skip, max) ==
    IF pdus = <<>> THEN w
    ELSE LET e == Head(pdus)
             fresh == e \notin known \cup w.seen
             next == write_dag_event(w, e, known, skip)
         IN  IF fresh /\ Cardinality(next.seen) >= max THEN next
             ELSE write_dag_events(next, Tail(pdus), known, skip, max)

\* The ids of the next request: [ids, queue].
RECURSIVE pop_batch(_, _, _)
pop_batch(queue, seen, ids) ==
    IF queue = <<>> \/ Len(ids) = BATCH THEN [ids |-> ids, queue |-> queue]
    ELSE pop_batch(Tail(queue), seen,
                   IF Head(queue) \in seen THEN ids ELSE Append(ids, Head(queue)))

\* What the destination may answer to /backfill: the events themselves, with or
\* without their parents, or nothing at all.
backfill_answers(ids) ==
    LET own == ToSet(ids) \cap Remote
        more == own \cup (UNION {Prev[e] : e \in own} \cap Remote)
    IN  {in_order(own), Reverse(in_order(more)), <<>>}

\* fetch_events_individually, one request: answer is "ok", "http_error" or
\* "unreachable".  pdus are the events found so far.
fetch_one(w, pdus, left, answer) ==
    LET id == Head(left)
        asked == [w EXCEPT !.requested = Append(@, id)]
    IN  CASE answer = "ok" ->
               [w |-> IF id \in Remote THEN asked ELSE [asked EXCEPT !.failures = TRUE],
                pdus |-> IF id \in Remote THEN Append(pdus, id) ELSE pdus,
                left |-> Tail(left)]
          [] answer = "http_error" ->
               [w |-> [asked EXCEPT !.failures = TRUE], pdus |-> pdus, left |-> Tail(left)]
          [] answer = "unreachable" ->
               [w |-> [asked EXCEPT !.failures = TRUE, !.unreachable = TRUE,
                                    !.unresolved = @ \cup ToSet(left)],
                pdus |-> pdus, left |-> <<>>]

\* finish_batch: requested ids that came back with an event_id are resolved.
finish_batch(w, ids, pdus) ==
    [w EXCEPT !.unresolved = @ \cup (ToSet(ids) \ (ToSet(pdus) \cap Inline))]


\* The frontier, as finish_dag_batch and finalize_dag report it.
remaining_frontier(w) == (ToSet(w.queue) \cup w.unresolved) \ w.seen

\* The ids that finish_dag_batch records after an unreachable destination: those
\* that were asked for one by one, without the failing one.
answered_ids(w, ids) == ToSet(ids) \cap (ToSet(w.requested) \ {Last(w.requested)})

----------------------------------------------------------------------------
\* scan_gaps (rezzy-cli/src/repair.rs)
missing_prev(events) == UNION {Prev[e] : e \in events} \ events
missing_auth(events) == UNION {Auth[e] : e \in events} \ events

is_closed(events) == missing_prev(events) = {} /\ missing_auth(events) = {}

\* The events that cite missing auth events.
referencing(events) == {e \in events : ~(Auth[e] \subseteq events)}

\* The auth chain of an event, as far as the destination has it.
RECURSIVE auth_chain(_)
auth_chain(S) ==
    LET more == S \cup UNION {Auth[e] : e \in S}
    IN  IF more = S THEN S ELSE auth_chain(more)

event_auth(e) == in_order((auth_chain(Auth[e])) \cap Remote)
=============================================================================

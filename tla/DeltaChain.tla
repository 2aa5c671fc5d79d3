----------------------------- MODULE DeltaChain -----------------------------
(***************************************************************************)
(* The compacted delta chain of src/state/delta.rs.  A writer appends one  *)
(* checkpoint per resolved state, either a full snapshot or the difference *)
(* to the state before it; readers rebuild a state by walking back to a    *)
(* snapshot, finding every parent by the hash of its state.  The state     *)
(* hash (LtHash over the entries) is taken to be collision free: a state   *)
(* is its own hash.  Records may get lost: the slice that a reader has is  *)
(* then not the whole chain.                                               *)
(***************************************************************************)
EXTENDS Naturals, SequencesExt, FiniteSetsExt

CONSTANTS
    EventId,    \* event ids as values of a state
    State,      \* the resolved states: functions from some keys to event ids
    max_hops,   \* the argument of compute_compacted_delta_chain_from_resolved
    MaxLength,  \* bound on the number of checkpoints
    MaxLost     \* bound on the number of lost checkpoints

VARIABLES
    checkpoints,    \* the stored chain
    prev,           \* {} before the first state, {s} after state s
    hops_since_snapshot,
    history,        \* the states that the checkpoints stand for
    lost            \* how many checkpoints were lost

vars == <<checkpoints, prev, hops_since_snapshot, history, lost>>

\* The elements of a set of positive numbers in ascending order.
ascending(S) ==
    SelectSeq([i \in 1..(IF S = {} THEN 0 ELSE Max(S)) |-> i], LAMBDA i : i \in S)

\* compute_state_delta: entries [key, event_id], event_id is {} for a deletion.
compute_state_delta(parent, current) ==
    {[key |-> k, event_id |-> {current[k]}] :
        k \in {j \in DOMAIN current : j \notin DOMAIN parent \/ parent[j] # current[j]}}
    \cup {[key |-> k, event_id |-> {}] : k \in DOMAIN parent \ DOMAIN current}

\* apply_state_delta; no key occurs twice in a delta.
apply_state_delta(base, deltas) ==
    LET touched == {d.key : d \in deltas}
        set == {d \in deltas : d.event_id # {}}
    IN  [k \in (DOMAIN base \ touched) \cup {d.key : d \in set} |->
            IF k \in touched
            THEN CHOOSE id \in EventId : \E d \in set : d.key = k /\ d.event_id = {id}
            ELSE base[k]]

Init ==
    /\ checkpoints = <<>>
    /\ prev = {}
    /\ hops_since_snapshot = 0
    /\ history = <<>>
    /\ lost = 0

\* The guard of the delta arm.
takes_delta(hops) == prev # {} /\ hops < max_hops

\* One iteration of compute_compacted_delta_chain_from_resolved.
Checkpoint(state) ==
    LET hops == hops_since_snapshot + 1
        delta == takes_delta(hops)
    IN  /\ Len(history) < MaxLength
        /\ checkpoints' = Append(checkpoints,
             [state_hash |-> state,
              parent_hash |-> prev,
              event_id |-> Len(history) + 1,
              deltas |-> IF delta THEN UNION {compute_state_delta(p, state) : p \in prev} ELSE {},
              snapshot |-> IF delta THEN {} ELSE {state}])
        /\ prev' = {state}
        /\ hops_since_snapshot' = IF delta THEN hops ELSE 0
        /\ history' = Append(history, state)
        /\ UNCHANGED lost

\* A record is lost: the reader's slice closes up.
Lose(i) ==
    /\ lost < MaxLost
    /\ checkpoints' = RemoveAt(checkpoints, i)
    /\ lost' = lost + 1
    /\ UNCHANGED <<prev, hops_since_snapshot, history>>

Next ==
    \/ \E s \in State : Checkpoint(s)
    \/ \E i \in DOMAIN checkpoints : Lose(i)
    \/ Len(history) = MaxLength /\ UNCHANGED vars

Spec == Init /\ [][Next]_vars

----------------------------------------------------------------------------
\* The readers.

\* A plausible mistake: the last record with the parent's hash, wherever it is.
find_parent_anywhere(idx, h) ==
    {i \in DOMAIN checkpoints :
        /\ checkpoints[i].state_hash = h
        /\ \A j \in DOMAIN checkpoints : checkpoints[j].state_hash = h => j <= i}

\* find_parent_idx, and the same search in reconstruct_state_at: the record
\* before if it has the hash, otherwise the last earlier one that has it, which
\* comes to the last earlier one.  {} if there is none.
find_parent_idx(idx, h) ==
    LET earlier == {i \in 1..(idx - 1) : checkpoints[i].state_hash = h}
    IN  IF earlier = {} THEN {} ELSE {Max(earlier)}

\* The parent of a record; {} for an orphan and for a broken chain.
parent(idx) == UNION {find_parent_idx(idx, h) : h \in checkpoints[idx].parent_hash}

\* reconstruct_state_at: {state}, or {} for a broken chain.  fuel bounds the walk
\* (which in the code ends because a parent is always an earlier record).
RECURSIVE reconstruct_state_at(_, _)
reconstruct_state_at(idx, fuel) ==
    LET cp == checkpoints[idx]
    IN  IF cp.snapshot # {} THEN cp.snapshot
        ELSE IF fuel = 0 THEN {}
        ELSE {apply_state_delta(s, cp.deltas) :
                s \in UNION {reconstruct_state_at(i, fuel - 1) : i \in parent(idx)}}

\* reconstruct_state_at_by_event_id
reconstruct_state_at_by_event_id(e) ==
    LET is == {i \in DOMAIN checkpoints : checkpoints[i].event_id = e}
    IN  IF is = {} THEN {} ELSE reconstruct_state_at(Min(is), Len(checkpoints))

\* The records that a batch needs: the targets and, behind every record without
\* a snapshot, its parent.
RECURSIVE required_indices(_, _)
required_indices(queue, seen) ==
    LET fresh == queue \ seen
        behind == UNION {parent(i) : i \in {j \in fresh : checkpoints[j].snapshot = {}}}
    IN  IF fresh = {} THEN seen ELSE required_indices(behind, seen \cup fresh)

\* reconstruct_state_batch: forward over the required records, with the states
\* known so far.
batch_step(known, idx) ==
    LET cp == checkpoints[idx]
        from == {known[i] : i \in parent(idx) \cap DOMAIN known}
        state == IF cp.snapshot # {} THEN cp.snapshot
                 ELSE {apply_state_delta(s, cp.deltas) : s \in from}
    IN  [i \in DOMAIN known \cup {j \in {idx} : state # {}} |->
            IF i = idx THEN CHOOSE s \in state : TRUE ELSE known[i]]

reconstruct_state_batch(targets) ==
    LET wanted == targets \cap DOMAIN checkpoints
        needed == ascending(required_indices(wanted, {}))
        known == FoldLeft(batch_step, [i \in {} |-> {}], needed)
    IN  [i \in wanted \cap DOMAIN known |-> known[i]]

----------------------------------------------------------------------------
\* A state that is rebuilt from the chain is the state that was stored for that
\* event, also if states repeat (so several records have the same hash) and if
\* records are lost; a lost record makes reads fail, never wrong; with nothing
\* lost every read succeeds.
RebuiltStatesAreExact ==
    \A i \in DOMAIN checkpoints :
        LET e == checkpoints[i].event_id
            rebuilt == reconstruct_state_at_by_event_id(e)
        IN  /\ rebuilt \subseteq {history[e]}
            /\ lost = 0 => rebuilt # {}

\* Rebuilding many states in one forward pass gives the same states as
\* rebuilding each one by itself, and misses the same ones.
BatchAgreesWithSingle ==
    \A targets \in SUBSET DOMAIN checkpoints :
        LET b == reconstruct_state_batch(targets)
        IN  \A i \in targets :
              (IF i \in DOMAIN b THEN {b[i]} ELSE {})
                  = reconstruct_state_at(i, Len(checkpoints))

\* With nothing lost, fewer than max_hops deltas (none if max_hops is 0 or 1)
\* lie between a record and the snapshot it is rebuilt from, so the cost of a
\* read stays bounded.
HopsAreBounded ==
    lost = 0 =>
        \A i \in DOMAIN checkpoints :
            \E j \in 1..i : checkpoints[j].snapshot # {}
                            /\ (i - j < max_hops \/ i = j)
=============================================================================

---------------------------- MODULE StateStream ----------------------------
(***************************************************************************)
(* The streaming state-reconstruction pipeline of src/state/at.rs: given a *)
(* map of events and a list of targets it collects the targets' ancestors  *)
(* (collect_ancestor_short_ids_batch), orders them parents first with      *)
(* Kahn's algorithm (topological_sort_short_ids), and walks that order     *)
(* once, computing the room state after each event from the states of its  *)
(* parents.  A parent's state is kept in state_after_map only while some   *)
(* child still has to read it; out_degree counts those children.           *)
(*                                                                         *)
(* Both loops are modelled: run_plain, which hands the state of every      *)
(* target to the callback, and run_optimized, which carries an LtHash with *)
(* each state and reports an unchanged state as a reference to its parent. *)
(*                                                                         *)
(* A room state is a function from state keys to event ids, None where the *)
(* map has no entry.  A LtHash is a multiset hash with a removal           *)
(* operation, so it is modelled by what it hashes: the number of times     *)
(* each <<key, id>> entry was added minus the times it was removed.        *)
(* Kahn's queue is a set here: the code pops it in FIFO order, the model   *)
(* in any order, so every property holds for every tie-break.              *)
(***************************************************************************)
EXTENDS Integers, Sequences, FiniteSets

CONSTANTS
    Events,     \* the ids of the events of events_map
    Missing,    \* ids cited by prev_events that events_map does not hold
    Keys,       \* the (event type, state key) pairs
    None,       \* "no entry": an absent state, key or event
    Inputs,     \* the calls to explore, see InputsAssumption
    IterativeSort(_, _, _)
                \* auth_difference and resolve_iterative_sort: (unconflicted
                \* state, conflicted ids, parent states) -> resolved state

Ids == Events \cup Missing

State == [Keys -> Events \cup {None}]

LtHash == [Keys \X Events -> Int]

(***************************************************************************)
(* A call: the event map (prev_events, state_key and the rejected flag of  *)
(* each event), the targets, and which of the two loops was asked for.     *)
(***************************************************************************)
Input == [prev      : [Events -> Seq(Ids)],
          state_key : [Events -> Keys \cup {None}],
          rejected  : SUBSET Events,
          targets   : SUBSET Ids,
          optimized : BOOLEAN]

ASSUME EventsAssumption == IsFiniteSet(Events)
ASSUME InputsAssumption == \A in \in Inputs : in \in Input

VARIABLES
    input,              \* the call being served
    phase,              \* "collect", "sort", "run" or "done"
    result,             \* None until done, then "ok", "cycle" or "callback"
    index,              \* the reachable ancestors (DenseIndex)
    queue,              \* collected events whose parents were not visited yet
    in_degree,          \* Kahn: parents not yet ordered
    topo_queue,         \* Kahn: the ready events
    sorted_ancestors,   \* Kahn: the order found so far
    out_degree,         \* children that have not read the event's state yet
    pos,                \* how many of sorted_ancestors the loop has processed
    state_after_map,    \* the retained states, None where not retained
    emitted,            \* the callback invocations so far
    computed            \* history: the state computed after each event

collectVars == <<index, queue>>
sortVars == <<in_degree, topo_queue, sorted_ancestors>>
runVars == <<out_degree, pos, state_after_map, emitted, computed>>
vars == <<input, phase, result, collectVars, sortVars, runVars>>

EmptyState == [k \in Keys |-> None]

EmptyHash == [e \in Keys \X Events |-> 0]

(***************************************************************************)
(* The parents of e that the index holds.  prev_events may repeat a parent *)
(* or cite one that is not in the map; ParentPositions keeps the first     *)
(* position of each indexed parent, as the dedup sets of the code do.      *)
(***************************************************************************)
Cited(e) == {input.prev[e][i] : i \in DOMAIN input.prev[e]}

Parents(e) == Cited(e) \cap index

Children(p) == {c \in index : p \in Parents(c)}

FirstCitation(e, i) == \A j \in 1 .. (i - 1) : input.prev[e][j] # input.prev[e][i]

ParentPositions(e) ==
    {i \in DOMAIN input.prev[e] : input.prev[e][i] \in index /\ FirstCitation(e, i)}

LowestOf(S) == CHOOSE i \in S : \A j \in S : i <= j

accepted_state_key(e) == IF e \in input.rejected THEN None ELSE input.state_key[e]

----------------------------------------------------------------------------
(* A tracked state: the map, and the LtHash run_optimized carries with it. *)

Tracked == [state : State, hash : LtHash]

ASSUME NoneAssumption == None \notin Events /\ None \notin Keys /\ None \notin Tracked

NewTracked == [state |-> EmptyState, hash |-> EmptyHash]

HashInsert(h, k, id) == IF id = None THEN h ELSE [h EXCEPT ![<<k, id>>] = @ + 1]

HashRemove(h, k, id) == IF id = None THEN h ELSE [h EXCEPT ![<<k, id>>] = @ - 1]

(* Mutant: an overwritten entry stays in the hash.                         *)
TrackedInsertNoRemove(t, k, id) ==
    [state |-> [t.state EXCEPT ![k] = id], hash |-> HashInsert(t.hash, k, id)]

(* HashedState::insert: the old entry leaves the hash before the new one   *)
(* enters it.                                                              *)
TrackedInsert(t, k, id) ==
    [state |-> [t.state EXCEPT ![k] = id],
     hash  |-> HashInsert(HashRemove(t.hash, k, t.state[k]), k, id)]

(* The same update, driven by diff(from, to), for every key that changed.  *)
HashDiff(h, from, to) ==
    [e \in Keys \X Events |->
        h[e] - (IF from[e[1]] # to[e[1]] /\ from[e[1]] = e[2] THEN 1 ELSE 0)
             + (IF from[e[1]] # to[e[1]] /\ to[e[1]] = e[2] THEN 1 ELSE 0)]

record_own_state(t, e) ==
    IF accepted_state_key(e) = None THEN t ELSE TrackedInsert(t, accepted_state_key(e), e)

(***************************************************************************)
(* Merging.  ps maps the positions of the parents to their tracked states; *)
(* the first position is the base the others are compared with.            *)
(***************************************************************************)
Base(ps) == ps[LowestOf(DOMAIN ps)]

ConflictedKeys(ps) ==
    {k \in Keys : \E i \in DOMAIN ps : ps[i].state[k] # Base(ps).state[k]}

ConflictedStateSet(ps) ==
    {id \in Events : \E i \in DOMAIN ps, k \in ConflictedKeys(ps) : ps[i].state[k] = id}

UnconflictedState(ps) ==
    [k \in Keys |-> IF k \in ConflictedKeys(ps) THEN None ELSE Base(ps).state[k]]

(* Only events of the map enter a resolved state.                          *)
resolve_merged_parent_states(ps) ==
    IF ConflictedKeys(ps) = {}
    THEN Base(ps).state
    ELSE LET resolved == IterativeSort(UnconflictedState(ps), ConflictedStateSet(ps),
                                       {ps[i].state : i \in DOMAIN ps})
         IN  [k \in Keys |-> IF resolved[k] \in Events THEN resolved[k] ELSE None]

(* The state before an event: fresh without parents, otherwise the merge of *)
(* the parents with the hash carried over from the first of them.           *)
MergedState(ps) ==
    IF DOMAIN ps = {}
    THEN NewTracked
    ELSE LET resolved == resolve_merged_parent_states(ps)
         IN  [state |-> resolved,
              hash  |-> HashDiff(Base(ps).hash, Base(ps).state, resolved)]

----------------------------------------------------------------------------
(* with_target_index: the targets the map holds; without one the call is a *)
(* successful no-op.                                                       *)
ActualTargets == input.targets \cap Events

Init ==
    /\ input \in Inputs
    /\ phase = IF ActualTargets = {} THEN "done" ELSE "collect"
    /\ result = IF ActualTargets = {} THEN "ok" ELSE None
    /\ index = ActualTargets
    /\ queue = ActualTargets
    /\ in_degree = [e \in Events |-> 0]
    /\ topo_queue = {}
    /\ sorted_ancestors = << >>
    /\ out_degree = [e \in Events |-> 0]
    /\ pos = 0
    /\ state_after_map = [e \in Events |-> None]
    /\ emitted = {}
    /\ computed = [e \in Events |-> None]

(* Mutant: cited ids are indexed without looking them up in events_map.    *)
CollectAncestorUnknown(e) ==
    /\ phase = "collect"
    /\ e \in queue
    /\ LET new == Cited(e) \ index
       IN  /\ index' = index \cup new
           /\ queue' = (queue \ {e}) \cup (new \cap Events)
    /\ UNCHANGED <<input, phase, result, sortVars, runVars>>

(* collect_ancestor_short_ids_batch: visit one collected event.            *)
CollectAncestor(e) ==
    /\ phase = "collect"
    /\ e \in queue
    /\ LET new == (Cited(e) \cap Events) \ index
       IN  /\ index' = index \cup new
           /\ queue' = (queue \ {e}) \cup new
    /\ UNCHANGED <<input, phase, result, sortVars, runVars>>

(* topological_sort_short_ids: count the edges of the deduplicated graph.  *)
CountDegrees ==
    /\ phase = "collect"
    /\ queue = {}
    /\ phase' = "sort"
    /\ in_degree' = [e \in Events |-> IF e \in index THEN Cardinality(Parents(e)) ELSE 0]
    /\ out_degree' = [e \in Events |-> IF e \in index THEN Cardinality(Children(e)) ELSE 0]
    /\ topo_queue' = {e \in index : Parents(e) = {}}
    /\ UNCHANGED <<input, result, collectVars, sorted_ancestors, pos,
                   state_after_map, emitted, computed>>

KahnPop(e) ==
    /\ phase = "sort"
    /\ e \in topo_queue
    /\ sorted_ancestors' = Append(sorted_ancestors, e)
    /\ in_degree' = [c \in Events |-> IF c \in Children(e) THEN in_degree[c] - 1
                                                           ELSE in_degree[c]]
    /\ topo_queue' = (topo_queue \ {e}) \cup {c \in Children(e) : in_degree[c] = 1}
    /\ UNCHANGED <<input, phase, result, collectVars, runVars>>

(* Mutant: the order is used without comparing its length with the index.  *)
CheckPlanUnchecked ==
    /\ phase = "sort"
    /\ topo_queue = {}
    /\ phase' = "run"
    /\ UNCHANGED <<input, result, collectVars, sortVars, runVars>>

(* checked_topological_plan: every indexed event was ordered, or a cycle.  *)
CheckPlan ==
    /\ phase = "sort"
    /\ topo_queue = {}
    /\ IF Len(sorted_ancestors) = Cardinality(index)
       THEN phase' = "run" /\ result' = None
       ELSE phase' = "done" /\ result' = "cycle"
    /\ UNCHANGED <<input, collectVars, sortVars, runVars>>

----------------------------------------------------------------------------
(* finalized_parent_states: the states of e's parents that are still held, *)
(* by position.                                                            *)
finalized_parent_states(e) ==
    LET held == {i \in ParentPositions(e) : /\ out_degree[input.prev[e][i]] > 0
                                            /\ state_after_map[input.prev[e][i]] # None}
    IN  [i \in held |-> state_after_map[input.prev[e][i]]]

(* take_finalized_parent: e has read its parents; the last reader takes the *)
(* state out of the map.                                                    *)
OutDegreeAfter(e) ==
    [p \in Events |-> IF p \in Parents(e) /\ out_degree[p] > 0
                      THEN out_degree[p] - 1 ELSE out_degree[p]]

(* Mutant: the first reader takes the state.                               *)
StatesAfterTakingFirst(e) ==
    [p \in Events |-> IF p \in Parents(e) THEN None ELSE state_after_map[p]]

StatesAfterTaking(e) ==
    [p \in Events |-> IF p \in Parents(e) /\ out_degree[p] = 1
                      THEN None ELSE state_after_map[p]]

(* Mutant: leaves are retained too.                                        *)
RetainLeaves(e, t) ==
    /\ out_degree' = OutDegreeAfter(e)
    /\ state_after_map' = [StatesAfterTaking(e) EXCEPT ![e] = t]

retain_state_for_children(e, t) ==
    /\ out_degree' = OutDegreeAfter(e)
    /\ state_after_map' = IF OutDegreeAfter(e)[e] > 0
                          THEN [StatesAfterTaking(e) EXCEPT ![e] = t]
                          ELSE StatesAfterTaking(e)

(* run_optimized's zero-clone case: one parent state, not a state event.   *)
IsUnchanged(e, ps) ==
    /\ input.optimized
    /\ Cardinality(DOMAIN ps) = 1
    /\ input.state_key[e] = None

StateAfter(e, ps) ==
    IF IsUnchanged(e, ps) THEN Base(ps) ELSE record_own_state(MergedState(ps), e)

Update(e, ps) ==
    IF IsUnchanged(e, ps)
    THEN [id |-> e, kind |-> "Unchanged",
          parent |-> input.prev[e][LowestOf({i \in DOMAIN input.prev[e] :
                                                input.prev[e][i] \in index})],
          value |-> Base(ps)]
    ELSE [id |-> e, kind |-> "New", parent |-> None, value |-> StateAfter(e, ps)]

Current == sorted_ancestors[pos + 1]

(* One iteration of run_plain / run_optimized.                             *)
ProcessEvent ==
    /\ phase = "run"
    /\ pos < Len(sorted_ancestors)
    /\ LET e == Current
           ps == finalized_parent_states(e)
       IN  /\ retain_state_for_children(e, StateAfter(e, ps))
           /\ computed' = [computed EXCEPT ![e] = StateAfter(e, ps)]
           /\ emitted' = IF e \in input.targets THEN emitted \cup {Update(e, ps)}
                                                ELSE emitted
    /\ pos' = pos + 1
    /\ UNCHANGED <<input, phase, result, collectVars, sortVars>>

(* The callback of a target failed: the traversal is abandoned.            *)
CallbackError ==
    /\ phase = "run"
    /\ pos < Len(sorted_ancestors)
    /\ Current \in input.targets
    /\ phase' = "done"
    /\ result' = "callback"
    /\ out_degree' = OutDegreeAfter(Current)
    /\ state_after_map' = StatesAfterTaking(Current)
    /\ UNCHANGED <<input, collectVars, sortVars, pos, emitted, computed>>

Finish ==
    /\ phase = "run"
    /\ pos = Len(sorted_ancestors)
    /\ phase' = "done"
    /\ result' = "ok"
    /\ UNCHANGED <<input, collectVars, sortVars, runVars>>

Next ==
    \/ \E e \in Events : CollectAncestor(e)
    \/ CountDegrees
    \/ \E e \in Events : KahnPop(e)
    \/ CheckPlan
    \/ ProcessEvent
    \/ CallbackError
    \/ Finish

(* The call runs on the caller's thread without waiting for anything.      *)
Spec == Init /\ [][Next]_vars /\ WF_vars(Next)

----------------------------------------------------------------------------
Processed == {sorted_ancestors[i] : i \in 1 .. pos}

TypeOK ==
    /\ input \in Inputs
    /\ phase \in {"collect", "sort", "run", "done"}
    /\ result \in {None, "ok", "cycle", "callback"}
    /\ index \subseteq Events
    /\ queue \subseteq index
    /\ in_degree \in [Events -> Nat]
    /\ topo_queue \subseteq index
    /\ sorted_ancestors \in Seq(Events)
    /\ out_degree \in [Events -> Nat]
    /\ pos \in 0 .. Len(sorted_ancestors)
    /\ state_after_map \in [Events -> Tracked \cup {None}]
    /\ computed \in [Events -> Tracked \cup {None}]
    /\ \A u \in emitted : u.id \in ActualTargets /\ u.value \in Tracked

(* The states of all of e's parents, whether or not they are still held.   *)
ParentStates(e) == [i \in ParentPositions(e) |-> computed[input.prev[e][i]]]

(***************************************************************************)
(* The state computed after an event is the merge of the states of ALL its *)
(* indexed parents with the event's own entry applied: no parent's state   *)
(* was dropped before its last child read it, whatever duplicate or        *)
(* dangling prev_events the events cite, and the zero-clone path of        *)
(* run_optimized computes the same state as run_plain.                     *)
(***************************************************************************)
StateFromAllParents ==
    \A e \in Processed :
        computed[e].state = record_own_state(MergedState(ParentStates(e)), e).state

(***************************************************************************)
(* Only the live frontier is retained: the map holds a state exactly for   *)
(* the processed events that an unprocessed event still cites, and it is   *)
(* the state that was computed for that event.                             *)
(***************************************************************************)
LiveFrontier ==
    phase \in {"sort", "run"} =>
        \A e \in Events :
            state_after_map[e] =
                IF e \in Processed /\ Children(e) \ Processed # {}
                THEN computed[e] ELSE None

(***************************************************************************)
(* The LtHash reported with a state, kept by increments along the walk and *)
(* carried across merges, is the hash of exactly the entries of that state.*)
(***************************************************************************)
HashOf(s) == [e \in Keys \X Events |-> IF s[e[1]] = e[2] THEN 1 ELSE 0]

HashTracksState == \A u \in emitted : u.value.hash = HashOf(u.value.state)

(***************************************************************************)
(* An Unchanged update names a parent whose state really is the state of   *)
(* the target, so the consumer that stores a reference stores the truth.   *)
(***************************************************************************)
UnchangedNamesItsState ==
    \A u \in emitted :
        u.kind = "Unchanged" => /\ u.parent \in Processed
                                /\ computed[u.parent].state = computed[u.id].state

(***************************************************************************)
(* A call that reports success has reported every target the map holds,    *)
(* and a cycle is reported exactly when no order of the ancestors puts     *)
(* every parent first.                                                     *)
(***************************************************************************)
Acyclic == \A S \in SUBSET index : S # {} => \E e \in S : Parents(e) \cap S = {}

ResultIsComplete ==
    phase = "done" =>
        /\ result = "ok" => {u.id : u \in emitted} = ActualTargets
        /\ result = "cycle" <=> ~Acyclic

============================================================================

----------------------------- MODULE EventCache -----------------------------
(***************************************************************************)
(* LeanEventCache of src/state/cache.rs: a map from event ids to entries   *)
(* and a side index from access generations to ids, from which eviction    *)
(* takes the smallest.  Every operation has to keep the two in step.       *)
(*                                                                         *)
(* An event is [event_id, content].  The counters of stats() are left out: *)
(* nothing depends on them.                                                *)
(***************************************************************************)
EXTENDS Naturals, FiniteSetsExt, SequencesExt

CONSTANTS
    Id,             \* event ids
    Content,        \* what an event with an id may look like
    Capacity,       \* the capacity given to new
    Batches,        \* the sequences of events that insert_batch may be given
    MaxGeneration   \* bound on the generation counter (2^64 in the code)

VARIABLES
    map,            \* [id -> [event, last_access]]
    access_order,   \* [generation -> id]
    generation,
    batch           \* the events that a running insert_batch has still to see

vars == <<map, access_order, generation, batch>>

\* A function without, or with, an entry.
dropped(f, x) == [y \in DOMAIN f \ {x} |-> f[y]]
put(f, x, v) == [y \in DOMAIN f \cup {x} |-> IF y = x THEN v ELSE f[y]]

Init ==
    /\ map = [id \in {} |-> {}]
    /\ access_order = [g \in {} |-> {}]
    /\ generation = 0
    /\ batch = <<>>

Fresh == generation < MaxGeneration

\* bump_entry: the entry moves to a new generation, in the map and in the index.
bump_entry(id, gen) ==
    /\ generation' = gen
    /\ map' = [map EXCEPT ![id].last_access = gen]
    /\ access_order' = put(dropped(access_order, map[id].last_access), gen, id)

\* A plausible mistake: an existing entry also makes the cache evict.
victims_always(id) ==
    IF Cardinality(DOMAIN map) >= Capacity
    THEN {Min(DOMAIN access_order)} ELSE {}

\* evict_lru as insert_arc calls it: the generation that is evicted, if the id
\* is new and the cache is full.
victims(id) ==
    IF id \notin DOMAIN map /\ Cardinality(DOMAIN map) >= Capacity
    THEN {Min(DOMAIN access_order)} ELSE {}

\* insert_arc
insert_arc(e, gen) ==
    LET id == e.event_id
        out == victims(id)
        old == out \cup (IF id \in DOMAIN map THEN {map[id].last_access} ELSE {})
        kept == DOMAIN map \ {access_order[g] : g \in out}
    IN  /\ generation' = gen
        /\ access_order' = put([g \in DOMAIN access_order \ old |-> access_order[g]], gen, id)
        /\ map' = put([i \in kept |-> map[i]], id, [event |-> e, last_access |-> gen])

\* get, touch and EventProvider::get_event of a cached event; a miss changes
\* nothing but the counters.
Get(id) ==
    /\ Fresh /\ batch = <<>>
    /\ id \in DOMAIN map
    /\ bump_entry(id, generation + 1)
    /\ UNCHANGED batch

\* insert
Insert(e) ==
    /\ Fresh /\ batch = <<>>
    /\ insert_arc(e, generation + 1)
    /\ UNCHANGED batch

\* get_or_insert: the closure runs only on a miss.
GetOrInsert(e) ==
    /\ Fresh /\ batch = <<>>
    /\ IF e.event_id \in DOMAIN map
       THEN bump_entry(e.event_id, generation + 1)
       ELSE insert_arc(e, generation + 1)
    /\ UNCHANGED batch

\* insert_batch: one event after the other, cached ones win.
StartBatch(es) ==
    /\ generation + Len(es) <= MaxGeneration /\ batch = <<>>
    /\ batch' = es
    /\ UNCHANGED <<map, access_order, generation>>

StepBatch ==
    /\ batch # <<>>
    /\ \E e \in {Head(batch)} :
         IF e.event_id \in DOMAIN map
         THEN bump_entry(e.event_id, generation + 1)
         ELSE insert_arc(e, generation + 1)
    /\ batch' = Tail(batch)

\* clear
Clear ==
    /\ batch = <<>>
    /\ map' = [id \in {} |-> {}]
    /\ access_order' = [g \in {} |-> {}]
    /\ generation' = 0
    /\ UNCHANGED batch

Event == [event_id : Id, content : Content]

Next ==
    \/ \E id \in Id : Get(id)
    \/ \E e \in Event : Insert(e) \/ GetOrInsert(e)
    \/ \E es \in Batches : StartBatch(es)
    \/ StepBatch
    \/ Clear

Spec == Init /\ [][Next]_vars

----------------------------------------------------------------------------
\* The side index and the map describe the same entries: every cached event is
\* in the index under its last generation and under no other, so evict_lru can
\* neither miss an entry nor name one that is gone.
IndexMatchesMap ==
    /\ {access_order[g] : g \in DOMAIN access_order} = DOMAIN map
    /\ \A g \in DOMAIN access_order : map[access_order[g]].last_access = g
    /\ Cardinality(DOMAIN map) <= Capacity

LRU == INSTANCE LruCache WITH
    recency <- [i \in 1..Cardinality(DOMAIN access_order) |->
                  access_order[CHOOSE g \in DOMAIN access_order :
                      Cardinality({h \in DOMAIN access_order : h <= g}) = i]],
    content <- [id \in DOMAIN map |-> map[id].event.content]

\* The cache evicts the least recently used event and only when it is full,
\* and reads through EventProvider count as uses.
ImplementsLru == LRU!Spec
=============================================================================

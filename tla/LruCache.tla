------------------------------ MODULE LruCache ------------------------------
(***************************************************************************)
(* What a cache with least-recently-used eviction promises: the specifica- *)
(* tion that the event cache of src/state/cache.rs implements.  recency is *)
(* the sequence of the cached ids, the least recently used first.          *)
(***************************************************************************)
EXTENDS SequencesExt

CONSTANTS
    Id,         \* the ids
    Content,    \* what an event with an id may look like
    Capacity    \* how many ids the cache may hold

VARIABLES
    recency,    \* the cached ids, least recently used first
    content     \* [cached id -> Content]

vars == <<recency, content>>

\* id becomes the most recently used one.
used(id, r) == Append(SelectSeq(r, LAMBDA x : x # id), id)

Init ==
    /\ recency = <<>>
    /\ content = [id \in {} |-> {}]

Use(id) ==
    /\ id \in DOMAIN content
    /\ recency' = used(id, recency)
    /\ UNCHANGED content

\* The oldest id makes room for a new one, only if there is no room.
Put(id, c) ==
    LET kept == IF id \in DOMAIN content \/ Len(recency) < Capacity
                THEN recency ELSE Tail(recency)
    IN  /\ recency' = used(id, kept)
        /\ content' = [i \in ToSet(kept) \cup {id} |-> IF i = id THEN c ELSE content[i]]

Clear ==
    /\ recency' = <<>>
    /\ content' = [id \in {} |-> {}]

Next ==
    \/ \E id \in Id : Use(id)
    \/ \E id \in Id, c \in Content : Put(id, c)
    \/ Clear

Spec == Init /\ [][Next]_vars
=============================================================================

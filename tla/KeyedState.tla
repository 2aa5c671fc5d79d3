----------------------------- MODULE KeyedState -----------------------------
(***************************************************************************)
(* What persisting a trie promises to its user (the publication contract   *)
(* of persist_mutation, persist_mutations and persist_chain in             *)
(* src/hamt/mod.rs): a map from keys to values that changes by whole       *)
(* published steps, in the order in which the steps were accepted.  Steps  *)
(* that were accepted and not yet published may be lost, all of them       *)
(* together; a published one never is.                                     *)
(***************************************************************************)
EXTENDS SequencesExt

CONSTANTS
    Key,        \* the keys
    Value,      \* the values
    Batches     \* the sequences of steps that a caller may ask for

VARIABLES
    current,    \* [Key -> {} or {v}]
    queue       \* the accepted steps, each a sequence of mutations

vars == <<current, queue>>

\* The map after a sequence of mutations.
after(map, ms) == FoldLeft(LAMBDA f, m : [f EXCEPT ![m.key] = m.value], map, ms)

Init ==
    /\ current = [k \in Key |-> {}]
    /\ queue = <<>>

Accept ==
    /\ queue = <<>>
    /\ queue' \in Batches
    /\ UNCHANGED current

Publish ==
    /\ queue # <<>>
    /\ current' = after(current, Head(queue))
    /\ queue' = Tail(queue)

Lose ==
    /\ queue' = <<>>
    /\ UNCHANGED current

Next == Accept \/ Publish \/ Lose

Spec == Init /\ [][Next]_vars
=============================================================================

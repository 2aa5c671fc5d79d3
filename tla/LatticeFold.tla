---------------------------- MODULE LatticeFold -----------------------------
(***************************************************************************)
(* The parallel fold of resolve/semilattice.rs: worker threads draw events *)
(* from one atomic cursor, each keeps the best event of every state key    *)
(* among those it drew, and merges its winners into the shared map under a *)
(* lock.  The claim the fold rests on is that the winner of a key depends  *)
(* neither on who drew which event nor on the order of the merges.         *)
(*                                                                         *)
(* Events are the positions 1..N of the list the threads share.  Whether   *)
(* an event passes its authorization check is fixed before the fold, since *)
(* the check reads only the power state the fold does not change.  Zero    *)
(* stands for no event.                                                    *)
(***************************************************************************)
EXTENDS Integers

CONSTANTS
  N,             \* the number of events
  Threads,       \* available_parallelism of them
  Keys,          \* the state keys
  Pos,           \* an event's mainline position (mainline_len when it has none)
  Ts,            \* its origin_server_ts
  Id,            \* its event id, ordered as a number
  EventKey,      \* its state key; not in Keys for an event without one
  Authorized,    \* the events whose check passes
  Decided,       \* the keys decides_key allows the fold to decide
  Unconflicted,  \* the agreed state: the id a key holds, or 0
  Resolved       \* the power state: the id a key holds, or 0

VARIABLES
  cursor,   \* the next position, from 0 as in the code
  pc,       \* where each thread stands
  at,       \* the event a thread holds
  local,    \* its winners
  seen,     \* the events it has folded (a history of the run)
  winners   \* the shared map

foldvars == <<cursor, pc, at, local, seen, winners>>

(* Threads exist, ids are distinct, and the other constants are of their   *)
(* types: what the event map of the caller guarantees.                     *)
ASSUME FoldAssumption ==
  /\ N \in Nat
  /\ Threads # {}
  /\ Pos \in [1..N -> Nat]
  /\ Ts \in [1..N -> Int]
  /\ Id \in [1..N -> Nat \ {0}]
  /\ \A i, j \in 1..N : Id[i] = Id[j] => i = j
  /\ Authorized \subseteq 1..N

(* A mutant: equal timestamps leave the current winner in place. *)
better_without_id(i, j) == Pos[i] < Pos[j] \/ (Pos[i] = Pos[j] /\ Ts[i] > Ts[j])

(* is_semilattice_winner_better: nearer the mainline, then later, then the *)
(* larger id.                                                              *)
is_semilattice_winner_better(i, j) ==
  \/ Pos[i] < Pos[j]
  \/ Pos[i] = Pos[j] /\ Ts[i] > Ts[j]
  \/ Pos[i] = Pos[j] /\ Ts[i] = Ts[j] /\ Id[i] > Id[j]

(* update_winner_if_better: the first event of a key wins outright. *)
update_winner_if_better(current, i) ==
  IF current = 0 THEN i ELSE IF is_semilattice_winner_better(i, current) THEN i ELSE current

(* process_lattice_event: unauthorized events and events whose key is not  *)
(* theirs to decide never compete.                                         *)
competes(i, k) == i \in Authorized /\ EventKey[i] = k /\ k \in Decided

process_lattice_event(map, i) ==
  [k \in Keys |-> IF competes(i, k) THEN update_winner_if_better(map[k], i) ELSE map[k]]

FoldInit ==
  /\ cursor = 0
  /\ pc = [t \in Threads |-> "fetch"]
  /\ at = [t \in Threads |-> 0]
  /\ local = [t \in Threads |-> [k \in Keys |-> 0]]
  /\ seen = [t \in Threads |-> {}]
  /\ winners = [k \in Keys |-> 0]

(* cursor.fetch_add(1), which counts past the end once for each thread. *)
Fetch(t) ==
  /\ pc[t] = "fetch"
  /\ cursor' = cursor + 1
  /\ pc' = [pc EXCEPT ![t] = IF cursor >= N THEN "merge" ELSE "fold"]
  /\ at' = [at EXCEPT ![t] = cursor + 1]
  /\ UNCHANGED <<local, seen, winners>>

Fold(t) ==
  /\ pc[t] = "fold"
  /\ local' = [local EXCEPT ![t] = process_lattice_event(local[t], at[t])]
  /\ seen' = [seen EXCEPT ![t] = seen[t] \cup {at[t]}]
  /\ pc' = [pc EXCEPT ![t] = "fetch"]
  /\ UNCHANGED <<cursor, at, winners>>

(* The lock is held for the whole merge. *)
Merge(t) ==
  /\ pc[t] = "merge"
  /\ winners' = [k \in Keys |-> IF local[t][k] = 0 THEN winners[k]
                                ELSE update_winner_if_better(winners[k], local[t][k])]
  /\ pc' = [pc EXCEPT ![t] = "done"]
  /\ UNCHANGED <<cursor, at, local, seen>>

Joined == (\A t \in Threads : pc[t] = "done") /\ UNCHANGED foldvars

FoldNext == (\E t \in Threads : Fetch(t) \/ Fold(t) \/ Merge(t)) \/ Joined

FoldSpec == FoldInit /\ [][FoldNext]_foldvars

(* The end of resolve_semilattice_fold_with_conflicted_keys: winners over  *)
(* the power state, and the agreed values over both.                       *)
final_resolved(k) ==
  IF Unconflicted[k] # 0 THEN Unconflicted[k]
  ELSE IF winners[k] # 0 THEN Id[winners[k]] ELSE Resolved[k]

(* Once every thread has merged, the winner of each key is the best of all *)
(* the events that compete for it, whoever drew them and in whatever order *)
(* the merges came; a key nobody competes for has no winner; and in the    *)
(* state returned no event that failed its check replaces an agreed value  *)
(* or a value of the power state.                                          *)
FoldIsOrderFree ==
  (\A t \in Threads : pc[t] = "done") =>
    \A k \in Keys :
      /\ winners[k] # 0 => winners[k] \in 1..N /\ competes(winners[k], k)
      /\ \A i \in 1..N : competes(i, k) =>
           winners[k] # 0 /\ (i = winners[k] \/ is_semilattice_winner_better(winners[k], i))
      /\ final_resolved(k) \notin {Unconflicted[k], Resolved[k]} =>
           \E i \in Authorized : Id[i] = final_resolved(k) /\ EventKey[i] = k

=============================================================================

------------------------- MODULE LatticeFoldProofs --------------------------
(***************************************************************************)
(* The parallel fold is order-free for every list of events and every      *)
(* number of threads.  The inductive invariant says of each thread's map,  *)
(* and of the shared map over the threads that merged, that it holds the   *)
(* best of exactly the events behind it, and that no position below the    *)
(* cursor is lost: it is folded, or some thread holds it.                  *)
(***************************************************************************)
EXTENDS LatticeFold, TLAPS

(* i is the best for key k among the events of S (0: nobody competes). *)
BestOf(i, k, S) ==
  /\ i # 0 => i \in S /\ competes(i, k)
  /\ \A j \in S : competes(j, k) =>
       i # 0 /\ (j = i \/ is_semilattice_winner_better(i, j))

FoldTypes ==
  /\ cursor \in Nat
  /\ pc \in [Threads -> {"fetch", "fold", "merge", "done"}]
  /\ at \in [Threads -> Nat]
  /\ local \in [Threads -> [Keys -> 0..N]]
  /\ seen \in [Threads -> SUBSET (1..N)]
  /\ winners \in [Keys -> 0..N]

Merged == UNION {seen[t] : t \in {u \in Threads : pc[u] = "done"}}

FoldInv ==
  /\ FoldTypes
  /\ \A t \in Threads : pc[t] = "fold" => at[t] \in 1..N
  /\ \A t \in Threads : pc[t] \in {"merge", "done"} => cursor >= N
  /\ \A i \in 1..N : i <= cursor =>
       \E t \in Threads : i \in seen[t] \/ (pc[t] = "fold" /\ at[t] = i)
  /\ \A t \in Threads, k \in Keys : BestOf(local[t][k], k, seen[t])
  /\ \A k \in Keys : BestOf(winners[k], k, Merged)

(* The comparison of is_semilattice_winner_better is transitive, and of    *)
(* two different events exactly one beats the other: the join it defines   *)
(* is commutative and associative, as its comment claims.                  *)
LEMMA BetterIsATotalOrder ==
  /\ \A i, j, l \in 1..N :
       is_semilattice_winner_better(i, j) /\ is_semilattice_winner_better(j, l)
         => is_semilattice_winner_better(i, l)
  /\ \A i, j \in 1..N :
       i # j => (is_semilattice_winner_better(i, j) <=> ~is_semilattice_winner_better(j, i))
<1>1. ASSUME NEW i \in 1..N, NEW j \in 1..N, NEW l \in 1..N,
             is_semilattice_winner_better(i, j), is_semilattice_winner_better(j, l)
      PROVE  is_semilattice_winner_better(i, l)
  <2>1. /\ Pos[i] \in Nat /\ Pos[j] \in Nat /\ Pos[l] \in Nat
        /\ Ts[i] \in Int /\ Ts[j] \in Int /\ Ts[l] \in Int
        /\ Id[i] \in Nat /\ Id[j] \in Nat /\ Id[l] \in Nat
    BY FoldAssumption
  <2>2. QED BY <1>1, <2>1 DEF is_semilattice_winner_better
<1>2. ASSUME NEW i \in 1..N, NEW j \in 1..N, i # j
      PROVE  is_semilattice_winner_better(i, j) <=> ~is_semilattice_winner_better(j, i)
  <2>1. /\ Pos[i] \in Nat /\ Pos[j] \in Nat
        /\ Ts[i] \in Int /\ Ts[j] \in Int
        /\ Id[i] \in Nat /\ Id[j] \in Nat /\ Id[i] # Id[j]
    BY <1>2, FoldAssumption
  <2>2. QED BY <2>1 DEF is_semilattice_winner_better
<1>3. QED BY <1>1, <1>2

(* Updating the best of S with the best of T gives the best of both.  The  *)
(* case of one event is T a singleton.                                     *)
LEMMA UpdateJoins ==
  ASSUME NEW k, NEW S \in SUBSET (1..N), NEW T \in SUBSET (1..N),
         NEW w \in 0..N, NEW i \in 1..N,
         BestOf(w, k, S), BestOf(i, k, T)
  PROVE  /\ update_winner_if_better(w, i) \in 1..N
         /\ BestOf(update_winner_if_better(w, i), k, S \cup T)
<1>1. i # 0 /\ i \in T /\ competes(i, k) BY DEF BestOf
<1>2. CASE w = 0
  <2>1. update_winner_if_better(w, i) = i BY <1>2 DEF update_winner_if_better
  <2>2. \A j \in S : ~competes(j, k) BY <1>2 DEF BestOf
  <2>3. QED BY <1>1, <2>1, <2>2 DEF BestOf
<1>3. CASE w # 0
  <2>1. w \in 1..N /\ w \in S /\ competes(w, k) BY <1>3 DEF BestOf
  <2>2. CASE is_semilattice_winner_better(i, w)
    <3>1. update_winner_if_better(w, i) = i BY <1>3, <2>2 DEF update_winner_if_better
    <3>2. ASSUME NEW j \in S, competes(j, k)
          PROVE  is_semilattice_winner_better(i, j)
      <4>1. j = w \/ is_semilattice_winner_better(w, j) BY <3>2 DEF BestOf
      <4>2. QED BY <4>1, <2>1, <2>2, BetterIsATotalOrder
    <3>3. ASSUME NEW j \in T, competes(j, k)
          PROVE  j = i \/ is_semilattice_winner_better(i, j)
      BY <3>3 DEF BestOf
    <3>4. QED BY <1>1, <3>1, <3>2, <3>3 DEF BestOf
  <2>3. CASE ~is_semilattice_winner_better(i, w)
    <3>1. update_winner_if_better(w, i) = w BY <1>3, <2>3 DEF update_winner_if_better
    <3>2. i = w \/ is_semilattice_winner_better(w, i)
      BY <2>1, <2>3, BetterIsATotalOrder
    <3>3. ASSUME NEW j \in T, competes(j, k)
          PROVE  j = w \/ is_semilattice_winner_better(w, j)
      <4>1. j = i \/ is_semilattice_winner_better(i, j) BY <3>3 DEF BestOf
      <4>2. QED BY <4>1, <3>2, <2>1, BetterIsATotalOrder
    <3>4. ASSUME NEW j \in S, competes(j, k)
          PROVE  j = w \/ is_semilattice_winner_better(w, j)
      BY <3>4 DEF BestOf
    <3>5. QED BY <1>3, <2>1, <3>1, <3>3, <3>4 DEF BestOf
  <2>4. QED BY <2>2, <2>3
<1>4. QED BY <1>2, <1>3

(* Folding one event into a thread's map leaves the best of what the thread *)
(* has seen, that event included.                                           *)
LEMMA FoldKeepsBest ==
  ASSUME NEW map \in [Keys -> 0..N], NEW S \in SUBSET (1..N), NEW i \in 1..N,
         \A k \in Keys : BestOf(map[k], k, S)
  PROVE  /\ process_lattice_event(map, i) \in [Keys -> 0..N]
         /\ \A k \in Keys : BestOf(process_lattice_event(map, i)[k], k, S \cup {i})
<1>1. ASSUME NEW k \in Keys
      PROVE  /\ process_lattice_event(map, i)[k] \in 0..N
             /\ BestOf(process_lattice_event(map, i)[k], k, S \cup {i})
  <2>1. CASE competes(i, k)
    <3>1. process_lattice_event(map, i)[k] = update_winner_if_better(map[k], i)
      BY <1>1, <2>1 DEF process_lattice_event
    <3>2. BestOf(i, k, {i}) BY <2>1 DEF BestOf
    <3>3. map[k] \in 0..N /\ BestOf(map[k], k, S) /\ {i} \in SUBSET (1..N) BY <1>1
    <3>4. QED BY <3>1, <3>2, <3>3, UpdateJoins
  <2>2. CASE ~competes(i, k)
    <3>1. process_lattice_event(map, i)[k] = map[k]
      BY <1>1, <2>2 DEF process_lattice_event
    <3>2. QED BY <1>1, <2>2, <3>1 DEF BestOf
  <2>3. QED BY <2>1, <2>2
<1>2. process_lattice_event(map, i) = [k \in Keys |-> process_lattice_event(map, i)[k]]
  BY DEF process_lattice_event
<1>3. QED BY <1>1, <1>2

(* The invariant holds before any thread has drawn an event. *)
LEMMA FoldInitially == FoldInit => FoldInv
<1> SUFFICES ASSUME FoldInit PROVE FoldInv OBVIOUS
<1>1. FoldTypes BY FoldAssumption DEF FoldInit, FoldTypes
<1>2. Merged = {} BY DEF FoldInit, Merged
<1>3. \A t \in Threads, k \in Keys : BestOf(local[t][k], k, seen[t])
  BY DEF FoldInit, BestOf
<1>4. \A k \in Keys : BestOf(winners[k], k, Merged) BY <1>2 DEF FoldInit, BestOf
<1>5. QED BY <1>1, <1>3, <1>4, FoldAssumption DEF FoldInit, FoldInv

(* Drawing a position: the event is now in the thread's hands, and a thread *)
(* that draws past the end has seen every position taken.                   *)
LEMMA FetchKeeps == ASSUME FoldInv, NEW t \in Threads, Fetch(t) PROVE FoldInv'
<1>1. FoldTypes' BY DEF FoldInv, FoldTypes, Fetch
<1>2. \A u \in Threads : pc'[u] = "fold" => at'[u] \in 1..N
  BY FoldAssumption DEF FoldInv, FoldTypes, Fetch
<1>3. \A u \in Threads : pc'[u] \in {"merge", "done"} => cursor' >= N
  BY FoldAssumption DEF FoldInv, FoldTypes, Fetch
<1>4. ASSUME NEW i \in 1..N, i <= cursor'
      PROVE  \E u \in Threads : i \in seen'[u] \/ (pc'[u] = "fold" /\ at'[u] = i)
  <2>1. CASE i <= cursor
    <3>1. PICK u \in Threads : i \in seen[u] \/ (pc[u] = "fold" /\ at[u] = i)
      BY <2>1 DEF FoldInv
    <3>2. pc[u] = "fold" => u # t BY DEF Fetch
    <3>3. QED BY <3>1, <3>2 DEF Fetch, FoldInv, FoldTypes
  <2>2. CASE ~(i <= cursor)
    <3>1. i = cursor + 1 /\ ~(cursor >= N)
      BY <1>4, <2>2, FoldAssumption DEF Fetch, FoldInv, FoldTypes
    <3>2. pc'[t] = "fold" /\ at'[t] = i BY <3>1 DEF Fetch, FoldInv, FoldTypes
    <3>3. QED BY <3>2
  <2>3. QED BY <2>1, <2>2
<1>5. \A u \in Threads, k \in Keys : BestOf(local'[u][k], k, seen'[u])
  BY DEF FoldInv, Fetch
<1>6. Merged' = Merged
  <2>1. {u \in Threads : pc'[u] = "done"} = {u \in Threads : pc[u] = "done"}
    BY DEF Fetch, FoldInv, FoldTypes
  <2>2. QED BY <2>1 DEF Merged, Fetch
<1>7. \A k \in Keys : BestOf(winners'[k], k, Merged') BY <1>6 DEF FoldInv, Fetch
<1>8. QED BY <1>1, <1>2, <1>3, <1>4, <1>5, <1>7 DEF FoldInv, BestOf

(* Folding moves an event from the thread's hands into what it has seen. *)
LEMMA FoldKeeps == ASSUME FoldInv, NEW t \in Threads, Fold(t) PROVE FoldInv'
<1> DEFINE map == process_lattice_event(local[t], at[t])
<1>0. /\ local[t] \in [Keys -> 0..N] /\ seen[t] \in SUBSET (1..N) /\ at[t] \in 1..N
      /\ \A k \in Keys : BestOf(local[t][k], k, seen[t])
  BY DEF FoldInv, FoldTypes, Fold
<1>1. map \in [Keys -> 0..N] /\ \A k \in Keys : BestOf(map[k], k, seen[t] \cup {at[t]})
  BY <1>0, FoldKeepsBest
<1>2. local' = [local EXCEPT ![t] = map] /\ seen' = [seen EXCEPT ![t] = seen[t] \cup {at[t]}]
  BY DEF Fold
<1> HIDE DEF map
<1>3. FoldTypes' BY <1>0, <1>1, <1>2 DEF FoldInv, FoldTypes, Fold
<1>4. /\ \A u \in Threads : pc'[u] = "fold" => at'[u] \in 1..N
      /\ \A u \in Threads : pc'[u] \in {"merge", "done"} => cursor' >= N
  BY DEF FoldInv, FoldTypes, Fold
<1>5. ASSUME NEW i \in 1..N, i <= cursor'
      PROVE  \E u \in Threads : i \in seen'[u] \/ (pc'[u] = "fold" /\ at'[u] = i)
  <2>1. PICK u \in Threads : i \in seen[u] \/ (pc[u] = "fold" /\ at[u] = i)
    BY <1>5 DEF FoldInv, Fold
  <2>2. CASE u = t BY <2>1, <2>2, <1>2 DEF FoldInv, FoldTypes
  <2>3. CASE u # t BY <2>1, <2>3, <1>2 DEF FoldInv, FoldTypes, Fold
  <2>4. QED BY <2>2, <2>3
<1>6. ASSUME NEW u \in Threads, NEW k \in Keys PROVE BestOf(local'[u][k], k, seen'[u])
  <2>1. CASE u = t BY <2>1, <1>1, <1>2 DEF FoldInv, FoldTypes
  <2>2. CASE u # t
    <3>1. local'[u] = local[u] /\ seen'[u] = seen[u] BY <2>2, <1>2 DEF FoldInv, FoldTypes
    <3>2. QED BY <3>1 DEF FoldInv
  <2>3. QED BY <2>1, <2>2
<1>7. Merged' = Merged
  <2>1. {u \in Threads : pc'[u] = "done"} = {u \in Threads : pc[u] = "done"}
    BY DEF Fold, FoldInv, FoldTypes
  <2>2. \A u \in {w \in Threads : pc[w] = "done"} : seen'[u] = seen[u]
    BY <1>2 DEF Fold, FoldInv, FoldTypes
  <2>3. {seen'[u] : u \in {w \in Threads : pc[w] = "done"}}
          = {seen[u] : u \in {w \in Threads : pc[w] = "done"}}
    BY <2>2
  <2>4. QED BY <2>1, <2>3 DEF Merged
<1>8. \A k \in Keys : BestOf(winners'[k], k, Merged') BY <1>7 DEF FoldInv, Fold
<1>9. QED BY <1>3, <1>4, <1>5, <1>6, <1>8 DEF FoldInv, BestOf

(* Merging adds what the thread has seen to what the shared map answers for. *)
LEMMA MergeKeeps == ASSUME FoldInv, NEW t \in Threads, Merge(t) PROVE FoldInv'
<1>1. Merged' = Merged \cup seen[t]
  <2>1. {u \in Threads : pc'[u] = "done"} = {u \in Threads : pc[u] = "done"} \cup {t}
    BY DEF Merge, FoldInv, FoldTypes
  <2>2. QED BY <2>1 DEF Merged, Merge
<1>2. Merged \in SUBSET (1..N) BY DEF Merged, FoldInv, FoldTypes
<1>3. ASSUME NEW k \in Keys
      PROVE  winners'[k] \in 0..N /\ BestOf(winners'[k], k, Merged')
  <2>1. /\ winners[k] \in 0..N /\ BestOf(winners[k], k, Merged)
        /\ local[t][k] \in 0..N /\ BestOf(local[t][k], k, seen[t])
        /\ seen[t] \in SUBSET (1..N)
    BY <1>3 DEF FoldInv, FoldTypes
  <2>2. CASE local[t][k] = 0
    <3>1. winners'[k] = winners[k] BY <1>3, <2>2 DEF Merge
    <3>2. \A j \in seen[t] : ~competes(j, k) BY <2>1, <2>2 DEF BestOf
    <3>3. QED BY <1>1, <2>1, <3>1, <3>2 DEF BestOf
  <2>3. CASE local[t][k] # 0
    <3>1. winners'[k] = update_winner_if_better(winners[k], local[t][k])
      BY <1>3, <2>3 DEF Merge
    <3>2. local[t][k] \in 1..N BY <2>1, <2>3
    <3>3. /\ update_winner_if_better(winners[k], local[t][k]) \in 1..N
          /\ BestOf(update_winner_if_better(winners[k], local[t][k]), k, Merged \cup seen[t])
      <4> DEFINE w == winners[k]  i == local[t][k]  S == Merged  T == seen[t]
      <4>1. /\ S \in SUBSET (1..N) /\ T \in SUBSET (1..N) /\ w \in 0..N /\ i \in 1..N
            /\ BestOf(w, k, S) /\ BestOf(i, k, T)
        BY <1>2, <2>1, <3>2
      <4> HIDE DEF w, i, S, T
      <4>2. /\ update_winner_if_better(w, i) \in 1..N
            /\ BestOf(update_winner_if_better(w, i), k, S \cup T)
        BY <4>1, UpdateJoins
      <4>3. QED BY <4>2 DEF w, i, S, T
    <3>4. QED BY <1>1, <3>1, <3>3
  <2>4. QED BY <2>2, <2>3
<1>4. winners' \in [Keys -> 0..N]
  <2>1. winners' = [k \in Keys |-> winners'[k]] BY DEF Merge
  <2>2. QED BY <1>3, <2>1
<1>5. FoldTypes' BY <1>4 DEF FoldInv, FoldTypes, Merge
<1>6. /\ \A u \in Threads : pc'[u] = "fold" => at'[u] \in 1..N
      /\ \A u \in Threads : pc'[u] \in {"merge", "done"} => cursor' >= N
  BY DEF FoldInv, FoldTypes, Merge
<1>7. ASSUME NEW i \in 1..N, i <= cursor'
      PROVE  \E u \in Threads : i \in seen'[u] \/ (pc'[u] = "fold" /\ at'[u] = i)
  <2>1. PICK u \in Threads : i \in seen[u] \/ (pc[u] = "fold" /\ at[u] = i)
    BY <1>7 DEF FoldInv, Merge
  <2>2. QED BY <2>1 DEF FoldInv, FoldTypes, Merge
<1>8. \A u \in Threads, k \in Keys : BestOf(local'[u][k], k, seen'[u]) BY DEF FoldInv, Merge
<1>9. QED BY <1>3, <1>5, <1>6, <1>7, <1>8 DEF FoldInv, BestOf

(* When every thread is done, every position is behind the shared map. *)
LEMMA FoldInvGives == FoldInv => FoldIsOrderFree
<1> SUFFICES ASSUME FoldInv, \A t \in Threads : pc[t] = "done", NEW k \in Keys
             PROVE  /\ winners[k] # 0 => winners[k] \in 1..N /\ competes(winners[k], k)
                    /\ \A i \in 1..N : competes(i, k) =>
                         winners[k] # 0
                         /\ (i = winners[k] \/ is_semilattice_winner_better(winners[k], i))
                    /\ final_resolved(k) \notin {Unconflicted[k], Resolved[k]} =>
                         \E i \in Authorized : Id[i] = final_resolved(k) /\ EventKey[i] = k
  BY DEF FoldIsOrderFree
<1>1. cursor >= N /\ cursor \in Nat BY FoldAssumption DEF FoldInv, FoldTypes
<1>2. ASSUME NEW i \in 1..N PROVE i \in Merged
  <2>1. i <= cursor BY <1>1, FoldAssumption
  <2>2. PICK t \in Threads : i \in seen[t] \/ (pc[t] = "fold" /\ at[t] = i)
    BY <2>1 DEF FoldInv
  <2>3. QED BY <2>2 DEF Merged
<1>3. BestOf(winners[k], k, Merged) /\ winners[k] \in 0..N BY DEF FoldInv, FoldTypes
<1>4. winners[k] # 0 => winners[k] \in 1..N /\ competes(winners[k], k)
  BY <1>3 DEF BestOf
<1>5. final_resolved(k) \notin {Unconflicted[k], Resolved[k]} =>
        winners[k] # 0 /\ final_resolved(k) = Id[winners[k]]
  BY DEF final_resolved
<1>6. QED BY <1>2, <1>3, <1>4, <1>5 DEF BestOf, competes

(* The winner of every state key is the best of the events that compete for *)
(* it, for every list of events, every number of worker threads and every   *)
(* interleaving of their draws, folds and merges.                           *)
THEOREM ParallelFoldIsOrderFree == FoldSpec => []FoldIsOrderFree
<1>1. FoldInv /\ [FoldNext]_foldvars => FoldInv'
  <2> SUFFICES ASSUME FoldInv, [FoldNext]_foldvars PROVE FoldInv' OBVIOUS
  <2>1. CASE UNCHANGED foldvars
    BY <2>1 DEF FoldInv, FoldTypes, foldvars, Merged, BestOf
  <2>2. ASSUME NEW t \in Threads, Fetch(t) \/ Fold(t) \/ Merge(t) PROVE FoldInv'
    BY <2>2, FetchKeeps, FoldKeeps, MergeKeeps
  <2>3. QED BY <2>1, <2>2 DEF FoldNext, Joined
<1>2. QED BY <1>1, FoldInitially, FoldInvGives, PTL DEF FoldSpec

=============================================================================

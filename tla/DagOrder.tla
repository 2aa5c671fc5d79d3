------------------------------ MODULE DagOrder ------------------------------
(***************************************************************************)
(* The questions of src/state/at.rs that a server asks about the part of a *)
(* room's graph it holds: where the gaps are (find_backward_extremities,   *)
(* find_missing_auth_events), which events are last                        *)
(* (find_forward_extremities_roaring), and in which order to show them     *)
(* (compute_depths, compute_topo_positions, reverse_topological_order,     *)
(* verify_pagination).                                                     *)
(*                                                                         *)
(* The server starts with some events, fetches what they cite one event at *)
(* a time (the backfill loop around this code) and may ask for an order at *)
(* any moment.  An order is computed by Kahn's algorithm, which takes the  *)
(* ready events in the order of a hash table: in any order.                *)
(***************************************************************************)
EXTENDS Naturals, FiniteSets, Sequences, SequencesExt

CONSTANTS
  Rooms,     \* the whole graphs: [prev, auth : Id -> sets of ids]
  Holdings   \* what the server starts with: [loaded, stored : sets of ids]

VARIABLES
  full,      \* the room as its servers together know it
  loaded,    \* the ids of the event map
  stored,    \* the ids that `exists' knows besides
  targets,   \* what the running sort was asked for; {} when none runs
  sorted     \* the ids it has emitted

Ids == DOMAIN full.prev

dagVars == <<full, loaded, stored, targets, sorted>>

-----------------------------------------------------------------------------
(***************************************************************************)
(* Gaps and extremities.                                                   *)
(***************************************************************************)
collect_missing_refs(edges, e) == edges[e] \ (loaded \cup stored)

find_backward_extremities ==
  {e \in loaded : collect_missing_refs(full.prev, e) # {}}

find_missing_auth_events ==
  {e \in loaded : collect_missing_refs(full.auth, e) # {}}

\* Events that no event of the map cites.
find_forward_extremities == loaded \ UNION {full.prev[e] : e \in loaded}

-----------------------------------------------------------------------------
(***************************************************************************)
(* Orders.                                                                 *)
(***************************************************************************)

\* collect_ancestor_short_ids_batch: the targets and what they reach in the map.
RECURSIVE Indexed(_)
Indexed(S) ==
  LET more == S \cup UNION {full.prev[e] \cap loaded : e \in S}
  IN  IF more = S THEN S ELSE Indexed(more)

Index == Indexed(targets \cap loaded)

\* topological_sort_short_ids: what has in-degree 0 once the sorted events are removed.
Ready == {e \in Index \ ToSet(sorted) : full.prev[e] \cap Index \subseteq ToSet(sorted)}

parent_max_depths(seq) ==
  LET depth[n \in 0..Len(seq)] ==
        IF n = 0 THEN [e \in Index |-> 0]
        ELSE LET above == {depth[n - 1][p] : p \in full.prev[seq[n]] \cap Index}
             IN  [depth[n - 1] EXCEPT ![seq[n]] = 1 + Max(above \cup {0})]
  IN  depth[Len(seq)]

\* The stable sort by depth of compute_topo_positions; ties are left as they are by a
\* tiebreak that answers Equal, or ordered by id.
compute_topo_positions(seq, by_id) ==
  LET depth == parent_max_depths(seq)
  IN  SortSeq([i \in DOMAIN seq |-> i], LAMBDA i, j :
        \/ depth[seq[i]] < depth[seq[j]]
        \/ depth[seq[i]] = depth[seq[j]] /\ IF by_id THEN seq[i] < seq[j] ELSE i < j)

\* The order newest first, over the reversed sort.
reverse_topological_order(seq, by_id) ==
  LET depth == parent_max_depths(seq)
  IN  SortSeq([i \in DOMAIN seq |-> i], LAMBDA i, j :
        \/ depth[seq[i]] > depth[seq[j]]
        \/ depth[seq[i]] = depth[seq[j]] /\ IF by_id THEN seq[i] > seq[j] ELSE i > j)

-----------------------------------------------------------------------------
(***************************************************************************)
(* verify_pagination.  pages is a sequence of sequences of ids.            *)
(***************************************************************************)
Pages(ids, size) ==
  [n \in 1..((Len(ids) + size - 1) \div size) |->
     SubSeq(ids, (n - 1) * size + 1, IF n * size > Len(ids) THEN Len(ids) ELSE n * size)]

first_page(pages, id) == Min({n \in DOMAIN pages : id \in ToSet(pages[n])})

duplicates(pages) ==
  {id \in UNION {ToSet(pages[n]) : n \in DOMAIN pages} :
     \E m, n \in DOMAIN pages : \E i \in DOMAIN pages[m], j \in DOMAIN pages[n] :
       <<m, i>> # <<n, j>> /\ pages[m][i] = id /\ pages[n][j] = id}

\* A plausible mistake: only direct parents are looked at.
parents_only(S) == S

\* The walk over the parents, and theirs as far as the map holds them.
RECURSIVE walked(_)
walked(S) ==
  LET more == S \cup UNION {full.prev[e] : e \in S \cap loaded}
  IN  IF more = S THEN S ELSE walked(more)

ancestors_after_descendants(pages) ==
  {<<a, n>> \in (UNION {ToSet(pages[n]) : n \in DOMAIN pages}) \X DOMAIN pages :
     \E i \in DOMAIN pages[n] :
       /\ pages[n][i] \in loaded /\ a \in walked(full.prev[pages[n][i]])
       /\ first_page(pages, a) < n}

verify_pagination(pages) ==
  duplicates(pages) = {} /\ ancestors_after_descendants(pages) = {}

-----------------------------------------------------------------------------
Init ==
  /\ full \in Rooms
  /\ \E h \in Holdings : loaded = h.loaded /\ stored = h.stored
  /\ targets = {} /\ sorted = <<>>

\* A server answers a request for a missing parent or auth event.
Backfill ==
  /\ targets = {}
  /\ \E e \in find_backward_extremities \cup find_missing_auth_events :
       \E id \in (collect_missing_refs(full.prev, e) \cup collect_missing_refs(full.auth, e))
                   \cap Ids :
         loaded' = loaded \cup {id}
  /\ UNCHANGED <<full, stored, targets, sorted>>

Ask ==
  /\ targets = {}
  /\ targets' \in {loaded} \cup {{tip} : tip \in loaded}
  /\ UNCHANGED <<full, loaded, stored, sorted>>

KahnPop ==
  /\ targets # {}
  /\ \E e \in Ready : sorted' = Append(sorted, e)
  /\ UNCHANGED <<full, loaded, stored, targets>>

Answer ==
  /\ targets # {} /\ Ready = {}
  /\ targets' = {} /\ sorted' = <<>>
  /\ UNCHANGED <<full, loaded, stored>>

Next == Backfill \/ Ask \/ KahnPop \/ Answer

Spec == Init /\ [][Next]_dagVars

-----------------------------------------------------------------------------
\* Whether a is an ancestor of e along the citations of the events of S.
RECURSIVE Descends(_, _, _)
Descends(e, a, S) == e \in S /\ \E p \in full.prev[e] : p = a \/ Descends(p, a, S)

RECURSIVE LongestChain(_)
LongestChain(e) == 1 + Max({0} \cup {LongestChain(p) : p \in full.prev[e] \cap Index})

Finished == targets # {} /\ Ready = {}

\* compute_topo_positions and reverse_topological_order: whatever order the hash table
\* gives the events, both name every indexed event once and put it after its parents
\* (before them in the reverse order), and an event's depth is the length of the longest
\* chain of indexed events that ends in it.
OrdersRespectParents ==
  Finished =>
    /\ parent_max_depths(sorted) = [e \in Index |-> LongestChain(e)]
    /\ \A by_id \in BOOLEAN :
        LET up == compute_topo_positions(sorted, by_id)
            down == reverse_topological_order(sorted, by_id)
            at(order, e) == CHOOSE n \in DOMAIN order : sorted[order[n]] = e
        IN  /\ ToSet(sorted) = Index /\ Len(sorted) = Cardinality(Index)
            /\ \A e \in Index : \A p \in full.prev[e] \cap Index :
                 at(up, p) < at(up, e) /\ at(down, e) < at(down, p)

\* verify_pagination accepts what reverse_topological_order yields, cut into pages of
\* any size.  When two entries have changed places and one is left out, it accepts
\* exactly those pages in which no event is on an earlier page than a descendant of it,
\* although the events between the two may be missing from the pages.
PagesAreJudgedRight ==
  Finished =>
    LET order == reverse_topological_order(sorted, TRUE)
        ids == [n \in DOMAIN order |-> sorted[order[n]]]
        swap(i, j) == [n \in DOMAIN ids |-> IF n = i THEN ids[j] ELSE IF n = j THEN ids[i] ELSE ids[n]]
    IN  \A size \in 1..3 :
          /\ verify_pagination(Pages(ids, size))
          /\ \A i, j, k \in DOMAIN ids :
               LET pages == Pages(RemoveAt(swap(i, j), k), size)
               IN  verify_pagination(pages) <=>
                     \A m, n \in DOMAIN pages : m < n =>
                       \A a \in ToSet(pages[m]), e \in ToSet(pages[n]) : ~Descends(e, a, loaded)

\* find_backward_extremities: when it reports no gap, every ancestor of a held event is
\* held or lies behind an event that the store has.
NoGapMeansClosed ==
  find_backward_extremities = {} =>
    \A e \in loaded, a \in Ids :
      Descends(e, a, Ids) =>
        \/ a \in loaded \cup stored
        \/ \E s \in stored : Descends(s, a, Ids)

\* find_forward_extremities_roaring: the events that nothing follows are always among
\* the extremities, and they are all of them once the map holds every ancestor.
ExtremitiesAreTips ==
  LET last == {e \in loaded : ~\E f \in loaded : Descends(f, e, Ids)}
  IN  /\ last \subseteq find_forward_extremities
      /\ find_backward_extremities = {} /\ stored \subseteq loaded => find_forward_extremities = last
=============================================================================

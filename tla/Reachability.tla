---------------------------- MODULE Reachability ----------------------------
(* The reachability accelerators of the resolver (resolve/reachability.rs):  *)
(* a topological snapshot of an auth graph is numbered densely, and questions *)
(* "which of these candidates descend from these seeds?" are answered from a  *)
(* closure bitmap per node (ForwardReachabilityIndex) or, in less memory, by  *)
(* a traversal of the numbered graph that prunes by descendant intervals and  *)
(* jumps over chains (RangePrefilterReachability).  The order in which a hash *)
(* map yields an event's children is not fixed, so it is a free choice here.  *)
EXTENDS Integers, Sequences, FiniteSets, FiniteSetsExt, SequencesExt

CONSTANTS Ids,          \* the event ids a caller may name, ordered as numbers
          Graphs,       \* auth graphs: functions from events to lists of parents
          Queries,      \* records [seeds, candidates] of lists of ids
          LongSegment,  \* 4 in the code: the length at which a chain pays off
          JumpFactor,   \* 20: how selective a query must be for segment jumps
          SelectFactor, \* 50: how selective a query must be for range pruning
          NarrowFactor  \* 4: how narrow the candidates' span must be

VARIABLES graph,    \* the events and, for each, its auth_events
          degree,   \* collect_topology's in-degrees, counted down
          queue,    \* the queue of the topological walk
          head,     \* how much of it has been taken
          index,    \* DenseIndex: the items in index order (empty: not built)
          cyclic,   \* cyclic_nodes: the indices the walk never freed
          run       \* the traversal in progress

vars == <<graph, degree, queue, head, index, cyclic, run>>

idle == [mode |-> "idle"]

-----------------------------------------------------------------------------
(* Building the snapshot.                                                     *)

\* The parents of an event that the graph holds, with their multiplicity.
parents(g, id) == SelectSeq(g[id], LAMBDA a : a \in DOMAIN g)

children(g, id) == {c \in DOMAIN g : \E i \in DOMAIN parents(g, c) : parents(g, c)[i] = id}

times(g, id, child) == Cardinality({i \in DOMAIN g[child] : g[child][i] = id})

\* Every order in which a hash map may yield the members of a set.
orders(S) == {p \in [1 .. Cardinality(S) -> S] : Range(p) = S}

ascending(S) == CHOOSE p \in orders(S) : \A i, j \in DOMAIN p : i < j => p[i] < p[j]

Init ==
  /\ graph \in Graphs
  /\ degree = [id \in DOMAIN graph |-> Len(parents(graph, id))]
  /\ queue = ascending({id \in DOMAIN graph : Len(parents(graph, id)) = 0})
  /\ head = 0
  /\ index = <<>>
  /\ cyclic = {}
  /\ run = idle

\* collect_topology takes the next event whose parents have all been taken.
CollectTopology ==
  /\ index = <<>>
  /\ head < Len(queue)
  /\ LET id == queue[head + 1]
         kids == children(graph, id)
         left == [c \in DOMAIN graph |-> degree[c] - (IF c \in kids THEN times(graph, id, c) ELSE 0)]
     IN  /\ degree' = left
         /\ \E free \in orders({c \in kids : left[c] = 0}) : queue' = queue \o free
  /\ head' = head + 1
  /\ UNCHANGED <<graph, index, cyclic, run>>

\* What was never freed is on a cycle or below one: it is numbered last.
Build ==
  /\ index = <<>>
  /\ head = Len(queue)
  /\ LET leftover == {id \in DOMAIN graph : degree[id] # 0}
     IN  /\ index' = queue \o ascending(leftover)
         /\ cyclic' = {Len(queue) + k : k \in 1 .. Cardinality(leftover)}
  /\ UNCHANGED <<graph, degree, queue, head, run>>

-----------------------------------------------------------------------------
(* The numbered graph.  Indices count from 1 (the code's from 0).             *)

nodes == DOMAIN index

index_of(id) == {i \in nodes : index[i] = id}

children_by_index == [i \in nodes |-> {c \in nodes : index[c] \in children(graph, index[i])}]

in_degree_by_index == [i \in nodes |-> Len(parents(graph, index[i]))]

\* The length of the child list, which repeats a child cited twice.
fanout(i) == MapThenSumSet(LAMBDA c : times(graph, index[i], index[c]), children_by_index[i])

\* The closures are filled from the last index down; a child at or before its
\* parent (only a cycle has one) still has the empty bitmap it started with.
descendant_bitmaps ==
  LET below[i \in nodes] ==
        {i} \cup UNION {below[c] : c \in {k \in children_by_index[i] : k > i}}
  IN  below

\* The same walk with intervals; an unfilled one is still (0, 0).
descendant_ranges ==
  LET range[i \in nodes] ==
        LET kids == children_by_index[i]
            of(c) == IF c > i THEN range[c] ELSE <<0, 0>>
        IN  << Min({i} \cup {of(c)[1] : c \in kids}), Max({i} \cup {of(c)[2] : c \in kids}) >>
  IN  range

\* A chain goes on while each node has one parent and one child and the child
\* has one parent and no segment yet.
RECURSIVE chain(_, _)
chain(sofar, taken) ==
  LET current == Last(sofar)
      next == {n \in children_by_index[current] :
                 /\ in_degree_by_index[current] = 1
                 /\ fanout(current) = 1
                 /\ in_degree_by_index[n] = 1
                 /\ n \notin taken \cup Range(sofar)}
  IN  IF next = {} THEN sofar ELSE chain(Append(sofar, Min(next)), taken)

\* build_segments: every node belongs to one chain, taken in index order.
RECURSIVE build_segments(_, _)
build_segments(i, done) ==
  LET taken == UNION {Range(s) : s \in Range(done)}
  IN  CASE i > Len(index) -> done
        [] i \in taken -> build_segments(i + 1, done)
        [] OTHER -> build_segments(i + 1, Append(done, chain(<<i>>, taken)))

should_jump(segments) ==
  LET long == {k \in DOMAIN segments : Len(segments[k]) >= LongSegment}
  IN  /\ long # {}
      /\ 2 * MapThenSumSet(LAMBDA k : Len(segments[k]), long) >= Len(index)

-----------------------------------------------------------------------------
(* One-pair questions.                                                        *)

\* reaches_index: a breadth-first search that skips a child beyond the target
\* or whose interval misses it.
RECURSIVE reached_by(_, _, _)
reached_by(frontier, visited, to) ==
  LET kids == UNION {children_by_index[i] : i \in frontier}
      next == {c \in kids \ visited :
                 /\ c <= to
                 /\ descendant_ranges[c][1] <= to
                 /\ to <= descendant_ranges[c][2]}
  IN  \/ to \in kids
      \/ next # {} /\ reached_by(next, visited \cup next, to)

reaches_index(from, to) ==
  \/ from = to
  \/ /\ descendant_ranges[from][1] <= to
     /\ to <= descendant_ranges[from][2]
     /\ reached_by({from}, {from}, to)

\* reach_from_index, for the bitmap index ("forward") and the range index.
reach_from_index(kind, from, to) ==
  CASE kind = "forward" /\ from = to -> "yes"
    [] {from, to} \cap cyclic # {} -> "unknown"
    [] kind = "forward" -> IF to \in descendant_bitmaps[from] THEN "yes" ELSE "no"
    [] OTHER -> IF reaches_index(from, to) THEN "yes" ELSE "no"

reaches(kind, from, to) ==
  IF index_of(from) = {} \/ index_of(to) = {} THEN "unknown"
  ELSE reach_from_index(kind, Min(index_of(from)), Min(index_of(to)))

\* The trait's batch filter: the positions some seed surely reaches.
filter_by_reaches(kind, seeds, candidates) ==
  {p \in DOMAIN candidates : \E s \in Range(seeds) : reaches(kind, s, candidates[p]) = "yes"}

\* ForwardReachabilityIndex::filter_reachable: the union of the seeds' bitmaps.
filter_by_bitmaps(seeds, candidates) ==
  LET reachable == UNION {descendant_bitmaps[i] : i \in UNION {index_of(s) : s \in Range(seeds)}}
  IN  {p \in DOMAIN candidates : index_of(candidates[p]) \cap reachable # {}}

-----------------------------------------------------------------------------
(* RangePrefilterReachability::filter_reachable_with_mode.                    *)

\* collect_candidates: the positions a node occupies in the candidate list.
positions_at(q, i) == {p \in DOMAIN q.candidates : q.candidates[p] = index[i]}

candidate_set(q) == {i \in nodes : positions_at(q, i) # {}}

known_positions(q) == UNION {positions_at(q, i) : i \in nodes}

span(q) == Max(candidate_set(q)) - Min(candidate_set(q)) + 1

select_traversal_mode(q, segments) ==
  LET unique == Cardinality(candidate_set(q))
      narrow == span(q) * NarrowFactor <= Len(index)
      broad == span(q) * 2 > Len(index)
  IN  CASE known_positions(q) = {} \/ cyclic # {} -> "plain"
        [] should_jump(segments) /\ unique * JumpFactor <= Len(index) /\ narrow -> "jumps"
        [] unique * SelectFactor <= Len(index) /\ narrow /\ ~broad -> "range"
        [] OTHER -> "plain"

\* seed_queue: the known seeds, each once.
RECURSIVE seed_queue(_)
seed_queue(seeds) ==
  IF seeds = <<>> THEN <<>>
  ELSE LET before == seed_queue(Front(seeds))
           known == index_of(Last(seeds)) \ Range(before)
       IN  IF known = {} THEN before ELSE Append(before, Min(known))

started(q, mode, segments) ==
  LET first == seed_queue(q.seeds)
  IN  [ mode |-> mode, query |-> q, segments |-> segments, queue |-> first,
        reachable |-> Range(first), results |-> {}, remaining |-> candidate_set(q),
        covered |-> [k \in DOMAIN segments |-> 0], expanded |-> {} ]

\* With no known candidate there is nothing to search: no position is returned.
FilterReachable ==
  /\ index # <<>>
  /\ run = idle
  /\ \E q \in Queries :
       \E segments \in {build_segments(1, <<>>)} :
         \E r \in {started(q, select_traversal_mode(q, segments), segments)} :
           run' = IF known_positions(q) = {} THEN [r EXCEPT !.queue = <<>>] ELSE r
  /\ UNCHANGED <<graph, degree, queue, head, index, cyclic>>

\* forward_reachable_ids: the same search with no candidates and no early end.
ForwardReachableIds ==
  /\ index # <<>>
  /\ run = idle
  /\ \E q \in Queries : run' = started(q, "ids", <<>>)
  /\ UNCHANGED <<graph, degree, queue, head, index, cyclic>>

\* The children a visit enqueues: those not yet reached and, when pruning, those
\* whose interval still holds a wanted candidate.
enqueued(r, parent) ==
  {c \in children_by_index[parent] \ r.reachable :
     r.mode \in {"range", "jumps"} =>
       \E w \in r.remaining : descendant_ranges[c][1] <= w /\ w <= descendant_ranges[c][2]}

all_found(r) == r.mode # "ids" /\ r.results = known_positions(r.query)

enqueueing(r, parent) ==
  {[r EXCEPT !.queue = @ \o new, !.reachable = @ \cup Range(new)] : new \in orders(enqueued(r, parent))}

\* One turn of filter_reachable_with_candidates (or of forward_reachable_ids).
Visit ==
  /\ run.mode \in {"plain", "range", "ids"}
  /\ run.queue # <<>>
  /\ \E found \in {[run EXCEPT !.queue = Tail(@),
                               !.results = @ \cup positions_at(run.query, Head(run.queue)),
                               !.remaining = @ \ {Head(run.queue)}]} :
       \E next \in IF all_found(found) THEN {[found EXCEPT !.queue = <<>>]}
                   ELSE enqueueing(found, Head(run.queue)) :
         run' = next
  /\ UNCHANGED <<graph, degree, queue, head, index, cyclic>>

segment_of(r, i) == CHOOSE k \in DOMAIN r.segments : i \in Range(r.segments[k])

offset_in(s, i) == CHOOSE k \in DOMAIN s : s[k] = i

\* A mutant: the node itself is expanded instead of the segment's tail.
jumped_in_place(r, k, start) ==
  LET s == r.segments[k]
      hit == {s[o] : o \in start .. Len(s)}
      found == [r EXCEPT !.covered[k] = start, !.expanded = @ \cup {k},
                         !.results = @ \cup UNION {positions_at(r.query, i) : i \in hit},
                         !.remaining = @ \ hit]
  IN  IF k \in r.expanded THEN {found} ELSE enqueueing(found, s[start])

\* A jump marks the candidates of the segment from the node on, once, and
\* expands the segment's tail the first time the segment is met.
jumped(r, k, start) ==
  LET s == r.segments[k]
      hit == {s[o] : o \in start .. Len(s)}
      found == [r EXCEPT !.covered[k] = start,
                         !.results = @ \cup UNION {positions_at(r.query, i) : i \in hit},
                         !.remaining = @ \ hit]
  IN  CASE all_found(found) -> {[found EXCEPT !.queue = <<>>]}
        [] k \in r.expanded -> {found}
        [] OTHER -> enqueueing([found EXCEPT !.expanded = @ \cup {k}], Last(s))

\* One turn of filter_reachable_segment_jumps; a segment already covered from
\* this node or an earlier one is passed over.
Jump ==
  /\ run.mode = "jumps"
  /\ run.queue # <<>>
  /\ \E k \in {segment_of(run, Head(run.queue))} :
       \E start \in {offset_in(run.segments[k], Head(run.queue))} :
         \E popped \in {[run EXCEPT !.queue = Tail(@)]} :
           \E next \in IF run.covered[k] # 0 /\ start >= run.covered[k] THEN {popped}
                       ELSE jumped(popped, k, start) :
             run' = next
  /\ UNCHANGED <<graph, degree, queue, head, index, cyclic>>

\* The answer has been returned; the same snapshot takes no further question.
Answered ==
  /\ run # idle
  /\ run.queue = <<>>
  /\ UNCHANGED vars

Next ==
  \/ CollectTopology
  \/ Build
  \/ FilterReachable
  \/ ForwardReachableIds
  \/ Visit
  \/ Jump
  \/ Answered

Spec == Init /\ [][Next]_vars

-----------------------------------------------------------------------------
(* What the accelerators promise, stated with the plain graph.                *)

\* The events below an event of the graph, itself included.
RECURSIVE descendants(_, _)
descendants(g, S) ==
  LET more == S \cup UNION {children(g, id) : id \in S}
  IN  IF more = S THEN S ELSE descendants(g, more)

reachable_from(seeds) == descendants(graph, Range(seeds) \cap DOMAIN graph)

wanted(q) == {p \in DOMAIN q.candidates : q.candidates[p] \in reachable_from(q.seeds)}

on_or_below_a_cycle == {id \in DOMAIN graph : \E a \in DOMAIN graph :
                          /\ id \in descendants(graph, {a})
                          /\ \E c \in children(graph, a) : a \in descendants(graph, {c})}

\* Both indices keep the trait's contract ("Reach::Yes and Reach::No are hard
\* answers"): a yes is a path, a no is the absence of one, and the slow path is
\* asked only about events that are unknown or on or below a cycle.
AnswersAreHard ==
  index # <<>> /\ run = idle =>
    \A from, to \in Ids : \A kind \in {"forward", "range"} :
      LET known == {from, to} \subseteq DOMAIN graph
      IN  CASE reaches(kind, from, to) = "yes" -> known /\ to \in descendants(graph, {from})
            [] reaches(kind, from, to) = "no" -> known /\ to \notin descendants(graph, {from})
            [] OTHER -> ~known \/ {from, to} \cap on_or_below_a_cycle # {}

\* The batch filters built on those answers keep only real descendants, and on a
\* graph without cycles they keep all of them.
FiltersAreSound ==
  index # <<>> /\ run = idle =>
    \A q \in Queries :
      \A hits \in {filter_by_bitmaps(q.seeds, q.candidates)}
                  \cup {filter_by_reaches(k, q.seeds, q.candidates) : k \in {"forward", "range"}} :
        /\ hits \subseteq wanted(q)
        /\ cyclic = {} => hits = wanted(q)

\* Whatever traversal the chooser picks, a finished search returns exactly the
\* candidate positions below a seed: pruning by intervals, jumping over chains and
\* stopping early lose nothing, on graphs with cycles too.
HitsAreExact ==
  run # idle /\ run.queue = <<>> =>
    IF run.mode = "ids" THEN {index[i] : i \in run.reachable} = reachable_from(run.query.seeds)
    ELSE run.results = wanted(run.query)

\* While a search runs, a wanted candidate not found yet is still within reach of
\* the queue: no node is marked reached and then dropped with work left below it.
NothingWantedIsLost ==
  run # idle /\ run.queue # <<>> /\ run.mode # "ids" =>
    wanted(run.query) \ run.results
      \subseteq {p \in DOMAIN run.query.candidates :
                   run.query.candidates[p] \in descendants(graph, {index[i] : i \in Range(run.queue)})}

\* The numbering the pruning rests on: outside cycles every child is numbered
\* after its parents, and every event has exactly one number.
NumberingIsTopological ==
  index # <<>> =>
    /\ Range(index) = DOMAIN graph /\ Len(index) = Cardinality(DOMAIN graph)
    /\ \A i \in nodes \ cyclic : \A a \in Range(parents(graph, index[i])) : Min(index_of(a)) < i
    /\ {index[i] : i \in cyclic} = on_or_below_a_cycle
=============================================================================

----------------------------- MODULE DepthWalks -----------------------------
(***************************************************************************)
(* The backward walks of src/state/at.rs that a heap ordered by the events'*)
(* depth drives: compute_merge_base and compute_merge_bases over           *)
(* prev_events, compute_auth_chain_diff over auth_events.                  *)
(*                                                                         *)
(* A depth is what the sender wrote on the event, and nothing makes it     *)
(* grow along the edges.  The walks are therefore run on graphs with any   *)
(* depths; find_depth_divergences, of the same file, tells the truthful    *)
(* ones from the others.                                                   *)
(*                                                                         *)
(* Ids are numbers, which the heap uses to break ties.  An id outside      *)
(* DOMAIN dag.depth is one that events cite and the map does not hold.     *)
(***************************************************************************)
EXTENDS Naturals, FiniteSets, Sequences

CONSTANTS
  MaxDepth,  \* u64::MAX
  Dags,      \* the event maps: [prev, auth : Id -> sets of ids, depth : Id -> number]
  Questions  \* [mode, tips : a sequence of ids, max_steps, agreed, conflicted : sets of ids]

VARIABLES
  dag, ask,
  heap,        \* how often each id is queued (BinaryHeap<(depth, id)>)
  masks,       \* which tips are known to reach an id, by their position
  best,        \* best_junction: the first id popped with a mask
  steps,
  u_heap, u_visited, c_visited, auth_diff,
  answer       \* <<>> while the walk runs, then a sequence of the one result

walkVars == <<dag, ask, heap, masks, best, steps, u_heap, u_visited, c_visited, auth_diff, answer>>

Held == DOMAIN dag.depth

Tips == DOMAIN ask.tips

Walking == answer = <<>>

Queued == {e \in Held : heap[e] > 0}

\* What a BinaryHeap<(u64, &Id)> pops: the greatest depth, then the greatest id.
Deepest(S) ==
  CHOOSE e \in S : \A f \in S : dag.depth[f] < dag.depth[e] \/ (dag.depth[f] = dag.depth[e] /\ f <= e)

-----------------------------------------------------------------------------
(***************************************************************************)
(* compute_merge_base and compute_merge_bases.                             *)
(***************************************************************************)

\* The loops over the extremities: each known one is queued, once per mention.
Seeds(tips) == [e \in Held |-> Cardinality({i \in DOMAIN tips : tips[i] = e})]

SeedMasks(tips) == [e \in Held |-> {i \in DOMAIN tips : tips[i] = e}]

\* Answers given without a walk.
ImmediateAnswer(question, known) ==
  CASE question.mode = "base" /\ Len(question.tips) = 0 -> <<{}>>
    [] question.mode = "base" /\ Len(question.tips) = 1 -> <<{question.tips[1]} \cap known>>
    [] question.mode = "bases" /\ Len(question.tips) < 2 -> <<{}>>
    [] OTHER -> <<>>

\* The parents whose mask grows, and only they are queued.
Grown(cur) == {p \in dag.prev[cur] \cap Held : ~(masks[cur] \subseteq masks[p])}

Propagate(cur) ==
  /\ masks' = [e \in Held |-> IF e \in Grown(cur) THEN masks[e] \cup masks[cur] ELSE masks[e]]
  /\ heap' = [e \in Held |-> heap[e] + (IF e \in Grown(cur) THEN 1 ELSE 0)
                                       - (IF e = cur THEN 1 ELSE 0)]

PopForBase ==
  /\ ask.mode = "base" /\ Walking /\ Queued # {}
  /\ LET cur == Deepest(Queued)
     IN  IF masks[cur] = Tips
         THEN answer' = <<{cur}>> /\ UNCHANGED <<heap, masks>>
         ELSE Propagate(cur) /\ UNCHANGED answer
  /\ UNCHANGED <<dag, ask, best, steps, u_heap, u_visited, c_visited, auth_diff>>

NoCommonAncestor ==
  /\ ask.mode = "base" /\ Walking /\ Queued = {}
  /\ answer' = <<{}>>
  /\ UNCHANGED <<dag, ask, heap, masks, best, steps, u_heap, u_visited, c_visited, auth_diff>>

\* The superseding pruning: a junction yields to one of more tips that is as deep.
Junctions(found) ==
  {[mask |-> m, id |-> found[m]] :
     m \in {mask \in DOMAIN found :
              ~\E wider \in DOMAIN found : /\ mask \subseteq wider /\ wider # mask
                                           /\ dag.depth[found[wider]] >= dag.depth[found[mask]]}}

best_junction(cur) ==
  IF Cardinality(masks[cur]) >= 2 /\ masks[cur] \notin DOMAIN best
  THEN [m \in DOMAIN best \cup {masks[cur]} |-> IF m \in DOMAIN best THEN best[m] ELSE cur]
  ELSE best

PopForBases ==
  /\ ask.mode = "bases" /\ Walking /\ Queued # {}
  /\ IF steps >= ask.max_steps
     THEN answer' = <<Junctions(best)>> /\ UNCHANGED <<heap, masks, best, steps>>
     ELSE LET cur == Deepest(Queued)
          IN  /\ steps' = steps + 1
              /\ best' = best_junction(cur)
              /\ IF masks[cur] = Tips
                 THEN answer' = <<Junctions(best')>> /\ UNCHANGED <<heap, masks>>
                 ELSE Propagate(cur) /\ UNCHANGED answer
  /\ UNCHANGED <<dag, ask, u_heap, u_visited, c_visited, auth_diff>>

BasesExhausted ==
  /\ ask.mode = "bases" /\ Walking /\ Queued = {}
  /\ answer' = <<Junctions(best)>>
  /\ UNCHANGED <<dag, ask, heap, masks, best, steps, u_heap, u_visited, c_visited, auth_diff>>

-----------------------------------------------------------------------------
(***************************************************************************)
(* compute_auth_chain_diff: the heap of the conflicted side is `heap'.     *)
(***************************************************************************)
Once(S) == [e \in Held |-> IF e \in S THEN 1 ELSE 0]

Running == ask.mode = "diff" /\ Walking /\ Queued # {}

\* The agreed side is behind: it has an event at least as deep as the next conflicted one.
Behind == \E u \in u_heap : dag.depth[u] >= dag.depth[Deepest(Queued)]

CatchUp ==
  /\ Running /\ Behind
  /\ LET u == Deepest(u_heap)
         met == dag.auth[u] \ u_visited
     IN  /\ u_visited' = u_visited \cup met
         /\ u_heap' = (u_heap \ {u}) \cup (met \cap Held)
  /\ UNCHANGED <<dag, ask, heap, masks, best, steps, c_visited, auth_diff, answer>>

\* A plausible mistake: the agreed side is not asked before an event is taken.
pop_unchecked ==
  /\ Running /\ ~Behind
  /\ LET c == Deepest(Queued)
         met == IF c \in u_visited THEN {} ELSE dag.auth[c] \ (u_visited \cup c_visited)
     IN  /\ auth_diff' = auth_diff \cup {c}
         /\ c_visited' = c_visited \cup met
         /\ heap' = Once((Queued \ {c}) \cup (met \cap Held))
  /\ UNCHANGED <<dag, ask, masks, best, steps, u_heap, u_visited, answer>>

PopConflicted ==
  /\ Running /\ ~Behind
  /\ LET c == Deepest(Queued)
         met == IF c \in u_visited THEN {} ELSE dag.auth[c] \ (u_visited \cup c_visited)
     IN  /\ auth_diff' = auth_diff \cup ({c} \ u_visited)
         /\ c_visited' = c_visited \cup met
         /\ heap' = Once((Queued \ {c}) \cup (met \cap Held))
  /\ UNCHANGED <<dag, ask, masks, best, steps, u_heap, u_visited, answer>>

DiffDone ==
  /\ ask.mode = "diff" /\ Walking /\ Queued = {}
  /\ answer' = <<auth_diff>>
  /\ UNCHANGED <<dag, ask, heap, masks, best, steps, u_heap, u_visited, c_visited, auth_diff>>

Init ==
  /\ dag \in Dags
  /\ ask \in Questions
  /\ best = <<>> /\ steps = 0 /\ auth_diff = {}
  /\ IF ask.mode = "diff"
     THEN /\ masks = [e \in Held |-> {}]
          /\ u_visited = ask.agreed /\ u_heap = ask.agreed \cap Held
          /\ c_visited = ask.conflicted \ ask.agreed
          /\ heap = Once((ask.conflicted \ ask.agreed) \cap Held)
     ELSE /\ masks = SeedMasks(ask.tips) /\ heap = Seeds(ask.tips)
          /\ u_visited = {} /\ u_heap = {} /\ c_visited = {}
  /\ answer = ImmediateAnswer(ask, Held)

Answered == ~Walking /\ UNCHANGED walkVars

Next ==
  \/ PopForBase \/ NoCommonAncestor
  \/ PopForBases \/ BasesExhausted
  \/ CatchUp \/ PopConflicted \/ DiffDone
  \/ Answered

Spec == Init /\ [][Next]_walkVars

-----------------------------------------------------------------------------
(***************************************************************************)
(* find_depth_divergences: an edge of the map whose child is not deeper    *)
(* than its parent, unless both have the greatest depth there is.          *)
(***************************************************************************)
find_depth_divergences ==
  {<<p, e>> \in Held \X Held :
     /\ p \in dag.prev[e]
     /\ ~(dag.depth[p] = MaxDepth /\ dag.depth[e] = MaxDepth)
     /\ dag.depth[e] <= dag.depth[p]}

RECURSIVE Above(_, _)
Above(edges, S) ==
  LET more == S \cup UNION {edges[e] \cap Held : e \in S}
  IN  IF more = S THEN S ELSE Above(edges, more)

CommonAncestors ==
  {e \in Held : \A i \in Tips : ask.tips[i] \in Held /\ e \in Above(dag.prev, {ask.tips[i]})}

Reachers(e) == {i \in Tips : ask.tips[i] \in Held /\ e \in Above(dag.prev, {ask.tips[i]})}

Truthful == find_depth_divergences = {} /\ ~\E e \in Held : \E p \in dag.prev[e] \cap Held :
                                              dag.depth[p] = MaxDepth /\ dag.depth[e] = MaxDepth

TruthfulAuth == \A e \in Held : \A a \in dag.auth[e] \cap Held : dag.depth[a] < dag.depth[e]

\* compute_merge_base: whatever depths the events claim, the answer is a common
\* ancestor of all the tips and there is none only if they have none; on a map without
\* depth divergences it is the latest one.
MergeBaseIsCommon ==
  ask.mode = "base" /\ ~Walking /\ Len(ask.tips) > 0 =>
    /\ answer[1] \subseteq CommonAncestors
    /\ answer[1] = {} => CommonAncestors = {}
    /\ Truthful => answer[1] = (IF CommonAncestors = {} THEN {} ELSE {Deepest(CommonAncestors)})

\* compute_merge_bases: a junction is reached by the tips of its mask, at least two of
\* them.  On a map without depth divergences the mask is exact, and when the step
\* budget sufficed every event that two tips share is below a junction of at least its
\* tips that is at least as deep.
JunctionsAreMinimal ==
  ask.mode = "bases" /\ ~Walking =>
    /\ \A j \in answer[1] : Cardinality(j.mask) >= 2 /\ j.mask \subseteq Reachers(j.id)
    /\ \A j, k \in answer[1] : j.mask \subseteq k.mask /\ j # k => dag.depth[k.id] < dag.depth[j.id]
    /\ Truthful =>
         /\ \A j \in answer[1] : j.mask = Reachers(j.id)
         /\ steps < ask.max_steps /\ Len(ask.tips) >= 2 =>
              \A e \in Held : Cardinality(Reachers(e)) >= 2 =>
                \E j \in answer[1] : Reachers(e) \subseteq j.mask /\ dag.depth[j.id] >= dag.depth[e]

\* compute_auth_chain_diff: no event that only the conflicted side reaches is left
\* out, whatever depths are claimed; where depths grow along auth_events nothing
\* that the agreed state reaches is let in.
AuthDiffMissesNothing ==
  ask.mode = "diff" /\ ~Walking =>
    LET theirs == Above(dag.auth, ask.conflicted \cap Held)
        exact == theirs \ Above(dag.auth, ask.agreed \cap Held)
    IN  /\ exact \subseteq answer[1] /\ answer[1] \subseteq theirs
        /\ TruthfulAuth => answer[1] = exact
=============================================================================

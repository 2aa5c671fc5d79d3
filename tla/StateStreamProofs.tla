------------------------- MODULE StateStreamProofs -------------------------
(***************************************************************************)
(* Proofs about StateStream for every event map, every list of targets and *)
(* every resolution function: the walk reads the states of all parents of  *)
(* every event, and retains exactly the live frontier.                     *)
(***************************************************************************)
EXTENDS StateStream, FiniteSetTheorems, WellFoundedInduction, TLAPS

Ordered == {sorted_ancestors[i] : i \in DOMAIN sorted_ancestors}

(* Nothing has been ordered or computed while ancestors are collected.     *)
CollectInv ==
    phase = "collect" =>
        /\ sorted_ancestors = << >>
        /\ pos = 0
        /\ state_after_map = [e \in Events |-> None]

(* Kahn's order so far lists distinct indexed events, every parent first.  *)
OrderInv ==
    /\ \A i \in DOMAIN sorted_ancestors : sorted_ancestors[i] \in index
    /\ \A i, j \in DOMAIN sorted_ancestors :
           sorted_ancestors[i] = sorted_ancestors[j] => i = j
    /\ \A i \in DOMAIN sorted_ancestors : \A p \in Parents(sorted_ancestors[i]) :
           \E j \in 1 .. (i - 1) : sorted_ancestors[j] = p

(* What Kahn's counters and queue say about the events not ordered yet.    *)
KahnInv ==
    phase = "sort" =>
        /\ \A e \in index : in_degree[e] = Cardinality(Parents(e) \ Ordered)
        /\ topo_queue = {e \in index : e \notin Ordered /\ Parents(e) \subseteq Ordered}

(* The loop starts after the order is complete.                            *)
CursorInv == phase \in {"collect", "sort"} => pos = 0

(* out_degree counts the children that have not been processed.            *)
DegreeInv ==
    phase \in {"sort", "run"} =>
        \A p \in index : out_degree[p] = Cardinality(Children(p) \ Processed)

ComputedInv == \A e \in Processed : computed[e] \in Tracked

IInv ==
    /\ TypeOK
    /\ CollectInv
    /\ OrderInv
    /\ KahnInv
    /\ CursorInv
    /\ DegreeInv
    /\ ComputedInv
    /\ LiveFrontier
    /\ StateFromAllParents

----------------------------------------------------------------------------
(* Types of the operators on tracked states.                               *)

LEMMA InputType ==
    ASSUME TypeOK
    PROVE  /\ input \in Input
           /\ input.prev \in [Events -> Seq(Ids)]
           /\ input.state_key \in [Events -> Keys \cup {None}]
  BY InputsAssumption DEF TypeOK, Input

LEMMA NewTrackedType == NewTracked \in Tracked
  BY DEF NewTracked, Tracked, EmptyState, EmptyHash, State, LtHash

LEMMA HashInsertType ==
    ASSUME NEW h \in LtHash, NEW k \in Keys, NEW id \in Events \cup {None}
    PROVE  HashInsert(h, k, id) \in LtHash
  BY DEF HashInsert, LtHash

LEMMA HashRemoveType ==
    ASSUME NEW h \in LtHash, NEW k \in Keys, NEW id \in Events \cup {None}
    PROVE  HashRemove(h, k, id) \in LtHash
  BY DEF HashRemove, LtHash

LEMMA HashDiffType ==
    ASSUME NEW h \in LtHash, NEW from \in State, NEW to \in State
    PROVE  HashDiff(h, from, to) \in LtHash
  BY DEF HashDiff, LtHash

LEMMA TrackedInsertType ==
    ASSUME NEW t \in Tracked, NEW k \in Keys, NEW id \in Events
    PROVE  TrackedInsert(t, k, id) \in Tracked
  <1>1. t.state \in State /\ t.hash \in LtHash
    BY DEF Tracked
  <1>2. t.state[k] \in Events \cup {None}
    BY <1>1 DEF State
  <1>3. [t.state EXCEPT ![k] = id] \in State
    BY <1>1 DEF State
  <1>4. HashRemove(t.hash, k, t.state[k]) \in LtHash
    BY <1>1, <1>2, HashRemoveType
  <1>5. HashInsert(HashRemove(t.hash, k, t.state[k]), k, id) \in LtHash
    BY <1>4, HashInsertType
  <1> QED
    BY <1>3, <1>5 DEF TrackedInsert, Tracked

LEMMA RecordOwnStateType ==
    ASSUME TypeOK, NEW t \in Tracked, NEW e \in Events
    PROVE  record_own_state(t, e) \in Tracked
  <1>1. CASE accepted_state_key(e) = None
    BY <1>1 DEF record_own_state
  <1>2. CASE accepted_state_key(e) # None
    <2>1. accepted_state_key(e) \in Keys
      BY <1>2, InputType DEF accepted_state_key
    <2> QED
      BY <1>2, <2>1, TrackedInsertType DEF record_own_state
  <1> QED
    BY <1>1, <1>2

(* A non-empty finite set of positions has a least element.                *)
LEMMA LowestOfIn ==
    ASSUME NEW S \in SUBSET Nat, S # {}
    PROVE  /\ LowestOf(S) \in S
           /\ \A j \in S : LowestOf(S) <= j
  <1> DEFINE Less == {ss \in Nat \X Nat : ss[1] < ss[2]}
  <1>1. IsWellFoundedOn(Less, Nat)
    BY NatLessThanWellFounded DEF OpToRel
  <1>2. PICK x \in S : \A y \in S : ~(<<y, x>> \in Less)
    BY <1>1, WFMin
  <1>3. ASSUME NEW y \in S PROVE x <= y
    <2>1. x \in Nat /\ y \in Nat
      OBVIOUS
    <2>2. <<y, x>> \notin Less
      BY <1>2
    <2>3. ~(y < x)
      BY <2>1, <2>2
    <2> QED
      BY <2>1, <2>3
  <1> QED
    BY <1>3 DEF LowestOf

LEMMA BaseType ==
    ASSUME NEW D \in SUBSET Nat, D # {}, NEW ps \in [D -> Tracked]
    PROVE  Base(ps) \in Tracked
  BY LowestOfIn DEF Base

(* What the merge of the parents' states returns is a tracked state.       *)
LEMMA MergedStateType ==
    ASSUME NEW D \in SUBSET Nat, NEW ps \in [D -> Tracked]
    PROVE  MergedState(ps) \in Tracked
  <1>1. CASE D = {}
    BY <1>1, NewTrackedType DEF MergedState
  <1>2. CASE D # {}
    <2>1. Base(ps) \in Tracked /\ Base(ps).state \in State /\ Base(ps).hash \in LtHash
      BY <1>2, BaseType DEF Tracked
    <2>2. resolve_merged_parent_states(ps) \in State
      BY <2>1 DEF resolve_merged_parent_states, State
    <2>3. HashDiff(Base(ps).hash, Base(ps).state, resolve_merged_parent_states(ps)) \in LtHash
      BY <2>1, <2>2, HashDiffType
    <2> QED
      BY <1>2, <2>2, <2>3 DEF MergedState, Tracked
  <1> QED
    BY <1>1, <1>2

(* With one parent the merge is that parent's state, so the zero-clone     *)
(* path of run_optimized and the general path agree.                       *)
LEMMA SingleParentMerge ==
    ASSUME NEW D \in SUBSET Nat, IsFiniteSet(D), Cardinality(D) = 1,
           NEW ps \in [D -> Tracked]
    PROVE  MergedState(ps).state = Base(ps).state
  <1>1. PICK x : D = {x}
    BY FS_Singleton
  <1>2. LowestOf(D) = x
    BY <1>1, LowestOfIn
  <1>3. ConflictedKeys(ps) = {}
    BY <1>1, <1>2 DEF ConflictedKeys, Base
  <1> QED
    BY <1>1, <1>3 DEF MergedState, resolve_merged_parent_states

LEMMA ParentPositionsFinite ==
    ASSUME TypeOK, NEW e \in Events
    PROVE  /\ ParentPositions(e) \in SUBSET Nat
           /\ IsFiniteSet(ParentPositions(e))
  <1>1. input.prev[e] \in Seq(Ids)
    BY InputType
  <1>2. PICK n \in Nat : DOMAIN input.prev[e] = 1 .. n
    BY <1>1
  <1>3. ParentPositions(e) \subseteq 1 .. n
    BY <1>2 DEF ParentPositions
  <1>4. IsFiniteSet(1 .. n)
    BY FS_Interval
  <1>5. IsFiniteSet(ParentPositions(e))
    BY <1>3, <1>4, FS_Subset
  <1> QED
    BY <1>3, <1>5

(* Every indexed parent has a first position, and every position kept is   *)
(* an indexed parent.                                                      *)
LEMMA PositionsAreParents ==
    ASSUME NEW e \in Events, NEW i \in ParentPositions(e)
    PROVE  input.prev[e][i] \in Parents(e)
  BY DEF ParentPositions, Parents, Cited

LEMMA FiniteIndex ==
    ASSUME TypeOK
    PROVE  /\ IsFiniteSet(index)
           /\ \A e : IsFiniteSet(Parents(e)) /\ Parents(e) \subseteq index
           /\ \A e : IsFiniteSet(Children(e)) /\ Children(e) \subseteq index
  <1>1. IsFiniteSet(index)
    BY EventsAssumption, FS_Subset DEF TypeOK
  <1>2. \A e : Parents(e) \subseteq index /\ Children(e) \subseteq index
    BY DEF Parents, Children
  <1> QED
    BY <1>1, <1>2, FS_Subset

----------------------------------------------------------------------------
LEMMA InitIInv == Init => IInv
  <1> SUFFICES ASSUME Init PROVE IInv
    OBVIOUS
  <1> USE DEF Init
  <1>1. TypeOK
    BY DEF TypeOK, ActualTargets
  <1>2. Processed = {} /\ Ordered = {}
    BY DEF Processed, Ordered
  <1>3. LiveFrontier
    BY <1>2, <1>1 DEF LiveFrontier
  <1>4. CollectInv /\ OrderInv /\ KahnInv /\ CursorInv /\ DegreeInv
    BY DEF CollectInv, OrderInv, KahnInv, CursorInv, DegreeInv
  <1> QED
    BY <1>1, <1>2, <1>3, <1>4 DEF IInv, ComputedInv, StateFromAllParents

(* The graph is fixed once input and index are.                            *)
LEMMA GraphUnchanged ==
    ASSUME UNCHANGED <<input, index>>
    PROVE  /\ \A e : Parents(e)' = Parents(e)
           /\ \A e : Children(e)' = Children(e)
           /\ \A e : ParentPositions(e)' = ParentPositions(e)
           /\ \A e, t : record_own_state(t, e)' = record_own_state(t, e)
  <1>1. \A e : Parents(e)' = Parents(e)
    BY DEF Parents, Cited
  <1>2. \A e : Children(e)' = Children(e)
    BY DEF Children, Parents, Cited
  <1>3. \A e : ParentPositions(e)' = ParentPositions(e)
    BY DEF ParentPositions, FirstCitation
  <1>4. \A e, t : record_own_state(t, e)' = record_own_state(t, e)
    BY DEF record_own_state, accepted_state_key
  <1> QED
    BY <1>1, <1>2, <1>3, <1>4

(* A step that leaves the graph, the order, the cursor and the computed    *)
(* states alone preserves what was established about them.                 *)
LEMMA StateFromAllParentsStable ==
    ASSUME StateFromAllParents, ComputedInv, OrderInv,
           UNCHANGED <<input, index, sorted_ancestors, pos, computed>>
    PROVE  StateFromAllParents' /\ ComputedInv' /\ OrderInv'
  <1>1. Processed' = Processed
    BY DEF Processed
  <1>2. \A e : ParentStates(e)' = ParentStates(e)
    BY GraphUnchanged DEF ParentStates
  <1>3. StateFromAllParents'
    <2> SUFFICES ASSUME NEW e \in Processed
                 PROVE  (computed[e].state
                            = record_own_state(MergedState(ParentStates(e)), e).state)'
      BY <1>1 DEF StateFromAllParents
    <2>1. MergedState(ParentStates(e))' = MergedState(ParentStates(e))
      BY <1>2
    <2> QED
      BY <2>1, GraphUnchanged DEF StateFromAllParents
  <1>4. ComputedInv'
    BY <1>1 DEF ComputedInv
  <1>5. OrderInv'
    BY GraphUnchanged DEF OrderInv
  <1> QED
    BY <1>3, <1>4, <1>5

LEMMA CollectAncestorStep ==
    ASSUME IInv, NEW e \in Events, CollectAncestor(e)
    PROVE  IInv'
  <1> USE DEF CollectAncestor, sortVars, runVars
  <1>1. TypeOK'
    BY DEF IInv, TypeOK, ActualTargets
  <1>2. phase' = "collect" /\ sorted_ancestors' = << >> /\ pos' = 0
    BY DEF IInv, CollectInv
  <1>3. Processed' = {}
    BY <1>2 DEF Processed
  <1>4. CollectInv' /\ OrderInv' /\ KahnInv' /\ CursorInv' /\ DegreeInv'
    BY <1>2 DEF IInv, CollectInv, OrderInv, KahnInv, CursorInv, DegreeInv
  <1>5. ComputedInv' /\ LiveFrontier' /\ StateFromAllParents'
    BY <1>2, <1>3 DEF ComputedInv, LiveFrontier, StateFromAllParents
  <1> QED
    BY <1>1, <1>4, <1>5 DEF IInv

LEMMA CountDegreesStep ==
    ASSUME IInv, CountDegrees
    PROVE  IInv'
  <1> USE DEF CountDegrees, collectVars
  <1>1. TypeOK
    BY DEF IInv
  <1>2. \A e : Cardinality(Parents(e)) \in Nat /\ Cardinality(Children(e)) \in Nat
    BY <1>1, FiniteIndex, FS_CardinalityType
  <1>3. TypeOK'
    BY <1>1, <1>2 DEF TypeOK, ActualTargets
  <1>4. sorted_ancestors' = << >> /\ pos' = 0 /\ phase' = "sort"
        /\ state_after_map' = [e \in Events |-> None]
    BY DEF IInv, CollectInv
  <1>5. Processed' = {} /\ Ordered' = {}
    BY <1>4 DEF Processed, Ordered
  <1>6. \A e : Parents(e)' = Parents(e) /\ Children(e)' = Children(e)
    BY GraphUnchanged
  <1>7. KahnInv'
    <2>1. \A e \in index : in_degree'[e] = Cardinality(Parents(e) \ {})
      BY <1>1 DEF TypeOK
    <2>2. topo_queue' = {e \in index : e \notin {} /\ Parents(e) \subseteq {}}
      OBVIOUS
    <2> QED
      BY <2>1, <2>2, <1>5, <1>6 DEF KahnInv
  <1>8. DegreeInv'
    <2>1. \A e \in index : out_degree'[e] = Cardinality(Children(e) \ {})
      BY <1>1 DEF TypeOK
    <2> QED
      BY <2>1, <1>5, <1>6 DEF DegreeInv
  <1>9. CollectInv' /\ OrderInv' /\ CursorInv'
    BY <1>4 DEF CollectInv, OrderInv, CursorInv
  <1>10. ComputedInv' /\ LiveFrontier' /\ StateFromAllParents'
    BY <1>4, <1>5 DEF ComputedInv, LiveFrontier, StateFromAllParents
  <1> QED
    BY <1>3, <1>7, <1>8, <1>9, <1>10 DEF IInv

(* Taking an event from Kahn's queue: its parents are all in the order, so  *)
(* it may follow them, and each child has one parent less to wait for.      *)
LEMMA KahnPopStep ==
    ASSUME IInv, NEW e \in Events, KahnPop(e)
    PROVE  IInv'
  <1> USE DEF KahnPop, collectVars, runVars
  <1> DEFINE n == Len(sorted_ancestors)
  <1>1. TypeOK /\ OrderInv /\ KahnInv /\ phase = "sort" /\ pos = 0
    BY DEF IInv, CursorInv
  <1>2. e \in index /\ e \notin Ordered /\ Parents(e) \subseteq Ordered
    BY <1>1 DEF KahnInv
  <1>3. /\ n \in Nat
        /\ DOMAIN sorted_ancestors = 1 .. n
        /\ DOMAIN sorted_ancestors' = 1 .. (n + 1)
        /\ \A i \in 1 .. n : sorted_ancestors'[i] = sorted_ancestors[i]
        /\ sorted_ancestors'[n + 1] = e
        /\ Len(sorted_ancestors') = n + 1
        /\ sorted_ancestors' \in Seq(Events)
    BY <1>1 DEF TypeOK
  <1>4. Ordered' = Ordered \cup {e}
    BY <1>3 DEF Ordered
  <1>5. Processed' = {} /\ Processed = {}
    BY <1>1 DEF Processed
  <1>6. \A c : Parents(c)' = Parents(c) /\ Children(c)' = Children(c)
    BY GraphUnchanged
  <1>7. \A c \in Ordered : Parents(c) \subseteq Ordered
    BY <1>1, <1>3 DEF OrderInv, Ordered
  <1>8. ASSUME NEW c \in Children(e)
        PROVE  /\ c \in index /\ c \notin Ordered /\ c # e
               /\ e \in Parents(c) \ Ordered
               /\ IsFiniteSet(Parents(c) \ Ordered)
               /\ in_degree[c] = Cardinality(Parents(c) \ Ordered)
               /\ Cardinality(Parents(c) \ Ordered') = in_degree[c] - 1
               /\ in_degree[c] \in Nat \ {0}
    <2>1. c \in index /\ e \in Parents(c) \ Ordered
      BY <1>2 DEF Children
    <2>2. c \notin Ordered /\ c # e
      BY <2>1, <1>2, <1>7
    <2>3. IsFiniteSet(Parents(c) \ Ordered)
      BY <1>1, FiniteIndex, FS_Difference
    <2>4. in_degree[c] = Cardinality(Parents(c) \ Ordered)
      BY <2>1, <1>1 DEF KahnInv
    <2>5. Parents(c) \ Ordered' = (Parents(c) \ Ordered) \ {e}
      BY <1>4
    <2>6. Cardinality(Parents(c) \ Ordered') = Cardinality(Parents(c) \ Ordered) - 1
      BY <2>1, <2>3, <2>5, FS_RemoveElement
    <2>7. Cardinality(Parents(c) \ Ordered) \in Nat
      BY <2>3, FS_CardinalityType
    <2>8. Cardinality(Parents(c) \ Ordered) # 0
      BY <2>1, <2>3, FS_EmptySet
    <2> QED
      BY <2>1, <2>2, <2>3, <2>4, <2>6, <2>7, <2>8
  <1>9. TypeOK'
    <2>1. in_degree' \in [Events -> Nat]
      <3>1. \A c \in Children(e) : in_degree[c] \in Nat \ {0}
        BY <1>8
      <3>2. \A c \in Events : in_degree'[c] \in Nat
        BY <3>1, <1>1 DEF TypeOK
      <3> QED
        BY <3>2
    <2>2. topo_queue' \subseteq index
      BY <1>8, <1>1 DEF TypeOK
    <2>3. pos' \in 0 .. Len(sorted_ancestors')
      BY <1>1, <1>3
    <2> QED
      BY <1>1, <1>3, <2>1, <2>2, <2>3 DEF TypeOK, ActualTargets
  <1>10. OrderInv'
    <2>1. \A i \in 1 .. (n + 1) : sorted_ancestors'[i] \in index
      BY <1>1, <1>2, <1>3 DEF OrderInv
    <2>2. \A i \in 1 .. n : sorted_ancestors[i] # e
      BY <1>2, <1>3 DEF Ordered
    <2>3. \A i, j \in 1 .. (n + 1) : sorted_ancestors'[i] = sorted_ancestors'[j] => i = j
      BY <1>1, <1>3, <2>2 DEF OrderInv
    <2>4. ASSUME NEW i \in 1 .. (n + 1), NEW p \in Parents(sorted_ancestors'[i])
          PROVE  \E j \in 1 .. (i - 1) : sorted_ancestors'[j] = p
      <3>1. CASE i = n + 1
        <4>1. p \in Ordered
          BY <3>1, <1>2, <1>3
        <4> QED
          BY <4>1, <3>1, <1>3 DEF Ordered
      <3>2. CASE i \in 1 .. n
        <4>1. PICK j \in 1 .. (i - 1) : sorted_ancestors[j] = p
          BY <3>2, <1>1, <1>3 DEF OrderInv
        <4> QED
          BY <4>1, <3>2, <1>3
      <3> QED
        BY <3>1, <3>2, <1>3
    <2> QED
      BY <2>1, <2>3, <2>4, <1>3, <1>6 DEF OrderInv
  <1>11. KahnInv'
    <2>1. ASSUME NEW c \in index
          PROVE  in_degree'[c] = Cardinality(Parents(c) \ Ordered')
      <3>1. c \in Events
        BY <1>1 DEF TypeOK
      <3>2. CASE c \in Children(e)
        BY <3>1, <3>2, <1>8
      <3>3. CASE c \notin Children(e)
        <4>1. Parents(c) \ Ordered' = Parents(c) \ Ordered
          BY <3>3, <1>4 DEF Children
        <4> QED
          BY <4>1, <3>1, <3>3, <1>1 DEF KahnInv
      <3> QED
        BY <3>2, <3>3
    <2>2. ASSUME NEW c \in index
          PROVE  c \in topo_queue' <=> c \notin Ordered' /\ Parents(c) \subseteq Ordered'
      <3>1. CASE c \in Children(e)
        <4>1. c \notin topo_queue
          BY <3>1, <1>8, <1>1 DEF KahnInv
        <4>2. in_degree[c] = 1 <=> Parents(c) \ Ordered' = {}
          <5>1. IsFiniteSet(Parents(c) \ Ordered')
            BY <1>1, FiniteIndex, FS_Difference
          <5>2. Cardinality(Parents(c) \ Ordered') = 0 <=> Parents(c) \ Ordered' = {}
            BY <5>1, FS_EmptySet
          <5>3. /\ in_degree[c] \in Nat \ {0}
                /\ Cardinality(Parents(c) \ Ordered') = in_degree[c] - 1
            BY <3>1, <1>8
          <5>4. in_degree[c] = 1 <=> Cardinality(Parents(c) \ Ordered') = 0
            BY <5>3
          <5> QED
            BY <5>2, <5>4
        <4> QED
          BY <4>1, <4>2, <3>1, <1>4, <1>8
      <3>2. CASE c \notin Children(e)
        BY <3>2, <1>1, <1>4 DEF KahnInv, Children
      <3> QED
        BY <3>1, <3>2
    <2>3. topo_queue' \subseteq index
      BY <1>9 DEF TypeOK
    <2> QED
      BY <2>1, <2>2, <2>3, <1>6 DEF KahnInv
  <1>12. CollectInv' /\ CursorInv' /\ DegreeInv' /\ LiveFrontier'
    BY <1>1, <1>5, <1>6 DEF IInv, CollectInv, CursorInv, DegreeInv, LiveFrontier
  <1>13. ComputedInv' /\ StateFromAllParents'
    BY <1>5 DEF ComputedInv, StateFromAllParents
  <1> QED
    BY <1>9, <1>10, <1>11, <1>12, <1>13 DEF IInv

LEMMA CheckPlanStep ==
    ASSUME IInv, CheckPlan
    PROVE  IInv'
  <1> USE DEF CheckPlan, collectVars, sortVars, runVars
  <1>1. TypeOK'
    BY DEF IInv, TypeOK, ActualTargets
  <1>2. OrderInv' /\ ComputedInv' /\ StateFromAllParents'
    BY StateFromAllParentsStable DEF IInv
  <1>3. Processed' = Processed /\ \A e : Children(e)' = Children(e)
    BY GraphUnchanged DEF Processed
  <1>4. CollectInv' /\ KahnInv' /\ CursorInv' /\ DegreeInv' /\ LiveFrontier'
    BY <1>3 DEF IInv, CollectInv, KahnInv, CursorInv, DegreeInv, LiveFrontier
  <1> QED
    BY <1>1, <1>2, <1>4 DEF IInv

LEMMA FinishStep ==
    ASSUME IInv, Finish
    PROVE  IInv'
  <1> USE DEF Finish, collectVars, sortVars, runVars
  <1>1. TypeOK'
    BY DEF IInv, TypeOK, ActualTargets
  <1>2. OrderInv' /\ ComputedInv' /\ StateFromAllParents'
    BY StateFromAllParentsStable DEF IInv
  <1>3. CollectInv' /\ KahnInv' /\ CursorInv' /\ DegreeInv' /\ LiveFrontier'
    BY DEF CollectInv, KahnInv, CursorInv, DegreeInv, LiveFrontier
  <1> QED
    BY <1>1, <1>2, <1>3 DEF IInv

(* When the loop reaches an event, all of its parents have been processed   *)
(* and, the event itself being a child that has not, all are still held.    *)
LEMMA CurrentParentsHeld ==
    ASSUME IInv, phase = "run", pos < Len(sorted_ancestors)
    PROVE  /\ Current \in index
           /\ Current \in Events
           /\ Current \notin Processed
           /\ Parents(Current) \subseteq Processed
           /\ \A p \in Parents(Current) :
                 /\ p \in Events /\ p \in index
                 /\ Current \in Children(p) \ Processed
                 /\ out_degree[p] \in Nat \ {0}
                 /\ state_after_map[p] = computed[p]
                 /\ computed[p] \in Tracked
  <1> DEFINE e == Current
  <1>1. TypeOK /\ OrderInv /\ DegreeInv /\ LiveFrontier /\ ComputedInv
    BY DEF IInv
  <1>2. /\ pos \in Nat
        /\ DOMAIN sorted_ancestors = 1 .. Len(sorted_ancestors)
        /\ Len(sorted_ancestors) \in Nat
        /\ pos + 1 \in DOMAIN sorted_ancestors
    BY <1>1 DEF TypeOK
  <1>3. e \in index /\ e \in Events
    BY <1>1, <1>2 DEF OrderInv, TypeOK, Current
  <1>4. e \notin Processed
    <2> SUFFICES ASSUME NEW i \in 1 .. pos, sorted_ancestors[i] = e PROVE FALSE
      BY DEF Processed
    <2>1. i \in DOMAIN sorted_ancestors /\ i # pos + 1
      BY <1>2
    <2> QED
      BY <2>1, <1>1, <1>2 DEF OrderInv, Current
  <1>5. ASSUME NEW p \in Parents(e) PROVE p \in Processed
    <2>1. PICK j \in 1 .. ((pos + 1) - 1) : sorted_ancestors[j] = p
      BY <1>1, <1>2 DEF OrderInv, Current
    <2>2. j \in 1 .. pos
      BY <2>1, <1>2
    <2> QED
      BY <2>1, <2>2 DEF Processed
  <1>6. ASSUME NEW p \in Parents(e)
        PROVE  /\ p \in Events /\ p \in index
               /\ e \in Children(p) \ Processed
               /\ out_degree[p] \in Nat \ {0}
               /\ state_after_map[p] = computed[p]
               /\ computed[p] \in Tracked
    <2>1. p \in index /\ p \in Events
      BY <1>1 DEF Parents, TypeOK
    <2>2. e \in Children(p) \ Processed
      BY <1>3, <1>4 DEF Children
    <2>3. IsFiniteSet(Children(p) \ Processed)
      BY <1>1, FiniteIndex, FS_Difference
    <2>4. Cardinality(Children(p) \ Processed) # 0
      BY <2>2, <2>3, FS_EmptySet
    <2>5. Cardinality(Children(p) \ Processed) \in Nat
      BY <2>3, FS_CardinalityType
    <2>6. out_degree[p] \in Nat \ {0}
      BY <2>1, <2>4, <2>5, <1>1 DEF DegreeInv
    <2>7. state_after_map[p] = computed[p] /\ computed[p] \in Tracked
      BY <2>1, <2>2, <1>1, <1>5 DEF LiveFrontier, ComputedInv
    <2> QED
      BY <2>1, <2>2, <2>6, <2>7
  <1> QED
    BY <1>3, <1>4, <1>5, <1>6

(* So what the loop reads are the states of all the parents, and what it    *)
(* stores is their merge with the event's own entry.                        *)
LEMMA CurrentState ==
    ASSUME IInv, phase = "run", pos < Len(sorted_ancestors)
    PROVE  /\ finalized_parent_states(Current) = ParentStates(Current)
           /\ StateAfter(Current, ParentStates(Current)) \in Tracked
           /\ StateAfter(Current, ParentStates(Current)).state
                = record_own_state(MergedState(ParentStates(Current)), Current).state
  <1> DEFINE e == Current
             D == ParentPositions(e)
             ps == ParentStates(e)
  <1>1. TypeOK
    BY DEF IInv
  <1>2. e \in Events
    BY CurrentParentsHeld
  <1>3. D \in SUBSET Nat /\ IsFiniteSet(D)
    BY <1>1, <1>2, ParentPositionsFinite
  <1>4. \A i \in D : input.prev[e][i] \in Parents(e)
    BY <1>2, PositionsAreParents
  <1>5. \A i \in D : /\ out_degree[input.prev[e][i]] > 0
                     /\ state_after_map[input.prev[e][i]] = computed[input.prev[e][i]]
                     /\ computed[input.prev[e][i]] \in Tracked
                     /\ state_after_map[input.prev[e][i]] # None
    BY <1>4, CurrentParentsHeld, NoneAssumption
  <1>6. ps \in [D -> Tracked]
    BY <1>5 DEF ParentStates
  <1>7. finalized_parent_states(e) = ps
    BY <1>5 DEF finalized_parent_states, ParentStates
  <1>8. MergedState(ps) \in Tracked
    BY <1>3, <1>6, MergedStateType
  <1>9. record_own_state(MergedState(ps), e) \in Tracked
    BY <1>1, <1>2, <1>8, RecordOwnStateType
  <1>10. CASE IsUnchanged(e, ps)
    <2>1. DOMAIN ps = D
      BY DEF ParentStates
    <2>2. Cardinality(D) = 1 /\ input.state_key[e] = None
      BY <1>10, <2>1 DEF IsUnchanged
    <2>3. D # {}
      <3>1. Cardinality({}) = 0
        BY FS_EmptySet
      <3> QED
        BY <3>1, <2>2
    <2>4. Base(ps) \in Tracked
      BY <2>3, <1>3, <1>6, BaseType
    <2>5. MergedState(ps).state = Base(ps).state
      BY <2>2, <1>3, <1>6, SingleParentMerge
    <2>6. record_own_state(MergedState(ps), e) = MergedState(ps)
      <3>1. accepted_state_key(e) = None
        BY <2>2 DEF accepted_state_key
      <3> QED
        BY <3>1 DEF record_own_state
    <2> QED
      BY <1>7, <1>10, <2>4, <2>5, <2>6 DEF StateAfter
  <1>11. CASE ~IsUnchanged(e, ps)
    BY <1>7, <1>9, <1>11 DEF StateAfter
  <1> QED
    BY <1>10, <1>11

LEMMA ProcessEventStep ==
    ASSUME IInv, ProcessEvent
    PROVE  IInv'
  <1> DEFINE e == Current
             t == StateAfter(e, ParentStates(e))
  <1>1. TypeOK /\ OrderInv /\ DegreeInv /\ LiveFrontier /\ ComputedInv
        /\ StateFromAllParents
    BY DEF IInv
  <1>2. /\ phase = "run" /\ phase' = "run"
        /\ pos < Len(sorted_ancestors)
        /\ pos' = pos + 1
        /\ UNCHANGED <<input, result, index, queue, in_degree, topo_queue, sorted_ancestors>>
    BY DEF ProcessEvent, collectVars, sortVars
  <1>3. /\ e \in index /\ e \in Events /\ e \notin Processed
        /\ Parents(e) \subseteq Processed
    BY <1>2, CurrentParentsHeld
  <1>4. \A p \in Parents(e) :
            /\ p \in Events /\ p \in index
            /\ e \in Children(p) \ Processed
            /\ out_degree[p] \in Nat \ {0}
            /\ state_after_map[p] = computed[p]
    BY <1>2, CurrentParentsHeld
  <1>5. /\ finalized_parent_states(e) = ParentStates(e)
        /\ t \in Tracked
        /\ t.state = record_own_state(MergedState(ParentStates(e)), e).state
    BY <1>2, CurrentState
  <1>6. /\ out_degree' = OutDegreeAfter(e)
        /\ state_after_map' = IF OutDegreeAfter(e)[e] > 0
                              THEN [StatesAfterTaking(e) EXCEPT ![e] = t]
                              ELSE StatesAfterTaking(e)
        /\ computed' = [computed EXCEPT ![e] = t]
    BY <1>5 DEF ProcessEvent, retain_state_for_children
  <1>7. Processed' = Processed \cup {e}
    <2>1. pos \in Nat /\ 1 .. (pos + 1) = (1 .. pos) \cup {pos + 1}
      BY <1>1 DEF TypeOK
    <2> QED
      BY <2>1, <1>2 DEF Processed, Current
  <1>8. \A q : Parents(q)' = Parents(q) /\ Children(q)' = Children(q)
               /\ ParentPositions(q)' = ParentPositions(q)
    BY <1>2, GraphUnchanged
  <1>9. e \notin Parents(e) /\ e \notin Children(e)
    BY <1>3 DEF Children
  <1>10. OutDegreeAfter(e) \in [Events -> Nat] /\ StatesAfterTaking(e) \in [Events -> Tracked \cup {None}]
    BY <1>1 DEF OutDegreeAfter, StatesAfterTaking, TypeOK
  <1>11. TypeOK'
    <2>1. state_after_map' \in [Events -> Tracked \cup {None}]
      BY <1>3, <1>5, <1>6, <1>10
    <2>2. computed' \in [Events -> Tracked \cup {None}]
      BY <1>1, <1>3, <1>5, <1>6 DEF TypeOK
    <2>3. pos' \in 0 .. Len(sorted_ancestors')
      BY <1>1, <1>2 DEF TypeOK
    <2>4. \A u \in emitted' : u.id \in ActualTargets' /\ u.value \in Tracked
      <3>1. Update(e, ParentStates(e)).id = e /\ Update(e, ParentStates(e)).value = t
        BY DEF Update, StateAfter
      <3>2. emitted' = IF e \in input.targets THEN emitted \cup {Update(e, ParentStates(e))}
                                              ELSE emitted
        BY <1>5 DEF ProcessEvent
      <3>3. ActualTargets' = ActualTargets
        BY <1>2 DEF ActualTargets
      <3>4. CASE e \in input.targets
        <4>1. e \in ActualTargets
          BY <3>4, <1>3 DEF ActualTargets
        <4>2. \A u \in emitted : u.id \in ActualTargets /\ u.value \in Tracked
          BY <1>1 DEF TypeOK
        <4> QED
          BY <3>1, <3>2, <3>3, <3>4, <4>1, <4>2, <1>5
      <3>5. CASE e \notin input.targets
        BY <3>2, <3>3, <3>5, <1>1 DEF TypeOK
      <3> QED
        BY <3>4, <3>5
    <2> QED
      BY <1>1, <1>2, <1>6, <1>10, <2>1, <2>2, <2>3, <2>4 DEF TypeOK
  <1>12. OrderInv'
    BY <1>1, <1>2, <1>8 DEF OrderInv
  <1>13. CollectInv' /\ KahnInv' /\ CursorInv'
    BY <1>2 DEF CollectInv, KahnInv, CursorInv
  <1>14. ASSUME NEW p \in Parents(e)
         PROVE  /\ IsFiniteSet(Children(p) \ Processed')
                /\ Cardinality(Children(p) \ Processed') = out_degree[p] - 1
    <2>1. IsFiniteSet(Children(p) \ Processed)
      BY <1>1, FiniteIndex, FS_Difference
    <2>2. Children(p) \ Processed' = (Children(p) \ Processed) \ {e}
      BY <1>7
    <2>3. /\ IsFiniteSet(Children(p) \ Processed')
          /\ Cardinality(Children(p) \ Processed') = Cardinality(Children(p) \ Processed) - 1
      BY <1>4, <2>1, <2>2, FS_RemoveElement
    <2> QED
      BY <2>3, <1>1, <1>2, <1>4 DEF DegreeInv
  <1>15. ASSUME NEW q \in Events, q \notin Parents(e)
         PROVE  Children(q) \ Processed' = Children(q) \ Processed
    BY <1>7, <1>15 DEF Children
  <1>16. DegreeInv'
    <2> SUFFICES ASSUME NEW p \in index
                 PROVE  out_degree'[p] = Cardinality(Children(p) \ Processed')
      BY <1>2, <1>8 DEF DegreeInv
    <2>1. p \in Events
      BY <1>1 DEF TypeOK
    <2>2. CASE p \in Parents(e)
      <3>1. Cardinality(Children(p) \ Processed') = out_degree[p] - 1
        BY <2>2, <1>14
      <3>2. out_degree[p] > 0
        BY <2>2, <1>4
      <3> QED
        BY <3>1, <3>2, <2>1, <2>2, <1>6 DEF OutDegreeAfter
    <2>3. CASE p \notin Parents(e)
      BY <2>1, <2>3, <1>1, <1>2, <1>6, <1>15 DEF OutDegreeAfter, DegreeInv
    <2> QED
      BY <2>2, <2>3
  <1>17. LiveFrontier'
    <2> SUFFICES ASSUME NEW q \in Events
                 PROVE  state_after_map'[q] =
                            IF q \in Processed' /\ Children(q) \ Processed' # {}
                            THEN computed'[q] ELSE None
      BY <1>8 DEF LiveFrontier
    <2>1. state_after_map[q] = IF q \in Processed /\ Children(q) \ Processed # {}
                               THEN computed[q] ELSE None
      BY <1>1, <1>2 DEF LiveFrontier
    <2>2. CASE q = e
      <3>1. Children(e) \ Processed' = Children(e) \ Processed
        BY <1>3, <1>9, <1>15
      <3>2. OutDegreeAfter(e)[e] = Cardinality(Children(e) \ Processed)
        BY <1>1, <1>2, <1>3, <1>9 DEF OutDegreeAfter, DegreeInv
      <3>3. IsFiniteSet(Children(e) \ Processed)
        BY <1>1, FiniteIndex, FS_Difference
      <3>4. OutDegreeAfter(e)[e] \in Nat
        BY <1>3, <1>10
      <3>5. OutDegreeAfter(e)[e] > 0 <=> Children(e) \ Processed' # {}
        BY <3>1, <3>2, <3>3, <3>4, FS_EmptySet
      <3>6. state_after_map'[e] = IF OutDegreeAfter(e)[e] > 0 THEN t ELSE None
        BY <1>3, <1>6, <1>9, <1>10, <2>1, <2>2 DEF StatesAfterTaking
      <3>7. computed'[e] = t /\ e \in Processed'
        BY <1>1, <1>3, <1>6, <1>7 DEF TypeOK
      <3> QED
        BY <2>2, <3>5, <3>6, <3>7
    <2>3. CASE q # e /\ q \in Parents(e)
      <3>1. state_after_map'[q] = IF out_degree[q] = 1 THEN None ELSE computed[q]
        BY <2>3, <1>4, <1>6, <1>10 DEF StatesAfterTaking
      <3>2. Children(q) \ Processed' # {} <=> out_degree[q] # 1
        <4>1. Cardinality(Children(q) \ Processed') = 0 <=> Children(q) \ Processed' = {}
          BY <2>3, <1>14, FS_EmptySet
        <4>2. out_degree[q] \in Nat /\ Cardinality(Children(q) \ Processed') = out_degree[q] - 1
          BY <2>3, <1>4, <1>14
        <4>3. Cardinality(Children(q) \ Processed') = 0 <=> out_degree[q] = 1
          BY <4>2
        <4> QED
          BY <4>1, <4>3
      <3>3. computed'[q] = computed[q] /\ q \in Processed'
        BY <2>3, <1>1, <1>3, <1>6, <1>7 DEF TypeOK
      <3> QED
        BY <3>1, <3>2, <3>3
    <2>4. CASE q # e /\ q \notin Parents(e)
      <3>1. state_after_map'[q] = state_after_map[q]
        BY <2>4, <1>6, <1>10 DEF StatesAfterTaking
      <3>2. computed'[q] = computed[q]
        BY <2>4, <1>1, <1>6 DEF TypeOK
      <3>3. (q \in Processed') <=> (q \in Processed)
        BY <2>4, <1>7
      <3>4. Children(q) \ Processed' = Children(q) \ Processed
        BY <2>4, <1>15
      <3> QED
        BY <2>1, <3>1, <3>2, <3>3, <3>4
    <2> QED
      BY <2>2, <2>3, <2>4
  <1>18. ComputedInv'
    BY <1>1, <1>3, <1>5, <1>6, <1>7 DEF ComputedInv, TypeOK
  <1>19. StateFromAllParents'
    <2>1. ASSUME NEW q \in Processed' PROVE ParentStates(q)' = ParentStates(q)
      <3>1. q \in Events /\ Parents(q) \subseteq Processed
        <4>1. CASE q = e
          BY <4>1, <1>3
        <4>2. CASE q \in Processed
          <5>1. PICK i \in 1 .. pos : q = sorted_ancestors[i]
            BY <4>2 DEF Processed
          <5>2. i \in DOMAIN sorted_ancestors /\ pos \in Nat
            BY <1>1 DEF TypeOK
          <5>3. \A p \in Parents(q) : \E j \in 1 .. (i - 1) : sorted_ancestors[j] = p
            BY <5>1, <5>2, <1>1 DEF OrderInv
          <5>4. \A j \in 1 .. (i - 1) : j \in 1 .. pos
            BY <5>1, <5>2
          <5>5. Parents(q) \subseteq Processed
            BY <5>3, <5>4 DEF Processed
          <5>6. q \in Events
            BY <5>1, <5>2, <1>1 DEF TypeOK
          <5> QED
            BY <5>5, <5>6
        <4> QED
          BY <4>1, <4>2, <1>7
      <3>2. \A i \in ParentPositions(q) : input.prev[q][i] \in Events
                                          /\ input.prev[q][i] # e
        BY <3>1, <1>1, <1>3, PositionsAreParents DEF Parents, TypeOK
      <3>3. \A i \in ParentPositions(q) : computed'[input.prev[q][i]] = computed[input.prev[q][i]]
        BY <3>2, <1>1, <1>6 DEF TypeOK
      <3> QED
        BY <3>3, <1>2, <1>8 DEF ParentStates
    <2>2. ASSUME NEW q \in Processed'
          PROVE  (computed[q].state = record_own_state(MergedState(ParentStates(q)), q).state)'
      <3>1. record_own_state(MergedState(ParentStates(q)), q)'
                = record_own_state(MergedState(ParentStates(q)), q)
        BY <2>1, <1>2, GraphUnchanged
      <3>2. CASE q = e
        BY <3>1, <3>2, <1>1, <1>3, <1>5, <1>6 DEF TypeOK
      <3>3. CASE q # e
        <4>1. q \in Processed /\ computed'[q] = computed[q]
          BY <3>3, <1>1, <1>6, <1>7 DEF TypeOK
        <4> QED
          BY <4>1, <3>1, <1>1 DEF StateFromAllParents
      <3> QED
        BY <3>2, <3>3
    <2> QED
      BY <2>2 DEF StateFromAllParents
  <1> QED
    BY <1>11, <1>12, <1>13, <1>16, <1>17, <1>18, <1>19 DEF IInv

LEMMA CallbackErrorStep ==
    ASSUME IInv, CallbackError
    PROVE  IInv'
  <1> USE DEF CallbackError, collectVars, sortVars
  <1>1. TypeOK'
    <2>1. TypeOK
      BY DEF IInv
    <2>2. /\ OutDegreeAfter(Current) \in [Events -> Nat]
          /\ StatesAfterTaking(Current) \in [Events -> Tracked \cup {None}]
      BY <2>1 DEF OutDegreeAfter, StatesAfterTaking, TypeOK
    <2> QED
      BY <2>1, <2>2 DEF TypeOK, ActualTargets
  <1>2. OrderInv' /\ ComputedInv' /\ StateFromAllParents'
    BY StateFromAllParentsStable DEF IInv
  <1>3. CollectInv' /\ KahnInv' /\ CursorInv' /\ DegreeInv' /\ LiveFrontier'
    BY DEF CollectInv, KahnInv, CursorInv, DegreeInv, LiveFrontier
  <1> QED
    BY <1>1, <1>2, <1>3 DEF IInv

LEMMA StutterStep ==
    ASSUME IInv, UNCHANGED vars
    PROVE  IInv'
  <1> USE DEF vars, collectVars, sortVars, runVars
  <1>1. TypeOK'
    BY DEF IInv, TypeOK, ActualTargets
  <1>2. OrderInv' /\ ComputedInv' /\ StateFromAllParents'
    BY StateFromAllParentsStable DEF IInv
  <1>3. /\ Processed' = Processed
        /\ Ordered' = Ordered
        /\ \A e : Children(e)' = Children(e) /\ Parents(e)' = Parents(e)
    BY GraphUnchanged DEF Processed, Ordered
  <1>4. CollectInv' /\ KahnInv' /\ CursorInv' /\ DegreeInv' /\ LiveFrontier'
    BY <1>3 DEF IInv, CollectInv, KahnInv, CursorInv, DegreeInv, LiveFrontier
  <1> QED
    BY <1>1, <1>2, <1>4 DEF IInv

----------------------------------------------------------------------------
(* Every step of the pipeline preserves the inductive invariant.            *)
LEMMA StepIInv == IInv /\ [Next]_vars => IInv'
  <1> SUFFICES ASSUME IInv, [Next]_vars PROVE IInv'
    OBVIOUS
  <1>1. ASSUME NEW e \in Events, CollectAncestor(e) PROVE IInv'
    BY <1>1, CollectAncestorStep
  <1>2. CASE CountDegrees
    BY <1>2, CountDegreesStep
  <1>3. ASSUME NEW e \in Events, KahnPop(e) PROVE IInv'
    BY <1>3, KahnPopStep
  <1>4. CASE CheckPlan
    BY <1>4, CheckPlanStep
  <1>5. CASE ProcessEvent
    BY <1>5, ProcessEventStep
  <1>6. CASE CallbackError
    BY <1>6, CallbackErrorStep
  <1>7. CASE Finish
    BY <1>7, FinishStep
  <1>8. CASE UNCHANGED vars
    BY <1>8, StutterStep
  <1> QED
    BY <1>1, <1>2, <1>3, <1>4, <1>5, <1>6, <1>7, <1>8 DEF Next

(* The inductive invariant holds throughout every call.                     *)
THEOREM Invariance == Spec => []IInv
  BY InitIInv, StepIInv, PTL DEF Spec

(* Type correctness of the pipeline's state, for every event map.           *)
THEOREM TypeCorrect == Spec => []TypeOK
  <1>1. IInv => TypeOK
    BY DEF IInv
  <1> QED
    BY <1>1, Invariance, PTL

(* run_plain and run_optimized compute every state from the states of all   *)
(* the event's indexed parents, for every event map, every set of targets   *)
(* and every resolution function: evicting a state when its out-degree      *)
(* drops to zero never loses one that is still to be read.                  *)
THEOREM NoParentStateIsLost == Spec => []StateFromAllParents
  <1>1. IInv => StateFromAllParents
    BY DEF IInv
  <1> QED
    BY <1>1, Invariance, PTL

(* state_after_map holds exactly the live frontier, for every event map.    *)
THEOREM FrontierIsExact == Spec => []LiveFrontier
  <1>1. IInv => LiveFrontier
    BY DEF IInv
  <1> QED
    BY <1>1, Invariance, PTL

============================================================================

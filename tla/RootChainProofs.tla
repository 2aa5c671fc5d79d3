--------------------------- MODULE RootChainProofs ---------------------------
(***************************************************************************)
(* What the reference counts promise for every set of roots and every      *)
(* reachability, proved by induction over the steps of RootChain.          *)
(***************************************************************************)
EXTENDS RootChain, TLAPS

\* The inductive invariant: the chain is a function of the current root and of
\* the root that awaits its retirement.  The three facts about the table follow
\* from it, and each of them alone is not inductive: that a retirement can be
\* completed needs the exact counts, and the counts stay exact only if what is
\* pending is the exact difference.
ChainOf(c, p) ==
    [counts |-> once(Reach(c) \cup UNION {Reach(r) : r \in p}),
     current_root |-> c,
     pending_retirement |-> {once(Reach(r) \ Reach(c)) : r \in p}]

IInv ==
    /\ chain.current_root \in Root
    /\ previous = {} \/ \E p \in Root : previous = {p}
    /\ chain = ChainOf(chain.current_root, previous)
    /\ zeroed \cap (Reach(chain.current_root) \cup UNION {Reach(r) : r \in previous}) = {}

----------------------------------------------------------------------------
\* Adding a list of hashes that the table does not track yet.
LEMMA AddingNew ==
    ASSUME NEW A, NEW B, A \cap B = {}
    PROVE  apply_new(once(A), once(B)) = once(A \cup B)
BY DEF apply_new, once, count

\* Decrementing hashes that the table tracks with count one.
LEMMA DroppingTracked ==
    ASSUME NEW A, NEW B, B \subseteq A
    PROVE  /\ apply_superseded(once(A), once(B)).err = FALSE
           /\ apply_superseded(once(A), once(B)).counts = once(A \ B)
           /\ apply_superseded(once(A), once(B)).zeroed = B
<1>1. underflows(once(A), once(B)) = {}
  BY DEF underflows, once, count
<1>2. decremented(once(A), once(B)) = once(A \ B)
  <2>1. {g \in DOMAIN once(A) : once(A)[g] > count(once(B), g)} = A \ B
    BY DEF once, count
  <2>2. \A h \in A \ B : once(A)[h] - count(once(B), h) = 1
    BY DEF once, count
  <2>. QED  BY <2>1, <2>2 DEF decremented, once
<1>3. {h \in DOMAIN once(B) : count(once(A), h) = once(B)[h]} = B
  BY DEF once, count
<1>. QED  BY <1>1, <1>2, <1>3 DEF apply_superseded

\* The chain when no retirement is pending.
LEMMA ChainAlone ==
    ASSUME NEW c
    PROVE  ChainOf(c, {}) = [counts |-> once(Reach(c)), current_root |-> c,
                             pending_retirement |-> {}]
<1>1. Reach(c) \cup UNION {Reach(r) : r \in {}} = Reach(c)
      /\ {once(Reach(r) \ Reach(c)) : r \in {}} = {}
  OBVIOUS
<1>. QED  BY <1>1 DEF ChainOf

\* A walk over one root seeds the table with exactly its nodes.
LEMMA Bootstrapping ==
    ASSUME NEW c
    PROVE  bootstrap(once(Reach(c)), c) = ChainOf(c, {})
<1>1. apply_new(no_counts, once(Reach(c))) = once(Reach(c))
  BY AddingNew DEF no_counts
<1>. QED  BY <1>1, ChainAlone DEF bootstrap

----------------------------------------------------------------------------
\* The first state satisfies the invariant.
LEMMA InitIInv == Init => IInv
<1>. SUFFICES ASSUME Init PROVE IInv
  OBVIOUS
<1>1. PICK r \in Root : chain = bootstrap(once(Reach(r)), r)
  BY DEF Init
<1>2. chain = ChainOf(r, {}) /\ chain.current_root = r
  BY <1>1, Bootstrapping DEF ChainOf
<1>. QED  BY <1>2 DEF Init, IInv

\* Every step preserves the invariant.
LEMMA StepIInv == IInv /\ [Next]_vars => IInv'
<1>. SUFFICES ASSUME IInv, [Next]_vars PROVE IInv'
  OBVIOUS
<1>. DEFINE c == chain.current_root
<1>0. c \in Root /\ chain = ChainOf(c, previous)
  BY DEF IInv
<1>00. chain.pending_retirement = {} <=> previous = {}
  <2>1. chain.pending_retirement = {once(Reach(r) \ Reach(c)) : r \in previous}
    BY <1>0 DEF ChainOf
  <2>. QED  BY <2>1
<1>1. ASSUME NEW b \in Root, Transition(b) PROVE IInv'
  <2>1. previous = {}
    BY <1>00, <1>1 DEF Transition
  <2>2. chain.counts = once(Reach(c))
    BY <1>0, <2>1 DEF ChainOf
  <2>3. apply_new(chain.counts, once(Reach(b) \ Reach(c))) = once(Reach(b) \cup Reach(c))
    <3>1. apply_new(once(Reach(c)), once(Reach(b) \ Reach(c)))
              = once(Reach(c) \cup (Reach(b) \ Reach(c)))
      BY AddingNew
    <3>2. Reach(c) \cup (Reach(b) \ Reach(c)) = Reach(b) \cup Reach(c)
      OBVIOUS
    <3>. QED  BY <2>2, <3>1, <3>2
  <2>4. chain' = [counts |-> once(Reach(b) \cup Reach(c)),
                  current_root |-> b,
                  pending_retirement |-> {once(Reach(c) \ Reach(b))}]
    BY <1>1, <2>3 DEF Transition, transition, delta
  <2>5. previous' = {c} /\ zeroed' = {}
    BY <1>1 DEF Transition
  <2>6. UNION {Reach(r) : r \in {c}} = Reach(c)
        /\ {once(Reach(r) \ Reach(b)) : r \in {c}} = {once(Reach(c) \ Reach(b))}
    OBVIOUS
  <2>7. chain' = ChainOf(b, {c})
    BY <2>4, <2>6 DEF ChainOf
  <2>. QED  BY <2>4, <2>5, <2>7, <1>0 DEF IInv
<1>2. ASSUME Retire PROVE IInv'
  <2>1. PICK p \in Root : previous = {p}
    BY <1>00, <1>2 DEF Retire, IInv
  <2>2. chain.counts = once(Reach(c) \cup Reach(p))
        /\ chain.pending_retirement = {once(Reach(p) \ Reach(c))}
    <3>1. UNION {Reach(r) : r \in {p}} = Reach(p)
          /\ {once(Reach(r) \ Reach(c)) : r \in {p}} = {once(Reach(p) \ Reach(c))}
      OBVIOUS
    <3>. QED  BY <1>0, <2>1, <3>1 DEF ChainOf
  <2>3. (CHOOSE q \in chain.pending_retirement : TRUE) = once(Reach(p) \ Reach(c))
    BY <2>2
  <2>4. LET result == apply_superseded(chain.counts, once(Reach(p) \ Reach(c)))
        IN  /\ result.err = FALSE
            /\ result.counts = once(Reach(c))
            /\ result.zeroed = Reach(p) \ Reach(c)
    <3>. DEFINE A == Reach(c) \cup Reach(p)
                B == Reach(p) \ Reach(c)
    <3>1. B \subseteq A /\ A \ B = Reach(c)
      OBVIOUS
    <3>2. /\ apply_superseded(once(A), once(B)).err = FALSE
          /\ apply_superseded(once(A), once(B)).counts = once(A \ B)
          /\ apply_superseded(once(A), once(B)).zeroed = B
      <4>. HIDE DEF A, B
      <4>. QED  BY <3>1, DroppingTracked
    <3>. QED  BY <2>2, <3>1, <3>2
  <2>5. /\ retire_previous(chain).err = FALSE
        /\ retire_previous(chain).zeroed = Reach(p) \ Reach(c)
        /\ retire_previous(chain).chain =
               [counts |-> once(Reach(c)), current_root |-> c, pending_retirement |-> {}]
    BY <2>3, <2>4 DEF retire_previous
  <2>6. chain' = ChainOf(c, {})
    BY <1>2, <2>5, ChainAlone DEF Retire
  <2>7. previous' = {} /\ zeroed' = Reach(p) \ Reach(c) /\ chain'.current_root = c
    BY <1>2, <2>5, <2>6 DEF Retire, ChainOf
  <2>. QED  BY <1>0, <2>6, <2>7 DEF IInv
<1>3. ASSUME NEW b \in Root, Advance(b) PROVE IInv'
  <2>1. previous = {} /\ previous' = {}
    BY <1>00, <1>3 DEF Advance
  <2>2. chain.counts = once(Reach(c)) /\ chain.pending_retirement = {}
    BY <1>0, <2>1 DEF ChainOf
  <2>3. LET result == apply_superseded(chain.counts, once(Reach(c) \ Reach(b)))
        IN  /\ result.err = FALSE
            /\ result.counts = once(Reach(c) \cap Reach(b))
            /\ result.zeroed = Reach(c) \ Reach(b)
    <3>. DEFINE A == Reach(c)
                B == Reach(c) \ Reach(b)
    <3>1. B \subseteq A /\ A \ B = Reach(c) \cap Reach(b)
      OBVIOUS
    <3>2. /\ apply_superseded(once(A), once(B)).err = FALSE
          /\ apply_superseded(once(A), once(B)).counts = once(A \ B)
          /\ apply_superseded(once(A), once(B)).zeroed = B
      <4>. HIDE DEF A, B
      <4>. QED  BY <3>1, DroppingTracked
    <3>. QED  BY <2>2, <3>1, <3>2
  <2>4. apply_new(once(Reach(c) \cap Reach(b)), once(Reach(b) \ Reach(c))) = once(Reach(b))
    <3>1. (Reach(c) \cap Reach(b)) \cup (Reach(b) \ Reach(c)) = Reach(b)
          /\ (Reach(c) \cap Reach(b)) \cap (Reach(b) \ Reach(c)) = {}
      OBVIOUS
    <3>. QED  BY <3>1, AddingNew
  <2>5. /\ advance(chain, delta(c, b), b).zeroed = Reach(c) \ Reach(b)
        /\ advance(chain, delta(c, b), b).chain =
               [counts |-> once(Reach(b)), current_root |-> b, pending_retirement |-> {}]
    BY <2>2, <2>3, <2>4 DEF advance, delta
  <2>6. chain' = ChainOf(b, {})
    BY <1>3, <2>5, ChainAlone DEF Advance
  <2>7. zeroed' = Reach(c) \ Reach(b) /\ chain'.current_root = b
    BY <1>3, <2>5, <2>6 DEF Advance, ChainOf
  <2>. QED  BY <2>1, <2>6, <2>7 DEF IInv
<1>4. ASSUME Restart PROVE IInv'
  <2>1. chain' = ChainOf(c, {}) /\ previous' = {} /\ zeroed' = {}
    BY <1>4, Bootstrapping DEF Restart
  <2>2. chain'.current_root = c
    BY <2>1 DEF ChainOf
  <2>. QED  BY <1>0, <2>1, <2>2 DEF IInv
<1>5. CASE Reap
  BY <1>5 DEF IInv, Reap, ChainOf
<1>6. CASE UNCHANGED vars
  BY <1>6 DEF IInv, vars, ChainOf
<1>. QED  BY <1>1, <1>2, <1>3, <1>4, <1>5, <1>6 DEF Next

\* The invariant gives the promises of the reference counts.
LEMMA IInvGives ==
    IInv => CountsAreExact /\ PendingIsTheDifference /\ ZeroedIsUnreachable
            /\ RetireNeverUnderflows
<1>. SUFFICES ASSUME IInv
              PROVE  /\ CountsAreExact /\ PendingIsTheDifference
                     /\ ZeroedIsUnreachable /\ RetireNeverUnderflows
  OBVIOUS
<1>. DEFINE c == chain.current_root
<1>1. LiveNodes = Reach(c) \cup UNION {Reach(r) : r \in previous}
  BY DEF LiveNodes, LiveRoots
<1>2. CountsAreExact /\ PendingIsTheDifference /\ ZeroedIsUnreachable
  <2>1. chain = ChainOf(c, previous)
    BY DEF IInv
  <2>2. chain.counts = once(LiveNodes)
        /\ chain.pending_retirement = {once(Reach(r) \ Reach(c)) : r \in previous}
    BY <1>1, <2>1 DEF ChainOf
  <2>. QED  BY <1>1, <2>2 DEF IInv, CountsAreExact, PendingIsTheDifference, ZeroedIsUnreachable
<1>3. RetireNeverUnderflows
  <2>. SUFFICES ASSUME chain.pending_retirement # {} PROVE retire_previous(chain).err = FALSE
    BY DEF RetireNeverUnderflows
  <2>1. PICK p \in Root : previous = {p}
    BY <1>2 DEF IInv, PendingIsTheDifference
  <2>2. (CHOOSE q \in chain.pending_retirement : TRUE) = once(Reach(p) \ Reach(c))
    <3>1. chain.pending_retirement = {once(Reach(p) \ Reach(c))}
      BY <1>2, <2>1 DEF PendingIsTheDifference
    <3>. QED  BY <3>1
  <2>3. apply_superseded(chain.counts, once(Reach(p) \ Reach(c))).err = FALSE
    <3>. DEFINE B == Reach(p) \ Reach(c)
    <3>1. B \subseteq LiveNodes
      BY <1>1, <2>1
    <3>2. apply_superseded(once(LiveNodes), once(B)).err = FALSE
      <4>. HIDE DEF B
      <4>. QED  BY <3>1, DroppingTracked
    <3>. QED  BY <1>2, <3>2 DEF CountsAreExact
  <2>. QED  BY <2>2, <2>3 DEF retire_previous
<1>. QED  BY <1>2, <1>3

----------------------------------------------------------------------------
\* The reference counts of LinearRootChain are exact in every linear history
\* of roots, whatever the roots share: the table holds the nodes of the live
\* roots and nothing else, what it reports as reclaimable is reachable from no
\* live root, and a pending retirement never underflows.
THEOREM RefcountsAreSound ==
    Spec => [](CountsAreExact /\ PendingIsTheDifference /\ ZeroedIsUnreachable
               /\ RetireNeverUnderflows)
<1>1. Init => IInv
  BY InitIInv
<1>2. IInv /\ [Next]_vars => IInv'
  BY StepIInv
<1>. QED  BY <1>1, <1>2, IInvGives, PTL DEF Spec
=============================================================================

--------------------------- MODULE BucketExchange ---------------------------
(***************************************************************************)
(* The requester of the MSC4521 set reconciliation: the policy of          *)
(* ReconciliationClient, the retry/split planner BucketExchange and the    *)
(* per-node verification around it (rezzy-recon/src/client.rs, verify.rs). *)
(*                                                                         *)
(* Two sides hold sets of elements.  The requester asks for sketches of    *)
(* buckets (nodes of the prefix tree); subtracting its own sketch leaves   *)
(* the short hashes that an odd number of differing elements carry, and a  *)
(* sketch of capacity c decodes at most c of them.  Buckets that do not    *)
(* decode, or whose roots fail verification, are retried or split; what no *)
(* retry can fix is given up as ladder_failed for the caller's fallback.   *)
(*                                                                         *)
(* A digest is an XOR of 128-bit hashes; it is modelled by the set of the  *)
(* elements XORed into it, that is, as free of collisions.  Short hashes   *)
(* do collide: elements may share h64.  The responder's population may     *)
(* grow between two rounds.                                                *)
(***************************************************************************)
EXTENDS Integers, FiniteSets, FiniteSetsExt

(***************************************************************************)
(* The prefix tree over 64-bit short hashes that the bucket reconciliation *)
(* of rezzy-recon works on.  A node <<depth, prefix>> stands for all       *)
(* hashes that begin with the depth bits of prefix.  Requests may name     *)
(* nodes down to MaxDepth; hashes are HashBits wide, so a node at MaxDepth *)
(* may still hold several of them.                                         *)
(***************************************************************************)

CONSTANTS
    MaxDepth,   \* MAX_DEPTH, 32 in the code
    HashBits    \* the width of h64, 64 in the code

ASSUME DepthAssumption == MaxDepth \in Nat /\ HashBits \in Nat /\ MaxDepth <= HashBits

Hashes == 0 .. (2 ^ HashBits - 1)

Nodes == UNION {{d} \X (0 .. (2 ^ d - 1)) : d \in 0 .. MaxDepth}

Depth(n) == n[1]

Prefix(n) == n[2]

(* covers: whether a is n or one of its ancestors.                         *)
covers(a, n) ==
    /\ Depth(a) <= Depth(n)
    /\ Prefix(n) \div 2 ^ (Depth(n) - Depth(a)) = Prefix(a)

StrictlyCovers(a, n) == covers(a, n) /\ Depth(a) < Depth(n)

Comparable(m, n) == covers(m, n) \/ covers(n, m)

Antichain(S) == \A m, n \in S : m # n => ~Comparable(m, n)

(* in_node: whether hash h falls inside n.                                 *)
in_node(h, n) == h \div 2 ^ (HashBits - Depth(n)) = Prefix(n)

InSome(h, S) == \E n \in S : in_node(h, n)

CoveredBySome(n, S) == \E a \in S : covers(a, n)

(* bucket_range_start: the position a node is sorted by.                   *)
RangeStart(n) == Prefix(n) * 2 ^ (MaxDepth - Depth(n))

(* The finest requestable nodes below n.                                   *)
Slots(n) == {s \in {MaxDepth} \X (0 .. (2 ^ MaxDepth - 1)) : covers(n, s)}

(* The descendants of n that are jump levels below it.                     *)
Descendants(n, jump) ==
    {<<Depth(n) + jump, Prefix(n) * 2 ^ jump + i>> : i \in 0 .. (2 ^ jump - 1)}

(* summarize_descendant_cover: S tiles n, without gap or overlap.          *)
Tiles(S, n) ==
    \A s \in Slots(n) : Cardinality({d \in S : StrictlyCovers(n, d) /\ covers(d, s)}) = 1

-----------------------------------------------------------------------------
CONSTANTS
    Populations,            \* the [local, remote] pairs of element sets to explore
    NewElements,            \* elements the responder may receive during the exchange
    SpuriousRoots,          \* root sets an overfull sketch may decode to
    Estimates,              \* the strata estimates to explore
    MaxRounds,              \* MAX_RECONCILIATION_ROUNDS (20)
    MaxBuckets,             \* the exchange's max_buckets_per_round (128)
    RoundDepth,             \* MAX_BUCKET_ROUND_DEPTH (7), 2^7 = MAX_BUCKETS_PER_ROUND
    MinCapacity,            \* MIN_BUCKET_SKETCH_CAPACITY (4)
    MaxCapacity,            \* MAX_BUCKET_SKETCH_CAPACITY (32)
    OverflowCapacity,       \* MAX_OVERFLOW_BUCKET_CAPACITY (256)
    MaxAggregate,           \* the client's max_aggregate_capacity
    MaxWire,                \* MAX_BUCKETED_SKETCH_CAPACITY (4096)
    Headroom,               \* the constant term of provisioning (4)
    GateThreshold,          \* the client's gate on the estimated delta
    None

Request == [node : Nodes, capacity : 1 .. OverflowCapacity, overflow : BOOLEAN]

Summary == [count : Nat, digest : SUBSET [h64 : Hashes, id : Nat]]

GiveUpPopulation == 2 * MaxCapacity     \* COLLISION_GIVE_UP_POPULATION

ASSUME BoundsAssumption ==
    /\ MaxRounds \in Nat /\ RoundDepth \in Nat /\ MaxBuckets \in 1 .. 2 ^ RoundDepth
    /\ MinCapacity \in 1 .. MaxCapacity /\ MaxCapacity <= OverflowCapacity
    /\ MaxAggregate \in Nat \ {0} /\ MaxAggregate <= MaxWire
    /\ Headroom \in Nat /\ GateThreshold \in Nat
ASSUME SetsAssumption ==
    /\ \A p \in Populations : p.local \cup p.remote \subseteq [h64 : Hashes, id : Nat]
    /\ SpuriousRoots \subseteq SUBSET Hashes
    /\ Estimates \subseteq Nat

VARIABLES
    local,          \* the requester's elements
    remote,         \* the responder's elements
    verified,       \* the caller uses advance_verified (or bare advance)
    phase,          \* "start", "round", "resolved" or "done"
    outcome,        \* the last terminal ClientAction
    requests,       \* the round in flight
    exchange,       \* the BucketExchange
    resolved,       \* history: the nodes whose roots were accepted
    inconsistent,   \* history: nodes given up by the split check
    changed,        \* history: the responder's population changed
    rounds_left,    \* the caller's round budget for narrowing
    recovered,      \* elements of the nodes that passed phase 2
    lost            \* nodes left to the caller's per-prefix fallback

vars == <<local, remote, verified, phase, outcome, requests, exchange, resolved,
          inconsistent, changed, rounds_left, recovered, lost>>

Xor(S, T) == (S \ T) \cup (T \ S)

Within(P, n) == {e \in P : in_node(e.h64, n)}

SummaryOf(P, n) == [count |-> Cardinality(Within(P, n)), digest |-> Within(P, n)]

NodesOf(rs) == {r.node : r \in rs}

TotalCapacity(rs) == MapThenSumSet(LAMBDA r : r.capacity, rs)

Larger(a, b) == IF a >= b THEN a ELSE b

Clamp(v, low, high) == IF v < low THEN low ELSE IF v > high THEN high ELSE v

(* BucketExchange::new.  no_progress_rounds is only compared with 0.       *)
NewExchange(max_rounds) ==
    [pending |-> {}, accumulated_roots |-> [h \in Hashes |-> 0], rounds_emitted |-> 0,
     max_rounds |-> max_rounds, no_progress |-> FALSE, classified |-> {}, failures |-> {},
     ladder_failed |-> {}, parents |-> {}, awaiting |-> {}, force_split |-> {},
     overflow_retry |-> {}, wide_split |-> {}]

MaxPending(x) == x.max_rounds * MaxBuckets

RootCount(x) ==
    MapThenSumSet(LAMBDA h : x.accumulated_roots[h],
                  {h \in Hashes : x.accumulated_roots[h] > 0})

-----------------------------------------------------------------------------
(* Selecting the first round.                                              *)

(* provision_capacity and provision_bucket_capacity: ceil(1.5 t) + headroom *)
provision(t) == t + (t \div 2) + (t % 2) + Headroom

provision_bucket_capacity(t, floor) == Clamp(provision(t), floor, MaxCapacity)

NewRequest(n, c) == [node |-> n, capacity |-> c, overflow |-> FALSE]

root_bucket == {NewRequest(<<0, 0>>, MaxCapacity)}

(* The bucket plan of select_sketch_action: the least depth whose buckets  *)
(* hold the target, {} when the plan exceeds the configured limits.        *)
select_plan(delta) ==
    LET target == Min({provision(delta), MaxAggregate})
        depth == Min({d \in 0 .. RoundDepth : 2 ^ d * MaxCapacity >= target \/ d = RoundDepth})
        buckets == 2 ^ depth
        per_bucket == Clamp((target + buckets - 1) \div buckets, MinCapacity, MaxCapacity)
    IN  IF buckets > 2 ^ RoundDepth \/ buckets * per_bucket > MaxAggregate
        THEN {}
        ELSE {NewRequest(<<depth, p>>, per_bucket) : p \in 0 .. (buckets - 1)}

-----------------------------------------------------------------------------
(* Decoding and phase 1.                                                   *)

(* The short hashes left in the subtracted sketch of n.                    *)
Difference(n) ==
    {h \in Hashes : /\ in_node(h, n)
                    /\ (Cardinality({e \in local : e.h64 = h})
                          + Cardinality({e \in remote : e.h64 = h})) % 2 = 1}

(* What decoding r's sketch may yield: its roots, or None for a failure.   *)
(* Factoring is randomised, so a sketch within capacity may fail too; an   *)
(* overfull one may decode to roots that are not there.                    *)
Decodes(r) ==
    LET d == Difference(r.node)
    IN  (IF d = {} THEN {} ELSE {None})
        \cup (IF Cardinality(d) <= r.capacity
              THEN {d}
              ELSE {s \in SpuriousRoots : Cardinality(s) <= r.capacity})

LocalCandidates(h) == {e \in local : e.h64 = h}

(* verify_decode: the roots of r classified as held locally (l) or not (m). *)
Classify(r, roots) ==
    LET l == {h \in roots : LocalCandidates(h) # {}}
    IN  [node |-> r.node, l |-> l, m |-> roots \ l,
         local_accumulated |-> UNION {LocalCandidates(h) : h \in l},
         local |-> SummaryOf(local, r.node), remote |-> SummaryOf(remote, r.node)]

residual(c) == Xor(c.local.digest, c.remote.digest)

verify_decode(r, roots) ==
    LET c == Classify(r, roots)
    IN  /\ \A h \in roots : in_node(h, r.node)
        /\ c.local.count - c.remote.count = Cardinality(c.l) - Cardinality(c.m)
        /\ (c.m = {} /\ \A h \in c.l : Cardinality(LocalCandidates(h)) = 1)
              => c.local_accumulated = residual(c)

population(n) ==
    Larger(Cardinality(Within(local, n)), Cardinality(Within(remote, n)))

-----------------------------------------------------------------------------
(* The planner's bookkeeping.  Requests of one round are an antichain, so  *)
(* the loops over them are written as set operations.                      *)

Outside(S, R) == {s \in S : ~CoveredBySome(s.node, R)}

OutsideNodes(S, R) == {n \in S : ~CoveredBySome(n, R)}

(* Mutant: the roots of a region given up are kept.                        *)
LadderFailKeepsRoots(x, R) ==
    [x EXCEPT !.ladder_failed = @ \cup R,
              !.classified = Outside(@, R),
              !.pending = Outside(@, R),
              !.failures = Outside(@, R),
              !.force_split = OutsideNodes(@, R),
              !.overflow_retry = OutsideNodes(@, R),
              !.wide_split = OutsideNodes(@, R),
              !.parents = Outside(@, R),
              !.awaiting = Outside(@, R)]

(* ladder_fail, for each region of R.                                      *)
ladder_fail(x, R) ==
    [x EXCEPT !.ladder_failed = @ \cup R,
              !.classified = Outside(@, R),
              !.accumulated_roots = [h \in Hashes |-> IF InSome(h, R) THEN 0 ELSE @[h]],
              !.pending = Outside(@, R),
              !.failures = Outside(@, R),
              !.force_split = OutsideNodes(@, R),
              !.overflow_retry = OutsideNodes(@, R),
              !.wide_split = OutsideNodes(@, R),
              !.parents = Outside(@, R),
              !.awaiting = Outside(@, R)]

schedule_overflow_retries(x, failed, rejected) ==
    LET plain == {r \in failed \ rejected : ~r.overflow}
        small == {r \in plain : /\ Cardinality(Within(local, r.node))
                                     + Cardinality(Within(remote, r.node)) <= OverflowCapacity
                                /\ MaxAggregate >= OverflowCapacity}
        large == {r \in plain \ small : r.node \notin x.force_split}
    IN  [x EXCEPT !.overflow_retry = @ \cup NodesOf(small),
                  !.force_split = @ \cup NodesOf(large),
                  !.wide_split = @ \cup NodesOf(large)]

(* The responder's summaries of this round, added to those still awaited.  *)
Awaiting(x) ==
    {a \in x.awaiting : \A r \in requests : ~Comparable(a.node, r.node)}
    \cup {[node |-> r.node, summary |-> SummaryOf(remote, r.node)] :
             r \in {q \in requests : \E p \in x.parents : StrictlyCovers(p.node, q.node)}}

(* The combined summary of the awaited descendants of n.                   *)
CombinedSummary(awaiting, n) ==
    LET below == {a \in awaiting : StrictlyCovers(n, a.node)}
    IN  [count |-> MapThenSumSet(LAMBDA a : a.summary.count, below),
         digest |-> UNION {a.summary.digest : a \in below}]

(* check_split_consistency.  A parent is always remembered before its      *)
(* descendants are, so the loop meets ancestors first and giving one up    *)
(* drops the parents inside it: only the topmost violations are recorded.  *)
CompleteParents(x) == {p \in x.parents : Tiles(NodesOf(Awaiting(x)), p.node)}

InconsistentRegions(x) ==
    LET bad == {p.node : p \in {q \in CompleteParents(x) :
                                   CombinedSummary(Awaiting(x), q.node) # q.summary}}
    IN  {n \in bad : \A m \in bad : ~StrictlyCovers(m, n)}

check_split_consistency(x) ==
    LET checked == ladder_fail([x EXCEPT !.parents = @ \ CompleteParents(x),
                                         !.awaiting = Awaiting(x)],
                               InconsistentRegions(x))
    IN  [checked EXCEPT !.awaiting = {a \in @ : \E p \in checked.parents :
                                                   StrictlyCovers(p.node, a.node)}]

SmallFailedOverflows(failed, rejected) ==
    {r \in failed \ rejected : r.overflow /\ population(r.node) <= GiveUpPopulation}

restrict(roots, n) == {h \in roots : in_node(h, n)}

repeats_earlier_failure(x, r, roots) ==
    \E f \in x.failures :
        /\ covers(f.node, r.node)
        /\ <<Depth(f.node), f.capacity>> # <<Depth(r.node), r.capacity>>
        /\ restrict(f.roots, r.node) = restrict(roots, r.node)

(* handle_phase1_rejections gives up on a rejected node when it cannot be  *)
(* narrowed, or is a repeated collision among few elements.                *)
Unverifiable(x, rejected, out) ==
    {r \in Outside(rejected, x.ladder_failed) :
        \/ Depth(r.node) >= MaxDepth
        \/ x.rounds_emitted + 1 >= x.max_rounds
        \/ /\ repeats_earlier_failure(x, r, out[r])
           /\ population(r.node) <= GiveUpPopulation}

handle_phase1_rejections(x, rejected, out) ==
    LET given_up == Unverifiable(x, rejected, out)
        split == Outside(rejected, x.ladder_failed) \ given_up
    IN  [ladder_fail(x, NodesOf(given_up))
            EXCEPT !.failures = @ \cup {[node |-> r.node, capacity |-> r.capacity,
                                         roots |-> out[r]] : r \in split},
                   !.force_split = @ \cup NodesOf(split)]

remember_failed_nodes(x, failed) ==
    [x EXCEPT !.parents = @ \cup {[node |-> r.node, summary |-> SummaryOf(remote, r.node)] :
                                     r \in {q \in failed : q.node \notin NodesOf(@)}}]

(* record_ladder_failed, for each of an antichain of nodes.                *)
record_ladder_failed(S, nodes) ==
    LET new == OutsideNodes(nodes, S)
    IN  OutsideNodes(S, new) \cup new

(* retry_or_split_bucket_with_fanout; {} when the bucket cannot be refined *)
retry_or_split(r, share, force_split, max_jump) ==
    LET jump == Min({MaxDepth - Depth(r.node), max_jump})
    IN  IF r.capacity < MaxCapacity /\ ~force_split
        THEN {NewRequest(r.node, provision_bucket_capacity(Larger(share, r.capacity + 1),
                                                           r.capacity + 1))}
        ELSE IF Depth(r.node) >= MaxDepth
        THEN {}
        ELSE {NewRequest(n, provision_bucket_capacity(Larger(share \div 2 ^ jump, MinCapacity),
                                                      MinCapacity)) :
                 n \in Descendants(r.node, jump)}

-----------------------------------------------------------------------------
(* advance: one answered round.  ok and failed are the round's requests    *)
(* that decoded (out gives their roots) and that did not.                  *)

Sibling(n) == <<Depth(n), IF Prefix(n) % 2 = 0 THEN Prefix(n) + 1 ELSE Prefix(n) - 1>>

observe_progress(x, ok, failed, out) ==
    LET split_failures == {r \in failed : Sibling(r.node) \in NodesOf(requests)}
    IN  [x EXCEPT !.no_progress =
            /\ split_failures # {}
            /\ \A r \in split_failures : Sibling(r.node) \notin NodesOf(ok)
            /\ \A r \in ok : out[r] = {}]

AddRoots(x, ok, out) ==
    [x EXCEPT !.accumulated_roots =
        [h \in Hashes |-> @[h] + Cardinality({r \in ok : h \in out[r]})]]

failed_node_share(x, failed, estimate) ==
    IF failed = {} THEN 0
    ELSE Larger(estimate - RootCount(x), 0) \div Cardinality(failed)

Retries(x, r, share) ==
    IF r.node \in x.overflow_retry
    THEN {[node |-> r.node, capacity |-> OverflowCapacity, overflow |-> TRUE]}
    ELSE retry_or_split(r, share, r.node \in x.force_split,
                        IF r.node \in x.wide_split \/ x.no_progress THEN RoundDepth ELSE 1)

(* failed_buckets lists the decode failures first, then the rejected ones, *)
(* each in the order of the requests.                                      *)
NotAfter(q, r, rejected) ==
    \/ q \notin rejected /\ r \in rejected
    \/ (q \in rejected) = (r \in rejected) /\ RangeStart(q.node) <= RangeStart(r.node)

(* queue_failed_nodes: it stops at the first node whose retries make the   *)
(* frontier too long.                                                      *)
Overflowing(x, failed, rejected, share) ==
    {r \in failed :
        /\ Retries(x, r, share) # {}
        /\ Cardinality(x.pending
              \cup UNION {Retries(x, q, share) :
                             q \in {q \in failed : NotAfter(q, r, rejected)}}) > MaxPending(x)}

QueuedNodes(x, failed, rejected, share) ==
    LET over == Overflowing(x, failed, rejected, share)
    IN  {r \in failed : \A s \in over : NotAfter(r, s, rejected)}

queue_failed_nodes(x, queued, share) ==
    [x EXCEPT !.force_split = @ \ NodesOf(queued),
              !.overflow_retry = @ \ NodesOf(queued),
              !.wide_split = @ \ NodesOf(queued),
              !.ladder_failed =
                  record_ladder_failed(@, NodesOf({r \in queued : Retries(x, r, share) = {}})),
              !.pending = @ \cup UNION {Retries(x, r, share) : r \in queued}]

(* drain_pending_round: the longest prefix of the frontier that fits.      *)
UpTo(x, r) == {q \in x.pending : RangeStart(q.node) <= RangeStart(r.node)}

NextRound(x) ==
    {r \in x.pending : /\ x.rounds_emitted < x.max_rounds
                       /\ Cardinality(UpTo(x, r)) <= MaxBuckets
                       /\ TotalCapacity(UpTo(x, r)) <= MaxAggregate}

(* Mutant: the emitted round is not counted.                               *)
DrainUncounted(x) == [x EXCEPT !.pending = @ \ NextRound(x)]

drain_pending_round(x) ==
    [x EXCEPT !.pending = @ \ NextRound(x), !.rounds_emitted = @ + 1]

(* The frontier is given up and the partial result returned.               *)
GiveUpPending(x) ==
    [x EXCEPT !.ladder_failed = record_ladder_failed(@, NodesOf(x.pending)), !.pending = {}]

(* The ClientAction returned, with the exchange it leaves behind.          *)
resolve(x) ==
    [exchange |-> x, requests |-> {}, phase |-> "resolved", outcome |-> "ResolveRoots"]

emit(x) ==
    [exchange |-> drain_pending_round(x), requests |-> NextRound(x), phase |-> "round",
     outcome |-> None]

advance(x, ok, failed, rejected, out, estimate) ==
    LET counted == AddRoots(observe_progress(x, ok, failed, out), ok, out)
        share == failed_node_share(counted, failed, estimate)
        queued == QueuedNodes(counted, failed, rejected, share)
        next == queue_failed_nodes(counted, queued, share)
    IN  IF Overflowing(counted, failed, rejected, share) # {} THEN resolve(GiveUpPending(next))
        ELSE IF failed = {} /\ next.pending = {} THEN resolve(next)
        ELSE IF NextRound(next) = {} THEN resolve(GiveUpPending(next))
        ELSE emit(next)

(* advance_verified up to its call of advance: the exchange and the verdict *)
(* on the round's requests after phase 1.                                  *)
phase_one(out) ==
    LET decoded == {r \in requests : out[r] # None}
        rejected == {r \in decoded : ~verify_decode(r, out[r])}
        failed == (requests \ decoded) \cup rejected
        scheduled == schedule_overflow_retries(exchange, failed, rejected)
        regions == InconsistentRegions(scheduled)
        small == SmallFailedOverflows(Outside(failed, regions), rejected)
        checked == ladder_fail(check_split_consistency(scheduled), NodesOf(small))
        settled == handle_phase1_rejections(checked, rejected, out)
        still_failed == Outside(failed, settled.ladder_failed)
        ok == Outside(decoded \ rejected, settled.ladder_failed)
        remembered == remember_failed_nodes(settled, still_failed)
    IN  [exchange |-> [remembered EXCEPT
                          !.classified = @ \cup {Classify(r, out[r]) : r \in ok}],
         ok |-> ok, failed |-> still_failed, rejected |-> rejected, inconsistent |-> regions]

-----------------------------------------------------------------------------
Init ==
    /\ \E p \in Populations : local = p.local /\ remote = p.remote
    /\ verified \in BOOLEAN
    /\ phase = "start"
    /\ outcome = None
    /\ requests = {}
    /\ exchange = NewExchange(MaxRounds)
    /\ resolved = {}
    /\ inconsistent = {}
    /\ changed = FALSE
    /\ rounds_left = MaxRounds
    /\ recovered = {}
    /\ lost = {}

StartRound(plan) ==
    /\ phase' = IF plan = {} THEN "done" ELSE "round"
    /\ outcome' = IF plan = {} THEN "ExtremityDiff" ELSE None
    /\ requests' = plan
    /\ UNCHANGED <<local, remote, verified, exchange, resolved, inconsistent, changed,
                   rounds_left, recovered, lost>>

(* select_action: the frames differ or an extremity is unknown.            *)
FrameMismatch == phase = "start" /\ StartRound({})

(* select_action: digest and count agree.                                  *)
Synchronized ==
    /\ phase = "start"
    /\ local = remote
    /\ phase' = "done"
    /\ outcome' = "Synchronized"
    /\ UNCHANGED <<local, remote, verified, requests, exchange, resolved, inconsistent,
                   changed, rounds_left, recovered, lost>>

(* select_action: the strata estimate saturates or runs out of budget.     *)
SelectRoot ==
    /\ phase = "start"
    /\ local # remote
    /\ StartRound(root_bucket)

SelectSketch(estimate) ==
    /\ phase = "start"
    /\ local # remote
    /\ LET counts == {Cardinality(local), Cardinality(remote)}
           delta == Larger(estimate, Max(counts) - Min(counts))
       IN  StartRound(IF delta > GateThreshold THEN {} ELSE select_plan(delta))

(* The responder's population grows between two rounds.                    *)
RemoteInsert(e) ==
    /\ phase = "round"
    /\ e \notin remote
    /\ remote' = remote \cup {e}
    /\ changed' = TRUE
    /\ UNCHANGED <<local, verified, phase, outcome, requests, exchange, resolved,
                   inconsistent, rounds_left, recovered, lost>>

Take(action) ==
    /\ exchange' = action.exchange
    /\ requests' = action.requests
    /\ phase' = action.phase
    /\ outcome' = action.outcome

(* The responder's answer decodes, per request, to one of its outcomes.    *)
Outcomes ==
    LET decodes == [r \in requests |-> Decodes(r)]
    IN  {out \in [requests -> UNION {decodes[r] : r \in requests}] :
            \A r \in requests : out[r] \in decodes[r]}

(* The round is answered, decoded and passed to advance.                   *)
Advance ==
    /\ phase = "round"
    /\ ~verified
    /\ \E out \in Outcomes :
          LET ok == {r \in requests : out[r] # None}
          IN  /\ \E action \in {advance(exchange, ok, requests \ ok, {}, out, estimate) :
                                   estimate \in Estimates} : Take(action)
              /\ resolved' = resolved \cup NodesOf(ok)
    /\ UNCHANGED <<local, remote, verified, inconsistent, changed, rounds_left, recovered,
                   lost>>

(* The round is answered, decoded and passed to advance_verified.          *)
AdvanceVerified ==
    /\ phase = "round"
    /\ verified
    /\ \E out \in Outcomes : \E v \in {phase_one(out)} :
          /\ \E action \in {advance(v.exchange, v.ok, v.failed, v.rejected, out, estimate) :
                               estimate \in Estimates} : Take(action)
          /\ resolved' = OutsideNodes(resolved \cup NodesOf(v.ok), v.exchange.ladder_failed)
          /\ inconsistent' = inconsistent \cup v.inconsistent
    /\ UNCHANGED <<local, remote, verified, changed, rounds_left, recovered, lost>>

-----------------------------------------------------------------------------
(* Phase 2 and narrowing, driven by the caller once the exchange resolved. *)

(* The elements the peer returns for the roots the requester lacks.        *)
Returned(c) == {e \in remote : e.h64 \in c.m}

(* Mutant: the returned elements are not checked against the digests.      *)
FollowUpUnchecked(c) ==
    /\ Cardinality(Returned(c)) = Cardinality(c.m)
    /\ \A h \in c.m : \E e \in Returned(c) : e.h64 = h

verify_follow_up(c) ==
    /\ Cardinality(Returned(c)) = Cardinality(c.m)
    /\ \A h \in c.m : \E e \in Returned(c) : e.h64 = h
    /\ Xor(c.local_accumulated, Returned(c)) = residual(c)

should_narrow(c, left) ==
    /\ Larger(c.local.count, c.remote.count) > GiveUpPopulation
    /\ Depth(c.node) < MaxDepth
    /\ left > 1

(* narrow: the children of the nodes, with the responder's summaries kept  *)
(* for the split check.                                                    *)
narrow(cs, left) ==
    [NewExchange(left) EXCEPT
        !.parents = {[node |-> c.node, summary |-> c.remote] : c \in cs},
        !.pending = UNION {retry_or_split(NewRequest(c.node, MaxCapacity), 0, TRUE, 1) : c \in cs}]

(* narrow fails when validate_bucket_requests refuses the children or no   *)
(* request fits a round.                                                   *)
NarrowRefused(x) == TotalCapacity(x.pending) > MaxWire \/ NextRound(x) = {}

FollowUp ==
    LET failed == {c \in exchange.classified : ~verify_follow_up(c)}
        left == rounds_left - exchange.rounds_emitted
        narrowable == {c \in failed : should_narrow(c, left)}
        refused == narrowable # {} /\ NarrowRefused(narrow(narrowable, left))
    IN  /\ phase = "resolved"
        /\ verified
        /\ recovered' = recovered \cup UNION {Returned(c) \cup c.local_accumulated :
                                                 c \in exchange.classified \ failed}
        /\ lost' = lost \cup exchange.ladder_failed
                        \cup NodesOf(IF refused THEN failed ELSE failed \ narrowable)
        /\ resolved' = resolved \ NodesOf(failed)
        /\ rounds_left' = left
        /\ IF narrowable = {} \/ refused
           THEN /\ phase' = "done"
                /\ outcome' = IF refused THEN "NarrowError" ELSE outcome
                /\ UNCHANGED <<requests, exchange>>
           ELSE \E action \in {emit(narrow(narrowable, left))} : Take(action)
        /\ UNCHANGED <<local, remote, verified, inconsistent, changed>>

(* A caller of bare advance uses the roots as they are.                    *)
Finish ==
    /\ phase = "resolved"
    /\ ~verified
    /\ phase' = "done"
    /\ UNCHANGED <<local, remote, verified, outcome, requests, exchange, resolved,
                   inconsistent, changed, rounds_left, recovered, lost>>

(* The caller has its result.                                              *)
Done == phase = "done" /\ UNCHANGED vars

Next ==
    \/ FrameMismatch
    \/ Synchronized
    \/ SelectRoot
    \/ \E estimate \in Estimates : SelectSketch(estimate)
    \/ \E e \in NewElements : RemoteInsert(e)
    \/ Advance
    \/ AdvanceVerified
    \/ FollowUp
    \/ Finish
    \/ Done

Spec == Init /\ [][Next]_vars

-----------------------------------------------------------------------------
TypeOK ==
    /\ phase \in {"start", "round", "resolved", "done"}
    /\ outcome \in {None, "Synchronized", "ExtremityDiff", "ResolveRoots", "NarrowError"}
    /\ requests \subseteq Request
    /\ exchange.pending \subseteq Request
    /\ exchange.ladder_failed \cup resolved \cup inconsistent \cup lost \subseteq Nodes
    /\ exchange.rounds_emitted \in 0 .. exchange.max_rounds
    /\ exchange.accumulated_roots \in [Hashes -> Nat]
    /\ \A p \in exchange.parents \cup exchange.awaiting : p.node \in Nodes /\ p.summary \in Summary
    /\ rounds_left \in 0 .. MaxRounds

(***************************************************************************)
(* Every short hash is accounted for: it lies in a node handed to the      *)
(* caller (ladder_failed, or lost by an earlier pass), or else in exactly  *)
(* one bucket in flight, pending, or with accepted roots.                  *)
(* ClientAction::ResolveRoots promises just this: the result is complete   *)
(* outside the nodes of ladder_failed.                                     *)
(***************************************************************************)
LiveNodes == NodesOf(requests) \cup NodesOf(exchange.pending) \cup resolved

NothingDropped ==
    phase \in {"round", "resolved"} =>
        \A h \in Hashes :
            Cardinality({n \in LiveNodes : in_node(h, n)})
                = IF InSome(h, exchange.ladder_failed \cup lost) THEN 0 ELSE 1

(***************************************************************************)
(* ladder_fail removes a region from every piece of state: no root, no     *)
(* classified node and no request survives inside a node given up.         *)
(***************************************************************************)
NothingFromFailedNodes ==
    verified =>
        \A n \in exchange.ladder_failed :
            /\ \A h \in Hashes : in_node(h, n) => exchange.accumulated_roots[h] = 0
            /\ \A c \in exchange.classified : ~Comparable(n, c.node)
            /\ \A r \in requests \cup exchange.pending : ~Comparable(n, r.node)

(***************************************************************************)
(* Each round passes validate_adaptive_bucket_requests and the exchange's  *)
(* own caps: an antichain within the bucket and aggregate limits.          *)
(***************************************************************************)
RoundIsValid ==
    /\ Antichain(NodesOf(requests) \cup NodesOf(exchange.pending))
    /\ Cardinality(NodesOf(requests)) = Cardinality(requests)
    /\ Cardinality(requests) <= IF exchange.rounds_emitted = 0 THEN 2 ^ RoundDepth ELSE MaxBuckets
    /\ TotalCapacity(requests) <= MaxAggregate
    /\ \A r \in requests : r.capacity <= IF r.overflow THEN OverflowCapacity ELSE MaxCapacity

(***************************************************************************)
(* A retry or split flag never outlives the round that set it: a stale one *)
(* would misroute a later failure of the same node.                        *)
(***************************************************************************)
NoStaleFlags ==
    phase = "round" =>
        exchange.force_split \cup exchange.overflow_retry \cup exchange.wide_split = {}

(***************************************************************************)
(* The split check, which collects the children of a split over several    *)
(* rounds and nested splits, never accuses a responder whose population    *)
(* did not change.                                                         *)
(***************************************************************************)
SteadyResponderIsConsistent == ~changed => inconsistent = {}

(***************************************************************************)
(* What a verified exchange delivers in the end is exactly the difference  *)
(* of the two sides outside the nodes left to the fallback, whatever       *)
(* collisions of short hashes and spurious decodes happened on the way.    *)
(***************************************************************************)
RecoversTheDifference ==
    (phase = "done" /\ verified /\ ~changed /\ outcome \in {"ResolveRoots", "NarrowError"}) =>
        \A e \in local \cup remote :
            ~InSome(e.h64, lost) => (e \in recovered <=> e \in Xor(local, remote))

(***************************************************************************)
(* A failed bucket is never requested again as it was: the retry is deeper *)
(* or has a larger capacity, since decoding the same sketch again proves   *)
(* nothing.                                                                *)
(***************************************************************************)
FinerThanFailed ==
    \A q \in requests, r \in requests' \cup exchange'.pending :
        covers(q.node, r.node) => Depth(r.node) > Depth(q.node) \/ r.capacity > q.capacity

(***************************************************************************)
(* Every step spends a bounded budget: the caller's rounds (shared by the  *)
(* exchange and the narrowing passes that follow it), the phases, and the  *)
(* elements still to arrive.  No state but a finished one deadlocks, so    *)
(* every exchange ends, however the responder answers.                     *)
(***************************************************************************)
Budget ==
    3 * (rounds_left - exchange.rounds_emitted)
    + [start |-> 3, round |-> 2, resolved |-> 1, done |-> 0][phase]
    + Cardinality(NewElements \ remote)
=============================================================================

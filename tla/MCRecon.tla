------------------------------ MODULE MCRecon ------------------------------
(***************************************************************************)
(* rezzy-recon: two instances of the bucket exchange, one with colliding   *)
(* short hashes and one with a deep ladder of retries, and each of the     *)
(* parts below it by itself.  which names the part a behaviour is about.   *)
(* The field has 2^3 elements where sketches are decoded, so every sketch  *)
(* there is can be tried, and 2^8 where the multipliers are compared.      *)
(***************************************************************************)
EXTENDS BucketExchange, Backend, Sequences

(***************************************************************************)
(* Instances of BucketExchange.  An element is written E(h, i): its short  *)
(* hash and an id; E(0, 1) and E(0, 2) collide.                            *)
(***************************************************************************)

E(h, i) == [h64 |-> h, id |-> i]

Pair(l, r) == [local |-> l, remote |-> r]

(* Every way to divide four elements, two of which collide.                *)
Universe == {E(0, 1), E(0, 2), E(1, 1), E(5, 1)}

SmallPopulations == {Pair(l, r) : l, r \in SUBSET Universe}

Newcomers == {E(2, 1)}

OneSpurious == {{}, {4}}

(* A responder with a crowded half, against requesters that lack some of   *)
(* it, hold extra elements or collide with it.                             *)
Crowd == {E(0, 1), E(1, 1), E(2, 1), E(3, 1), E(6, 1)}

DeepPopulations ==
    {Pair(l, Crowd) : l \in SUBSET {E(0, 1), E(0, 2), E(3, 1), E(5, 1)}}
    \cup {Pair(Crowd, {E(0, 2), E(4, 1), E(6, 1)})}

LateArrival == {E(6, 2)}

(* Two elements to fetch in each quarter, more than a bucket decodes.      *)
FullResponder == {Pair({}, {E(h, 1) : h \in {0, 1, 4, 5, 8, 9, 12, 13}})}

-----------------------------------------------------------------------------
VARIABLES
    which,
    element,
    sketch, decoding, expected, budget,
    kernel, held, saved,
    ours, theirs, asked, answer, batch,
    bitmaps, shared, contents, wides, members

digest(a, b, c, d) == <<a, b, c, d>>

D1 == digest({}, {}, {}, {})                \* every chunk is zero
D2 == digest({1}, {0, 1}, {0}, {})
D3 == digest({}, {0, 2}, {1}, {2})
D4 == digest({2}, {1}, {0, 2}, {})
D5 == digest({0}, {1, 2}, {0}, {})

Ids(a, b) == [h64 |-> a, h128 |-> b]

Five == {Ids({0}, {1}), Ids({1}, {0}), Ids({0, 1}, {0, 2}), Ids({2}, {0, 1}), Ids({0, 2}, {2})}

(* Every element of the field but zero: the trace splits them three and    *)
(* four, each part then needs a second ladder, and the work exceeds the    *)
(* ceiling of one.                                                         *)
Seven == Five \union {Ids({1, 2}, {1, 2}), Ids({0, 1, 2}, {0, 1, 2})}

Collides == {Ids({0}, {1}), Ids({0}, {2}), Ids({2}, {0}), Ids({1, 2}, {0})}

Q(d, p, c, o) == [depth |-> d, prefix |-> p, capacity |-> c, overflow |-> o]

Lists == {<<Q(0, 0, 2, FALSE)>>, <<Q(0, 0, 7, TRUE)>>,
          <<Q(1, 0, 3, TRUE), Q(1, 1, 3, TRUE)>>,
          <<Q(1, 0, 2, FALSE), Q(2, 2, 1, FALSE), Q(2, 3, 1, FALSE)>>,
          <<Q(1, 1, 1, FALSE), Q(1, 0, 1, FALSE)>>, <<Q(1, 0, 3, FALSE)>>}

Encoded(key, kind, n, values, set) ==
    [key |-> key, kind |-> kind, len |-> n, array |-> values, bits |-> set]

Encodings ==
    {<<Encoded(k, 0, n, a, {})>> :
        k \in {0, 1}, n \in 0 .. 3, a \in {<<>>, <<1>>, <<1, 2>>, <<2, 1>>, <<1, 1>>, <<1, 2, 3>>}}
      \union {<<Encoded(0, 1, n, <<>>, s)>> : n \in 1 .. 4, s \in {{0, 1}, {1, 2, 3}, 0 .. 3}}
      \union {<<Encoded(k, 0, 1, <<1>>, {}), Encoded(j, 0, 1, <<2>>, {})>> : k, j \in 0 .. 1}
      \union {<<Encoded(0, 2, 1, <<1>>, {})>>}

L == INSTANCE BucketExchange WITH
    MaxDepth <- 3, HashBits <- 3, Populations <- DeepPopulations, NewElements <- LateArrival,
    SpuriousRoots <- OneSpurious, Estimates <- {0, 4}, MaxRounds <- 4, MaxBuckets <- 2,
    RoundDepth <- 2, MinCapacity <- 1, MaxCapacity <- 2, OverflowCapacity <- 5,
    MaxAggregate <- 4, MaxWire <- 8, Headroom <- 0, GateThreshold <- 5

GF == INSTANCE PinSketch WITH FieldBits <- 8, Reduction <- {0, 1, 3, 4}, Mixed <- <<>>

(* A walk through the field, one product after the other, as poly_mac and  *)
(* the power ladders make it.                                              *)
Factors == {{0, 1}, {7, 6, 0}, {7, 5, 3, 1}}

WalkInit == element = GF!one

WalkNext == \E f \in Factors : element' = GF!mul_pclmul(element, f)

SD == INSTANCE SketchDecode WITH
    FieldBits <- 3, Reduction <- {0, 1}, Mixed <- <<{0}>>, Capacity <- 3, Budgets <- {1000, 60}

RK == INSTANCE Kernel WITH
    FieldBits <- 3, Reduction <- {0, 1}, Mixed <- <<{0}>>,
    Elements <- {D1, D2, D3, D4, D5}, MaxCount <- 3, StrataCount <- 2, StratumCapacity <- 2,
    Saturated <- 1000, Remotes <- {<<>>, <<D4, D5>>}

RS == INSTANCE Responder WITH
    FieldBits <- 3, Reduction <- {0, 1}, Mixed <- <<{0}>>,
    MaxDepth <- 2, MaxBucket <- 2, MaxOverflow <- 7, MaxTotal <- 7, MaxWork <- 7,
    FallbackThreshold <- 7, Scarce <- 60,
    Ours <- {{}, Collides, Five},
    Theirs <- SUBSET (Five \union {Ids({2}, {2})}) \union {Seven, Seven \union {Ids({2}, {2})}},
    RequestLists <- Lists, requests <- asked

BM == INSTANCE Bitmap WITH
    ArrayMax <- 2, Width <- 4, Universe <- {0, 1, 2, 3, 5, 6}, Inputs <- Encodings,
    Highs <- {}, Batches <- {}

WB == INSTANCE Bitmap WITH
    ArrayMax <- 1, Width <- 2, Universe <- {0, 1, 2}, Inputs <- {},
    Highs <- {7, 8}, Batches <- {<<<<7, 1>>, <<8, 0>>, <<7, 0>>>>, <<<<8, 2>>, <<8, 1>>>>}

fieldVars == <<element>>
decodeVars == <<sketch, decoding, expected, budget>>
kernelVars == <<kernel, held, saved>>
roundVars == <<ours, theirs, asked, answer, batch>>
bitmapVars == <<bitmaps, shared, contents>>
wideVars == <<wides, members>>

reconVars == <<which, vars, backendVars, fieldVars, decodeVars, kernelVars, roundVars,
               bitmapVars, wideVars>>

NoDecoding == sketch = <<>> /\ decoding = <<>> /\ expected = 0 /\ budget = 0

NoRound == ours = {} /\ theirs = {} /\ asked = <<>> /\ answer = {} /\ batch = <<>>

NoExchange ==
    /\ local = {} /\ remote = {} /\ verified = FALSE /\ phase = "done" /\ outcome = None
    /\ requests = {} /\ exchange = NewExchange(0) /\ resolved = {} /\ inconsistent = {}
    /\ changed = FALSE /\ rounds_left = 0 /\ recovered = {} /\ lost = {}

ReconInit ==
    /\ which \in {"collisions", "ladder", "backend", "field", "decode", "kernel", "round",
                   "bitmap", "wide"}
    /\ CASE which = "collisions" -> Init
         [] which = "ladder"     -> L!Init
         [] OTHER                -> NoExchange
    /\ BackendInit
    /\ WalkInit
    /\ IF which = "decode" THEN SD!DecodeInit ELSE NoDecoding
    /\ RK!KernelInit
    /\ IF which = "round" THEN RS!RoundInit ELSE NoRound
    /\ BM!BitmapInit
    /\ WB!WideInit

ReconNext ==
    /\ UNCHANGED which
    /\ \/ /\ which = "collisions" /\ Next
          /\ UNCHANGED <<backendVars, fieldVars, decodeVars, kernelVars, roundVars, bitmapVars,
                         wideVars>>
       \/ /\ which = "ladder" /\ L!Next
          /\ UNCHANGED <<backendVars, fieldVars, decodeVars, kernelVars, roundVars, bitmapVars,
                         wideVars>>
       \/ /\ which = "backend" /\ BackendNext
          /\ UNCHANGED <<vars, fieldVars, decodeVars, kernelVars, roundVars, bitmapVars, wideVars>>
       \/ /\ which = "field" /\ WalkNext
          /\ UNCHANGED <<vars, backendVars, decodeVars, kernelVars, roundVars, bitmapVars,
                         wideVars>>
       \/ /\ which = "decode" /\ SD!DecodeNext
          /\ UNCHANGED <<vars, backendVars, fieldVars, kernelVars, roundVars, bitmapVars, wideVars>>
       \/ /\ which = "kernel" /\ RK!KernelNext
          /\ UNCHANGED <<vars, backendVars, fieldVars, decodeVars, roundVars, bitmapVars, wideVars>>
       \/ /\ which = "round" /\ RS!RoundNext
          /\ UNCHANGED <<vars, backendVars, fieldVars, decodeVars, kernelVars, bitmapVars, wideVars>>
       \/ /\ which = "bitmap" /\ BM!BitmapNext
          /\ UNCHANGED <<vars, backendVars, fieldVars, decodeVars, kernelVars, roundVars, wideVars>>
       \/ /\ which = "wide" /\ WB!WideNext
          /\ UNCHANGED <<vars, backendVars, fieldVars, decodeVars, kernelVars, roundVars, bitmapVars>>

\* The first instance of the exchange alone.
ExchangeSpec == which = "collisions" /\ ReconInit /\ [][ReconNext]_reconVars

ReconSpec == ReconInit /\ [][ReconNext]_reconVars

----------------------------------------------------------------------------
\* drain_pending_round and queue_failed_nodes: whatever overflows, fails or grows
\* meanwhile, each round is one a responder accepts, nothing that the exchange was
\* asked about is dropped unseen, nothing survives inside a node that was given up,
\* and no retry or split flag outlives its round.
FrontierIsAccounted ==
    /\ which = "collisions" =>
         TypeOK /\ NothingDropped /\ NothingFromFailedNodes /\ RoundIsValid /\ NoStaleFlags
    /\ which = "ladder" =>
         L!NothingDropped /\ L!NothingFromFailedNodes /\ L!RoundIsValid /\ L!NoStaleFlags

\* advance_verified and the follow-up: the difference is recovered exactly outside
\* the nodes left to the fallback, and the split check of advance accuses no
\* responder that did not change.
DifferenceIsRecovered ==
    /\ which = "collisions" => RecoversTheDifference /\ SteadyResponderIsConsistent
    /\ which = "ladder" => L!RecoversTheDifference /\ L!SteadyResponderIsConsistent

\* retry_or_split and drain_pending_round: a failed bucket is never requested again
\* as it was, and every step of the requester spends its budget, so every exchange
\* ends.
ExchangesEnd ==
    [][/\ exchange' # exchange => IF which = "ladder" THEN L!FinerThanFailed ELSE FinerThanFailed
       /\ which = "collisions" /\ vars' # vars => Budget' < Budget
       /\ which = "ladder" /\ vars' # vars => L!Budget' < L!Budget]_reconVars

\* gf64.rs, gf64_simd.rs: the portable, the PCLMULQDQ and the AVX-512 multiplication
\* are one function, although each reduces the bits beyond the field in its own way,
\* and gf64_inv inverts it.
MultipliersAgree ==
    /\ \A f \in Factors :
          /\ GF!mul_pclmul(element, f) = GF!mul_bitwise(element, f)
          /\ GF!mul_lanes(element, f) = GF!mul_bitwise(element, f)
    /\ element # GF!zero => GF!mul_pclmul(element, GF!gf64_inv(element)) = GF!one

\* decode_with_budget: the polynomials on the stack and the roots found always
\* multiply back to the locator, a success is the one set with that sketch, and a
\* sketch some small set explains is decoded, in the field that all multipliers
\* agree on.
DecodingIsExact ==
    /\ which = "field" => MultipliersAgree
    /\ which = "decode" => SD!FactorsMultiplyBack /\ SD!DecodingIsExact

\* ResidentKernel: across refused updates, saves and restarts the kernel stands for
\* exactly the events that were added and not removed, and estimate_strata is exact
\* while every stratum fits its sketch.
\* The responder's slices are the buckets and the summaries of siblings add up to
\* the parent's; a bucket that fits is decoded exactly, whatever the others cost,
\* unless factoring it exceeds its own ceiling; and recommended_bucket_decode_budget
\* never runs out.
PopulationIsServed ==
    /\ which = "kernel" => RK!KernelMatchesPopulation /\ RK!EstimateIsExact
    /\ which = "round" => RS!SlicesAreBuckets /\ RS!BatchIsExact /\ RS!NoBucketStarves

\* Bitmap, Bitmap64 and Bitmap128: exact although clones share chunks, canonical in
\* every form also after decode, and truthful about subsets and disjointness.
BitmapsAreExact ==
    /\ which = "bitmap" => BM!BitmapsAreExact /\ BM!BitmapsAreCanonical /\ BM!RelationsAreExact
    /\ which = "wide" => WB!WideBitmapsAreExact
=============================================================================

------------------------------ MODULE Responder ------------------------------
(***************************************************************************)
(* One round of bucket sketches as it is really computed: the responder    *)
(* cuts its sorted population into the requested key ranges and sketches   *)
(* each (server.rs), the client subtracts its own sketches and decodes the *)
(* residuals bucket by bucket out of one shared budget of work (triage.rs  *)
(* decode_bucket_sketches).  BucketExchange takes the outcome of such a    *)
(* round as given.  An element is [h64, h128], both words.                 *)
(***************************************************************************)
EXTENDS PinSketch

CONSTANTS
    MaxDepth,           \* MAX_DEPTH (32), below the width of h64
    MaxBucket,          \* MAX_BUCKET_SKETCH_CAPACITY (32)
    MaxOverflow,        \* MAX_OVERFLOW_BUCKET_CAPACITY (256)
    MaxTotal,           \* MAX_BUCKETED_SKETCH_CAPACITY (4096)
    MaxWork,            \* SketchPolicy's max_aggregate_work
    FallbackThreshold,  \* SketchPolicy's hard_fallback_threshold
    Ours, Theirs,       \* the populations the two sides may have: sets of elements
    RequestLists,       \* the lists of requests [depth, prefix, capacity, overflow]
    Scarce              \* a budget other than the recommended one

VARIABLES
    ours, theirs,       \* the populations
    requests,           \* the requests of the round
    answer,             \* the responder's sketches, {} when it did not answer
    batch               \* the decoding: the buckets done, the budget left, the status

roundVars == <<ours, theirs, requests, answer, batch>>

(* A word as a number.                                                     *)
number(w) ==
    LET upto[b \in 0 .. FieldBits] ==
            IF b = 0 THEN 0 ELSE upto[b - 1] + (IF (b - 1) \in w THEN 2 ^ (b - 1) ELSE 0)
    IN  upto[FieldBits]

----------------------------------------------------------------------------
(* SortedPopulation: sorted by (h64, h128).                                *)
before(a, b) ==
    \/ number(a.h64) < number(b.h64)
    \/ a.h64 = b.h64 /\ number(a.h128) < number(b.h128)

RECURSIVE SortedPopulation(_)

SortedPopulation(elements) ==
    IF elements = {} THEN <<>>
    ELSE LET first == CHOOSE e \in elements : \A o \in elements \ {e} : before(e, o)
         IN  <<first>> \o SortedPopulation(elements \ {first})

(* bounds_unchecked: the keys of a bucket, the end excluded.               *)
bounds_start(r) == (r.prefix % 2 ^ r.depth) * 2 ^ (FieldBits - r.depth)

bounds_end(r) == bounds_start(r) + 2 ^ (FieldBits - r.depth)

(* partition_point: how many elements at the front are below a key.        *)
partition_point(sorted, key) == Cardinality({i \in DOMAIN sorted : number(sorted[i].h64) < key})

(* bucket_range_unchecked and the slice it names.                          *)
bucket_slice(sorted, r) ==
    IF r.depth = 0 THEN sorted
    ELSE SubSeq(sorted, partition_point(sorted, bounds_start(r)) + 1,
                partition_point(sorted, bounds_end(r)))

(* NodeSummary::from_h128s of a slice, and is_split_of.                    *)
summary(slice) ==
    [count |-> Len(slice), digest |-> xor_over(DOMAIN slice, [i \in DOMAIN slice |-> slice[i].h128])]

node_summary(sorted, depth, prefix) ==
    summary(bucket_slice(sorted, [depth |-> depth, prefix |-> prefix]))

is_split_of(parent, left, right) ==
    /\ left.count + right.count = parent.count
    /\ parent.digest = xor(left.digest, right.digest)

(* build_bucket_sketches, and the sketch part of build_bucket_nodes.       *)
bucket_sketch(sorted, r) ==
    LET slice == bucket_slice(sorted, r)
    IN  sketch_of([i \in DOMAIN slice |-> slice[i].h64], r.capacity)

----------------------------------------------------------------------------
(* validate_adaptive_bucket_requests.                                      *)
range_start(r) == r.prefix * 2 ^ (MaxDepth - r.depth)

range_end(r) == range_start(r) + 2 ^ (MaxDepth - r.depth)

total_capacity(rs) == FoldSeq(LAMBDA r, sum : r.capacity + sum, 0, rs)

validate_requests(rs) ==
    /\ \A i \in DOMAIN rs :
          /\ rs[i].capacity > 0
          /\ rs[i].capacity <= (IF rs[i].overflow THEN MaxOverflow ELSE MaxBucket)
          /\ rs[i].depth <= MaxDepth
          /\ rs[i].prefix < 2 ^ rs[i].depth
          /\ i > 1 => range_start(rs[i]) >= range_end(rs[i - 1])
    /\ total_capacity(rs) <= MaxTotal

(* recommended_bucket_decode_budget.                                       *)
recommended_bucket_decode_budget(rs) ==
    FoldSeq(LAMBDA r, sum : single_call_work_ceiling(r.capacity) + sum, 0, rs)

(* SketchBuilder::build: nothing when a slice, or all of them, is too much *)
(* work.                                                                   *)
build(sorted, rs) ==
    LET work == [i \in DOMAIN rs |-> Len(bucket_slice(sorted, rs[i]))]
    IN  IF \/ \E i \in DOMAIN rs : work[i] > FallbackThreshold
           \/ FoldSeq(+, 0, work) > MaxWork
        THEN {}
        ELSE {tuple([i \in DOMAIN rs |-> bucket_sketch(sorted, rs[i])])}

----------------------------------------------------------------------------
RoundInit ==
    /\ ours \in Ours
    /\ theirs \in Theirs
    /\ requests \in RequestLists
    /\ answer = {}
    /\ batch = [done |-> <<>>, budget |-> 0, status |-> "asked"]

(* The responder refuses the list, sends the client elsewhere, or answers. *)
Answer ==
    /\ batch.status = "asked"
    /\ \/ /\ ~ validate_requests(requests)
          /\ batch' = [batch EXCEPT !.status = "refused"]
          /\ answer' = {}
       \/ /\ validate_requests(requests)
          /\ \E built \in {build(SortedPopulation(theirs), requests)} :
               /\ answer' = built
               /\ IF built = {} THEN batch' = [batch EXCEPT !.status = "fallback"]
                  ELSE \E b \in {recommended_bucket_decode_budget(requests), Scarce} :
                         batch' = [batch EXCEPT !.status = "decoding", !.budget = b]
    /\ UNCHANGED <<ours, theirs, requests>>

(* What a bucket of decode_bucket_sketches becomes under an allowance.     *)
outcome(residual, r, allowance) ==
    LET d == decode(residual, r.capacity, allowance)
    IN  [result |-> IF d.status = "ok" THEN "ok"
                    ELSE IF d.status = "DecodeFailure" THEN "failed"
                    ELSE IF allowance = single_call_work_ceiling(r.capacity) THEN "failed"
                    ELSE "BudgetExhausted",
         roots |-> IF d.status = "ok" THEN ToSet(d.roots) ELSE {},
         spent |-> allowance - d.work]

(* A bucket draws on the budget of the batch up to its own ceiling.        *)
allowance_of(budget, r) ==
    LET ceiling == single_call_work_ceiling(r.capacity)
    IN  IF budget < ceiling THEN budget ELSE ceiling

residual_of(i) ==
    subtract(bucket_sketch(SortedPopulation(ours), requests[i]), (CHOOSE a \in answer : TRUE)[i])

(* decode_bucket_sketches, one bucket at a time.                           *)
DecodeBucket ==
    /\ batch.status = "decoding"
    /\ Len(batch.done) < Len(requests)
    /\ \E o \in {outcome(residual_of(Len(batch.done) + 1), requests[Len(batch.done) + 1],
                         allowance_of(batch.budget, requests[Len(batch.done) + 1]))} :
          batch' = IF o.result = "BudgetExhausted" THEN [batch EXCEPT !.status = "exhausted"]
                   ELSE [done |-> Append(batch.done, o), budget |-> batch.budget - o.spent,
                         status |-> IF Len(batch.done) + 1 = Len(requests) THEN "decoded"
                                    ELSE "decoding"]
    /\ UNCHANGED <<ours, theirs, requests, answer>>

RoundOver ==
    /\ batch.status \in {"refused", "fallback", "exhausted", "decoded"}
    /\ UNCHANGED roundVars

RoundNext == Answer \/ DecodeBucket \/ RoundOver

----------------------------------------------------------------------------
in_bucket(e, r) == r.depth = 0 \/ number(e.h64) \div 2 ^ (FieldBits - r.depth) = r.prefix

(* The identifiers an odd number of the two sides' elements carry.         *)
symmetric_difference(r) ==
    {w \in {e.h64 : e \in ours \union theirs} :
        (Cardinality({e \in ours : e.h64 = w /\ in_bucket(e, r)})
           + Cardinality({e \in theirs : e.h64 = w /\ in_bucket(e, r)})) % 2 = 1}

\* server.rs bucket_range_unchecked and node_summary: a bucket's slice holds
\* exactly the elements with its prefix, at the first and the last key of the
\* range too, and the summaries of two siblings always add up to the parent's.
SlicesAreBuckets ==
    \A d \in 0 .. MaxDepth : \A p \in 0 .. (2 ^ d - 1) :
        LET sorted == SortedPopulation(ours)
            r == [depth |-> d, prefix |-> p]
        IN  /\ ToSet(bucket_slice(sorted, r)) = {e \in ours : in_bucket(e, r)}
            /\ d < MaxDepth =>
                 is_split_of(node_summary(sorted, d, p), node_summary(sorted, d + 1, 2 * p),
                             node_summary(sorted, d + 1, 2 * p + 1))

(* The work that factoring a bucket's locator takes when nothing stops it: *)
(* at most capacity ladders, none dearer than one at that degree.          *)
factoring_work(i) ==
    LET plenty == requests[i].capacity * single_call_work_ceiling(requests[i].capacity)
    IN  plenty - decode(residual_of(i), requests[i].capacity, plenty).work

\* triage.rs decode_bucket_sketches: a bucket whose difference fits its capacity is
\* reported failed only when taking its own locator apart exceeds its own ceiling,
\* whatever the buckets decoded before it cost; otherwise what is reported for it is
\* exactly where the two populations differ there.
BatchIsExact ==
    \A i \in DOMAIN batch.done :
        Cardinality(symmetric_difference(requests[i])) <= requests[i].capacity =>
            \/ /\ batch.done[i].result = "ok"
               /\ batch.done[i].roots = symmetric_difference(requests[i])
            \/ /\ batch.done[i].result = "failed"
               /\ factoring_work(i) > single_call_work_ceiling(requests[i].capacity)

\* triage.rs recommended_bucket_decode_budget: with the recommended budget no
\* bucket can run the batch out of work, overflow requests included, so one
\* hopeless bucket never costs the others their answer.
NoBucketStarves ==
    batch.status = "exhausted" =>
        Scarce < recommended_bucket_decode_budget(requests) /\ batch.budget <= Scarce

=============================================================================

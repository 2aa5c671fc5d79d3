-------------------------------- MODULE Kernel -------------------------------
(***************************************************************************)
(* The resident reconciliation state of one population (ResidentKernel,    *)
(* resident.rs, with RoomAccumulator and ElementHash of algebraic.rs): an  *)
(* XOR digest, an exact count and one small sketch per stratum, updated    *)
(* with every event that comes and goes, saved and reloaded; and the       *)
(* estimate of the difference to a peer that is read off the strata        *)
(* (triage.rs).  A 32-byte digest is four words.                           *)
(***************************************************************************)
EXTENDS PinSketch

CONSTANTS
    Elements,           \* the digests of the events there are
    MaxCount,           \* u64::MAX
    StrataCount,        \* STRATA_COUNT (32)
    StratumCapacity,    \* STRATUM_CAPACITY (8)
    Saturated,          \* SATURATED_DELTA_ESTIMATE
    Remotes             \* populations the peer may have: sequences of Elements

VARIABLES
    kernel,             \* the resident state
    held,         \* the events it should stand for, as a bag: [Elements -> Nat]
    saved               \* the record last written, with the population it was written for

kernelVars == <<kernel, held, saved>>

(* ElementHash::from_digest32.                                             *)
h64(e) ==
    LET nonzero == {i \in 1 .. 4 : e[i] # zero}
    IN  IF nonzero = {} THEN one ELSE e[CHOOSE i \in nonzero : \A j \in nonzero : i <= j]

q3(e) == IF e[2] = zero THEN one ELSE e[2]

h128(e) == <<e[3], e[4]>>

(* toggle_stratum: the stratum of an identifier is its trailing zeros.     *)
stratum_of(v) ==
    LET trailing_zeros == CHOOSE i \in v : \A j \in v : i <= j
    IN  IF trailing_zeros < StrataCount THEN trailing_zeros ELSE StrataCount - 1

toggle_stratum(strata, v) == [strata EXCEPT ![stratum_of(v)] = toggle(@, v)]

new_kernel ==
    [digest |-> <<zero, zero>>, count |-> 0,
     strata |-> [i \in 0 .. (StrataCount - 1) |-> no_sketch(StratumCapacity)]]

(* As insert, with the strata toggled although the count is refused.       *)
insert_half(k, e) ==
    {[k EXCEPT !.strata = toggle_stratum(@, q3(e)),
               !.digest = IF k.count = MaxCount THEN @ ELSE subtract(@, h128(e)),
               !.count = IF k.count = MaxCount THEN @ ELSE @ + 1]}

(* insert and remove (RoomAccumulator's inside ResidentKernel's): {} when  *)
(* the count would leave its range, which is checked before anything       *)
(* changes.                                                                *)
insert(k, e) ==
    IF h64(e) = zero \/ k.count = MaxCount THEN {}
    ELSE {[digest |-> subtract(k.digest, h128(e)), count |-> k.count + 1,
           strata |-> toggle_stratum(k.strata, q3(e))]}

remove(k, e) ==
    IF h64(e) = zero \/ k.count = 0 THEN {}
    ELSE {[digest |-> subtract(k.digest, h128(e)), count |-> k.count - 1,
           strata |-> toggle_stratum(k.strata, q3(e))]}

(* to_bytes: the version, the digest, the count and the coordinates of     *)
(* every stratum in order.                                                 *)
to_bytes(k) ==
    <<"v1", k.digest[1], k.digest[2], k.count>>
      \o [n \in 1 .. (StrataCount * StratumCapacity) |->
            k.strata[(n - 1) \div StratumCapacity][((n - 1) % StratumCapacity) + 1]]

(* from_bytes: {} for a record of another length or version, and for one   *)
(* that counts no event but is not the empty kernel.                       *)
from_bytes(bytes) ==
    LET k == [digest |-> <<bytes[2], bytes[3]>>, count |-> bytes[4],
              strata |-> [i \in 0 .. (StrataCount - 1) |->
                            SubSeq(bytes, 5 + i * StratumCapacity, 4 + (i + 1) * StratumCapacity)]]
    IN  IF Len(bytes) # 4 + StrataCount * StratumCapacity \/ bytes[1] # "v1" THEN {}
        ELSE IF k.count = 0 /\ k # new_kernel THEN {}
        ELSE {k}

----------------------------------------------------------------------------
none == [e \in Elements |-> 0]

size(p) == FoldFunction(+, 0, p)

KernelInit == kernel = new_kernel /\ held = none /\ saved = [bytes |-> <<>>, of |-> none]

(* The host adds an event; a refused one leaves the kernel as it was.      *)
InsertElement(e) ==
    \/ /\ kernel' \in insert(kernel, e)
       /\ held' = [held EXCEPT ![e] = @ + 1]
       /\ UNCHANGED saved
    \/ insert(kernel, e) = {} /\ UNCHANGED kernelVars

(* The host removes an event it had added, or finds there is none.         *)
RemoveElement(e) ==
    \/ /\ held[e] > 0
       /\ kernel' \in remove(kernel, e)
       /\ held' = [held EXCEPT ![e] = @ - 1]
       /\ UNCHANGED saved
    \/ size(held) = 0 /\ remove(kernel, e) = {} /\ UNCHANGED kernelVars

Save ==
    /\ saved.of # held
    /\ saved' = [bytes |-> to_bytes(kernel), of |-> held]
    /\ UNCHANGED <<kernel, held>>

(* A restart: the last record is read back.                                *)
Reload ==
    /\ saved.bytes # <<>>
    /\ kernel' \in from_bytes(saved.bytes)
    /\ held' = saved.of
    /\ UNCHANGED saved

KernelNext == (\E e \in Elements : InsertElement(e) \/ RemoveElement(e)) \/ Save \/ Reload

----------------------------------------------------------------------------
(* The estimate of the difference to a peer.                               *)

(* OVER_CAPACITY_DELTA_FLOOR.                                              *)
Floor == StratumCapacity + 1

\* decode_with_budget of the residual of one stratum, within its ceiling
decode_stratum(local, remote, budget) ==
    LET ceiling == single_call_work_ceiling(StratumCapacity)
    IN  decode(subtract(local, remote), StratumCapacity, IF budget < ceiling THEN budget ELSE ceiling)

(* estimate_delta_internal, from stratum down: tail roots were counted so  *)
(* far and lowest is the last stratum decoded (StrataCount when none is).  *)
RECURSIVE estimate_from(_, _, _, _, _, _)

estimate_from(local, remote, budget, stratum, tail, lowest) ==
    IF stratum < 0
    THEN [delta |-> tail * 2 ^ lowest, low_confidence |-> FALSE, error |-> FALSE]
    ELSE LET d == decode_stratum(local[stratum], remote[stratum], budget)
             spent == (IF budget < single_call_work_ceiling(StratumCapacity) THEN budget
                       ELSE single_call_work_ceiling(StratumCapacity)) - d.work
         IN  IF d.status = "ok"
             THEN estimate_from(local, remote, budget - spent, stratum - 1, tail + Len(d.roots),
                                stratum)
             ELSE IF d.status = "BudgetExhausted"
             THEN [delta |-> 0, low_confidence |-> TRUE, error |-> TRUE]
             ELSE IF stratum = StrataCount - 1
             THEN [delta |-> Saturated, low_confidence |-> TRUE, error |-> FALSE]
             ELSE [delta |-> (IF tail < Floor THEN Floor ELSE tail) * 2 ^ lowest,
                   low_confidence |-> TRUE, error |-> FALSE]

max_strata_factor_work == StrataCount * single_call_work_ceiling(StratumCapacity)

estimate_strata(local, remote) ==
    estimate_from(local, remote, max_strata_factor_work, StrataCount - 1, 0, StrataCount)

RECURSIVE kernel_of(_)

kernel_of(seq) == IF seq = <<>> THEN new_kernel ELSE CHOOSE k \in insert(kernel_of(Tail(seq)), Head(seq)) : TRUE

----------------------------------------------------------------------------
(* What the kernel of a population is, from the population alone: an       *)
(* identifier is in a stratum when an odd number of events carries it.     *)
odd(p, S) == FoldFunctionOnSet(+, 0, p, S) % 2 = 1

identifiers == {q3(e) : e \in Elements}

in_stratum(p, i) ==
    {v \in identifiers : stratum_of(v) = i /\ odd(p, {e \in Elements : q3(e) = v})}

digest_bits(p, j) ==
    {b \in 0 .. (FieldBits - 1) : odd(p, {e \in Elements : b \in h128(e)[j]})}

\* resident.rs insert, remove, to_bytes and from_bytes: the kernel stands for
\* exactly the events added and not removed, in whatever order they came,
\* although updates are refused at both ends of the count and a restart goes
\* back to an earlier record; and from_bytes never refuses what to_bytes wrote.
KernelMatchesPopulation ==
    /\ saved.bytes # <<>> => from_bytes(saved.bytes) # {}
    /\ kernel.count = size(held)
    /\ \A j \in 1 .. 2 : kernel.digest[j] = digest_bits(held, j)
    /\ \A i \in 0 .. (StrataCount - 1) :
          kernel.strata[i] = sketch_of(SetToSeq(in_stratum(held, i)), StratumCapacity)

(* The identifiers of a stratum that the two sides do not share.           *)
differing(r, i) ==
    LET p == [e \in Elements |-> held[e] + Cardinality({n \in DOMAIN r : r[n] = e})]
    IN  in_stratum(p, i)

\* triage.rs estimate_strata: when no stratum holds more than StratumCapacity
\* differing identifiers the estimate is their exact number, given with
\* confidence.
EstimateIsExact ==
    \A r \in Remotes :
        LET e == estimate_strata(kernel.strata, kernel_of(r).strata)
        IN  (\A i \in 0 .. (StrataCount - 1) : Cardinality(differing(r, i)) <= StratumCapacity)
              => /\ ~e.low_confidence
                 /\ e.delta = Cardinality(UNION {differing(r, i) : i \in 0 .. (StrataCount - 1)})

=============================================================================

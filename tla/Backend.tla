------------------------------ MODULE Backend ------------------------------
(***************************************************************************)
(* The choice of the field arithmetic's backend                            *)
(* (get_evaluator_with_cache, rezzy-recon/src/gf64_simd.rs): a process-    *)
(* wide atomic that is 0 until some thread has detected the processor's    *)
(* features.  Threads call it concurrently and again and again.            *)
(***************************************************************************)
EXTENDS Naturals, TLAPS

CONSTANTS
    Threads,
    Avx512, Pclmul      \* the features of the processor: both BOOLEAN

ASSUME BackendAssumption == Avx512 \in BOOLEAN /\ Pclmul \in BOOLEAN

VARIABLES
    cache,              \* BACKEND: 0, or the code of a backend
    pc,                 \* where a thread is in the function
    seen,               \* the backend it has detected, or returned
    warnings            \* how often the scalar warning was written

backendVars == <<cache, pc, seen, warnings>>

Backends == {"Scalar", "Sse", "Avx512"}

(* select_evaluator_backend, encode_backend and cached_evaluator.          *)
select_evaluator_backend ==
    IF Avx512 THEN "Avx512" ELSE IF Pclmul THEN "Sse" ELSE "Scalar"

encode_backend(backend) ==
    IF backend = "Scalar" THEN 1 ELSE IF backend = "Sse" THEN 2 ELSE 3

cached_evaluator(cached, fallback) ==
    IF cached = 1 THEN "Scalar"
    ELSE IF cached = 2 THEN "Sse"
    ELSE IF cached = 3 THEN "Avx512"
    ELSE fallback

BackendInit ==
    /\ cache = 0
    /\ pc = [t \in Threads |-> "idle"]
    /\ seen = [t \in Threads |-> "Scalar"]
    /\ warnings = 0

Go(t, where) == pc' = [pc EXCEPT ![t] = where]

(* The relaxed load: the first one of a thread may read 0 although another *)
(* thread has written.                                                     *)
Load_(t) ==
    /\ pc[t] \in {"idle", "returned"}
    /\ \E val \in {cache} \union {z \in {0} : pc[t] = "idle"} :
         IF val # 0 THEN /\ Go(t, "returned")
                         /\ seen' = [seen EXCEPT ![t] = cached_evaluator(val, "Scalar")]
         ELSE Go(t, "detect") /\ UNCHANGED seen
    /\ UNCHANGED <<cache, warnings>>

Detect(t) ==
    /\ pc[t] = "detect"
    /\ seen' = [seen EXCEPT ![t] = select_evaluator_backend]
    /\ Go(t, "exchange")
    /\ UNCHANGED <<cache, warnings>>

(* As Exchange, with a loser that goes on like the winner.                 *)
exchange_unchecked(t) ==
    /\ pc[t] = "exchange"
    /\ cache' = encode_backend(seen[t])
    /\ Go(t, "warn")
    /\ UNCHANGED <<seen, warnings>>

(* compare_exchange: one thread wins.                                      *)
Exchange(t) ==
    /\ pc[t] = "exchange"
    /\ IF cache = 0 THEN cache' = encode_backend(seen[t]) /\ Go(t, "warn")
       ELSE Go(t, "reload") /\ UNCHANGED cache
    /\ UNCHANGED <<seen, warnings>>

Reload_(t) ==
    /\ pc[t] = "reload"
    /\ seen' = [seen EXCEPT ![t] = cached_evaluator(cache, seen[t])]
    /\ Go(t, "returned")
    /\ UNCHANGED <<cache, warnings>>

(* warn_if_scalar, by the winner.                                          *)
Warn(t) ==
    /\ pc[t] = "warn"
    /\ warnings' = IF seen[t] = "Scalar" THEN warnings + 1 ELSE warnings
    /\ Go(t, "returned")
    /\ UNCHANGED <<cache, seen>>

BackendNext ==
    \E t \in Threads : Load_(t) \/ Detect(t) \/ Exchange(t) \/ Reload_(t) \/ Warn(t)

BackendSpec == BackendInit /\ [][BackendNext]_backendVars

----------------------------------------------------------------------------
BackendTypeOK ==
    /\ cache \in 0 .. 3
    /\ pc \in [Threads -> {"idle", "detect", "exchange", "reload", "warn", "returned"}]
    /\ seen \in [Threads -> Backends]
    /\ warnings \in Nat

\* gf64_simd.rs get_evaluator_with_cache: "other concurrent callers use the
\* winner's cached backend and must not repeat the scalar warning": the warning
\* is written at most once in the life of the process, only on a processor that
\* has neither feature, and every call returns the same backend.
OneBackendOneWarning ==
    /\ warnings <= 1
    /\ warnings = 1 => ~ Avx512 /\ ~ Pclmul
    /\ \A t \in Threads : pc[t] = "returned" => seen[t] = select_evaluator_backend

(* What makes it inductive: nobody wins while the cache is 0, one thread   *)
(* wins, and no warning was written before that thread writes it.          *)
BackendInv ==
    /\ BackendTypeOK
    /\ OneBackendOneWarning
    /\ cache # 0 => cache = encode_backend(select_evaluator_backend)
    /\ cache = 0 => warnings = 0
    /\ \A t \in Threads :
          /\ pc[t] \in {"exchange", "reload", "warn"} => seen[t] = select_evaluator_backend
          /\ pc[t] \in {"reload", "warn"} => cache # 0
          /\ pc[t] = "warn" => warnings = 0
    /\ \A t, u \in Threads : pc[t] = "warn" /\ pc[u] = "warn" => t = u

-----------------------------------------------------------------------------
(***************************************************************************)
(* One backend and at most one warning, for any number of threads.         *)
(***************************************************************************)

\* The inductive invariant of the backend's cache: the thread that wins the
\* exchange is the only one that may still have to warn.
LEMMA BackendInductive == BackendInv /\ [BackendNext]_backendVars => BackendInv'
<1> SUFFICES ASSUME BackendInv, [BackendNext]_backendVars PROVE BackendInv'
  OBVIOUS
<1> DEFINE chosen == select_evaluator_backend
<1>0. /\ chosen \in Backends
      /\ encode_backend(chosen) \in 1 .. 3
      /\ \A f \in Backends : cached_evaluator(encode_backend(chosen), f) = chosen
      /\ encode_backend(chosen) = 1 <=> chosen = "Scalar"
  BY DEF select_evaluator_backend, Backends, encode_backend, cached_evaluator
<1>s. chosen = "Scalar" => ~ Avx512 /\ ~ Pclmul
  BY BackendAssumption DEF select_evaluator_backend
<1> HIDE DEF chosen
<1>c. chosen = select_evaluator_backend
  BY DEF chosen
<1>1. CASE UNCHANGED backendVars
  BY <1>1 DEF backendVars, BackendInv, BackendTypeOK, OneBackendOneWarning
<1>2. ASSUME NEW t \in Threads, Load_(t) PROVE BackendInv'
  <2>1. "Scalar" \in Backends
    BY DEF Backends
  <2>2. CASE Go(t, "detect") /\ UNCHANGED seen
    BY <1>2, <2>2 DEF BackendInv, BackendTypeOK, OneBackendOneWarning, Load_, Go
  <2>3. CASE cache # 0 /\ Go(t, "returned") /\ seen' = [seen EXCEPT ![t] = chosen]
    BY <1>2, <2>3, <1>0, <1>c DEF BackendInv, BackendTypeOK, OneBackendOneWarning, Load_, Go
  <2>4. QED
    BY <1>2, <2>1, <2>2, <2>3, <1>0, <1>c DEF Load_, BackendInv
<1>3. ASSUME NEW t \in Threads, Detect(t) PROVE BackendInv'
  BY <1>3, <1>0, <1>c DEF BackendInv, BackendTypeOK, OneBackendOneWarning, Detect, Go
<1>4. ASSUME NEW t \in Threads, Exchange(t) PROVE BackendInv'
  <2>1. CASE cache = 0
    BY <1>4, <2>1, <1>0, <1>c DEF BackendInv, BackendTypeOK, OneBackendOneWarning, Exchange, Go
  <2>2. CASE cache # 0
    BY <1>4, <2>2 DEF BackendInv, BackendTypeOK, OneBackendOneWarning, Exchange, Go
  <2>3. QED
    BY <2>1, <2>2
<1>5. ASSUME NEW t \in Threads, Reload_(t) PROVE BackendInv'
  <2>1. seen' = [seen EXCEPT ![t] = chosen]
    BY <1>5, <1>0, <1>c DEF BackendInv, BackendTypeOK, Reload_
  <2>2. QED
    BY <1>5, <2>1, <1>0, <1>c DEF BackendInv, BackendTypeOK, OneBackendOneWarning, Reload_, Go
<1>6. ASSUME NEW t \in Threads, Warn(t) PROVE BackendInv'
  <2>1. warnings = 0 /\ seen[t] = chosen
    BY <1>6, <1>c DEF BackendInv, Warn
  <2>2. warnings' = (IF chosen = "Scalar" THEN 1 ELSE 0)
    BY <1>6, <2>1 DEF Warn
  <2>3. QED
    BY <1>6, <2>1, <2>2, <1>s, <1>0, <1>c
       DEF BackendInv, BackendTypeOK, OneBackendOneWarning, Warn, Go
<1>7. QED
  BY <1>1, <1>2, <1>3, <1>4, <1>5, <1>6 DEF BackendNext

\* get_evaluator_with_cache, for any number of threads: they all use one
\* backend, the one of the processor, and the scalar warning is written at most
\* once.
THEOREM BackendIsAgreed == BackendSpec => []OneBackendOneWarning
<1>1. BackendInit => BackendInv
  BY DEF BackendInit, BackendInv, BackendTypeOK, OneBackendOneWarning, Backends
<1>2. BackendInv => OneBackendOneWarning
  BY DEF BackendInv
<1>3. QED
  BY <1>1, <1>2, BackendInductive, PTL DEF BackendSpec
=============================================================================

------------------------------ MODULE V3Repair ------------------------------
(***************************************************************************)
(* resolve_v3 (resolve/v3.rs): admitted writers compete for their state    *)
(* keys in rounds.  A round selects one causally maximal writer per key,   *)
(* judges every selection against the state the selections make, and       *)
(* removes all the refused writers together; the first round that refuses  *)
(* nobody is the answer.  Causal answers are remembered across rounds.     *)
(*                                                                         *)
(* The V3AdmissionProvider is external: `facts' is what it answers.  A     *)
(* writer is authorized by a state that holds all it needs and nothing     *)
(* that bars it.  Event ids are numbers, ordered as the code orders ids.   *)
(***************************************************************************)
EXTENDS Naturals, FiniteSets

CONSTANTS
  Events,        \* the conflicted events
  Key,           \* their state keys; not in WrittenKeys for an event without one
  Rank,          \* their V3Rank, as a number
  Unconflicted,  \* the agreed state: key -> the event it holds, or 0
  Facts          \* what the provider may know

VARIABLES
  facts,       \* what it knows in this run
  index,       \* AdmittedWriterIndex: the writers still in play
  cache,       \* CausalRelationCache: <<ancestor, descendant>> -> answer
  asked,       \* how often the provider was asked each pair (a history)
  selections,  \* the round's selections: key -> event, 0 for none
  phase,       \* "admit", "select", "judge", "ok" or "error"
  rounds       \* removing rounds so far (a history)

v3vars == <<facts, index, cache, asked, selections, phase, rounds>>

WrittenKeys == DOMAIN Unconflicted
Writers == {e \in Events : Key[e] \in WrittenKeys}
Pairs == {p \in Events \X Events : p[1] # p[2]}
writers(k) == {e \in index : Key[e] = k}

Init ==
  /\ facts \in Facts
  /\ index = {}
  /\ cache = [p \in {} |-> FALSE]
  /\ asked = [p \in Pairs |-> 0]
  /\ selections = [k \in WrittenKeys |-> 0]
  /\ phase = "admit"
  /\ rounds = 0

(* Every state writer must carry a certificate, or nothing is resolved. *)
Admit ==
  /\ phase = "admit"
  /\ index' = Writers
  /\ phase' = IF Writers \subseteq facts.certified THEN "select" ELSE "error"
  /\ UNCHANGED <<facts, cache, asked, selections, rounds>>

(* CausalRelationCache::precedes: a remembered answer, else the provider's. *)
precedes(a, b) ==
  IF <<a, b>> \in DOMAIN cache THEN cache[<<a, b>>] ELSE <<a, b>> \in facts.precedes

(* The others a candidate is compared with: in id order, up to the first   *)
(* that it precedes.                                                       *)
compared(e) ==
  {o \in writers(Key[e]) \ {e} :
     \A p \in writers(Key[e]) \ {e} : p < o => ~precedes(e, p)}

(* A mutant: the relation is read backwards. *)
is_minimal(e) == \A o \in compared(e) : ~precedes(o, e)

is_maximal(e) == \A o \in compared(e) : ~precedes(e, o)

outranks(a, b) == Rank[a] > Rank[b] \/ (Rank[a] = Rank[b] /\ a > b)

(* max_by over the maximal writers: 0 when there is none, which with       *)
(* writers present means the provider reported a cycle.                    *)
selected(k) ==
  LET maximal == {e \in writers(k) : is_maximal(e)} IN
  IF maximal = {} THEN 0 ELSE CHOOSE e \in maximal : \A o \in maximal \ {e} : outranks(e, o)

queries == {p \in Pairs : /\ p[1] \in index /\ p[2] \in compared(p[1])
                          /\ p \notin DOMAIN cache}

remembered(old, new) ==
  [p \in DOMAIN old \cup new |-> IF p \in DOMAIN old THEN old[p] ELSE p \in facts.precedes]

SelectRound ==
  /\ phase = "select"
  /\ asked' = [p \in Pairs |-> IF p \in queries THEN asked[p] + 1 ELSE asked[p]]
  /\ cache' = remembered(cache, queries)
  /\ selections' = [k \in WrittenKeys |-> selected(k)]
  /\ phase' = IF \/ queries \cap facts.unknown # {}
                 \/ \E k \in WrittenKeys : writers(k) # {} /\ selected(k) = 0
              THEN "error" ELSE "judge"
  /\ UNCHANGED <<facts, index, rounds>>

(* state_for_round: the selections over the agreed state. *)
state_for_round ==
  [k \in WrittenKeys |-> IF selections[k] # 0 THEN selections[k] ELSE Unconflicted[k]]

held == {state_for_round[k] : k \in WrittenKeys}

jointly_authorized(e) == facts.needs[e] \subseteq held /\ facts.bars[e] \cap held = {}

chosen == {selections[k] : k \in WrittenKeys} \ {0}

(* evaluate_round: every selection against the one frozen state. *)
rejected == {e \in chosen : ~jointly_authorized(e)}

remove_all(refused) == index \ refused

(* A mutant: the refused writers stay in play. *)
evaluate_without_removing ==
  /\ phase = "judge"
  /\ phase' = IF chosen \cap facts.unsure # {} THEN "error" ELSE IF rejected = {} THEN "ok" ELSE "select"
  /\ UNCHANGED <<facts, index, cache, asked, selections, rounds>>

EvaluateRound ==
  /\ phase = "judge"
  /\ IF chosen \cap facts.unsure # {} THEN phase' = "error" /\ UNCHANGED <<index, rounds>>
     ELSE IF rejected = {} THEN phase' = "ok" /\ UNCHANGED <<index, rounds>>
     ELSE /\ index' = remove_all(rejected)
          /\ phase' = "select"
          /\ rounds' = rounds + 1
  /\ UNCHANGED <<facts, cache, asked, selections>>

Answered == phase \in {"ok", "error"} /\ UNCHANGED v3vars

Next == Admit \/ SelectRound \/ EvaluateRound \/ Answered

Spec == Init /\ [][Next]_v3vars /\ WF_v3vars(Admit \/ SelectRound \/ EvaluateRound)

(* The state resolve_v3 returns is one its own writers may make: each is   *)
(* authorized by it, none has a later writer of its key still in play, and *)
(* none is outranked by a writer that no one follows.  So what the causal  *)
(* answers of earlier rounds decide still holds among those who remain.    *)
RepairIsConsistent ==
  phase = "ok" =>
    /\ \A e \in chosen : jointly_authorized(e)
    /\ \A k \in WrittenKeys : writers(k) # {} =>
         /\ selections[k] \in writers(k)
         /\ \A o \in writers(k) \ {selections[k]} :
              /\ <<selections[k], o>> \notin facts.precedes
              /\ outranks(o, selections[k]) =>
                   \E p \in writers(k) : <<o, p>> \in facts.precedes

(* resolve_v3 fails closed, and only for cause: a certificate is missing,  *)
(* the provider could not answer something, or its relation has a cycle.   *)
FailsOnlyForCause ==
  phase = "error" =>
    \/ ~(Writers \subseteq facts.certified)
    \/ facts.unknown # {} \/ facts.unsure # {}
    \/ \E S \in (SUBSET Writers) \ {{}} : \A e \in S : \E o \in S : <<e, o>> \in facts.precedes

(* Each ordered pair is asked of the provider at most once across all the  *)
(* rounds.                                                                 *)
AskedOnce == \A p \in Pairs : asked[p] <= 1

(* There is at most one removing round per admitted writer. *)
RoundsAreBounded == rounds <= Cardinality(Writers)

=============================================================================

----------------------------- MODULE Redactions -----------------------------
(***************************************************************************)
(* apply_authorized_redactions_with_state_at (src/auth/mod.rs): every      *)
(* accepted redaction of a batch whose target is in the batch is judged    *)
(* against the state at the redaction and strips its target in place.      *)
(* Redactions may be redacted, by chains that even close into cycles, and  *)
(* a redaction that was stripped before its turn no longer names a target. *)
(*                                                                         *)
(* The caller (external) runs two batches: the redactions whose target was *)
(* not in the first are driven again with the second.                      *)
(*                                                                         *)
(* An event is [id, sender, redaction, redacts : id or None, server,       *)
(* rejected, soft_fail, stripped]: server is the domain of its id,         *)
(* stripped whether its content is gone.                                   *)
(***************************************************************************)
EXTENDS AuthRules, FiniteSets, SequencesExt

CONSTANT Scenarios  \* [first, second : sequences of events, state_at : id -> state or None,
                    \*  version : of the algorithm, room_version : a number]

VARIABLES
  scene,
  batch,     \* the events of the call, changed in place
  before,    \* the same events when the call began
  pairs,     \* the pairs <<redaction, target>> of positions still to be applied
  report,    \* [applied, skipped, failed, absent : sets of redaction ids]
  round      \* 1, 2: a call runs; 11, 12: it has returned

NoReport == [applied |-> {}, skipped |-> {}, failed |-> {}, absent |-> {}]

Active(events) == {n \in DOMAIN events : events[n].redaction /\ ~events[n].rejected /\ ~events[n].soft_fail}

\* pos_by_id: the last event of that id; 0 when the batch has none.
Position(events, id) ==
  LET at == {n \in DOMAIN events : events[n].id = id}
  IN  IF at = {} THEN 0 ELSE CHOOSE n \in at : \A m \in at : m <= n

Target(events, rp) == Position(events, events[rp].redacts)

\* In the order of the redactions; a redaction of itself is dropped.
Pairs(events) ==
  LET named == {n \in Active(events) : events[n].redacts # None /\ Target(events, n) \notin {0, n}}
      order == SetToSortSeq(named, <)
  IN  [n \in DOMAIN order |-> <<order[n], Target(events, order[n])>>]

Absent(events) ==
  {events[n].id : n \in {m \in Active(events) : events[m].redacts # None /\ Target(events, m) = 0}}

-----------------------------------------------------------------------------
(***************************************************************************)
(* The order: a pair waits for the one in which its target is the          *)
(* redaction (Kahn's algorithm over that forest); what lies on or behind a *)
(* cycle comes last, as it was given.                                      *)
(***************************************************************************)
Children(ps, i) == SelectSeq([n \in DOMAIN ps |-> n], LAMBDA c : ps[c][2] = ps[i][1])

RECURSIVE Kahn(_, _, _)
Kahn(ps, queue, order) ==
  IF queue = << >> THEN order
  ELSE Kahn(ps, Tail(queue) \o Children(ps, Head(queue)), Append(order, Head(queue)))

\* A plausible mistake: the batch is applied in the order it came in.
as_given(ps) == ps

ordered(ps) ==
  LET indices == [n \in DOMAIN ps |-> n]
      free == SelectSeq(indices, LAMBDA i : \A n \in DOMAIN ps : ps[n][1] # ps[i][2])
      sorted == Kahn(ps, free, << >>)
      order == sorted \o SelectSeq(indices, LAMBDA i : i \notin ToSet(sorted))
  IN  [n \in DOMAIN order |-> ps[order[n]]]

-----------------------------------------------------------------------------
DEFAULT_PL_REDACT == 50

redaction_is_authorized(redaction, target, get, v, room_version) ==
  \/ redaction.sender = target.sender
  \/ get_sender_power_level(redaction.sender, get, v)
       >= pl_field_or_default(get, "redact", DEFAULT_PL_REDACT)
  \/ room_version \in {1, 2} /\ redaction.redacts # None /\ redaction.server = target.server

Authorized(redaction, target) ==
  /\ scene.state_at[redaction.id] # None
  /\ redaction_is_authorized(redaction, target, scene.state_at[redaction.id], scene.version, scene.room_version)

\* LeanEvent::redacted: the redacted id is content, which v11 keeps.
redacted(e) == [e EXCEPT !.stripped = TRUE, !.redacts = IF scene.room_version >= 11 THEN @ ELSE None]

Start(events) ==
  /\ batch' = events /\ before' = events
  /\ pairs' = ordered(Pairs(events))
  /\ report' = NoReport

Init ==
  /\ scene \in Scenarios
  /\ batch = scene.first /\ before = scene.first
  /\ pairs = ordered(Pairs(scene.first))
  /\ report = NoReport /\ round = 1

ApplyPair ==
  /\ round \in {1, 2} /\ pairs # << >>
  /\ LET rp == Head(pairs)[1]
         tp == Head(pairs)[2]
         id == batch[rp].id
     IN  \/ /\ ~Authorized(batch[rp], batch[tp])
            /\ report' = [report EXCEPT !.skipped = @ \cup {id}]
            /\ UNCHANGED batch
         \/ /\ Authorized(batch[rp], batch[tp]) /\ batch[rp].redacts = batch[tp].id
            /\ batch' = [batch EXCEPT ![tp] = redacted(@)]
            /\ report' = [report EXCEPT !.applied = @ \cup {id}]
         \/ /\ Authorized(batch[rp], batch[tp]) /\ batch[rp].redacts # batch[tp].id
            /\ report' = [report EXCEPT !.failed = @ \cup {id}]
            /\ UNCHANGED batch
  /\ pairs' = Tail(pairs)
  /\ UNCHANGED <<scene, before, round>>

Report ==
  /\ round \in {1, 2} /\ pairs = << >>
  /\ report' = [report EXCEPT !.absent = Absent(before)]
  /\ round' = round + 10
  /\ UNCHANGED <<scene, batch, before, pairs>>

SecondBatch ==
  /\ round = 11
  /\ Start(SelectSeq(batch, LAMBDA e : e.id \in report.absent) \o scene.second)
  /\ round' = 2
  /\ UNCHANGED scene

Next == ApplyPair \/ Report \/ SecondBatch

-----------------------------------------------------------------------------
Returned == round \in {11, 12}

RECURSIVE Follows(_, _)
Follows(ps, S) ==
  LET more == S \cup {p[2] : p \in {q \in ToSet(ps) : q[1] \in S}}
  IN  IF more = S THEN S ELSE Follows(ps, more)

Accepted(events) == {n \in DOMAIN events : events[n].redaction /\ ~(events[n].rejected \/ events[n].soft_fail)}

OnCycle(ps, rp) == \E p \in ToSet(ps) : p[1] = rp /\ rp \in Follows(ps, {p[2]})

\* Each accepted redaction that names another event is reported exactly once: as
\* absent when the batch lacks its target, as skipped when the state at the
\* redaction does not allow it, and otherwise as applied, even when it is itself
\* redacted in the same batch; only redactions whose chain runs into a cycle may
\* fail, or lose the right that their redacted id gave them.
RedactionsAreAccountedFor ==
  Returned =>
    \A rp \in Accepted(before) :
      LET e == before[rp]
          tp == Target(before, rp)
          into_cycle == \E p \in Follows(Pairs(before), {rp}) : OnCycle(Pairs(before), p)
          lists == {l \in DOMAIN report : e.id \in report[l]}
      IN  /\ e.redacts = None \/ tp = rp => lists = {}
          /\ e.redacts # None /\ tp = 0 => lists = {"absent"}
          /\ e.redacts # None /\ tp \notin {0, rp} =>
               /\ Cardinality(lists) = 1
               /\ ~Authorized(e, before[tp]) => lists = {"skipped"}
               /\ Authorized(e, before[tp]) /\ ~into_cycle => lists = {"applied"}

\* An event loses its content exactly when an authorized redaction of the batch,
\* never a rejected or soft-failed one, was applied to it; everything else leaves
\* the call as it entered it.
OnlyAppliedRedactionsStrip ==
  Returned =>
    \A tp \in DOMAIN batch :
      LET hit == \E rp \in Accepted(before) : /\ before[rp].id \in report.applied
                                             /\ Target(before, rp) = tp
                                             /\ Authorized(before[rp], before[tp])
      IN  IF hit THEN batch[tp].stripped ELSE batch[tp] = before[tp]
=============================================================================

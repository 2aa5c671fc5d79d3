------------------------------- MODULE GapFill -------------------------------
(***************************************************************************)
(* `federation gap-fill` (gap_fill in rezzy-cli/src/federation.rs): rounds *)
(* of requests that fetch missing events into round folders, two files of  *)
(* ids already asked for, crashes at any point, and --resume.              *)
(*                                                                         *)
(* A crash loses what the writer has buffered, except for a prefix that    *)
(* may have reached the file; a line that was cut is skipped by            *)
(* read_round_events, so it is a lost line.  Replacing tried.txt is atomic *)
(* (write_frontier_checkpoint renames a temporary file).                   *)
(***************************************************************************)
EXTENDS DagWalk

CONSTANTS
    Local,      \* the events of the input files
    Rounds,     \* --rounds, 0 for no limit
    MaxFaults,  \* bound on failing requests, crashes and refusals
    MaxRuns     \* bound on how often the command is started

VARIABLES
    skip_tried, \* --skip-tried
    mode,       \* "fallback", "no_fallback" or "no_backfill"
    rounds,     \* the round folders: a sequence of [backfill, auth]
    tried,      \* tried.txt, and the set in memory
    auth_tried, \* auth-tried.txt, and the set in memory
    pc,         \* what the process does next
    events,     \* the events in memory
    before,     \* how many events a round began with
    ran,        \* rounds of this process
    walk,       \* the crawler, and before it the seeds
    batch,      \* [ids, left, pdus, error]: the request in progress
    chains,     \* the events whose auth chain is still to be asked for
    faults,
    runs,
    delivered,  \* ghost: <<id, e>>: an answer to this process for id held e
    answered    \* ghost: the ids of requests that the destination answered

disk == <<rounds, tried, auth_tried>>
ghosts == <<delivered, answered>>
options == <<skip_tried, mode>>
vars == <<options, disk, pc, events, before, ran, walk, batch, chains, faults, runs, ghosts>>

no_batch == [ids |-> <<>>, left |-> <<>>, pdus |-> <<>>, error |-> "none"]
no_walk == initialize_dag({}, {})

\* The events in the round folders.
Saved == UNION {ToSet(rounds[i].backfill) \cup ToSet(rounds[i].auth) : i \in DOMAIN rounds}

Init ==
    /\ skip_tried \in BOOLEAN
    /\ mode \in {"fallback", "no_fallback", "no_backfill"}
    /\ rounds = <<>> /\ tried = {} /\ auth_tried = {}
    /\ pc = "down"
    /\ events = {} /\ before = 0 /\ ran = 0
    /\ walk = no_walk /\ batch = no_batch /\ chains = <<>>
    /\ faults = 0 /\ runs = 0
    /\ delivered = {} /\ answered = {}

\* A plausible mistake: ids that were asked for are always left out.
skip_always == tried

\* The ids that --skip-tried leaves out.
Skip == IF skip_tried THEN tried ELSE {}

----------------------------------------------------------------------------
\* gap_fill, up to the loop: the first run finds no round folders, later runs
\* pass --resume (without it they would refuse and change nothing).
Start ==
    /\ pc = "down" /\ runs < MaxRuns
    /\ events' = Local \cup Saved
    /\ ran' = 0
    /\ pc' = "round"
    /\ runs' = runs + 1
    /\ delivered' = {}
    /\ UNCHANGED <<options, disk, before, walk, batch, chains, faults, answered>>

\* The head of the loop that ends it.
Leave ==
    /\ pc = "round"
    /\ (Rounds # 0 /\ ran >= Rounds) \/ is_closed(events)
    /\ pc' = "done"
    /\ UNCHANGED <<options, disk, events, before, ran, walk, batch, chains, faults, runs, ghosts>>

\* The folder of a new round; its number follows the existing ones.
new_round(rs) == Append(rs, [backfill |-> <<>>, auth |-> <<>>])

\* The next round: fetch_gap_round up to the crawl.
BeginRound ==
    /\ pc = "round"
    /\ ~(Rounds # 0 /\ ran >= Rounds) /\ ~is_closed(events)
    /\ rounds' = new_round(rounds)
    /\ before' = Cardinality(events)
    /\ walk' = initialize_dag(missing_prev(events) \ Skip, events)
    /\ pc' = "crawl"
    /\ batch' = no_batch
    /\ UNCHANGED <<options, tried, auth_tried, events, ran, chains, faults, runs, ghosts>>

\* One turn of the crawl: the ids of the next request.
NextBatch ==
    /\ pc = "crawl"
    /\ walk.queue # <<>>
    /\ \E p \in {pop_batch(walk.queue, walk.seen, <<>>)} :
         /\ walk' = [walk EXCEPT !.queue = p.queue]
         /\ batch' = [no_batch EXCEPT !.ids = p.ids, !.left = p.ids]
         /\ pc' = IF p.ids = <<>> THEN "crawl"
                  ELSE IF mode = "no_backfill" THEN "each" ELSE "backfill"
    /\ UNCHANGED <<options, disk, events, before, ran, chains, faults, runs, ghosts>>

Ids == ToSet(batch.ids)

\* fetch_dag_batch: /backfill answers.
BackfillAnswers(pdus) ==
    /\ pc = "backfill"
    /\ answered' = answered \cup Ids
    /\ delivered' = delivered \cup {<<e, e>> : e \in ToSet(pdus) \cap Ids}
    /\ batch' = [batch EXCEPT !.pdus = pdus]
    /\ pc' = IF pdus # <<>> THEN "write" ELSE IF mode = "no_fallback" THEN "stop" ELSE "each"
    /\ UNCHANGED <<options, disk, events, before, ran, walk, chains, faults, runs>>

\* /backfill fails with an HTTP status.
BackfillRefused ==
    /\ pc = "backfill" /\ faults < MaxFaults
    /\ faults' = faults + 1
    /\ answered' = answered \cup Ids
    /\ IF mode = "no_fallback"
       THEN /\ batch' = [batch EXCEPT !.error = "http"]
            /\ pc' = "flush"
            /\ UNCHANGED walk
       ELSE /\ walk' = [walk EXCEPT !.failures = TRUE]
            /\ pc' = "each"
            /\ UNCHANGED batch
    /\ UNCHANGED <<options, disk, events, before, ran, chains, runs, delivered>>

\* /backfill gets no answer.
BackfillLost ==
    /\ pc = "backfill" /\ faults < MaxFaults
    /\ faults' = faults + 1
    /\ batch' = [batch EXCEPT !.error = "unreachable"]
    /\ pc' = "flush"
    /\ UNCHANGED <<options, disk, events, before, ran, walk, chains, runs, ghosts>>

\* fetch_events_individually: one event.
AskEach(answer) ==
    /\ pc = "each" /\ batch.left # <<>>
    /\ answer = "ok" \/ faults < MaxFaults
    /\ faults' = IF answer = "ok" THEN faults ELSE faults + 1
    /\ \E r \in {fetch_one(walk, batch.pdus, batch.left, answer)}, id \in {Head(batch.left)} :
         /\ walk' = r.w
         /\ batch' = [batch EXCEPT !.pdus = r.pdus, !.left = r.left]
         /\ answered' = IF answer = "unreachable" THEN answered ELSE answered \cup {id}
         /\ delivered' = IF id \in ToSet(r.pdus) THEN delivered \cup {<<id, id>>} ELSE delivered
    /\ UNCHANGED <<options, disk, pc, events, before, ran, chains, runs>>

EachDone ==
    /\ pc = "each" /\ batch.left = <<>>
    /\ pc' = "write"
    /\ UNCHANGED <<options, disk, events, before, ran, walk, batch, chains, faults, runs, ghosts>>

\* DagBatch::Stop: the ids are recorded and the crawl ends.
StopCrawl ==
    /\ pc = "stop"
    /\ walk' = [walk EXCEPT !.unresolved = @ \cup Ids]
    /\ tried' = tried \cup Ids
    /\ pc' = "reload"
    /\ UNCHANGED <<options, rounds, auth_tried, events, before, ran, batch, chains, faults,
                   runs, ghosts>>

\* A plausible mistake: the ids are recorded before the lines are flushed.
write_recording ==
    /\ pc = "write"
    /\ walk' = write_dag_events(finish_batch(walk, batch.ids, batch.pdus), batch.pdus,
                                events, Skip, Cardinality(Event) + 1)
    /\ tried' = tried \cup Ids
    /\ pc' = "flush"
    /\ UNCHANGED <<options, rounds, auth_tried, events, before, ran, batch, chains, faults, runs,
                   ghosts>>

\* finish_batch and the loop over the PDUs: lines go to the buffer.
Write ==
    /\ pc = "write"
    /\ walk' = write_dag_events(finish_batch(walk, batch.ids, batch.pdus), batch.pdus,
                                events, Skip, Cardinality(Event) + 1)
    /\ pc' = "flush"
    /\ UNCHANGED <<options, disk, events, before, ran, batch, chains, faults, runs, ghosts>>

\* The buffer is written out.
flushed(rs, out) == [rs EXCEPT ![Len(rs)].backfill = @ \o out]

Flush ==
    /\ pc = "flush"
    /\ rounds' = flushed(rounds, walk.out)
    /\ walk' = [walk EXCEPT !.out = <<>>]
    /\ pc' = "checkpoint"
    /\ UNCHANGED <<options, tried, auth_tried, events, before, ran, batch, chains, faults, runs,
                   ghosts>>

\* checkpoint_batch: which ids of the batch are recorded as asked for.
recorded(w, b) ==
    IF b.error = "unreachable" THEN {}
    ELSE IF w.unreachable THEN answered_ids(w, b.ids)
    ELSE ToSet(b.ids)

\* finish_dag_batch after the flush, and the same for a batch that failed.
CheckpointBatch ==
    /\ pc = "checkpoint"
    /\ tried' = tried \cup recorded(walk, batch)
    /\ walk' = [walk EXCEPT !.requested = <<>>]
    /\ pc' = CASE batch.error = "unreachable" \/ walk.unreachable -> "down"
               [] batch.error = "http" -> "auth"
               [] OTHER -> "crawl"
    /\ UNCHANGED <<options, rounds, auth_tried, events, before, ran, batch, chains, faults, runs,
                   ghosts>>

\* finalize_dag, and fetch_gap_round reads the file back.
EndCrawl ==
    /\ IF pc = "crawl" THEN walk.queue = <<>> ELSE pc = "reload"
    /\ events' = events \cup ToSet(Last(rounds).backfill)
    /\ pc' = "auth"
    /\ UNCHANGED <<options, disk, before, ran, walk, batch, chains, faults, runs, ghosts>>

----------------------------------------------------------------------------
\* fetch_auth_for_round: the events that cite missing auth events.
BeginAuth ==
    /\ pc = "auth"
    /\ chains' = in_order(referencing(events) \ (IF skip_tried THEN auth_tried ELSE {}))
    /\ walk' = no_walk
    /\ batch' = no_batch
    /\ pc' = "chain"
    /\ UNCHANGED <<options, disk, events, before, ran, faults, runs, ghosts>>

\* fetch_auth_batches, one request that is answered: items that carry no
\* event_id and items written before are passed over.
ChainAnswers ==
    /\ pc = "chain" /\ chains # <<>>
    /\ \E id \in {Head(chains)}, fresh \in
            {SelectSeq(event_auth(Head(chains)), LAMBDA e : e \in Inline /\ e \notin walk.seen)} :
         /\ walk' = [walk EXCEPT !.seen = @ \cup ToSet(fresh), !.out = @ \o fresh]
         /\ delivered' = delivered \cup {<<id, e>> : e \in ToSet(event_auth(id))}
         /\ answered' = answered \cup {id}
    /\ pc' = "chain_flush"
    /\ UNCHANGED <<options, disk, events, before, ran, batch, chains, faults, runs>>

ChainFlush ==
    /\ pc = "chain_flush"
    /\ rounds' = [rounds EXCEPT ![Len(rounds)].auth = @ \o walk.out]
    /\ walk' = [walk EXCEPT !.out = <<>>]
    /\ pc' = "chain_tried"
    /\ UNCHANGED <<options, tried, auth_tried, events, before, ran, batch, chains, faults, runs,
                   ghosts>>

\* record_auth_tried
ChainTried ==
    /\ pc = "chain_tried"
    /\ auth_tried' = auth_tried \cup {Head(chains)}
    /\ chains' = Tail(chains)
    /\ pc' = "chain"
    /\ UNCHANGED <<options, rounds, tried, events, before, ran, walk, batch, faults, runs, ghosts>>

\* The request fails with an HTTP status: it is recorded all the same.
ChainRefused ==
    /\ pc = "chain" /\ chains # <<>> /\ faults < MaxFaults
    /\ faults' = faults + 1
    /\ answered' = answered \cup {Head(chains)}
    /\ pc' = "chain_tried"
    /\ UNCHANGED <<options, disk, events, before, ran, walk, batch, chains, runs, delivered>>

\* No answer: gap_fill returns the error.
ChainLost ==
    /\ pc = "chain" /\ chains # <<>> /\ faults < MaxFaults
    /\ faults' = faults + 1
    /\ pc' = "down"
    /\ UNCHANGED <<options, disk, events, before, ran, walk, batch, chains, runs, ghosts>>

\* The rest of the round: the auth file is read back, and a round without a new
\* event is the last one.
EndRound ==
    /\ pc = "chain" /\ chains = <<>>
    /\ \E all \in {events \cup ToSet(Last(rounds).auth)} :
         /\ events' = all
         /\ pc' = IF Cardinality(all) <= before THEN "done" ELSE "round"
    /\ ran' = ran + 1
    /\ UNCHANGED <<options, disk, before, walk, batch, chains, faults, runs, ghosts>>

----------------------------------------------------------------------------
Running == pc \notin {"down", "done"}

\* The process dies; a prefix of the buffer may have reached the file.
Crash ==
    /\ Running /\ faults < MaxFaults
    /\ faults' = faults + 1
    /\ \E n \in 0..Len(walk.out) :
         rounds' = IF n = 0 THEN rounds
                   ELSE IF pc = "chain_flush"
                   THEN [rounds EXCEPT ![Len(rounds)].auth = @ \o SubSeq(walk.out, 1, n)]
                   ELSE flushed(rounds, SubSeq(walk.out, 1, n))
    /\ pc' = "down"
    /\ UNCHANGED <<options, tried, auth_tried, events, before, ran, walk, batch, chains, runs,
                   ghosts>>

\* The operator runs the command again after it ended without closing the room.
Rerun ==
    /\ pc = "done" /\ ~is_closed(Local \cup Saved) /\ runs < MaxRuns
    /\ pc' = "down"
    /\ UNCHANGED <<options, disk, events, before, ran, walk, batch, chains, faults, runs, ghosts>>

\* Nothing is left to do.
Rest ==
    /\ ~Running
    /\ runs = MaxRuns \/ (pc = "done" /\ is_closed(Local \cup Saved))
    /\ UNCHANGED vars

\* A step of the running process that is not a fault.
Step ==
    \/ Leave \/ BeginRound \/ NextBatch
    \/ \E pdus \in backfill_answers(batch.ids) : BackfillAnswers(pdus)
    \/ AskEach("ok") \/ EachDone \/ StopCrawl \/ Write \/ Flush \/ CheckpointBatch \/ EndCrawl
    \/ BeginAuth \/ ChainAnswers \/ ChainFlush \/ ChainTried \/ EndRound

Fault ==
    \/ BackfillRefused \/ BackfillLost
    \/ AskEach("http_error") \/ AskEach("unreachable")
    \/ ChainRefused \/ ChainLost \/ Crash

Next == Start \/ Step \/ Fault \/ Rerun \/ Rest

\* Requests time out, so a running process always gets on; the operator starts
\* the command again.
Spec == Init /\ [][Next]_vars /\ WF_vars(Step) /\ WF_vars(Start) /\ WF_vars(Rerun)

----------------------------------------------------------------------------
\* An id is recorded in tried.txt only after the event that the destination sent
\* for it is in a file: with --skip-tried a resumed run never passes over an
\* event that it does not have.
TriedIsSaved ==
    skip_tried => \A e \in tried : <<e, e>> \in delivered => e \in Local \cup Saved

\* The same for auth-tried.txt and the auth chain that was sent for an event.
AuthTriedIsSaved ==
    skip_tried =>
        \A p \in delivered : p[1] # p[2] /\ p[1] \in auth_tried => p[2] \in Local \cup Saved

\* Requests that never got an answer are not recorded, so a resumed run asks for
\* their ids again even with --skip-tried.
UnansweredIsRetried == tried \cup auth_tried \subseteq answered

\* A run that reports the room as closed is right about the files it leaves,
\* although it only looked at what it has in memory: no parent and no auth event
\* is missing there.
ClosedIsTrue ==
    pc = "done" /\ is_closed(events) =>
        \A e \in Local \cup Saved : Prev[e] \cup Auth[e] \subseteq Local \cup Saved

\* Without --skip-tried and with single-event requests allowed, everything that
\* the destination has gets fetched: finitely many failures and crashes only delay
\* it, provided that the operator resumes.
EventuallyClosed ==
    (~skip_tried /\ mode # "no_fallback") =>
        <>[](\A e \in Local \cup Saved : (Prev[e] \cup Auth[e]) \cap Remote \subseteq Local \cup Saved)
=============================================================================

------------------------------ MODULE RemoteDag ------------------------------
(***************************************************************************)
(* `federation get-remote-dag` (get_remote_dag_with_known in               *)
(* rezzy-cli/src/federation.rs) and the fetch by ids that state-diff uses  *)
(* (get_remote_events_by_id): crawls into output files, with the file of   *)
(* missing ids (--emit-missing) from which a later crawl goes on.          *)
(* A crawl may crash; the frontier file is replaced atomically after every *)
(* batch and written once more at the end.  A later crawl is started with  *)
(* --from-file and the same --known files, and has an output of its own.   *)
(***************************************************************************)
EXTENDS DagWalk

CONSTANTS
    Starts,     \* the seeds
    Known,      \* the events of the --known files
    Limits,     \* the values of --limit, as numbers of events
    MaxFaults,  \* bound on failing requests and crashes
    MaxRuns     \* bound on crawls

VARIABLES
    command,    \* "crawl", "no_fallback" (a crawl with --no-fallback) or "by_id"
    limit,
    runs,       \* how many crawls were started
    earlier,    \* the events in the outputs of earlier crawls
    file,       \* the lines of the output file
    frontier,   \* the frontier file: {} before it exists, then {ids}
    pc,
    walk,
    ids,        \* the ids of the request in progress, or those still to ask
    pdus,
    faults

vars == <<command, limit, runs, earlier, file, frontier, pc, walk, ids, pdus, faults>>

Init ==
    /\ command \in {"crawl", "no_fallback", "by_id"}
    /\ limit \in Limits
    /\ runs = 1 /\ earlier = {}
    /\ file = <<>> /\ frontier = {}
    /\ pc = "next"
    /\ walk = [initialize_dag(Starts, Known) EXCEPT !.follow = (command # "by_id")]
    /\ ids = IF command = "by_id" THEN in_order(Starts \ Known) ELSE <<>>
    /\ pdus = <<>>
    /\ faults = 0

Run == <<command, limit, runs, earlier>>

Crawling == command # "by_id"

Flushed(w) == file' = file \o w.out /\ walk' = [w EXCEPT !.out = <<>>]

----------------------------------------------------------------------------
\* get_remote_dag_with_known_and_checkpoint without a checkpoint.

NextBatch ==
    /\ Crawling /\ pc = "next"
    /\ walk.queue # <<>> /\ Cardinality(walk.seen) < limit
    /\ \E p \in {pop_batch(walk.queue, walk.seen, <<>>)} :
         /\ walk' = [walk EXCEPT !.queue = p.queue]
         /\ ids' = p.ids
         /\ pc' = IF p.ids = <<>> THEN "next" ELSE "ask"
    /\ UNCHANGED <<Run, file, frontier, pdus, faults>>

\* The request is answered at once.
Answered(found) ==
    /\ Crawling /\ pc = "ask"
    /\ pdus' = found
    /\ walk' = finish_batch(walk, ids, found)
    /\ pc' = "write"
    /\ UNCHANGED <<Run, file, frontier, ids, faults>>

\* The answer is empty or an HTTP error (then error is 1), and the ids are asked for
\* one by one; refused are those that bring an error.
AnsweredOneByOne(error, refused) ==
    /\ command = "crawl" /\ pc = "ask"
    /\ faults' = faults + error + Cardinality(refused)
    /\ faults' <= MaxFaults
    /\ pdus' = in_order((ToSet(ids) \cap Remote) \ refused)
    /\ walk' = [finish_batch(walk, ids, pdus') EXCEPT
                   !.failures = @ \/ error = 1 \/ refused # {} \/ ~(ToSet(ids) \subseteq Remote)]
    /\ pc' = "write"
    /\ UNCHANGED <<Run, file, frontier, ids>>

\* DagBatch::Stop: with --no-fallback an empty answer ends the crawl.
Stopped ==
    /\ command = "no_fallback" /\ pc = "ask"
    /\ walk' = [walk EXCEPT !.unresolved = @ \cup ToSet(ids)]
    /\ pc' = "stop"
    /\ UNCHANGED <<Run, file, frontier, ids, pdus, faults>>

\* The loop over the PDUs.
write_batch(w, ps) == write_dag_events(w, ps, Known, {}, limit)

\* The destination cannot be reached, at once or after n of the single requests, or
\* there is an HTTP error and no fallback: what was fetched is flushed and the crawl
\* fails.
CrawlLost(n) ==
    /\ Crawling /\ pc = "ask" /\ faults < MaxFaults
    /\ command = "no_fallback" => n = 0
    /\ faults' = faults + 1
    /\ Flushed(write_batch(walk, SelectSeq(SubSeq(ids, 1, n), LAMBDA e : e \in Remote)))
    /\ pc' = "failed"
    /\ UNCHANGED <<Run, frontier, ids, pdus>>

Write ==
    /\ Crawling /\ pc = "write"
    /\ walk' = write_batch(walk, pdus)
    /\ pc' = "flush"
    /\ UNCHANGED <<Run, file, frontier, ids, pdus, faults>>

\* finish_dag_batch: first the events, then the frontier.
Flush ==
    /\ Crawling /\ pc = "flush"
    /\ Flushed(walk)
    /\ pc' = "checkpoint"
    /\ UNCHANGED <<Run, frontier, ids, pdus, faults>>

CheckpointFrontier ==
    /\ Crawling /\ pc = "checkpoint"
    /\ frontier' = {remaining_frontier(walk)}
    /\ pc' = "next"
    /\ UNCHANGED <<Run, file, walk, ids, pdus, faults>>

\* finalize_dag
CrawlEnds ==
    /\ Crawling
    /\ \/ pc = "next" /\ (walk.queue = <<>> \/ Cardinality(walk.seen) >= limit)
       \/ pc = "stop"
    /\ IF file = <<>> /\ walk.failures
       THEN pc' = "failed" /\ UNCHANGED frontier
       ELSE pc' = "done" /\ frontier' = {remaining_frontier(walk)}
    /\ UNCHANGED <<Run, file, walk, ids, pdus, faults>>

----------------------------------------------------------------------------
\* get_remote_events_by_id: one id, then its lines, then a flush.

\* The rest of the ids goes to unresolved if the loop is left early.
FetchById(answer) ==
    /\ command = "by_id" /\ pc = "next" /\ ids # <<>>
    /\ answer = "ok" \/ faults < MaxFaults
    /\ faults' = IF answer = "ok" THEN faults ELSE faults + 1
    /\ \E r \in {fetch_one(walk, <<>>, <<Head(ids)>>, answer)} :
       \E w \in {[r.w EXCEPT !.unresolved =
                    @ \cup (IF r.pdus = <<>> THEN {Head(ids)} ELSE {})]} :
       \E full \in {write_dag_events(w, r.pdus, Known, {}, limit)} :
       \E early \in {w.unreachable \/ (r.pdus # <<>> /\ Cardinality(full.seen) >= limit)} :
         /\ Flushed([full EXCEPT !.unresolved =
                       IF early THEN @ \cup ToSet(Tail(ids)) ELSE @])
         /\ ids' = IF early THEN <<>> ELSE Tail(ids)
         /\ pc' = IF w.unreachable /\ file = <<>> THEN "failed" ELSE "next"
    /\ UNCHANGED <<Run, frontier, pdus>>

ByIdEnds ==
    /\ command = "by_id" /\ pc = "next" /\ ids = <<>>
    /\ IF file = <<>> /\ walk.failures
       THEN pc' = "failed" /\ UNCHANGED frontier
       ELSE pc' = "done" /\ frontier' = {remaining_frontier(walk)}
    /\ UNCHANGED <<Run, file, walk, ids, pdus, faults>>

Crash ==
    /\ pc \notin {"done", "failed", "down"} /\ faults < MaxFaults
    /\ faults' = faults + 1
    /\ \E n \in 0..Len(walk.out) : file' = file \o SubSeq(walk.out, 1, n)
    /\ pc' = "down"
    /\ UNCHANGED <<Run, frontier, walk, ids, pdus>>

\* The operator goes on from the frontier file, or again from the seeds when there
\* is none.
Resume ==
    /\ Crawling /\ pc \in {"done", "failed", "down"} /\ runs < MaxRuns
    /\ \E seeds \in (IF frontier = {} THEN {Starts} ELSE frontier \ {{}}) :
         walk' = initialize_dag(seeds, Known)
    /\ runs' = runs + 1
    /\ earlier' = earlier \cup ToSet(file)
    /\ file' = <<>>
    /\ pc' = "next" /\ ids' = <<>> /\ pdus' = <<>>
    /\ UNCHANGED <<command, limit, frontier, faults>>

Ended == pc \in {"done", "failed", "down"} /\ UNCHANGED vars

Next ==
    \/ NextBatch
    \/ \E found \in backfill_answers(ids) \ {<<>>} : Answered(found)
    \/ \E error \in {0, 1}, refused \in SUBSET ToSet(ids) : AnsweredOneByOne(error, refused)
    \/ \E n \in 0..(Len(ids) - 1) : CrawlLost(n)
    \/ Stopped \/ Write \/ Flush \/ CheckpointFrontier \/ CrawlEnds
    \/ \E answer \in {"ok", "http_error", "unreachable"} : FetchById(answer)
    \/ ByIdEnds \/ Crash \/ Resume \/ Ended

Spec == Init /\ [][Next]_vars

----------------------------------------------------------------------------
Stored == earlier \cup ToSet(file)

\* What the crawls owe: the seeds and the parents of what they stored.
Owed == IF command = "by_id" THEN Starts \ Known
        ELSE (Starts \cup UNION {Prev[e] : e \in Stored}) \ Known


\* The events that a crawl from the ids S asks for, if it gets all of them.
RECURSIVE reached_from(_)
reached_from(S) ==
    LET more == S \cup (UNION {Prev[e] : e \in S} \ Known)
    IN  IF more = S THEN S ELSE reached_from(more)

\* finish_dag_batch: the frontier file and the outputs fit together at any time,
\* although the events of a batch are flushed before the file is replaced.  However
\* crashes, failures and resumed crawls follow each other, whatever is owed and in
\* no output is reached by a crawl from the file, if need be through events that an
\* earlier crawl has stored already.
CrashedFrontierIsEnough ==
    (Crawling /\ limit > Cardinality(Event)) =>
        \A f \in frontier : Owed \ Stored \subseteq reached_from(f \ Known)

\* No event is stored twice in an output, however often the destination repeats it.
StoredOnce == IsInjective(file)
=============================================================================

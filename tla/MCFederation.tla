---------------------------- MODULE MCFederation ----------------------------
(***************************************************************************)
(* The commands of rezzy-cli that talk to servers or keep files, each by   *)
(* itself: which names the one that a behaviour is about, the variables    *)
(* of the others stay as they begin.                                       *)
(***************************************************************************)
EXTENDS Naturals, Sequences

VARIABLES
    which, pc, faults, runs, walk,
    skip_tried, mode, rounds, tried, auth_tried, events, before, ran, batch, chains,
    delivered, answered,
    command, limit, earlier, file, frontier, ids, pdus,
    world, delegation_cache, srv_targets,
    answers, files, asked,
    present, published, sidecars, staged, job, made

\* Five events; 5 is a merge, and 3 is on another branch than its descendants.
Prev == <<{}, {1}, {1}, {2}, {4, 2}>>
Auth == <<{}, {1}, {1, 2}, {2, 1}, {3}>>

GF == INSTANCE GapFill WITH
    Event <- 1..5, Inline <- 1..5, Remote <- 1..5, BATCH <- 2, Local <- {5}, Rounds <- 0,
    MaxFaults <- 2, MaxRuns <- 3

\* The destination lacks event 2 and the operator limits the rounds.
GP == INSTANCE GapFill WITH
    Event <- 1..5, Inline <- 1..5, Remote <- {1, 3, 4, 5}, BATCH <- 2, Local <- {5}, Rounds <- 2,
    MaxFaults <- 1, MaxRuns <- 2

\* Events as servers send them since room version 3: without their event_id.
GW == INSTANCE GapFill WITH
    Event <- 1..5, Inline <- {}, Remote <- 1..5, BATCH <- 2, Local <- {5}, Rounds <- 0,
    MaxFaults <- 0, MaxRuns <- 1

\* A chain of five below a seed, long enough for a batch to store two generations
\* below the frontier file; the destination lacks the other seed.
RD == INSTANCE RemoteDag WITH
    Event <- 1..6, Prev <- <<{}, {1}, {2}, {3}, {4, 6}, {1}>>, Auth <- [e \in 1..6 |-> {}],
    Inline <- {1, 2, 4, 5, 6}, Remote <- 1..5, BATCH <- 2,
    Starts <- {1, 5, 6}, Known <- {1}, Limits <- {2, 9}, MaxFaults <- 2, MaxRuns <- 2

DL == INSTANCE Delegation WITH
    Worlds <- [well_known : {{}, {"w"}}, fed : {{}, {"f"}}, legacy : {{}, {"l"}}], MaxFaults <- 4

\* The names of two destinations differ only in characters that are not allowed
\* in file names, or the stems of two pairs run together.
SD == INSTANCE StateDiff WITH
    Commands <- [destinations : {<<<<"a">>, <<"b">>, <<"c">>>>, <<<<"a", ":">>, <<"b">>, <<"a", "_">>>>,
                                 <<<<"a">>, <<"b", "__vs__", "c">>, <<"a", "__vs__", "b">>, <<"c">>>>},
                 fetch : BOOLEAN, known_file : {<<<<"a">>, "state", "jsonl">>, <<<<"k">>, "", "jsonl">>}],
    Known <- {1, 2}, Deep <- {2},
    Answers <- {{}, {[state |-> {1, 2, 3}, auth_chain |-> {1}]}, {[state |-> {1}, auth_chain |-> {4}]}}

Line(e, p, u, st, rj) ==
    [event_id |-> e, payload |-> p, unsigned |-> u, streams |-> st, rejected |-> rj]

Dump(t, v, lines) == [token |-> t, version |-> v, lines |-> lines]

Opt(m, p, c, r) == [mode |-> m, room |-> "a", provenance |-> p, check |-> c, repair |-> r]

\* Dump 4 needs repair, dump 5 has another payload for event 2, dump 6 has no
\* version in its name.  Claimed depths and times contradict the parents.
AG == INSTANCE Aggregate WITH
    Files <- <<Dump("a", {10}, <<Line(1, 1, 0, {5}, {}), Line(2, 2, 0, {6}, {TRUE})>>),
               Dump("a", {10}, <<Line(3, 3, 0, {2}, {}), Line(2, 2, 1, {}, {FALSE}),
                                 Line(1, 1, 0, {9}, {})>>),
               Dump("a", {10}, <<Line(4, 4, 0, {3, 4}, {})>>),
               Dump("b", {10}, <<Line(0, 5, 0, {1}, {})>>),
               Dump("a", {10}, <<Line(2, 6, 0, {}, {})>>),
               Dump("a", {}, <<Line(3, 3, 0, {}, {})>>)>>,
    Prev <- <<{}, {1}, {2}, {3, 2}, {}, {1}>>, References <- <<{}, {1}, {1}, {1}, {}, {1}>>,
    Depth <- <<1, 2, 1, 4, 1, 2>>, Ts <- <<5, 4, 4, 1, 1, 3>>,
    Listings <- {{1}, {1, 3}, {1, 2, 3, 4}, {1, 5}, {1, 6}}, Proc <- {1, 2},
    Options <- {Opt("scan", TRUE, FALSE, FALSE), Opt("scan", FALSE, FALSE, TRUE),
                Opt("scan", TRUE, TRUE, FALSE), Opt("room", FALSE, TRUE, TRUE),
                Opt("room", TRUE, FALSE, TRUE), Opt("files", TRUE, FALSE, TRUE)},
    MaxFaults <- 1, MaxRuns <- 2

gapVars == <<skip_tried, mode, rounds, tried, auth_tried, events, before, ran, batch, chains,
             delivered, answered>>
crawlVars == <<limit, earlier, file, frontier, ids, pdus>>
lookupVars == <<world, delegation_cache, srv_targets>>
diffVars == <<answers, files, asked>>
dumpVars == <<present, published, sidecars, staged, job, made>>
vars == <<which, pc, faults, runs, walk, command, gapVars, crawlVars, lookupVars, diffVars, dumpVars>>

\* The variables that a command does not have.
NoGap ==
    /\ skip_tried = FALSE /\ mode = "" /\ rounds = <<>> /\ tried = {} /\ auth_tried = {}
    /\ events = {} /\ before = 0 /\ ran = 0 /\ batch = <<>> /\ chains = <<>>
    /\ delivered = {} /\ answered = {}
NoCrawl ==
    /\ limit = 0 /\ earlier = {} /\ file = <<>> /\ frontier = {} /\ ids = <<>> /\ pdus = <<>>
NoLookup == world = <<>> /\ delegation_cache = {} /\ srv_targets = {}
NoDiff == answers = <<>> /\ files = {} /\ asked = 0
NoDumps ==
    /\ present = {} /\ published = <<>> /\ sidecars = <<>> /\ staged = {} /\ job = <<>>
    /\ made = {}

Init ==
    \/ /\ which \in {"gap_fill", "partial"} /\ GF!Init
       /\ command = <<>> /\ NoCrawl /\ NoLookup /\ NoDiff /\ NoDumps
    \/ /\ which = "crawl" /\ RD!Init
       /\ NoGap /\ NoLookup /\ NoDiff /\ NoDumps
    \/ /\ which = "lookup" /\ DL!Init
       /\ pc = "" /\ runs = 0 /\ walk = <<>> /\ command = <<>> /\ NoGap /\ NoCrawl /\ NoDiff /\ NoDumps
    \/ /\ which = "diff" /\ SD!Init
       /\ faults = 0 /\ runs = 0 /\ walk = <<>> /\ NoGap /\ NoCrawl /\ NoLookup /\ NoDumps
    \/ /\ which = "aggregate" /\ AG!Init
       /\ walk = <<>> /\ command = <<>> /\ NoGap /\ NoCrawl /\ NoLookup /\ NoDiff

Others == <<which, crawlVars, lookupVars, diffVars, dumpVars, command>>

Next ==
    \/ which = "gap_fill" /\ GF!Next /\ UNCHANGED Others
    \/ which = "partial" /\ GP!Next /\ UNCHANGED Others
    \/ which = "crawl" /\ RD!Next /\ UNCHANGED <<which, gapVars, lookupVars, diffVars, dumpVars>>
    \/ which = "lookup" /\ DL!Next
       /\ UNCHANGED <<which, pc, runs, walk, command, gapVars, crawlVars, diffVars, dumpVars>>
    \/ which = "diff" /\ SD!Next
       /\ UNCHANGED <<which, faults, runs, walk, gapVars, crawlVars, lookupVars, dumpVars>>
    \/ which = "aggregate" /\ AG!Next
       /\ UNCHANGED <<which, walk, command, gapVars, crawlVars, lookupVars, diffVars>>

\* What is fair in GapFill is fair here.
Step == \/ which = "gap_fill" /\ GF!Step /\ UNCHANGED Others
        \/ which = "partial" /\ GP!Step /\ UNCHANGED Others
Start == \/ which = "gap_fill" /\ GF!Start /\ UNCHANGED Others
         \/ which = "partial" /\ GP!Start /\ UNCHANGED Others
Rerun == \/ which = "gap_fill" /\ GF!Rerun /\ UNCHANGED Others
         \/ which = "partial" /\ GP!Rerun /\ UNCHANGED Others

Spec == Init /\ [][Next]_vars /\ WF_vars(Step) /\ WF_vars(Start) /\ WF_vars(Rerun)

InitWire == which = "wire" /\ GW!Init /\ command = <<>> /\ NoCrawl /\ NoLookup /\ NoDiff /\ NoDumps
SpecWire == InitWire /\ [][GW!Next /\ UNCHANGED Others]_vars

Filling == which \in {"gap_fill", "partial"}

----------------------------------------------------------------------------
\* gap-fill: an id counts as asked for, alone or for its auth chain, only after
\* what was sent for it is in a file, and never if no answer came, so --skip-tried
\* passes over no event that is not there; and a room reported as closed is closed
\* on disk.
TriedIsSaved ==
    /\ Filling => GF!TriedIsSaved /\ GF!AuthTriedIsSaved /\ GF!UnansweredIsRetried
    /\ which = "gap_fill" => GF!ClosedIsTrue

\* gap-fill, for events in the format of room version 3 and later: a resumed run
\* never skips an id whose auth events were not saved.
AuthTriedIsSavedOnWire == GW!AuthTriedIsSaved

\* gap-fill: neither a crash nor a resumed run loses events of a round folder, every
\* run comes to an end, and without --skip-tried everything that the destination
\* has is fetched in the end, however failures and crashes fall.
EventuallyClosed ==
    /\ [][Filling => GF!Saved \subseteq (GF!Saved)']_vars
    /\ []<>(Filling => ~GF!Running)
    /\ which = "gap_fill" => GF!EventuallyClosed
    /\ which = "partial" => GP!EventuallyClosed


\* aggregate, with two processes and crashes: written and current mean that the
\* pair is what the dumps give, a stream order that a timeline takes from a sidecar
\* belongs to the aggregate beside it, and only a crash leaves temporary files.
OutcomeIsTrue ==
    which = "aggregate" =>
        AG!OutcomeIsTrue /\ AG!StreamOrderIsHonest /\ AG!NothingStagedIsLeft

\* aggregate: the order of the dumps does not matter, timelines show parents first,
\* and the sidecar has every observation and names the disputes.
DumpOrderIsIrrelevant ==
    which = "aggregate" =>
        AG!DumpOrderIsIrrelevant /\ AG!TimelinesAreCausal /\ AG!ProvenanceIsComplete
=============================================================================

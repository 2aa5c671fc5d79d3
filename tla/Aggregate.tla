----------------------------- MODULE Aggregate -----------------------------
(***************************************************************************)
(* What the command line tool does with dumps of a room, as functions:     *)
(* merging files by event id (rezzy-cli/src/jsonl_merge.rs), putting       *)
(* events in order (timeline_order.rs, format.rs), and the provenance      *)
(* sidecar (provenance.rs) with its checks on reading (format.rs).         *)
(*                                                                         *)
(* A line of a dump is [event_id, payload, unsigned, streams, rejected]:   *)
(* event_id is 0 if the line has none; payload is the redacted canonical   *)
(* form of the event, whose reference hash is the number itself; unsigned  *)
(* stands for the part of the event outside that form; streams are the     *)
(* values under the stream-order aliases, rejected is {} or {claim}.       *)
(* Serialized bytes and their SHA-256 are both the value itself.           *)
(***************************************************************************)
EXTENDS Naturals, SequencesExt, FiniteSetsExt

CONSTANTS
    Prev,           \* [payload -> the parents that it names]
    References,     \* [payload -> the ids it names as auth event, relation or redaction]
    Depth, Ts       \* [payload -> the value it claims]

----------------------------------------------------------------------------
\* jsonl_merge.rs

\* FileRefs: the ids that a file owns, and all ids that it mentions.
event_ids(lines) == {l.event_id : l \in ToSet(lines)} \ {0}
all_ids(lines) ==
    event_ids(lines) \cup
    UNION {Prev[l.payload] \cup References[l.payload] : l \in {k \in ToSet(lines) : k.event_id # 0}}

\* A plausible mistake: only what the files reached so far own counts.
shares_one_way(a, b) == event_ids(a) \cap all_ids(b) # {}

\* An edge between two files: one owns what the other mentions.
shares(a, b) ==
    \/ event_ids(a) \cap all_ids(b) # {}
    \/ event_ids(b) \cap all_ids(a) # {}

\* perform_connectivity_check: the files reached from the first one.
RECURSIVE visited(_, _)
visited(files, reached) ==
    LET more == {n \in DOMAIN files \ reached : \E c \in reached : shares(files[c], files[n])}
    IN  IF more = {} THEN reached ELSE visited(files, reached \cup more)

is_connected(files) == Len(files) < 2 \/ visited(files, {1}) = DOMAIN files

\* comparison_key: without a room version the whole event is compared.
comparison_key(l, versioned) == IF versioned THEN <<l.payload>> ELSE <<l.payload, l.unsigned>>

\* merge_event_sets_internal over one line: the first copy wins.
merge_line(m, l, versioned) ==
    LET copies == SelectSeq(m.merged, LAMBDA x : x.event_id = l.event_id)
    IN  IF m.error # "none" \/ l.event_id = 0 THEN m
        ELSE IF copies = <<>> THEN
            [m EXCEPT !.merged = Append(@, [event_id |-> l.event_id, payload |-> l.payload,
                                            unsigned |-> l.unsigned])]
        ELSE IF comparison_key(copies[1], versioned) # comparison_key(l, versioned)
        THEN [m EXCEPT !.error = "conflict", !.duplicate_copies = @ + 1]
        ELSE [m EXCEPT !.duplicate_copies = @ + 1]

merge_event_slices(files, versioned) ==
    LET m == FoldLeft(LAMBDA a, l : merge_line(a, l, versioned),
                      [merged |-> <<>>, duplicate_copies |-> 0, error |-> "none"],
                      FlattenSeq(files))
    IN  IF m.error = "none" /\ ~is_connected(files) THEN [m EXCEPT !.error = "disjoint"] ELSE m

----------------------------------------------------------------------------
\* timeline_order.rs and the orderings of format.rs.  A stream index is a
\* function from event ids; an event without an entry sorts last.

MISSING_STREAM_ORDER == 1000000
DEFAULT_TIE_BREAK == <<"origin_server_ts", "matrix_depth", "event_id">>
SYNAPSE_TIE_BREAK == <<"matrix_depth", "stream_ordering", "event_id">>
needs_stream_order(key) == key \in {"stream_ordering", "pdu_count"}

build_key(keys, e, stream) ==
    [i \in DOMAIN keys |->
        CASE keys[i] = "origin_server_ts" -> Ts[e.payload]
          [] keys[i] = "matrix_depth" -> Depth[e.payload]
          [] keys[i] = "event_id" -> e.event_id
          [] OTHER -> IF e.event_id \in DOMAIN stream THEN stream[e.event_id]
                      ELSE MISSING_STREAM_ORDER]

\* The order of the ready queue: keys component by component, then the event id.
key_before(events, keys, i, j) ==
    \/ \E n \in DOMAIN keys[i] : /\ keys[i][n] < keys[j][n]
                                 /\ \A m \in 1..(n - 1) : keys[i][m] = keys[j][m]
    \/ keys[i] = keys[j] /\ events[i].event_id < events[j].event_id

\* The first of a set of indices.
first_of(events, keys, S) ==
    CHOOSE i \in S : \A j \in S \ {i} : key_before(events, keys, i, j)

RECURSIVE in_key_order(_, _, _)
in_key_order(events, keys, S) ==
    IF S = {} THEN <<>>
    ELSE LET i == first_of(events, keys, S) IN <<i>> \o in_key_order(events, keys, S \ {i})

\* kahn_order_by: parents outside the set do not count, and what lies on or
\* behind a cycle comes last, in the order of the keys.
RECURSIVE kahn_from(_, _, _)
kahn_from(events, keys, ordered) ==
    LET left == DOMAIN events \ ToSet(ordered)
        held == {events[i].event_id : i \in left}
        ready == {i \in left : Prev[events[i].payload] \cap held = {}}
    IN  IF ready = {} THEN ordered \o in_key_order(events, keys, left)
        ELSE kahn_from(events, keys, Append(ordered, first_of(events, keys, ready)))

kahn_order_by(events, keys) ==
    LET order == kahn_from(events, keys, <<>>)
    IN  [n \in DOMAIN order |-> events[order[n]]]

\* reorder_by_kahn, with the keys of sort_timeline_causal: stream-order keys are
\* dropped if there is no index ({}), and the event id is always the last resort.
ready_keys(tie_break, index) ==
    LET requested == IF tie_break = <<>> THEN DEFAULT_TIE_BREAK ELSE tie_break
        kept == SelectSeq(requested, LAMBDA k : ~needs_stream_order(k) \/ index # {})
    IN  IF "event_id" \in ToSet(kept) THEN kept ELSE Append(kept, "event_id")

reorder_by_kahn(events, keys, index) ==
    LET stream == IF index = {} THEN [e \in {} |-> 0] ELSE CHOOSE x \in index : TRUE
    IN  kahn_order_by(events, [i \in DOMAIN events |-> build_key(keys, events[i], stream)])

\* sort_events (aggregate.rs), which needs no index.
sort_events(events) == reorder_by_kahn(events, DEFAULT_TIE_BREAK, {})

----------------------------------------------------------------------------
\* provenance.rs

\* observe_raw_event: the stream order counts only if all aliases agree.
observe_raw_event(l, source, line) ==
    [source |-> source, line |-> line, event_id |-> l.event_id, unsigned |-> l.unsigned,
     rejected |-> l.rejected,
     stream_ordering |-> IF Cardinality(l.streams) = 1 THEN l.streams ELSE {},
     stream_ordering_conflict |-> Cardinality(l.streams) > 1]

observations(files) ==
    FlattenSeq([f \in DOMAIN files |->
        [n \in DOMAIN files[f] |-> observe_raw_event(files[f][n], f, n)]])

\* derive: the fields on which the observations of one event disagree.
disagreements(group) ==
    LET present(field) == UNION {o[field] : o \in ToSet(group)}
    IN  {k \in {"rejected", "stream_ordering"} : Cardinality(present(k)) > 1}
        \cup {k \in {"stream_ordering"} : \E o \in ToSet(group) : o.stream_ordering_conflict}
        \cup {k \in {"unsigned"} : Cardinality({o.unsigned : o \in ToSet(group)}) > 1}

metadata_status(group) ==
    IF disagreements(group) # {} THEN "source_disagreement"
    ELSE IF Len(group) <= 1 THEN "single_source" ELSE "consistent"

\* event_record of an event with its group of observations.
event_record(e, group) ==
    [event_id |-> e.event_id, payload_sha256 |-> <<e.payload, e.unsigned>>,
     observations |-> group, metadata_status |-> metadata_status(group),
     disagreement_fields |-> disagreements(group)]

\* build_sidecar_bound: one record per merged event that was observed, bound to
\* the bytes of the aggregate.
build_sidecar_bound(files, events, room_version) ==
    [room_version |-> room_version, aggregate_sha256 |-> events,
     events |-> SelectSeq(
        [i \in DOMAIN events |->
            event_record(events[i], SelectSeq(observations(files),
                                              LAMBDA o : o.event_id = events[i].event_id))],
        LAMBDA r : r.observations # <<>>)]

\* sidecar_event: {} if the order is absent or the observations conflict.
sidecar_event(r) ==
    LET values == UNION {o.stream_ordering : o \in ToSet(r.observations)}
    IN  IF (\E o \in ToSet(r.observations) : o.stream_ordering_conflict) \/ Cardinality(values) > 1
        THEN {} ELSE values

\* validated_sidecar (format.rs) of a discovered sidecar file: {} or {sidecar}.
validated_sidecar(sidecar, aggregate, room_version) ==
    {s \in sidecar : /\ s.room_version = room_version \/ {} \in {s.room_version, room_version}
                     /\ aggregate = {s.aggregate_sha256}}

\* load_stream_order with merge_stream_records: the index, {} or {function}.
load_stream_order(sidecar, aggregate, room_version) ==
    LET usable == UNION {ToSet(s.events) : s \in validated_sidecar(sidecar, aggregate, room_version)}
        matching == {r \in usable : \E a \in aggregate : \E e \in ToSet(a) :
                        e.event_id = r.event_id /\ <<e.payload, e.unsigned>> = r.payload_sha256}
        ordered == {r \in matching : sidecar_event(r) # {}}
        order(e) == CHOOSE v \in UNION {sidecar_event(r) : r \in {x \in ordered : x.event_id = e}} : TRUE
    IN  IF ordered = {} THEN {} ELSE {[e \in {r.event_id : r \in ordered} |-> order(e)]}

-----------------------------------------------------------------------------
(***************************************************************************)
(* `rezzy aggregate` (rezzy-cli/src/aggregate.rs): dumps of rooms are      *)
(* merged into one file per room with a provenance sidecar beside it.      *)
(* Both files are staged under unique names and renamed, one after the     *)
(* other; every file operation may fail, the process may crash between     *)
(* them, new dumps may arrive, and two processes may run at once.          *)
(* A timeline may be printed from the published pair at any moment.        *)
(***************************************************************************)

CONSTANTS
    Files,      \* dumps in the order of their paths: [token, version, lines]
    Listings,   \* sets of dumps that the directory may hold
    Proc,
    Options,    \* [mode, room, provenance, check, repair]
    MaxFaults,
    MaxRuns

VARIABLES
    present,    \* the dumps that exist, by their place in Files
    published,  \* [output name -> {} or {bytes}]
    sidecars,   \* [output name -> {} or {sidecar}]
    staged,     \* temporary files: <<process, kind, name, content>>
    pc,         \* [Proc -> what it does next]
    job,        \* [Proc -> [options, todo, output, sidecar, rooms, alone]]; alone
                \* is a ghost: no other process runs meanwhile
    faults,
    runs,
    made        \* ghost: the lists of dumps that were aggregated, with their version

vars == <<present, published, sidecars, staged, pc, job, faults, runs, made>>

\* room_slug_from_filename: {} without a version token.
room_slug_from_filename(f) ==
    IF Files[f].version = {} THEN {} ELSE {[token |-> Files[f].token, version |-> Files[f].version]}

\* The names of the output files: from a slug, or from the --room argument.
Name == {[token |-> Files[f].token, version |-> v] :
            f \in DOMAIN Files, v \in {{}} \cup {Files[g].version : g \in DOMAIN Files}}

no_job == [options |-> <<>>, todo |-> <<>>, output |-> {}, sidecar |-> {}, rooms |-> {},
           alone |-> FALSE]

Init ==
    /\ present = {}
    /\ published = [n \in Name |-> {}] /\ sidecars = [n \in Name |-> {}]
    /\ staged = {}
    /\ pc = [p \in Proc |-> "idle"] /\ job = [p \in Proc |-> no_job]
    /\ faults = 0 /\ runs = 0 /\ made = {}

in_order(S) == SelectSeq([f \in DOMAIN Files |-> f], LAMBDA f : f \in S)

----------------------------------------------------------------------------
\* read_raw_input_with_repair: {} if the file cannot be used.
read_raw_input(f, repair) ==
    LET fill(l) == IF l.event_id = 0 THEN [l EXCEPT !.event_id = l.payload] ELSE l
        lines == Files[f].lines
        filled == IF repair THEN [n \in DOMAIN lines |-> fill(lines[n])] ELSE lines
    IN  IF \/ repair /\ Files[f].version = {}
           \/ \E l \in ToSet(filled) : l.event_id = 0
           \/ lines = <<>>
        THEN {} ELSE {filled}

\* aggregate up to the files that it writes: {} is an error.
aggregated(fs, options) ==
    LET read == [n \in DOMAIN fs |-> read_raw_input(fs[n], options.repair)]
        files == [n \in DOMAIN fs |-> CHOOSE x \in read[n] : TRUE]
        version == Files[fs[1]].version
        merge == merge_event_slices(files, version # {})
        events == sort_events(merge.merged)
    IN  IF (\E n \in DOMAIN fs : read[n] = {}) \/ merge.error # "none" THEN {}
        ELSE {[output |-> events,
               sidecar |-> IF options.provenance
                           THEN {build_sidecar_bound(files, events, version)} ELSE {}]}

\* The rooms of a command with the dumps of each, or {} if it is refused.
\* --room takes every dump with the token and refuses mixed versions;
\* group_by_room skips dumps without a slug only when it scans the directory.
rooms_of(options, dir) ==
    LET slugs == UNION {room_slug_from_filename(f) : f \in dir}
        chosen == in_order({f \in dir : Files[f].token = options.room})
        group(s) == in_order({f \in dir : room_slug_from_filename(f) = {s}})
    IN  IF options.mode = "room" THEN
            IF chosen = <<>> \/ Cardinality({Files[f].version : f \in ToSet(chosen)}) > 1 THEN {}
            ELSE {<<<<[token |-> options.room, version |-> {}], chosen>>>>}
        ELSE IF \/ slugs = {}
                \/ options.mode = "files" /\ \E f \in dir : room_slug_from_filename(f) = {}
        THEN {}
        ELSE {SetToSeq({<<s, group(s)>> : s \in slugs})}

\* run_from_matches up to the loop over the rooms; more dumps may have arrived.
Run(p, options, dir) ==
    /\ pc[p] = "idle" /\ runs < MaxRuns
    /\ present \subseteq dir
    /\ present' = dir
    /\ runs' = runs + 1
    /\ \E rooms \in {rooms_of(options, dir)} :
         IF rooms = {} THEN UNCHANGED <<pc, job>>
         ELSE \E todo \in rooms :
                /\ job' = [q \in Proc |->
                     IF q = p THEN [no_job EXCEPT !.options = options, !.todo = todo,
                                                  !.alone = \A o \in Proc \ {p} : pc[o] = "idle"]
                     ELSE [job[q] EXCEPT !.alone = FALSE]]
                /\ pc' = [pc EXCEPT ![p] = "room"]
    /\ UNCHANGED <<published, sidecars, staged, faults, made>>

\* A plausible mistake: a sidecar that should not be there is not noticed.
check_output_only(name, r) ==
    IF published[name] = {r.output} /\ (r.sidecar = {} \/ sidecars[name] = r.sidecar)
    THEN "current" ELSE "error"

\* check_published_pair
check_published_pair(name, r) ==
    IF published[name] = {r.output} /\ sidecars[name] = r.sidecar THEN "current" ELSE "error"

\* The outcome of a room is kept and the next one begins.
Report(p, status) ==
    /\ job' = [job EXCEPT ![p].todo = Tail(@), ![p].output = {}, ![p].sidecar = {},
                          ![p].rooms = @ \cup {[room |-> Head(job[p].todo), status |-> status]}]
    /\ pc' = [pc EXCEPT ![p] = "room"]

\* aggregate for the next room, up to the first file operation.
NextRoom(p) ==
    /\ pc[p] = "room" /\ job[p].todo # <<>>
    /\ \E name \in {Head(job[p].todo)[1]}, fs \in {Head(job[p].todo)[2]},
          result \in {aggregated(Head(job[p].todo)[2], job[p].options)} :
         IF result = {} THEN Report(p, "error") /\ UNCHANGED made
         ELSE \E r \in result :
                /\ made' = made \cup {[files |-> fs, options |-> job[p].options]}
                /\ IF job[p].options.check THEN Report(p, check_published_pair(name, r))
                   ELSE /\ job' = [job EXCEPT ![p].output = {r.output}, ![p].sidecar = r.sidecar]
                        /\ pc' = [pc EXCEPT ![p] = "stage"]
    /\ UNCHANGED <<present, published, sidecars, staged, faults, runs>>

Finish(p) ==
    /\ pc[p] = "room" /\ job[p].todo = <<>>
    /\ pc' = [pc EXCEPT ![p] = "idle"]
    /\ job' = [job EXCEPT ![p] = no_job]
    /\ UNCHANGED <<present, published, sidecars, staged, faults, runs, made>>

----------------------------------------------------------------------------
\* write_pair_staged.  ok says whether the file operation succeeds.

Room(p) == Head(job[p].todo)[1]
Temp(p, kind) == {t \in staged : t.process = p /\ t.kind = kind /\ t.live}
MayFail(ok) == (ok \/ faults < MaxFaults) /\ faults' = IF ok THEN faults ELSE faults + 1

StageOutput(p, ok) ==
    /\ pc[p] = "stage" /\ MayFail(ok)
    /\ IF ok
       THEN /\ staged' = staged \cup {[process |-> p, kind |-> "output", live |-> TRUE]}
            /\ pc' = [pc EXCEPT ![p] = IF job[p].sidecar = {} THEN "commit" ELSE "stage_sidecar"]
            /\ UNCHANGED job
       ELSE Report(p, "error") /\ UNCHANGED staged
    /\ UNCHANGED <<present, published, sidecars, runs, made>>

StageSidecar(p, ok) ==
    /\ pc[p] = "stage_sidecar" /\ MayFail(ok)
    /\ IF ok
       THEN /\ staged' = staged \cup {[process |-> p, kind |-> "sidecar", live |-> TRUE]}
            /\ pc' = [pc EXCEPT ![p] = "commit"]
            /\ UNCHANGED job
       ELSE Report(p, "error") /\ staged' = staged \ Temp(p, "output")
    /\ UNCHANGED <<present, published, sidecars, runs, made>>

\* commit_staged of the output; a failed rename removes both temporary files.
CommitOutput(p, ok) ==
    /\ pc[p] = "commit" /\ MayFail(ok)
    /\ IF ok
       THEN /\ published' = [published EXCEPT ![Room(p)] = job[p].output]
            /\ staged' = staged \ Temp(p, "output")
            /\ pc' = [pc EXCEPT ![p] = IF job[p].sidecar = {} THEN "remove" ELSE "commit_sidecar"]
            /\ UNCHANGED job
       ELSE /\ Report(p, "error")
            /\ staged' = staged \ (Temp(p, "output") \cup Temp(p, "sidecar"))
            /\ UNCHANGED published
    /\ UNCHANGED <<present, sidecars, runs, made>>

CommitSidecar(p, ok) ==
    /\ pc[p] = "commit_sidecar" /\ MayFail(ok)
    /\ sidecars' = IF ok THEN [sidecars EXCEPT ![Room(p)] = job[p].sidecar] ELSE sidecars
    /\ staged' = staged \ Temp(p, "sidecar")
    /\ Report(p, IF ok THEN "written" ELSE "error")
    /\ UNCHANGED <<present, published, runs, made>>

\* Without provenance a sidecar of an earlier run is removed.
RemoveSidecar(p, ok) ==
    /\ pc[p] = "remove" /\ MayFail(ok)
    /\ sidecars' = IF ok THEN [sidecars EXCEPT ![Room(p)] = {}] ELSE sidecars
    /\ Report(p, IF ok THEN "written" ELSE "error")
    /\ UNCHANGED <<present, published, staged, runs, made>>

----------------------------------------------------------------------------
\* The process dies; its temporary files stay.
Crash(p) ==
    /\ pc[p] # "idle" /\ faults < MaxFaults
    /\ faults' = faults + 1
    /\ staged' = {[t EXCEPT !.live = @ /\ t.process # p] : t \in staged}
    /\ pc' = [pc EXCEPT ![p] = "idle"]
    /\ job' = [job EXCEPT ![p] = no_job]
    /\ UNCHANGED <<present, published, sidecars, runs, made>>

Ended == runs = MaxRuns /\ (\A p \in Proc : pc[p] = "idle") /\ UNCHANGED vars

Next ==
    \/ \E p \in Proc :
         \/ \E options \in Options, dir \in Listings : Run(p, options, dir)
         \/ NextRoom(p) \/ Finish(p) \/ Crash(p)
         \/ \E ok \in BOOLEAN :
              \/ StageOutput(p, ok) \/ StageSidecar(p, ok) \/ CommitOutput(p, ok)
              \/ CommitSidecar(p, ok) \/ RemoveSidecar(p, ok)
    \/ Ended

Spec == Init /\ [][Next]_vars

----------------------------------------------------------------------------
\* What an aggregation of some dumps gives.
Generation(g) == CHOOSE r \in aggregated(g.files, g.options) : TRUE

\* The version that a reader infers from the name of the output.
Index(n) == load_stream_order(sidecars[n], published[n], n.version)

\* The published file is a whole aggregate of dumps that existed, and a stream
\* order that a timeline takes from the sidecar was observed in dumps with just
\* this aggregate, by every source that states one: also after a crash between
\* the two renames and when two processes cross.
StreamOrderIsHonest ==
    \A n \in Name : published[n] # {} =>
        \E g \in made :
            /\ published[n] = {Generation(g).output}
            /\ \A index \in Index(n) : \A e \in DOMAIN index :
                 \A f \in ToSet(g.files) : \A l \in ToSet(Files[f].lines) :
                    e \in {l.event_id, l.payload} => l.streams \subseteq {index[e]}

\* A process that ran alone and says of a room that it is written, or with
\* --check that it is current, leaves the pair that its dumps give: nothing is
\* left over from earlier runs, whatever happened to them.
OutcomeIsTrue ==
    \A p \in Proc : job[p].alone =>
        \A o \in job[p].rooms : o.status \in {"written", "current"} =>
            \E r \in aggregated(o.room[2], job[p].options) :
                published[o.room[1]] = {r.output} /\ sidecars[o.room[1]] = r.sidecar

\* A run that ends by itself, in success or in an error, leaves no temporary file.
NothingStagedIsLeft == \A t \in staged : t.live => pc[t.process] \notin {"idle", "room"}

\* What is published does not depend on the order of the dumps: each order is
\* accepted or none, with the same events in the same order.
DumpOrderIsIrrelevant ==
    \A p \in Proc : pc[p] = "room" /\ job[p].rooms = {} /\ runs = 1 =>
        \A n \in DOMAIN job[p].todo :
            LET ids(r) == [i \in DOMAIN r.output |-> r.output[i].event_id]
                given == job[p].todo[n][2]
                shuffled == {fs \in [DOMAIN given -> ToSet(given)] : IsInjective(fs)}
            IN  \A fs \in shuffled : {ids(r) : r \in aggregated(fs, job[p].options)} =
                                     {ids(r) : r \in aggregated(given, job[p].options)}

\* A timeline never shows an event before a parent that it shows too, whatever
\* depth, time and stream order the events claim.
TimelinesAreCausal ==
    \A n \in Name : \A events \in published[n] :
        \A keys \in {SYNAPSE_TIE_BREAK} \cup
                    {ready_keys(t, Index(n)) : t \in {<<>>, <<"pdu_count">>, <<"matrix_depth">>}} :
            \A index \in {Index(n)} : \A shown \in {reorder_by_kahn(events, keys, index)} :
                /\ ToSet(shown) = ToSet(events)
                /\ \A i, j \in DOMAIN shown :
                     shown[j].event_id \in Prev[shown[i].payload] => j < i

\* No observation is dropped: the sidecar holds every line of its dumps, and it
\* names the stream order as disputed exactly if a reader gets none although
\* some dump states one.
ProvenanceIsComplete ==
    \A p \in Proc : \A s \in job[p].sidecar :
        /\ \A o \in ToSet(observations([n \in DOMAIN Head(job[p].todo)[2] |->
                 CHOOSE x \in read_raw_input(Head(job[p].todo)[2][n], job[p].options.repair) : TRUE])) :
              \E r \in ToSet(s.events) : o \in ToSet(r.observations)
        /\ \A r \in ToSet(s.events) :
              ("stream_ordering" \in r.disagreement_fields) =
                  (sidecar_event(r) = {} /\ \E o \in ToSet(r.observations) :
                      o.stream_ordering # {} \/ o.stream_ordering_conflict)
=============================================================================

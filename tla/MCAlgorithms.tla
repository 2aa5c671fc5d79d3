---------------------------- MODULE MCAlgorithms ----------------------------
(***************************************************************************)
(* The algorithms around the resolver, each by itself: which names the one *)
(* that a behaviour is about.  They walk event graphs (the streaming of    *)
(* room states, the reachability accelerators, the causal domination       *)
(* filter and the two alternative resolvers), prove what a hash commits    *)
(* to, and read JSON.                                                      *)
(***************************************************************************)
EXTENDS LatticeFold, Sequences, FiniteSets

CONSTANT None

VARIABLES
  which,
  input, stage, result, ancestors, pending, in_degree, topo_queue, sorted_ancestors,
  out_degree, pos, state_after_map, emitted, computed,
  graph, degree, queue, head, numbering, cyclic, run,
  mine, theirs, state, fields,
  doc, edits,
  scratch, raw, view, calls,
  facts, index, cache, asked, selections, phase, rounds,
  history, chunk, next, active, and_masks, desc_masks, dropped_ids

(***************************************************************************)
(* Every graph over three events with up to two citations each: cycles,    *)
(* self-citations, repeated and dangling parents (9 is in no map); and     *)
(* calls that ask for nothing the map holds.                               *)
(***************************************************************************)

Citations == {<<>>} \cup {<<a>> : a \in {1, 2, 3, 9}} \cup {<<a, b>> : a, b \in {1, 2, 3, 9}}

StreamGraphs ==
  [prev : [1..3 -> Citations], state_key : {[e \in 1..3 |-> IF e = 3 THEN None ELSE "k"]},
   rejected : {{}}, targets : {{3}, {2, 3, 9}}, optimized : {TRUE}]

AbsentTargets ==
  [prev : {[e \in 1..3 |-> <<>>]}, state_key : {[e \in 1..3 |-> None]},
   rejected : {{}}, targets : {{}, {9}}, optimized : BOOLEAN]

\* Stands for auth_difference and resolve_iterative_sort.
StreamSort(s, ids, states) ==
  [k \in {"k"} |-> IF s[k] # None \/ ids = {} THEN s[k] ELSE CHOOSE i \in ids : \A j \in ids : j <= i]

S == INSTANCE StateStream WITH
  Events <- 1..3, Missing <- {9}, Keys <- {"k"}, Inputs <- StreamGraphs \cup AbsentTargets,
  IterativeSort <- StreamSort, phase <- stage, index <- ancestors, queue <- pending

(***************************************************************************)
(* Auth graphs: a chain below a root, a diamond over a chain, two roots    *)
(* that meet, a parent cited twice, a missing parent, and cycles with      *)
(* something above and below.                                              *)
(***************************************************************************)

AuthGraphs ==
  { << <<>>, <<1>>, <<2>>, <<3>>, <<4>>, <<1>> >>,
    << <<>>, <<1>>, <<2>>, <<3>>, <<2>>, <<5>> >>,
    << <<>>, <<1>>, <<1>>, <<2, 3>>, <<4>>, <<5>> >>,
    << <<>>, <<>>, <<1>>, <<3>>, <<4>>, <<5, 2>> >>,
    << <<6>>, <<1>>, <<2>>, <<3>>, <<6, 6>>, <<>> >>,
    << <<>>, <<1, 1>>, <<2, 9>>, <<3>>, <<1>>, <<5>> >>,
    << <<>>, <<1, 4>>, <<2>>, <<3>>, <<4>>, <<1>> >>,
    << <<>>, <<3>>, <<2>>, <<3>>, <<1, 4>>, <<1>> >>,
    << <<>>, <<3>>, <<1, 2>>, <<2>>, <<1>>, <<1>> >>,
    << <<>>, <<2>>, <<1>>, <<3>> >> }

Questions ==
  [seeds : {<<1>>, <<2>>, <<5>>, <<9>>, <<3, 2>>, <<6, 4>>},
   candidates : {<<4>>, <<6>>, <<3, 3>>, <<5, 4>>, <<6, 9, 4>>, <<1, 5>>, <<9>>, <<>>}]

R == INSTANCE Reachability WITH
  Ids <- {1, 2, 3, 4, 5, 6, 9}, Graphs <- AuthGraphs, Queries <- Questions,
  LongSegment <- 3, JumpFactor <- 2, SelectFactor <- 3, NarrowFactor <- 1, index <- numbering

(***************************************************************************)
(* Six events: a ban, a demotion, a lockdown, a join, a topic, and in the  *)
(* context the power levels before, with the references among them free.   *)
(***************************************************************************)

Levels(a, b) == [u \in {"a", "b", "c"} |-> IF u = "a" THEN a ELSE IF u = "b" THEN b ELSE {}]

Ev(type, sender, key, membership, rule, users, level, ts) ==
  [type |-> type, sender |-> sender, key |-> key, membership |-> membership, rule |-> rule,
   users |-> users, default |-> 0, required |-> 50, power_level |-> level, ts |-> ts]

AdminEvents ==
  << Ev("member", "a", "b", "ban", "", Levels({}, {}), 100, 2),
     Ev("power_levels", "b", "", "", "", Levels({100}, {0}), 100, 1),
     Ev("join_rules", "b", "", "", "invite", Levels({}, {}), 50, 1),
     Ev("member", "c", "c", "join", "", Levels({}, {}), 0, 1),
     Ev("topic", "b", "", "", "", Levels({}, {}), 50, 1),
     Ev("power_levels", "a", "", "", "", Levels({100}, {50}), 100, 0) >>

References(prev, auth) == [e \in 1..6 |-> [prev |-> prev[e], auth |-> IF e = 5 THEN auth ELSE {}]]

AdminHistories ==
  {References(<<{6}, p2, p3, p4, p5, {}>>, auth) :
     p2 \in {{}, {1}, {6}, {3}}, p3 \in SUBSET {1, 2}, p4 \in SUBSET {2, 3}, p5 \in SUBSET {1, 3},
     auth \in {{}, {6}}}

C == INSTANCE Cdo WITH
  Conflicted <- 1..5, Context <- {6}, Event <- AdminEvents, Histories <- AdminHistories, ChunkSize <- 2

(***************************************************************************)
(* Five writers of two keys and an event without one, under every kind of  *)
(* causal relation, need and bar, and with answers missing.                *)
(***************************************************************************)

Relations ==
  {{<<1, 2>>, <<2, 3>>, <<1, 3>>}, {<<2, 1>>}, {<<1, 3>>, <<4, 5>>}, {}, {<<1, 2>>, <<2, 3>>, <<3, 1>>}}

Needs ==
  {[e \in 1..6 |-> {}], [e \in 1..6 |-> {8}],
   [e \in 1..6 |-> IF e = 2 THEN {4} ELSE IF e = 5 THEN {9} ELSE {}],
   [e \in 1..6 |-> IF e \in {2, 3} THEN {8} ELSE {}]}

Bars ==
  {[e \in 1..6 |-> {}], [e \in 1..6 |-> IF e = 5 THEN {2, 3} ELSE {}],
   [e \in 1..6 |-> IF e = 3 THEN {5} ELSE IF e = 5 THEN {3} ELSE {}]}

V == INSTANCE V3Repair WITH
  Events <- 1..6, Key <- <<"k", "k", "k", "l", "l", "no key">>, Rank <- <<1, 2, 1, 1, 1, 1>>,
  Unconflicted <- [k \in {"k", "l", "m"} |-> IF k = "m" THEN 9 ELSE 0],
  Facts <- [certified : {1..5, 1..4}, precedes : Relations, unknown : {{}, {<<3, 1>>}},
            needs : Needs, bars : Bars, unsure : {{}, {4}}]

(***************************************************************************)
(* Trees of three levels, and lists of up to five fields.                  *)
(***************************************************************************)

T == INSTANCE Merkle WITH
  Depth <- 3, MaxCount <- 5, CausalKeys <- {<<0, 0, 0>>, <<0, 0, 1>>, <<1, 0, 1>>},
  Slots <- {"s1", "s2", "s3", "s4"}, EventIds <- {"e1", "e2"},
  KeyHash <- [s1 |-> <<0, 0, 0>>, s2 |-> <<0, 0, 1>>, s3 |-> <<1, 0, 1>>, s4 |-> <<0, 1, 1>>],
  Names <- 0..5, Values <- {"v"}, MaxFields <- 5

(***************************************************************************)
(* Documents: nested objects, duplicate keys under two spellings at the    *)
(* top and below it, floats, nesting at the limit, a lone string and a     *)
(* lone number.                                                            *)
(***************************************************************************)

Q == "quote"

Documents ==
  { <<"{", Q, "a", Q, ":", "{", Q, "b", Q, ":", "1", "}", ",", Q, "b", Q, ":", "[", "-", "0", "]", "}">>,
    <<"{", Q, "a", Q, ":", "0", ",", Q, "\\", "u61", Q, ":", Q, "b", Q, "}">>,
    <<"[", "{", Q, "\\", "u61", Q, ":", "0", ",", Q, "a", Q, ":", "1", "}", "]">>,
    <<"[", "1", ".", "1", "0", ",", "sp", "1", "e", "-", "1", ",", "[", "null", "]", "]">>,
    <<"{", Q, "b", Q, ":", "[", "{", Q, "b", Q, ":", "null", "}", "]", "}">>,
    <<Q, "a", "\\", Q, Q>>,
    <<"-", "1", "0">> }

J == INSTANCE Json WITH
  Docs <- Documents, MaxEdits <- 1, MaxDepth <- 2, SafeDigits <- 2,
  Units <- {"{", "}", "[", "]", ",", ":", "quote", "a", "\\", "u61", "uD8", "null", "0", "1", ".", "-",
            "e", "ctl", "utf8", "sp"},
  Masks <- {{}, {<<<<"a">>>>}, {<<<<"a">>, <<"b">>>>, <<<<"b">>, <<"b">>>>}},
  Excluded <- {<<"b">>}

Str(x) == <<Q, x, Q>>
Mem(k, v) == Str(k) \o <<":">> \o v
And(x, y) == x \o <<",">> \o y
Arr(s) == <<"[">> \o s \o <<"]">>
Obj(s) == <<"{">> \o s \o <<"}">>
Escaped == <<Q, "\\", "u61", Q>>

\* Events with plain, paired, escaped and malformed references, with relations
\* whole and halved, damaged objects, and two transactions.
RawInputs ==
  { Obj(And(And(Mem("event_id", Str("a")), Mem("prev_events", Arr(And(Str("a"), Str("b"))))),
            Mem("auth_events", Arr(Str("b"))))),
    Obj(And(Mem("event_id", Escaped), Mem("state_key", <<Q, Q>>))),
    Obj(And(Mem("auth_events", Arr(And(Arr(And(Str("a"), <<"{", "}">>)), Str("b")))), Mem("type", <<"null">>))),
    Obj(Mem("prev_events", Arr(And(Str("a"), Escaped)))),
    Obj(And(Mem("prev_events", Arr(Str("a"))), Mem("auth_events", Arr(And(Str("b"), <<"1">>))))),
    Obj(Mem("prev_events", Arr(And(Str("b"), Obj(Mem("a", <<"1">>)))))),
    Obj(Mem("prev_events", Arr(Arr(Str("b"))))),
    Obj(Mem("content", Obj(And(Mem("room_version", Str("1")),
          Mem("relates_to", Obj(And(Mem("rel_type", Str("a")), Mem("event_id", Str("b"))))))))),
    Obj(Mem("content", Obj(And(Mem("relates_to", Obj(And(Mem("rel_type", Str("a")), Mem("event_id", <<"0">>)))),
          Mem("room_version", <<"null">>))))),
    Obj(And(Mem("event_id", Str("uD8")), Mem("room_id", <<Q, "\\", "uD8", Q>>))),
    Obj(And(Mem("event_id", Str("a")), Mem("event_id", Str("b")))),
    <<"[", "]">>, <<"{", Q>>,
    Obj(And(Mem("pdus", Arr(And(Obj(Mem("event_id", Str("a"))), <<"sp">> \o Obj(<<>>)))),
            Mem("auth_chain", Arr(<<>>)))),
    Obj(And(Mem("a", <<"1">>), Mem("auth_chain", Arr(And(<<"null">>, Arr(<<"0">>)))))) }

W == INSTANCE RawEvent WITH
  Inputs <- RawInputs, MaxDepth <- 4, MaxCalls <- 2, SafeDigits <- 2,
  Docs <- {}, Units <- {}, MaxEdits <- 0, Masks <- {}, Excluded <- {}

(***************************************************************************)
(* The fold: five events of two keys, two of them equal but for their ids, *)
(* one unauthorized, one on a key the agreed state already decides.        *)
(***************************************************************************)

FoldPos == <<1, 0, 0, 1, 2>>
FoldTs == <<5, 3, 3, 4, 9>>
FoldId == <<11, 12, 13, 14, 15>>
FoldKey == <<"k", "k", "k", "l", "l">>
FoldAgreed == [k \in {"k", "l"} |-> IF k = "l" THEN 20 ELSE 0]
FoldPower == [k \in {"k", "l"} |-> IF k = "k" THEN 21 ELSE 0]

streamVars == <<input, stage, result, ancestors, pending, in_degree, topo_queue, sorted_ancestors,
                out_degree, pos, state_after_map, emitted, computed>>
graphVars == <<graph, degree, queue, head, numbering, cyclic, run>>
trieVars == <<mine, theirs, state, fields>>
jsonVars == <<doc, edits, scratch, raw, view, calls>>
repairVars == <<facts, index, cache, asked, selections, phase, rounds>>
filterVars == <<history, chunk, next, active, and_masks, desc_masks, dropped_ids>>

vars == <<which, streamVars, graphVars, trieVars, jsonVars, repairVars, filterVars, foldvars>>

NoGraph ==
  /\ graph = <<>> /\ degree = <<>> /\ queue = <<>> /\ head = 0
  /\ numbering = <<>> /\ cyclic = {} /\ run = [mode |-> "idle"]

NoRepair ==
  /\ facts = <<>> /\ index = {} /\ cache = <<>> /\ asked = <<>> /\ selections = <<>>
  /\ phase = "ok" /\ rounds = 0

NoFilter ==
  /\ history = <<>> /\ chunk = 0 /\ next = 0 /\ active = {}
  /\ and_masks = <<>> /\ desc_masks = <<>> /\ dropped_ids = {}

Init ==
  /\ which \in {"stream", "reach", "filter", "repair", "fold", "causal", "state", "fields", "json", "raw"}
  /\ S!Init
  /\ which # "stream" => input = CHOOSE in \in AbsentTargets : TRUE
  /\ IF which = "reach" THEN R!Init ELSE NoGraph
  /\ IF which = "filter" THEN C!Init ELSE NoFilter
  /\ IF which = "repair" THEN V!Init ELSE NoRepair
  /\ IF which = "json" THEN J!DocInit ELSE doc = <<>> /\ edits = 0
  /\ FoldInit /\ T!Init /\ T!SlotsInit /\ T!FieldsInit /\ W!Init

StreamStep ==
  /\ which = "stream" /\ S!Next
  /\ UNCHANGED <<which, graphVars, trieVars, jsonVars, repairVars, filterVars, foldvars>>

RepairStep ==
  /\ which = "repair" /\ (V!Admit \/ V!SelectRound \/ V!EvaluateRound)
  /\ UNCHANGED <<which, streamVars, graphVars, trieVars, jsonVars, filterVars, foldvars>>

Next ==
  \/ StreamStep
  \/ which = "stream" /\ stage = "done" /\ UNCHANGED vars
  \/ which = "reach" /\ R!Next /\ UNCHANGED <<which, streamVars, trieVars, jsonVars, repairVars, filterVars, foldvars>>
  \/ which = "filter" /\ C!Next /\ UNCHANGED <<which, streamVars, graphVars, trieVars, jsonVars, repairVars, foldvars>>
  \/ RepairStep
  \/ which = "repair" /\ V!Answered /\ UNCHANGED vars
  \/ which = "fold" /\ FoldNext /\ UNCHANGED <<which, streamVars, graphVars, trieVars, jsonVars, repairVars, filterVars>>
  \/ /\ which = "causal" /\ T!Next
     /\ UNCHANGED <<which, streamVars, graphVars, state, fields, jsonVars, repairVars, filterVars, foldvars>>
  \/ /\ which = "state" /\ T!SlotsNext
     /\ UNCHANGED <<which, streamVars, graphVars, mine, theirs, fields, jsonVars, repairVars, filterVars, foldvars>>
  \/ /\ which = "fields" /\ T!FieldsNext
     /\ UNCHANGED <<which, streamVars, graphVars, mine, theirs, state, jsonVars, repairVars, filterVars, foldvars>>
  \/ /\ which = "json" /\ J!DocNext
     /\ UNCHANGED <<which, streamVars, graphVars, trieVars, scratch, raw, view, calls, repairVars, filterVars, foldvars>>
  \/ /\ which = "raw" /\ W!Next
     /\ UNCHANGED <<which, streamVars, graphVars, trieVars, doc, edits, repairVars, filterVars, foldvars>>

Spec == Init /\ [][Next]_vars /\ WF_vars(StreamStep) /\ WF_vars(RepairStep)

\* The JSON readers alone.
SpecJson == Init /\ which = "json" /\ [][Next]_vars

-----------------------------------------------------------------------------
\* The streaming pipeline, on graphs with cycles and dangling parents too: success
\* means that every target in the map was reported, a cycle is reported exactly
\* when there is one, and until then every computed state is the merge of the
\* states of all indexed parents, with only the states in memory that are needed.
ResultIsComplete ==
  which = "stream" => S!ResultIsComplete /\ S!StateFromAllParents /\ S!LiveFrontier

\* Reachability: parents are numbered before children and what is never freed is
\* what lies on or below a cycle; a yes is a path, a no the absence of one; the
\* filters keep real descendants; and whichever traversal is chosen, nothing wanted
\* is lost on the way and a finished search has found exactly what is below a seed.
ReachabilityIsExact ==
  which = "reach" =>
    /\ R!NumberingIsTopological /\ R!AnswersAreHard /\ R!FiltersAreSound
    /\ R!NothingWantedIsLost /\ R!HitsAreExact

\* apply_cdo_filter: dropped is what a surviving concurrent admin dominates,
\* however the admins fall into chunks.
DroppedAreDominated == which = "filter" => C!DroppedAreDominated

\* resolve_v3: the state returned authorizes its own writers, each the best of
\* those still in play for its key; it fails only for a missing certificate, a
\* missing answer or a cycle, asks for no pair twice, and removes a writer in
\* every round but the last.
RepairIsConsistent ==
  which = "repair" =>
    V!RepairIsConsistent /\ V!FailsOnlyForCause /\ V!AskedOnce /\ V!RoundsAreBounded

\* The three Merkle trees: cached nodes are those computed from nothing and the
\* order of a caller's list does not matter; every member has a proof of presence,
\* every other key one of absence, and they verify; what verifies is true; and a
\* compressed proof has one encoding.
ProofsAreExact ==
  /\ which = "causal" =>
       T!CacheMatchesOracle /\ T!EveryKeyIsProvable /\ T!VerifiedIsTrue /\ T!EncodingsAreUnique
  /\ which = "state" => T!EverySlotIsProvable /\ T!VerifiedSlotIsTrue
  /\ which = "fields" => T!RootIgnoresOrder /\ T!EveryFieldIsProvable /\ T!VerifiedIsPresent

\* The readers of JSON: Tokenizer::skip_value and Parser read one grammar, a masked
\* value is Parser's value cut down to the mask, RawEmitter writes the text of
\* Parser's value, parse_strict refuses duplicate keys at every depth and nothing
\* else; a view of an event holds no field of an event the scratch served before,
\* and spans cut a payload into its events.
ReadersAgree ==
  /\ which = "json" =>
       J!SkipsWhatParses /\ J!MaskedIsProjection /\ J!RewriteIsExact /\ J!StrictIsUnique
  /\ which = "raw" => W!ViewIsOfThisEvent /\ W!SpansAreExact

\* The streaming pipeline and the repair loop of resolve_v3: every call returns.
EveryCallReturns ==
  <>(/\ which = "stream" => stage = "done"
     /\ which = "repair" => phase \in {"ok", "error"})

\* write_raw_canonical_filtered: "Returns [`Error`] when the input is malformed
\* JSON or cannot be canonicalized."
RewriteRejectsMalformed == which = "json" => J!RewriteRejectsMalformed
=============================================================================

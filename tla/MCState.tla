------------------------------ MODULE MCState ------------------------------
(***************************************************************************)
(* The parts of src/state/ and of the event model, each by itself: which   *)
(* names the one that a behaviour is about, the others stay as they begin. *)
(* They are the streaming computation of room states, the three stores,    *)
(* the walks over event graphs, and the handling of single events.         *)
(*                                                                         *)
(* Event ids of the stream are numbers so that the stand-in for state      *)
(* resolution can pick one deterministically; MissingId is an id that      *)
(* events cite and the map does not hold.                                  *)
(***************************************************************************)
EXTENDS StateStream, SequencesExt

(***************************************************************************)
(* Instances of the walks over event graphs in src/state/: DepthWalks and  *)
(* DagOrder (at.rs) and StateDag (dag.rs).                                 *)
(*                                                                         *)
(* Ids are 1..5; 9 is cited and never held.                                *)
(***************************************************************************)

(***************************************************************************)
(* Graphs with a diamond, two roots, crossing edges and a missing parent,  *)
(* with the depths their shape gives them, with one depth that is wrong,   *)
(* and with every depth at the limit.                                      *)
(***************************************************************************)
VARIABLES
    dag, ask, w_heap, masks, best, steps, u_heap, u_visited, c_visited, auth_diff, answer

walkVars == <<dag, ask, w_heap, masks, best, steps, u_heap, u_visited, c_visited, auth_diff, answer>>

WalkShapes ==
    {<<{}, {1}, {1}, {2, 3}, {2, 3}>>, <<{}, {1}, {2}, {1, 9}, {3, 4}>>,
     <<{}, {}, {1, 2}, {1}, {2, 3}>>, <<{2, 3}, {4}, {4}, {5}, {}>>,
     <<{2, 3}, {3}, {4, 5}, {}, {}>>, <<{}, {1}, {1}, {1}, {2, 3, 4}>>,
     <<{4}, {4, 5}, {5}, {}, {}>>}

HeightOf(prev) ==
    LET after[n \in 0..5] ==
          IF n = 0 THEN [e \in 1..5 |-> 1]
          ELSE [e \in 1..5 |->
                  LET below == {after[n - 1][p] : p \in prev[e] \cap 1..5} \cup {0}
                  IN  1 + CHOOSE d \in below : \A c \in below : c <= d]
    IN  after[5]

DepthsOf(prev) ==
    {HeightOf(prev), [e \in 1..5 |-> 6]}
      \cup {[HeightOf(prev) EXCEPT ![e] = d] : e \in 1..5, d \in {0, 2, 6}}

WalkDags == UNION {{[prev |-> s, auth |-> s, depth |-> d] : d \in DepthsOf(s)} : s \in WalkShapes}

BaseQuestion(mode, tips, max_steps) ==
    [mode |-> mode, tips |-> tips, max_steps |-> max_steps, agreed |-> {}, conflicted |-> {}]

WalkQuestions ==
    {BaseQuestion("base", tips, 0) :
        tips \in {<<>>, <<4>>, <<9>>, <<4, 5>>, <<1, 2>>, <<4, 4>>, <<9, 2>>, <<1, 2, 3>>, <<5, 4, 3>>}}
    \cup {BaseQuestion("bases", tips, n) :
        tips \in {<<4>>, <<4, 5>>, <<1, 2, 3>>, <<5, 4, 3>>, <<2, 2, 4>>}, n \in {2, 4, 50}}
    \cup [mode : {"diff"}, tips : {<<>>}, max_steps : {0},
          agreed : {{}, {2}, {3, 9}, {1}}, conflicted : {{4}, {4, 5}, {1, 3}, {2, 9}}]

OneWalk ==
    /\ dag = CHOOSE d \in WalkDags : TRUE
    /\ ask = BaseQuestion("base", <<>>, 0)

DW == INSTANCE DepthWalks WITH
    MaxDepth <- 6, Dags <- WalkDags, Questions <- WalkQuestions, heap <- w_heap

-----------------------------------------------------------------------------
(***************************************************************************)
(* Rooms of which a server holds a part and fetches the rest.              *)
(***************************************************************************)
VARIABLES full, loaded, stored, targets, sorted

orderVars == <<full, loaded, stored, targets, sorted>>

OrderRooms ==
    {[prev |-> <<{}, {1}, {1}, {2, 3}, {4}>>, auth |-> <<{}, {1}, {1}, {2}, {3}>>],
     [prev |-> <<{2}, {3, 4}, {5}, {5}, {}>>, auth |-> <<{5}, {5}, {5}, {5}, {}>>],
     [prev |-> <<{}, {1}, {2}, {1, 9}, {3, 4}>>, auth |-> <<{}, {1}, {1}, {9}, {2}>>],
     [prev |-> <<{}, {}, {1, 2}, {3}, {2, 4}>>, auth |-> <<{}, {}, {2}, {1}, {2}>>]}

OrderHoldings == [loaded : {{5}, {4, 5}, {1}, {2, 5}, 1..5}, stored : {{}, {3}}]

OneRoom ==
    /\ full = CHOOSE r \in OrderRooms : TRUE
    /\ loaded = {1} /\ stored = {}

DO == INSTANCE DagOrder WITH Rooms <- OrderRooms, Holdings <- OrderHoldings

-----------------------------------------------------------------------------
(***************************************************************************)
(* State graphs that are sound, cyclic, cut off from their create event,   *)
(* over the fan-out or incomplete, each also with one event damaged.       *)
(***************************************************************************)
VARIABLES
    s_events, s_call, s_phase, outcome, s_queue, seen, missing, disconnected, create, truncated,
    stack, active, finished, s_degree, processed, state_after, flagged, derived

stateDagVars ==
    <<s_events, s_call, s_phase, outcome, s_queue, seen, missing, disconnected, create, truncated,
      stack, active, finished, s_degree, processed, state_after, flagged, derived>>

StateKeys == {"c", "a", "b"}

(* Stands for the resolution of the parents' states: the greatest id.      *)
Greatest(states) ==
    [k \in StateKeys |-> CHOOSE m \in {s[k] : s \in states} : \A s \in states : s[k] <= m]

Root(cites) == [create |-> TRUE, key |-> "c", cites |-> cites, room |-> "r", rejected |-> FALSE]

Ev(key, cites) == [create |-> FALSE, key |-> key, cites |-> cites, room |-> "r", rejected |-> FALSE]

StateGraphs ==
    {<<Root(<<>>), Ev("a", <<1>>), Ev("b", <<1>>), Ev("a", <<1, 3>>), Ev("none", <<2, 4>>)>>,
     <<Root(<<>>), Ev("a", <<1>>), Ev("b", <<2>>), Ev("a", <<3, 1, 1>>), Ev("b", <<4, 2>>)>>,
     <<Root(<<>>), Ev("a", <<1, 3>>), Ev("b", <<2, 1>>), Ev("a", <<1, 2>>), Ev("b", <<2, 4>>)>>,
     <<Root(<<>>), Ev("a", <<1>>), Ev("b", <<9>>), Ev("a", <<2>>), Ev("b", <<4, 2, 3, 1>>)>>,
     <<Root(<<>>), Ev("a", <<>>), Ev("b", <<1>>), Ev("a", <<3>>), Ev("b", <<4, 2>>)>>,
     <<Root(<<4>>), Ev("a", <<1>>), Ev("b", <<2>>), Ev("a", <<3>>), Ev("b", <<4, 1>>)>>,
     <<Root(<<>>), Ev("a", <<1>>), Ev("b", <<2>>), Ev("a", <<2>>), Ev("b", <<3, 4>>)>>}

Damaged(m) ==
    {m, [m EXCEPT ![1].key = "a"], [m EXCEPT ![5].room = "none", ![2].room = "s"]}
      \cup {[m EXCEPT ![e].rejected = TRUE] : e \in 1..4}
      \cup {[m EXCEPT ![e].key = "none"] : e \in {1, 3}}
      \cup {[m EXCEPT ![e].room = r] : e \in {1, 3, 5}, r \in {"s", "none"}}

StateMaps == UNION {Damaged(m) : m \in StateGraphs}

DagCall(mode, starts, limit, stop_first, version, required) ==
    [mode |-> mode, starts |-> starts, limit |-> limit, stop_first |-> stop_first,
     version |-> version, required |-> required]

StateCalls ==
    {DagCall("walk", starts, limit, stop, "V2_2", {}) :
        starts \in {<<>>, <<5>>, <<4, 4, 3>>, <<9, 5>>}, limit \in {0, 3, 5, 9}, stop \in BOOLEAN}
    \cup {DagCall("hops", starts, limit, FALSE, "V2_2", {}) :
        starts \in {<<>>, <<5>>, <<4, 3>>, <<9, 5>>}, limit \in {0, 2, 9}}
    \cup {DagCall("state", <<id>>, 0, FALSE, "V2_2", {"c", "a"}) : id \in {1, 4, 5}}
    \cup {DagCall("state", <<5>>, 0, FALSE, "V2", {})}

OneStateCall ==
    /\ s_events = CHOOSE m \in StateMaps : TRUE
    /\ s_call = DagCall("walk", <<>>, 0, FALSE, "V2_2", {})

SD == INSTANCE StateDag WITH
    None <- "none", CreateKey <- "c", Keys <- StateKeys, MaxFanout <- 3, Resolve <- Greatest,
    Maps <- StateMaps, Calls <- StateCalls,
    events <- s_events, call <- s_call, phase <- s_phase, queue <- s_queue, done <- finished,
    out_degree <- s_degree

-----------------------------------------------------------------------------
(***************************************************************************)
(* Instances of what happens to single events before they are state:       *)
(* hashing, redaction and the way to ingestion (EventHash), redactions of  *)
(* a batch (Redactions) and authorization of a batch or of a received      *)
(* event (AuthChain).                                                      *)
(***************************************************************************)

(***************************************************************************)
(* One event of each kind that redaction treats in a way of its own, in a  *)
(* room of each format; "1.5" is a number that canonical JSON refuses.     *)
(***************************************************************************)
VARIABLES draft, doc, hops, honest, ingested

hashVars == <<draft, doc, hops, honest, ingested>>

Str(x) == [s |-> x]

Obj(x) == [o |-> x]

RelatesTo == Obj([rel_type |-> Str("r"), event_id |-> Str("e"), key |-> Str("k")])

ContentsOf(type) ==
    CASE type = "m.room.create" ->
           {[creator |-> Str("u"), room_version |-> Str("x")], [extra |-> Str("1.5")]}
      [] type = "m.room.member" ->
           {[membership |-> Str("join"), displayname |-> Str("n"),
             third_party_invite |-> Obj([signed |-> Str("t"), extra |-> Str("e")])],
            [membership |-> Str("join"), third_party_invite |-> Str("t"),
             join_authorised_via_users_server |-> Str("u")]}
      [] type = "m.room.message" ->
           {[body |-> Str("b")],
            [f \in {"m.relates_to", "body"} |-> IF f = "body" THEN Str("1.5") ELSE RelatesTo]}
      [] type = "m.room.redaction" ->
           {[redacts |-> Str("e1"), reason |-> Str("r")], [reason |-> Str("r")]}
      [] type = "m.room.join_rules" ->
           {[join_rule |-> Str("public"), allow |-> Obj([x |-> Str("1")])]}

Formats ==
    {[kind |-> "numeric", n |-> n] : n \in {2, 6, 10, 12}}
      \cup {[kind |-> k, n |-> 0] : k \in {"msc4242", "msc3389", "unknown"}}

DraftDoc(type, content, format) ==
    [f \in {"type", "sender", "content", "origin_server_ts", "room_id", "origin", "state_key"}
             \cup {IF format.kind = "msc4242" THEN "prev_state_events" ELSE "auth_events"}
             \cup (IF format.n = 2 THEN {"event_id"} ELSE {})
             \cup (IF type = "m.room.redaction" THEN {"redacts"} ELSE {}) |->
       CASE f = "type" -> Str(type)
         [] f = "content" -> Obj(content)
         [] f = "redacts" -> Str("e1")
         [] f = "state_key" /\ DOMAIN content = {"reason"} -> Str("long")
         [] OTHER -> Str("v")]

EventDrafts ==
    UNION {UNION {{[doc |-> DraftDoc(type, c, f), version |-> f, hashed |-> f.n # 10] :
                      c \in ContentsOf(type)} : f \in Formats} :
             type \in {"m.room.create", "m.room.member", "m.room.message", "m.room.redaction",
                       "m.room.join_rules"}}

OneDraft ==
    draft = [doc |-> DraftDoc("m.room.message", [body |-> Str("b")], [kind |-> "numeric", n |-> 12]),
             version |-> [kind |-> "numeric", n |-> 12], hashed |-> TRUE]

EH == INSTANCE EventHash WITH Drafts <- EventDrafts, MaxHops <- 2

-----------------------------------------------------------------------------
(***************************************************************************)
(* Batches of three or four redactions with every choice of targets:       *)
(* chains, cycles, targets that come later or with the next batch.  Alice  *)
(* may redact anything; bob's power and the state at their redaction vary. *)
(***************************************************************************)
VARIABLES scene, r_batch, before, pairs, report, round

redactVars == <<scene, r_batch, before, pairs, report, round>>

TwoUsers == {"alice", "bob"}

StateWithBobAt(level) ==
    [k \in {"create", "power_levels"} |->
       IF k = "create" THEN None
       ELSE [key |-> k, sender |-> "alice",
             content |-> [fields |-> [f \in {"redact"} |-> 50],
                          users |-> [u \in TwoUsers |-> IF u = "alice" THEN 100 ELSE level]]]]

Redaction(id, redacts, flag) ==
    [id |-> id, sender |-> IF id \in {2, 5} THEN "alice" ELSE "bob",
     redaction |-> id # 5, redacts |-> redacts,
     server |-> IF id \in {1, 5} THEN "s" ELSE "t",
     rejected |-> flag = "rejected", soft_fail |-> flag = "soft", stripped |-> FALSE]

Redacted == Redaction(5, None, "ok")

RedactionScene(redacts, flag, with_first, level, room_version) ==
    [first |-> [n \in 1..3 |-> Redaction(n, redacts[n], IF n = 2 THEN flag ELSE "ok")]
                 \o (IF with_first THEN <<Redacted>> ELSE <<>>),
     second |-> <<Redaction(4, redacts[4], "ok")>> \o (IF with_first THEN <<>> ELSE <<Redacted>>),
     state_at |-> [n \in 1..5 |-> IF n = 3 /\ level = 10 THEN None
                                  ELSE StateWithBobAt(IF n = 4 THEN 50 ELSE level)],
     version |-> "V2", room_version |-> room_version]

RedactionScenes ==
    {RedactionScene(r, flag, with_first, level, v) :
        r \in {f \in [1..4 -> {None, 1, 2, 3, 5}] : f[4] \in {1, 5} /\ f[1] # 1},
        flag \in {"ok", "rejected", "soft"}, with_first \in BOOLEAN, level \in {10, 50}, v \in {2, 11}}

OneScene == scene = RedactionScene(<<None, None, None, 5>>, "ok", TRUE, 50, 11)

RD == INSTANCE Redactions WITH Users <- TwoUsers, Scenarios <- RedactionScenes, batch <- r_batch

-----------------------------------------------------------------------------
(***************************************************************************)
(* Two rooms, one of V2 (ids 1 to 19) and one of the later versions (ids   *)
(* 21 to 32), with events that cite too little, too much, twice, stale,    *)
(* rejected and foreign ones.                                              *)
(***************************************************************************)
VARIABLES a_history, todo, room_state, accepted, soft_failed, a_rejected

authVars == <<a_history, todo, room_state, accepted, soft_failed, a_rejected>>

LevelsOf(alice, bob) ==
    [fields |-> [f \in {"users_default", "events_default", "state_default", "ban", "kick", "redact",
                        "invite", "power_levels", "join_rules", "topic"} |-> None],
     users |-> [u \in TwoUsers |-> IF u = "alice" THEN alice ELSE bob]]

CreateOf(federate, room_version) ==
    [creator |-> "alice", additional_creators |-> {}, federate |-> federate,
     room_version |-> room_version]

Pdu(id, key, sender, content, auth) ==
    [id |-> id, key |-> key, sender |-> sender, content |-> content, via |-> None, auth |-> auth,
     prev |-> IF key = "create" THEN <<>> ELSE <<1>>, room |-> None,
     rejected |-> FALSE, verified |-> TRUE]

InRoom(of, domain, ev) == [ev EXCEPT !.room = [of |-> of, domain |-> domain]]

InLater(ev) == InRoom(21, None, ev)

PduPool ==
    [id \in 1..32 |->
       CASE id = 1 -> Pdu(id, "create", "alice", CreateOf(TRUE, "10"), <<>>)
         [] id = 2 -> Pdu(id, "alice", "alice", "join", <<1>>)
         [] id = 3 -> Pdu(id, "power_levels", "alice", LevelsOf(100, 50), <<1, 2>>)
         [] id = 4 -> Pdu(id, "join_rules", "alice", "public", <<1, 2, 3>>)
         [] id = 5 -> Pdu(id, "bob", "bob", "join", <<1, 3, 4>>)
         [] id = 6 -> Pdu(id, "topic", "bob", "t", <<1, 3, 5>>)
         [] id = 7 -> Pdu(id, "bob", "alice", "ban", <<1, 2, 3, 5>>)
         [] id = 8 -> Pdu(id, "topic", "bob", "t", <<1, 5, 3, 5>>)
         [] id = 9 -> [Pdu(id, "power_levels", "alice", LevelsOf(100, 0), <<1, 2, 3>>)
                         EXCEPT !.rejected = TRUE]
         [] id = 10 -> Pdu(id, "topic", "bob", "t", <<1, 9, 5>>)
         [] id = 11 -> Pdu(id, "bob", "bob", "join", <<1, 3, 4, 7>>)
         [] id = 12 -> Pdu(id, "create", "alice", CreateOf(FALSE, "10"), <<>>)
         [] id = 13 -> Pdu(id, "create", "alice", CreateOf(TRUE, "unknown"), <<>>)
         [] id = 14 -> [Pdu(id, "power_levels", "alice", LevelsOf(100, 0), <<1, 2, 3>>)
                          EXCEPT !.verified = FALSE]
         [] id = 15 -> Pdu(id, "topic", "bob", "t", <<1, 14, 5>>)
         [] id = 16 -> Pdu(id, "join_rules", "bob", "invite", <<1, 3, 5>>)
         [] id = 17 -> Pdu(id, "bob", "alice", "ban", <<1, 2, 3, 16>>)
         [] id = 18 -> Pdu(id, "join_rules", "bob", "public", <<1, 3, 11>>)
         [] id = 19 -> InRoom(1, "t", Pdu(id, "create", "alice", CreateOf(TRUE, "10"), <<>>))
         [] id = 20 -> InRoom(1, "s", Pdu(id, "create", "alice", CreateOf(TRUE, "10"), <<>>))
         [] id = 21 -> Pdu(id, "create", "alice", CreateOf(TRUE, "12"), <<>>)
         [] id = 22 -> InLater(Pdu(id, "alice", "alice", "join", <<>>))
         [] id = 23 -> InLater(Pdu(id, "power_levels", "alice", LevelsOf(None, 50), <<22>>))
         [] id = 24 -> InLater(Pdu(id, "join_rules", "alice", "public", <<22, 23>>))
         [] id = 25 -> InLater(Pdu(id, "bob", "bob", "join", <<23, 24>>))
         [] id = 26 -> InLater(Pdu(id, "topic", "bob", "t", <<23, 25>>))
         [] id = 27 -> InRoom(20, None, Pdu(id, "topic", "bob", "t", <<23, 25>>))
         [] id = 28 -> Pdu(id, "bob", "alice", "ban", <<22, 23, 25>>)
         [] id = 29 -> InLater(Pdu(id, "bob", "alice", "ban", <<22, 23, 25>>))
         [] id = 30 -> InLater(Pdu(id, "bob", "bob", "join", <<23, 24, 28>>))
         [] id = 31 -> InLater(Pdu(id, "topic", "bob", "t", <<21, 23, 25>>))
         [] id = 32 -> InLater(Pdu(id, "create", "alice", CreateOf(TRUE, "12"), <<>>))]

RoomOf(c, a, p, j) ==
    [k \in TwoUsers \cup {"create", "power_levels", "join_rules", "topic"} |->
       CASE k = "create" -> c [] k = "alice" -> a [] k = "power_levels" -> p
         [] k = "join_rules" -> j [] OTHER -> 0]

NoRoom == RoomOf(0, 0, 0, 0)

LaterRoom == RoomOf(21, 22, 23, 24)

History(mode, version, initial, ids) ==
    [mode |-> mode, version |-> version, initial |-> initial, events |-> ids]

PartsOf(seqs) == UNION {{SelectSeq(s, LAMBDA id : id \in S) : S \in SUBSET ToSet(s)} : s \in seqs}

AuthHistories ==
    {History("batch", "V2", RoomOf(create_id, 2, 3, 4), ids) :
        create_id \in {1, 12, 13}, ids \in PartsOf({<<5, 6, 7, 11, 18>>, <<5, 8, 9, 10, 16, 17>>})}
    \cup {History("batch", "V2", NoRoom, ids) :
        ids \in PartsOf({<<1, 2, 3, 4, 5, 6>>, <<19, 20, 13, 2>>})}
    \cup {History("batch", v, LaterRoom, ids) :
        v \in {"V2_1", "V2_2"}, ids \in PartsOf({<<25, 26, 27, 28, 30>>, <<25, 29, 31, 32>>})}
    \cup {History("batch", v, NoRoom, ids) :
        v \in {"V2_1", "V2_2"}, ids \in PartsOf({<<21, 22, 23, 24, 25>>})}
    \cup {History("receive", "V2", RoomOf(1, 2, 3, 4), <<5, 6, 7, 11, 16, 17, 18, 14, 15>>),
          History("receive", "V2_1", LaterRoom, <<25, 26, 28, 29, 30>>)}

OneHistory == a_history = History("batch", "V2", NoRoom, <<>>)

AC == INSTANCE AuthChain WITH
    Users <- TwoUsers, Domain <- [u \in TwoUsers |-> IF u = "alice" THEN "s" ELSE "t"],
    MaxAuthEvents <- 4, Pool <- PduPool, Histories <- AuthHistories,
    history <- a_history, state <- room_state, rejected <- a_rejected

-----------------------------------------------------------------------------
CONSTANTS k1, k2

MissingId == 9

(* Stands for auth_difference and resolve_iterative_sort: a fixed function *)
(* of the unconflicted state, the conflicted ids and the parent states.    *)
MCIterativeSort(s, ids, states) ==
    [k \in Keys |->
        IF s[k] # None \/ ids = {} THEN s[k]
        ELSE IF k = k1 THEN CHOOSE i \in ids : \A j \in ids : j <= i
        ELSE IF Cardinality(states) > 2 THEN CHOOSE i \in ids : \A j \in ids : i <= j
        ELSE None]

(* Forks and merges over four events: the shapes in which a state is       *)
(* shared, merged and overwritten.  The first event always has a key, the  *)
(* two after it have any, and the last one may add to the first.           *)
PrevChoices(e) ==
    CASE e = 1 -> {<< >>}
      [] e = 2 -> {<< >>, <<1>>}
      [] e = 3 -> {<<1>>, <<2, 2>>, <<1, 2>>, <<2, 1>>}
      [] e = 4 -> {<<3>>, <<2, 3>>, <<3, 2>>, <<1, 3>>, <<1, 2, 3>>, <<MissingId, 3, 3>>}

ForkGraphs ==
    [prev      : {p \in [1 .. 4 -> UNION {PrevChoices(e) : e \in 1 .. 4}] :
                     \A e \in 1 .. 4 : p[e] \in PrevChoices(e)},
     state_key : {f \in [1 .. 4 -> {k1, k2, None}] : f[1] # None /\ f[4] # k2},
     rejected  : {{}, {3}},
     targets   : {1 .. 4},
     optimized : BOOLEAN]

(* No call asks for anything the map holds: the no-op path.                *)
AbsentTargets ==
    [prev      : {[e \in 1 .. 4 |-> << >>]},
     state_key : {[e \in 1 .. 4 |-> None]},
     rejected  : {{}},
     targets   : {{}, {MissingId}},
     optimized : BOOLEAN]

StreamInputs == ForkGraphs \cup AbsentTargets

VARIABLES
    which,
    map, access_order, generation, batch,
    checkpoints, prev, hops_since_snapshot, history, lost,
    heap, cur, snap, want

EC == INSTANCE EventCache WITH
    Id <- 1..4, Content <- {1, 2}, Capacity <- 2, MaxGeneration <- 6,
    Batches <- {<<[event_id |-> 1, content |-> 1], [event_id |-> 3, content |-> 2],
                  [event_id |-> 1, content |-> 2]>>,
                <<[event_id |-> 4, content |-> 1], [event_id |-> 2, content |-> 1]>>}

DC == INSTANCE DeltaChain WITH
    EventId <- {1, 2}, State <- {[k \in {} |-> 1], [k \in {1} |-> 1], [k \in {1} |-> 2],
                                [k \in {1, 2} |-> 2]},
    max_hops <- 3, MaxLength <- 5, MaxLost <- 1

OM == INSTANCE OrdMap WITH
    Key <- 1..4, Entries <- {<<1, 1>>, <<2, 1>>, <<2, 2>>, <<3, 1>>, <<4, 1>>}, MAX_FANOUT <- 2,
    Bulk <- {<<<<4, 1>>, <<2, 1>>, <<1, 1>>, <<2, 2>>, <<3, 1>>>>}

cacheVars == <<map, access_order, generation, batch>>
chainVars == <<checkpoints, prev, hops_since_snapshot, history, lost>>
mapVars == <<heap, cur, snap, want>>

storeVars == <<cacheVars, chainVars, mapVars>>
graphVars == <<walkVars, orderVars, stateDagVars>>
eventVars == <<hashVars, redactVars, authVars>>

allVars == <<which, vars, storeVars, graphVars, eventVars>>

NoCall == CHOOSE in \in AbsentTargets : in.targets = {}

Parts ==
    {"stream", "cache", "deltas", "ordmap", "walks", "order", "state_dag", "hash", "redactions", "auth"}

StateInit ==
    /\ which \in Parts
    /\ EC!Init /\ DC!Init /\ OM!Init
    /\ IF which = "stream" THEN TRUE ELSE input = NoCall /\ Init
    /\ IF which = "walks" THEN TRUE ELSE OneWalk /\ DW!Init
    /\ IF which = "order" THEN TRUE ELSE OneRoom /\ DO!Init
    /\ IF which = "state_dag" THEN TRUE ELSE OneStateCall /\ SD!Init
    /\ IF which = "hash" THEN TRUE ELSE OneDraft /\ EH!Init
    /\ IF which = "redactions" THEN TRUE ELSE OneScene /\ RD!Init
    /\ IF which = "auth" THEN TRUE ELSE OneHistory /\ AC!Init
    /\ CASE which = "stream" -> Init
         [] which = "walks" -> DW!Init
         [] which = "order" -> DO!Init
         [] which = "state_dag" -> SD!Init
         [] which = "hash" -> EH!Init
         [] which = "redactions" -> RD!Init
         [] which = "auth" -> AC!Init
         [] OTHER -> TRUE

(* The parts that come to an end do so: a call has returned.               *)
Returned ==
    \/ which = "stream" /\ phase = "done"
    \/ which = "state_dag" /\ s_phase = "done"
    \/ which = "hash" /\ ingested # <<>>
    \/ which = "redactions" /\ round = 12
    \/ which = "auth" /\ todo = {}

StateNext ==
    \/ Returned /\ UNCHANGED allVars
    \/ which = "stream" /\ Next
       /\ UNCHANGED <<which, storeVars, graphVars, eventVars>>
    \/ which = "cache" /\ EC!Next
       /\ UNCHANGED <<which, vars, chainVars, mapVars, graphVars, eventVars>>
    \/ which = "deltas" /\ DC!Next
       /\ UNCHANGED <<which, vars, cacheVars, mapVars, graphVars, eventVars>>
    \/ which = "ordmap" /\ OM!Next
       /\ UNCHANGED <<which, vars, cacheVars, chainVars, graphVars, eventVars>>
    \/ which = "walks" /\ DW!Next
       /\ UNCHANGED <<which, vars, storeVars, orderVars, stateDagVars, eventVars>>
    \/ which = "order" /\ DO!Next
       /\ UNCHANGED <<which, vars, storeVars, walkVars, stateDagVars, eventVars>>
    \/ which = "state_dag" /\ SD!Next
       /\ UNCHANGED <<which, vars, storeVars, walkVars, orderVars, eventVars>>
    \/ which = "hash" /\ EH!Next
       /\ UNCHANGED <<which, vars, storeVars, graphVars, redactVars, authVars>>
    \/ which = "redactions" /\ RD!Next
       /\ UNCHANGED <<which, vars, storeVars, graphVars, hashVars, authVars>>
    \/ which = "auth" /\ AC!Next
       /\ UNCHANGED <<which, vars, storeVars, graphVars, hashVars, redactVars>>

StateSpec == StateInit /\ [][StateNext]_allVars

----------------------------------------------------------------------------
\* StateStream: the hash of an update is that of its state although it is carried
\* on by increments across merges, and an update that names a parent instead of a
\* state names one whose state it is.
UpdatesAreTrue == HashTracksState /\ UnchangedNamesItsState

\* EventCache: every operation is one of a least-recently-used cache, which
\* evicts only when it is full, and the map and its index by generation describe
\* the same entries.
CacheImplementsLru == EC!ImplementsLru /\ [](which = "cache" => EC!IndexMatchesMap)

\* DeltaChain: a rebuilt state is the stored one, although states repeat, within
\* max_hops of a snapshot; a lost record makes reads fail and never wrong; and
\* rebuilding many states in one pass gives what rebuilding each one gives.
RebuiltStatesAreExact ==
    which = "deltas" =>
        DC!RebuiltStatesAreExact /\ DC!BatchAgreesWithSingle /\ DC!HopsAreBounded

\* PersistentOrdMap: no change of a map shows in a clone that shares its nodes;
\* lookups, iteration, ranges and length agree; trees stay well-formed although
\* removal never rebalances; and diff reports every difference once and in order
\* although it skips whatever the two trees share.
MapsAreExact ==
    which = "ordmap" => OM!MapsAreExact /\ OM!TreesAreWellFormed /\ OM!DiffIsExact

\* DepthWalks, whatever depths the senders wrote: a merge base is an ancestor of
\* every tip, a junction of compute_merge_bases joins the tips of its mask, and
\* the auth difference misses no event; with truthful depths all three are exact.
DepthsCannotMislead ==
    which = "walks" =>
        DW!MergeBaseIsCommon /\ DW!JunctionsAreMinimal /\ DW!AuthDiffMissesNothing

\* DagOrder, while the missing events of a room arrive one by one: when no gap is
\* found every ancestor is held or lies behind the store; what nothing follows is
\* a forward extremity; the sorts put parents first; and verify_pagination accepts
\* pages exactly when no event is on an earlier page than a descendant of it.
PartialRoomsAreJudgedRight ==
    which = "order" =>
        /\ DO!NoGapMeansClosed /\ DO!ExtremitiesAreTips
        /\ DO!OrdersRespectParents /\ DO!PagesAreJudgedRight

\* StateDag: the walk calls a graph complete exactly when it is, and orders the
\* missing events by their true distance; a state is computed exactly when
\* everything behind the event is valid, it merges the states of all the cited
\* events, and no state is dropped before its last use; and the auth events derived
\* from it are accepted at that moment, also when one was rejected meanwhile.
StateDagIsExact ==
    which = "state_dag" =>
        /\ SD!WalkJudgesCompleteness /\ SD!HopOrderIsShortest
        /\ SD!StateMergesAllParents /\ SD!NoStateDroppedEarly /\ SD!DerivedAuthIsAccepted

\* EventHash: the streaming writer and redact_json keep the same fields and a split
\* content makes up the content again; so redaction, signing and annotation leave
\* the event's id alone, and an event that is accepted is what its sender hashed.
EventsKeepTheirIdentity ==
    which = "hash" =>
        /\ EH!StreamMirrorsRedaction /\ EH!SplitIsLossless
        /\ EH!IdSurvivesRedaction /\ EH!AcceptedIsWhatWasSent

\* Redactions: the report names every redaction of the batch once and truly, and
\* an event is stripped exactly by the redactions that were applied.
RedactionsAreAccountedFor ==
    which = "redactions" => RD!RedactionsAreAccountedFor /\ RD!OnlyAppliedRedactionsStrip

\* AuthChain: no accepted event has a rejected or foreign event in its auth chain,
\* and what is rejected does not depend on the order of arrival.
RejectionIsFinal == which = "auth" => AC!AcceptedChainsAreSound /\ AC!RejectionIsOrderFree
=============================================================================

----------------------------- MODULE Resolution -----------------------------
(***************************************************************************)
(* State resolution (src/resolve/) as the walk over a room performs it     *)
(* (resolve_merged_parent_states of src/state/at.rs): where branches meet, *)
(* the states of the parents are partitioned, the events on which they     *)
(* disagree are completed by the auth difference, sorted, and authorized   *)
(* one by one against the state resolved so far.                           *)
(*                                                                         *)
(* `room' is the room's event graph in the order in which the walk visits  *)
(* it, so that an event's id is its position and the events it cites come  *)
(* before it; `after' is the state after each event, a function from keys  *)
(* to ids; `cache' is the LocalAuthCache shared by all merges of a walk.   *)
(*                                                                         *)
(* Resolution is a pure computation over these, written as operators on a  *)
(* room r under a version v.  An acyclic room takes neither the fallback   *)
(* of Kahn's sort for cycles nor the branches for events that are missing. *)
(***************************************************************************)
EXTENDS AuthRules, FiniteSets, TLC

CONSTANTS
  Version,     \* the StateResVersion of the room
  BaseRoom,    \* the events every room of the run starts with
  Drafts(_),   \* what the n-th event after those may say
  MaxEvents    \* bound: the length of a room

VARIABLES room, after, cache

vars == << room, after, cache >>

(***************************************************************************)
(* op applied to 1, ..., n in this order, starting from base.  The choices *)
(* from singletons make TLC evaluate a value before op is applied to it.   *)
(***************************************************************************)
Iterate(op(_, _), base, n) ==
  LET from(first) ==
        LET value[i \in 0..n] ==
              IF i = 0 THEN first
              ELSE CHOOSE next \in {op(x, i) : x \in {value[i - 1]}} : TRUE
        IN  value[n]
  IN  CHOOSE last \in {from(first) : first \in {base}} : TRUE

Elements(s) == {s[i] : i \in DOMAIN s}

NoState == CHOOSE state \in [StateKeys -> {None}] : TRUE

Values(state) == {state[k] : k \in StateKeys} \ {None}

(***************************************************************************)
(* The elements of S in the order of a strict total order.                 *)
(***************************************************************************)
Sorted(S, before(_, _)) ==
  Iterate(LAMBDA seq, i :
            LET rest == S \ Elements(seq)
            IN  Append(seq, CHOOSE x \in rest :
                              \A y \in rest \ {x} : before(x, y)),
          << >>, Cardinality(S))

-----------------------------------------------------------------------------
(***************************************************************************)
(* The conflicted set.                                                     *)
(***************************************************************************)

(***************************************************************************)
(* The auth ancestors of every event of r.                                 *)
(***************************************************************************)
auth_chains(r) ==
  Iterate(LAMBDA chains, i :
            Append(chains, Elements(r[i].auth) \cup
                             UNION {chains[a] : a \in Elements(r[i].auth)}),
          << >>, Len(r))

unconflicted_state(states) ==
  [k \in StateKeys |-> IF \A i \in DOMAIN states : states[i][k] = states[1][k]
                  THEN states[1][k] ELSE None]

conflicted_ids(states) ==
  UNION {Values(states[i]) : i \in DOMAIN states}
    \ Values(unconflicted_state(states))

symmetric_difference(chains) ==
  {id \in UNION chains : \E c \in chains : id \notin c}

auth_difference_beyond(chains, agreed, states) ==
  symmetric_difference(
    {UNION {chains[id] : id \in Values(states[i]) \ agreed}
       \ (agreed \cup UNION {chains[id] : id \in agreed}) : i \in DOMAIN states})

auth_difference(r, states) ==
  auth_difference_beyond(auth_chains(r), Values(unconflicted_state(states)), states)

(***************************************************************************)
(* MSC4297: the events on auth paths between two conflicted events.        *)
(***************************************************************************)
conflicted_subgraph(r, conflicted) ==
  LET chains == auth_chains(r)
  IN  {id \in conflicted \cup UNION {chains[c] : c \in conflicted} :
         id \in conflicted \/ chains[id] \cap conflicted # {}}

-----------------------------------------------------------------------------
(***************************************************************************)
(* The auth context of one event.                                          *)
(***************************************************************************)

(***************************************************************************)
(* The FIFO walk of the auth graph from the citations ids: the events in   *)
(* the order in which they are popped, with their depth.  Events of stops  *)
(* are not expanded.                                                       *)
(***************************************************************************)
AuthWalk(r, ids, stops) ==
  LET push(queue, as, depth) ==
        LET new == SelectSeq(as, LAMBDA a : \A j \in DOMAIN queue : queue[j].id # a)
        IN  queue \o [i \in DOMAIN new |-> [id |-> new[i], depth |-> depth]]
      pop(queue, i) ==
        IF i > Len(queue) \/ queue[i].id \in stops THEN queue
        ELSE push(queue, r[queue[i].id].auth, queue[i].depth + 1)
  IN  Iterate(pop, push(<< >>, ids, 1), Len(r))

gathers_transitively(v) == v \in {"V2_1_1", "V2_2"}

cached_offers(walk, known) ==
  UNION {{[key |-> k, id |-> known[walk[i].id][k].id,
           depth |-> walk[i].depth + known[walk[i].id][k].depth, pos |-> i] :
            k \in {key \in StateKeys : known[walk[i].id][key] # None}} :
           i \in {j \in DOMAIN walk : walk[j].id \in DOMAIN known}}

\* A plausible mistake: an ancestor found in the cache does not offer itself.
offers_without_hits(r, walk, known) ==
  {[key |-> r[walk[i].id].key, id |-> walk[i].id, depth |-> walk[i].depth,
    pos |-> i] : i \in {j \in DOMAIN walk : walk[j].id \notin DOMAIN known}}
  \cup cached_offers(walk, known)

(***************************************************************************)
(* What the walk offers for each key: the events it meets, and for each    *)
(* cached one its local auth, deeper by the depth of the event itself.     *)
(***************************************************************************)
offers(r, walk, known) ==
  {[key |-> r[walk[i].id].key, id |-> walk[i].id, depth |-> walk[i].depth,
    pos |-> i] : i \in DOMAIN walk}
  \cup cached_offers(walk, known)

(***************************************************************************)
(* The least deep of the offers for a key, the first found among equals.   *)
(***************************************************************************)
least_deep(found) ==
  IF found = {} THEN None
  ELSE LET best == CHOOSE x \in found : \A y \in found :
                     x.depth < y.depth \/ (x.depth = y.depth /\ x.pos <= y.pos)
       IN  [id |-> best.id, depth |-> best.depth]

choose_local_auth(found) ==
  [k \in StateKeys |-> least_deep({x \in found : x.key = k})]

gather_local_auth(r, id, memo, v) ==
  IF gathers_transitively(v)
  THEN choose_local_auth(offers(r, AuthWalk(r, r[id].auth, DOMAIN memo), memo))
  ELSE choose_local_auth(offers(r, AuthWalk(r, r[id].auth, DOMAIN r), << >>))

(***************************************************************************)
(* The cache after compute_local_auth(id): it then has an entry for id.    *)
(***************************************************************************)
compute_local_auth(r, id, memo, v) ==
  IF id \in DOMAIN memo THEN memo
  ELSE (id :> gather_local_auth(r, id, memo, v)) @@ memo

(***************************************************************************)
(* OverlayState::get_event: the resolved state, else the local auth.       *)
(***************************************************************************)
may_use_local_auth(key, candidate, v, is_power_phase) ==
  is_power_phase /\ has_ban_evasion_hardening(v)
                 /\ key \in {"power_levels", "join_rules"}
    => candidate.key \in {"power_levels", "join_rules"} \cup Users

overlay(r, id, resolved, local, create, v, is_power_phase) ==
  [k \in StateKeys |->
     CASE resolved[k] # None -> r[resolved[k]]
       [] resolved[k] = None /\ local[k] # None ->
            IF may_use_local_auth(k, r[id], v, is_power_phase)
            THEN r[local[k].id] ELSE None
       [] resolved[k] = None /\ local[k] = None ->
            IF k = "create" THEN create ELSE None]

-----------------------------------------------------------------------------
(***************************************************************************)
(* The power phase.                                                        *)
(***************************************************************************)
is_power_event(ev) ==
  \/ ev.key \in {"create", "power_levels", "join_rules"}
  \/ ev.key \in Users /\ ev.content \in {"ban", "leave"} /\ ev.key # ev.sender

(***************************************************************************)
(* The power events of C, and the events of C in their auth chains.  An    *)
(* event cites only earlier ones, so one pass from the last to the first   *)
(* follows every chain.                                                    *)
(***************************************************************************)
expand_v2_power_events_auth_chains(r, C) ==
  Iterate(LAMBDA P, i :
            LET id == Len(r) + 1 - i
            IN  IF id \in P THEN P \cup (Elements(r[id].auth) \cap C) ELSE P,
          {id \in C : is_power_event(r[id])}, Len(r))

route_msc4297_ancestral_power_events(r, P, C, v) ==
  LET chains == auth_chains(r)
      types  == {"power_levels", "create"} \cup
                  (IF v = "V2_1" THEN {"join_rules"} ELSE {})
  IN  IF ~is_v2_1_plus(v) THEN {}
      ELSE {id \in UNION {chains[p] : p \in P} \ C : r[id].key \in types}

get_power_level_from_auth_chain(r, ev, create, v) ==
  LET pls == {i \in DOMAIN ev.auth : r[ev.auth[i]].key = "power_levels"}
      i   == CHOOSE j \in pls : \A k \in pls : j <= k
  IN  CASE has_infinite_power(create, ev.sender, v) -> MAX_POWER_LEVEL_RUST
        [] OTHER -> IF pls = {} THEN ev.level
                    ELSE user_level(r[ev.auth[i]].content, ev.sender)

ts_then_id(r, a, b) == r[a].ts < r[b].ts \/ (r[a].ts = r[b].ts /\ a < b)

\* A plausible mistake: levels and times alone decide, citations do not.
kahn_sort_by_level(r, P, create, v) ==
  LET level(id) == get_power_level_from_auth_chain(r, r[id], create, v)
  IN  Sorted(P, LAMBDA a, b : \/ level(a) > level(b)
                              \/ level(a) = level(b) /\ ts_then_id(r, a, b))

(***************************************************************************)
(* Kahn's sort: among the events whose citations in P were all emitted,    *)
(* the one of the highest level goes first.                                *)
(***************************************************************************)
kahn_sort(r, P, create, v) ==
  LET level == [id \in P |->
                  get_power_level_from_auth_chain(r, r[id], create, v)]
      before(a, b) == \/ level[a] > level[b]
                      \/ level[a] = level[b] /\ ts_then_id(r, a, b)
      pop(seq, i) ==
        LET done  == Elements(seq)
            ready == {id \in P \ done : Elements(r[id].auth) \cap P \subseteq done}
        IN  Append(seq, CHOOSE x \in ready :
                          \A y \in ready \ {x} : before(x, y))
  IN  Iterate(pop, << >>, Cardinality(P))

create_event(r, U, C) ==
  LET creates == {id \in C : r[id].key = "create"}
  IN  CASE U["create"] # None -> r[U["create"]]
        [] U["create"] = None /\ creates # {} ->
             r[CHOOSE id \in creates : \A x \in creates : id <= x]
        [] OTHER -> None

(***************************************************************************)
(* One event authorized against the state resolved so far: the step of     *)
(* both phases.  acc has the resolved state and the cache.                 *)
(***************************************************************************)
event_auth_ok(r, id, resolved, memo, create, v, is_power_phase) ==
  check_auth(r[id], overlay(r, id, resolved, memo[id], create, v,
                            is_power_phase), v)

apply_if_authorized(r, acc, id, memo, create, v, is_power_phase) ==
  IF event_auth_ok(r, id, acc.resolved, memo, create, v, is_power_phase)
  THEN [resolved |-> [acc.resolved EXCEPT ![r[id].key] = id], cache |-> memo]
  ELSE [acc EXCEPT !.cache = memo]

auth_check_step(r, acc, id, create, v, is_power_phase) ==
  apply_if_authorized(r, acc, id, compute_local_auth(r, id, acc.cache, v),
                      create, v, is_power_phase)

(***************************************************************************)
(* Events of banned senders are screened in one of three ways: up front    *)
(* against the state after the power phase (the resolver), event by event  *)
(* against the working state (the variant that reports deltas), or not at  *)
(* all.                                                                    *)
(***************************************************************************)
is_sender_banned(r, id, resolved, U) ==
  LET member == Or(resolved[r[id].sender], U[r[id].sender])
  IN  member # None /\ r[member].content = "ban"

screened(r, id, resolved, U, v) ==
  has_ban_evasion_hardening(v) /\ is_sender_banned(r, id, resolved, U)

(***************************************************************************)
(* The loop of both phases.                                                *)
(***************************************************************************)
replay(r, U, acc, order, create, v, is_power_phase, screening) ==
  Iterate(LAMBDA a, i :
            IF screening = "per_event" /\ screened(r, order[i], a.resolved, U, v)
            THEN a
            ELSE auth_check_step(r, a, order[i], create, v, is_power_phase),
          acc, Len(order))

run_power_phase_iterative_checks(r, U, P, memo, create, v) ==
  replay(r, U,
         [resolved |-> IF is_v2_1_plus(v) THEN NoState ELSE U, cache |-> memo],
         kahn_sort(r, P, create, v), create, v, TRUE, "none")

merge_unconflicted_power_events(U, resolved, v) ==
  [k \in StateKeys |->
     IF /\ is_v2_1_plus(v)
        /\ k \in {"power_levels", "join_rules", "create"}
        /\ resolved[k] = None
     THEN U[k] ELSE resolved[k]]

with_unconflicted_power_events(U, acc, v) ==
  [acc EXCEPT !.resolved = merge_unconflicted_power_events(U, @, v)]

-----------------------------------------------------------------------------
(***************************************************************************)
(* The non-power phase.                                                    *)
(***************************************************************************)
first_pl(r, walk) ==
  LET pls == {i \in DOMAIN walk : r[walk[i].id].key = "power_levels"}
  IN  IF pls = {} THEN None
      ELSE walk[CHOOSE i \in pls : \A j \in pls : i <= j].id

nearest_pl(r, id) == first_pl(r, AuthWalk(r, r[id].auth, {}))

(***************************************************************************)
(* The mainline is no longer than there are power_levels events.           *)
(***************************************************************************)
build_mainline(r, pl) ==
  LET extended(line, next) == IF next = None THEN line ELSE Append(line, next)
      levels == {id \in DOMAIN r : r[id].key = "power_levels"}
  IN  Iterate(LAMBDA line, i :
                IF line = << >> THEN line
                ELSE extended(line, nearest_pl(r, line[Len(line)])),
              extended(<< >>, pl), Cardinality(levels))

(***************************************************************************)
(* For each event, the index in the mainline that the first power_levels   *)
(* citation leads to, and the mainline's length when it leads nowhere.     *)
(***************************************************************************)
compute_closest_mainline_positions(r, mainline) ==
  LET pls(id) == {i \in DOMAIN r[id].auth :
                    r[r[id].auth[i]].key = "power_levels"}
      first(id) == r[id].auth[CHOOSE i \in pls(id) : \A j \in pls(id) : i <= j]
      position(seq, id) ==
        Append(seq,
               CASE id \in Elements(mainline) ->
                      (CHOOSE i \in DOMAIN mainline : mainline[i] = id) - 1
                 [] id \notin Elements(mainline) /\ pls(id) # {} ->
                      seq[first(id)]
                 [] OTHER -> Len(mainline))
  IN  Iterate(position, << >>, Len(r))

sorted_by_position(r, S, position) ==
  Sorted(S, LAMBDA a, b :
              \/ position[a] > position[b]
              \/ position[a] = position[b] /\ ts_then_id(r, a, b))

mainline_sort(r, S, mainline) ==
  sorted_by_position(r, S, compute_closest_mainline_positions(r, mainline))

merge_final_resolved(U, resolved) == [k \in StateKeys |-> Or(U[k], resolved[k])]

run_non_power_phase(r, U, S, acc, create, v, screening) ==
  replay(r, U, acc,
         mainline_sort(r,
                       IF screening = "up_front"
                       THEN {id \in S : ~screened(r, id, acc.resolved, U, v)}
                       ELSE S,
                       build_mainline(r, acc.resolved["power_levels"])),
         create, v, FALSE, screening)

(***************************************************************************)
(* Both phases, for the conflicted set C and its power part P.             *)
(***************************************************************************)
run_phases(r, U, C, P, memo, create, v, screening) ==
  run_non_power_phase(
    r, U, C \ P,
    with_unconflicted_power_events(
      U,
      run_power_phase_iterative_checks(
        r, U, P \cup route_msc4297_ancestral_power_events(r, P, C, v),
        memo, create, v),
      v),
    create, v, screening)

(***************************************************************************)
(* resolve_iterative_sort_with_all_caches for the unconflicted state U and *)
(* the full conflicted set C: the resolved state and the cache it leaves.  *)
(***************************************************************************)
final_state(U, acc) ==
  [state |-> merge_final_resolved(U, acc.resolved), cache |-> acc.cache]

resolve_iterative_sort(r, U, C, memo, v, screening) ==
  final_state(U, run_phases(r, U, C, expand_v2_power_events_auth_chains(r, C),
                            memo, create_event(r, U, C), v, screening))

(***************************************************************************)
(* resolve_merged_parent_states, and resolve_state_maps_generic, which     *)
(* also adds the conflicted subgraph in V2.1 and V2.1.1.                   *)
(***************************************************************************)
resolve_states(r, states, C, memo, v, screening) ==
  IF \A i \in DOMAIN states : states[i] = states[1]
  THEN [state |-> states[1], cache |-> memo]
  ELSE resolve_iterative_sort(r, unconflicted_state(states), C, memo, v, screening)

resolve_merged_parent_states(r, states, memo, v) ==
  resolve_states(r, states, conflicted_ids(states) \cup auth_difference(r, states),
                 memo, v, "up_front")

resolve_state_maps(r, states, memo, v) ==
  resolve_states(r, states,
                 conflicted_ids(states) \cup auth_difference(r, states)
                   \cup (IF v \in {"V2_1", "V2_1_1"}
                         THEN conflicted_subgraph(r, conflicted_ids(states))
                         ELSE {}),
                 memo, v, "up_front")

-----------------------------------------------------------------------------
(***************************************************************************)
(* The walk.                                                               *)
(***************************************************************************)
NoCache == << >>

(***************************************************************************)
(* A draft sent on top of parents, whose merged state is `state': it cites *)
(* what its type demands of that state.                                    *)
(***************************************************************************)
Provider(r, state) == [k \in StateKeys |-> IF state[k] = None THEN None ELSE r[state[k]]]

Complete(r, draft, parents, state) ==
  LET ev(auth) == [key |-> draft.key, sender |-> draft.sender,
                   content |-> draft.content, via |-> draft.via, ts |-> draft.ts,
                   auth |-> auth, prev |-> parents,
                   level |-> get_sender_power_level(draft.sender,
                               Provider(r, state), Version)]
      keys   == SelectSeq(auth_types_for_event(ev(<< >>), Version),
                          LAMBDA k : state[k] # None)
  IN  ev(IF Version = "V2_2" THEN parents
         ELSE [i \in DOMAIN keys |-> state[keys[i]]])

StateAfter(state, ev, id) == [state EXCEPT ![ev.key] = id]

(***************************************************************************)
(* The base room is a line.                                                *)
(***************************************************************************)
Base ==
  Iterate(LAMBDA walk, i :
            LET state == IF i = 1 THEN NoState ELSE walk.after[i - 1]
                ev    == Complete(walk.room, BaseRoom[i],
                                  IF i = 1 THEN << >> ELSE << i - 1 >>, state)
            IN  [room  |-> Append(walk.room, ev),
                 after |-> Append(walk.after, StateAfter(state, ev, i))],
          [room |-> << >>, after |-> << >>], Len(BaseRoom))

Init ==
  /\ room = Base.room
  /\ after = Base.after
  /\ cache = NoCache

(***************************************************************************)
(* Parents of the next event: one event, or two on different branches.     *)
(***************************************************************************)
Ancestors(r) ==
  Iterate(LAMBDA chains, i :
            Append(chains, Elements(r[i].prev) \cup
                             UNION {chains[a] : a \in Elements(r[i].prev)}),
          << >>, Len(r))

ParentLists ==
  LET above == Ancestors(room)
      heads == Len(BaseRoom) .. Len(room)
  IN  {<< p >> : p \in heads} \cup
      {l \in heads \X heads : /\ l[1] # l[2]
                              /\ l[1] \notin above[l[2]]
                              /\ l[2] \notin above[l[1]]
                              /\ Version # "V2_2" => l[1] < l[2]}

(***************************************************************************)
(* The walk reaches an event: the states of its parents are merged, the    *)
(* event was authorized by the result when it was sent, and it is applied. *)
(***************************************************************************)
Visit(draft, parents) ==
  \E merged \in {resolve_merged_parent_states(
                   room, [i \in DOMAIN parents |-> after[parents[i]]],
                   cache, Version)} :
  \E ev \in {e \in {Complete(room, draft, parents, merged.state)} :
               check_auth(e, Provider(room, merged.state), Version)} :
    /\ room' = Append(room, ev)
    /\ after' = Append(after, StateAfter(merged.state, ev, Len(room) + 1))
    /\ cache' = merged.cache

Next ==
  /\ Len(room) < MaxEvents
  /\ \E draft \in Drafts(Len(room) + 1 - Len(BaseRoom)), parents \in ParentLists :
       Visit(draft, parents)

Spec == Init /\ [][Next]_vars

-----------------------------------------------------------------------------
(***************************************************************************)
(* Properties.  A fork is the last event together with one that is neither *)
(* its ancestor nor its descendant: state maps that a caller may resolve.  *)
(***************************************************************************)
Forks ==
  {<< after[i], after[Len(room)] >> :
     i \in {j \in Len(BaseRoom) .. Len(room) : /\ j \notin Ancestors(room)[Len(room)]
                                               /\ j # Len(room)}}

FullConflictedSet(fork) == conflicted_ids(fork) \cup auth_difference(room, fork)

Resolved(fork) == resolve_merged_parent_states(room, fork, NoCache, Version).state

(***************************************************************************)
(* The walk keeps a room of well-formed events and a state per event whose *)
(* entries are events of the right key.                                    *)
(***************************************************************************)
TypeOK ==
  /\ \A i \in DOMAIN room :
       /\ room[i].key \in StateKeys /\ room[i].sender \in Users
       /\ Elements(room[i].auth) \cup Elements(room[i].prev) \subseteq 1 .. i - 1
  /\ DOMAIN after = DOMAIN room
  /\ \A i \in DOMAIN after : \A k \in StateKeys :
       after[i][k] # None => after[i][k] <= i /\ room[after[i][k]].key = k
  /\ DOMAIN cache \subseteq DOMAIN room

(***************************************************************************)
(* The caches shared by the merges of a walk are memoization only: whatever*)
(* the walk resolved before, a fork resolves as it does with empty caches. *)
(***************************************************************************)
CachesAreTransparent ==
  \A fork \in Forks :
    resolve_merged_parent_states(room, fork, cache, Version).state = Resolved(fork)

(***************************************************************************)
(* The variant that reports deltas screens events of banned senders one by *)
(* one, against a state that changes on the way, and still ends in the     *)
(* state of the resolver, which screens them before the first is applied.  *)
(***************************************************************************)
DeltaPathAgrees ==
  \A fork \in Forks :
    resolve_states(room, fork, FullConflictedSet(fork), NoCache, Version,
                   "per_event").state = Resolved(fork)

(***************************************************************************)
(* A user banned on both sides of a fork is banned in the resolved state,  *)
(* also when the sides disagree on the event that bans them, as long as    *)
(* they agree on the power levels and on the membership of who sent it.    *)
(***************************************************************************)
BansHold ==
  \A fork \in Forks : \A u \in Users :
    (\A i \in DOMAIN fork :
       /\ membership(Provider(room, fork[i]), u) = "ban"
       /\ \A k \in {"power_levels", room[fork[i][u]].sender} :
            fork[1][k] = fork[2][k])
      => membership(Provider(room, Resolved(fork)), u) = "ban"

(***************************************************************************)
(* Power is only ever granted: whatever the moderators send and however    *)
(* their branches are merged, no state puts a user above every level that  *)
(* an event of the room's owner gave anyone, and none removes the owner.   *)
(***************************************************************************)
Owner == BaseRoom[1].sender

GrantedByOwner ==
  {user_level(room[i].content, u) :
     i \in {j \in DOMAIN room : room[j].key = "power_levels" /\ room[j].sender = Owner},
     u \in Users \ {Owner}}

PowerIsGranted ==
  \A i \in Len(BaseRoom) .. Len(room) :
    LET get == Provider(room, after[i])
    IN  /\ membership(get, Owner) = "join"
        /\ \A u \in Users \ {Owner} :
             /\ get_sender_power_level(u, get, Version)
                  < get_sender_power_level(Owner, get, Version)
             /\ \E level \in GrantedByOwner :
                  get_sender_power_level(u, get, Version) <= level

(***************************************************************************)
(* The walk and resolve_state_maps resolve a fork alike.                   *)
(***************************************************************************)
EntryPointsAgree ==
  \A fork \in Forks :
    resolve_state_maps(room, fork, NoCache, Version).state = Resolved(fork)
=============================================================================

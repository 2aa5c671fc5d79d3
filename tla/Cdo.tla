-------------------------------- MODULE Cdo ---------------------------------
(***************************************************************************)
(* The causal domination filter of resolve/cdo.rs.  Administrative events  *)
(* are taken in chunks that fit one row of bit masks; for each chunk a     *)
(* forward and a backward sweep over the topological order mark, at every  *)
(* event, the chunk's admins among its ancestors and its descendants, and  *)
(* the surviving events are judged in priority order.  The mask matrix is  *)
(* allocated once and reused.  Event ids are numbers, ordered as ids.      *)
(***************************************************************************)
EXTENDS Naturals, Sequences, FiniteSets, SequencesExt

CONSTANTS
  Conflicted,  \* ids of the conflicted events
  Context,     \* ids of the auth context
  Event,       \* id -> the event
  Histories,   \* the reference graphs: id -> prev_events and auth_events
  ChunkSize    \* admins per chunk

VARIABLES
  history,     \* the graph of this run
  chunk,       \* chunks begun so far
  next,        \* the next event to judge, by priority
  active,      \* the chunk's admins that may still dominate
  and_masks, desc_masks,  \* id -> positions of the chunk's admins
  dropped_ids

cdovars == <<history, chunk, next, active, and_masks, desc_masks, dropped_ids>>

is_ban_or_kick(e) == Event[e].type = "member" /\ Event[e].membership \in {"ban", "leave"}
                     /\ Event[e].key # Event[e].sender
is_demotion(e) == Event[e].type = "power_levels"
is_lockdown(e) == Event[e].type = "join_rules" /\ Event[e].rule = "invite"

(* restricts_event, with restricts_sender. *)
restricts_event(a, e) ==
  \/ is_ban_or_kick(a) /\ Event[a].key = Event[e].sender
  \/ is_demotion(a) /\ Event[a].users[Event[e].sender] = {0}
  \/ is_lockdown(a) /\ Event[e].type = "member" /\ Event[e].membership = "join"

cited_auth_events(e) == history[e].auth \cap (Conflicted \cup Context)

join_has_prior_authorization(e) ==
  \E c \in cited_auth_events(e) :
    \/ /\ Event[c].type = "member" /\ Event[c].key = Event[e].sender
       /\ Event[c].membership \in {"invite", "join"}
    \/ Event[c].type = "join_rules" /\ ~is_lockdown(c)

(* The sender's level under a cited power_levels event meets what that     *)
(* event requires of the target's type.                                    *)
sender_has_pre_demotion_pl(e) ==
  \E c \in cited_auth_events(e) :
    /\ Event[c].type = "power_levels"
    /\ \A l \in Event[c].users[Event[e].sender] : l >= Event[c].required
    /\ Event[c].users[Event[e].sender] = {} => Event[c].default >= Event[c].required

dominates(a, e) ==
  /\ restricts_event(a, e)
  /\ ~(is_lockdown(a) /\ join_has_prior_authorization(e))
  /\ ~(is_demotion(a) /\ sender_has_pre_demotion_pl(e))

(* sort_cdo_events: level, type, timestamp, id. *)
type_priority(e) ==
  CASE Event[e].type = "power_levels" -> 0 [] Event[e].type = "join_rules" -> 1 [] OTHER -> 2

comes_first(a, b) ==
  \/ Event[a].power_level > Event[b].power_level
  \/ /\ Event[a].power_level = Event[b].power_level
     /\ \/ type_priority(a) < type_priority(b)
        \/ /\ type_priority(a) = type_priority(b)
           /\ \/ Event[a].ts < Event[b].ts
              \/ Event[a].ts = Event[b].ts /\ a < b

sort_cdo_events(ids) == SetToSortSeq(ids, comes_first)

admin_actions ==
  sort_cdo_events({e \in Conflicted : is_ban_or_kick(e) \/ is_demotion(e) \/ is_lockdown(e)})

by_priority == sort_cdo_events(Conflicted)

(* The relevant closure: conflicted events, and context reached from them. *)
cited(e) == history[e].prev \cup history[e].auth

RECURSIVE relevant_from(_)
relevant_from(ids) ==
  LET more == (UNION {cited(e) : e \in ids} \cap Context) \ ids IN
  IF more = {} THEN ids ELSE relevant_from(ids \cup more)

relevant_ids == relevant_from(Conflicted)

(* Kahn's order with the smallest ready id first; what it never reaches    *)
(* lies on or below a cycle, and is appended.                              *)
RECURSIVE kahn(_, _)
kahn(ids, done) ==
  LET ready == {e \in ids \ Range(done) : cited(e) \cap ids \subseteq Range(done)} IN
  IF ready = {} THEN done
  ELSE kahn(ids, Append(done, CHOOSE e \in ready : \A o \in ready : e <= o))

ordered_ids(ids) == kahn(ids, <<>>)

unordered_ids(ids) == ids \ Range(ordered_ids(ids))

sorted_ids(ids) == ordered_ids(ids) \o SetToSortSeq(unordered_ids(ids), <)

chunk_ids(n) ==
  SubSeq(admin_actions, (n - 1) * ChunkSize + 1,
         IF n * ChunkSize < Len(admin_actions) THEN n * ChunkSize ELSE Len(admin_actions))

own_bits(ids, n) ==
  [e \in ids |-> {i \in 1..Len(chunk_ids(n)) : chunk_ids(n)[i] = e}]

(* A mutant: the bits of the chunk before are still there. *)
not_cleared(masks, ids, n) == [e \in ids |-> masks[e] \cup own_bits(ids, n)[e]]

(* fill(0), then each admin's own bit. *)
cleared(masks, ids, n) == own_bits(ids, n)

(* The sweeps: one pass that adds to each event what its parents, or its   *)
(* children, have gathered so far.                                         *)
sweep(masks, order, ids, neighbours) ==
  FoldLeft(LAMBDA m, u : [m EXCEPT ![u] = @ \cup UNION {m[v] : v \in neighbours[u] \cap ids}],
           masks, order)

compute_cdo_bit_masks_chunk(ids, order, n) ==
  LET parents  == [u \in ids |-> cited(u)]
      children == [u \in ids |-> {v \in ids : u \in cited(v)}]
  IN  /\ and_masks' = sweep(cleared(and_masks, ids, n), order, ids, parents)
      /\ desc_masks' = sweep(cleared(desc_masks, ids, n), Reverse(order), ids, children)

Init ==
  /\ history \in Histories
  /\ chunk = 0
  /\ next = Len(by_priority) + 1
  /\ active = {}
  /\ and_masks = [e \in relevant_ids |-> {}]
  /\ desc_masks = [e \in relevant_ids |-> {}]
  /\ dropped_ids = {}

BeginChunk ==
  /\ next > Len(by_priority)
  /\ chunk * ChunkSize < Len(admin_actions)
  /\ chunk' = chunk + 1
  /\ next' = 1
  /\ \E ids \in {relevant_ids} :
       /\ compute_cdo_bit_masks_chunk(ids, sorted_ids(ids), chunk + 1)
       /\ active' = Range(chunk_ids(chunk + 1)) \ (dropped_ids \cup unordered_ids(ids))
  /\ UNCHANGED <<history, dropped_ids>>

(* An admin of the chunk drops an event it precedes in priority when the   *)
(* masks show neither above the other.                                     *)
dropped_by(a, e) ==
  \E i \in 1..Len(chunk_ids(chunk)) :
    /\ chunk_ids(chunk)[i] = a
    /\ a \notin dropped_ids
    /\ comes_first(a, e)
    /\ i \notin and_masks[e] \cup desc_masks[e]
    /\ dominates(a, e)

Judge ==
  /\ next <= Len(by_priority)
  /\ next' = next + 1
  /\ dropped_ids' = dropped_ids \cup
       {e \in {by_priority[next]} \ (dropped_ids \cup unordered_ids(relevant_ids)) :
          \E a \in active : dropped_by(a, e)}
  /\ UNCHANGED <<history, chunk, active, and_masks, desc_masks>>

Filtered ==
  /\ next > Len(by_priority)
  /\ chunk * ChunkSize >= Len(admin_actions)
  /\ UNCHANGED cdovars

Next == BeginChunk \/ Judge \/ Filtered

Spec == Init /\ [][Next]_cdovars

(* The ancestors of an event by the references themselves. *)
RECURSIVE ancestors_from(_)
ancestors_from(ids) ==
  LET more == (UNION {cited(e) : e \in ids} \cap (Conflicted \cup Context)) \ ids IN
  IF more = {} THEN ids ELSE ancestors_from(ids \cup more)

concurrent(a, e) == a \notin ancestors_from({e}) /\ e \notin ancestors_from({a})

on_a_cycle == {e \in Conflicted \cup Context :
                 e \in ancestors_from(cited(e) \cap (Conflicted \cup Context))}

unordered == {e \in Conflicted : ancestors_from({e}) \cap on_a_cycle # {}}

RECURSIVE dominated(_)
dominated(e) ==
  /\ e \notin unordered
  /\ \E a \in Range(admin_actions) \ unordered :
       comes_first(a, e) /\ concurrent(a, e) /\ dominates(a, e) /\ ~dominated(a)

(* What the filter drops is exactly what a surviving, concurrent admin of  *)
(* higher priority dominates, however the admins fall into chunks: a chunk *)
(* sees neither the bits of the one before nor too few of its own, and an  *)
(* admin that was dropped dominates nobody.                                *)
DroppedAreDominated ==
  (next > Len(by_priority) /\ chunk * ChunkSize >= Len(admin_actions)) =>
    dropped_ids = {e \in Conflicted : dominated(e)}

=============================================================================

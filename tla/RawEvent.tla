------------------------------ MODULE RawEvent ------------------------------
(***************************************************************************)
(* src/raw_event.rs: the fields of an event are taken from its bytes into  *)
(* a scratch that the caller keeps from one event to the next, and events  *)
(* are found in a transaction as spans of its bytes.                       *)
(***************************************************************************)
EXTENDS Json, FiniteSets

CONSTANTS
  Inputs,    \* what a caller hands in, in any order: events and transactions
  MaxCalls   \* bound: how many events one scratch serves

VARIABLES
  scratch,  \* the vectors of MatrixEventScratch
  raw,      \* the event of the last call
  view,     \* what the last call returned: an option
  calls

vars == <<scratch, raw, view, calls>>

ScalarKeys == {"event_id", "room_id", "type", "state_key"}

(* The scratch's string buffers are left out: parse_scalar_str empties the *)
(* buffer it decodes into, and the view borrows from it until the next     *)
(* call.                                                                   *)
empty_scratch == [prev_events |-> <<>>, auth_events |-> <<>>]

(* The kind of a raw value, by its first byte. *)
value_type(r) ==
  CASE at(r, 1) = "quote" -> "string"
    [] at(r, 1) = "[" -> "array"
    [] at(r, 1) = "{" -> "object"
    [] OTHER -> "other"

(* The member the callbacks of for_each_object_member kept: the last one   *)
(* under the key with a value of the kind.  An option.                     *)
kept(found, key, kind) ==
  LET wanted == SelectSeq(found, LAMBDA m : raw_key_eq(m.key, <<key>>) /\ value_type(m.raw) = kind)
  IN IF wanted = <<>> THEN {} ELSE {Last(wanted).raw}

(* for_each_object_member on a whole value: the members, or nothing when   *)
(* the walk fails.  What follows the closing brace is not looked at.       *)
object_walk(r) ==
  IF at(r, ws(r, 1)) # "{" THEN {} ELSE {m[1] : m \in object_members(r, ws(r, 1))}

escaped(body) == \E k \in DOMAIN body : body[k] = "\\"

(* parse_scalar_str: what it answers, or nothing when it fails.  A body    *)
(* that is not UTF-8 and has no escape answers none rather than failing.   *)
parse_scalar_str(r) ==
  LET inner == SubSeq(r, 2, Len(r) - 1)
  IN IF ~escaped(inner) THEN {unescape_raw_string(inner)}
     ELSE {{t} : t \in unescape_raw_string(inner)}

scalar(found, key) ==
  LET k == kept(found, key, "string")
  IN IF k = {} THEN {{}} ELSE UNION {parse_scalar_str(r) : r \in k}

(***************************************************************************)
(* fill_id_array, token by token.  It pushes as it reads, so a failure     *)
(* leaves in the vector what came before it.                               *)
(***************************************************************************)

RECURSIVE filling(_, _, _, _)

(* The id of the string token at i, which may hold no escape: an option. *)
id_token(r, i) ==
  {s \in string_raw(r, i) : at(r, i) = "quote" /\ ~escaped(s[1]) /\ utf8(s[1])}

(* The rest of an [event_id, hashes] pair whose id ended before i. *)
pair_end(r, i, depth) ==
  LET h == IF at(r, i) = "," THEN skip_value(r, i + 1, depth + 1) ELSE 0
  IN IF h # 0 /\ at(r, ws(r, h)) = "]" THEN ws(r, h) + 1 ELSE 0

(* Where a token that is neither a string nor a bracket ends. *)
token_end(r, i) == IF at(r, i) \in NumberStart THEN skip_number(r, i) ELSE i + 1

token_depth(r, i, depth) ==
  CASE at(r, i) = "{" -> depth + 1 [] at(r, i) = "}" -> depth - 1 [] OTHER -> depth

pushed(out, ids) == out \o [k \in 1..Cardinality(ids) |-> (CHOOSE s \in ids : TRUE)[1]]

filling(r, from, depth, out) ==
  LET i == ws(r, from)
      inside == ws(r, i + 1)
      failed == [ok |-> FALSE, ids |-> out]
  IN CASE at(r, i) = "]" -> [ok |-> TRUE, ids |-> out]
       [] at(r, i) = "," -> filling(r, i + 1, depth, out)
       [] at(r, i) = "quote" ->
            IF id_token(r, i) = {} THEN failed
            ELSE filling(r, raw_end(r, i + 1) + 1, depth, pushed(out, id_token(r, i)))
       [] at(r, i) = "[" /\ id_token(r, inside) = {} -> failed
       [] at(r, i) = "[" /\ id_token(r, inside) # {} ->
            LET after == pair_end(r, ws(r, raw_end(r, inside + 1) + 1), depth)
                ids == pushed(out, id_token(r, inside))
            IN IF after = 0 THEN [ok |-> FALSE, ids |-> ids] ELSE filling(r, after, depth, ids)
       [] at(r, i) \in {"end", "ctl", "utf8", "a", "b", ".", "e", "\\"} -> failed
       [] OTHER ->
            LET j == token_end(r, i)
                k == IF j = 0 THEN 0 ELSE skip_value(r, j, token_depth(r, i, depth))
            IN IF k = 0 THEN failed ELSE filling(r, k, token_depth(r, i, depth), out)

fill_id_array(r, out) == filling(r, 2, 1, out)

(* One of the two reference arrays of an event, when it has it. *)
filled(found, key, out) ==
  LET k == kept(found, key, "array")
  IN IF k = {} THEN [ok |-> TRUE, ids |-> out]
     ELSE fill_id_array(CHOOSE r \in k : TRUE, out)

(* extract_content_and_relations: the room version and the relation, which *)
(* is there only when both of its halves are.  Nothing when it fails.      *)
relation(found) ==
  LET rel == kept(found, "relates_to", "object")
      both(m) == {<<t, e>> : t \in scalar(m, "rel_type"), e \in scalar(m, "event_id")}
  IN IF rel = {} THEN {{}}
     ELSE UNION {{ {<<x, y>> : x \in p[1], y \in p[2]} : p \in both(m)} :
                   m \in UNION {object_walk(r) : r \in rel}}

extract_content_and_relations(r) ==
  UNION {{[room_version |-> v, relates_to |-> t] : v \in scalar(m, "room_version"), t \in relation(m)} :
           m \in object_walk(r)}

content_of(found) ==
  LET c == kept(found, "content", "object")
  IN IF c = {} THEN {[room_version |-> {}, relates_to |-> {}]}
     ELSE UNION {extract_content_and_relations(r) : r \in c}

(***************************************************************************)
(* Spans.  A span is <<start, end>>, the end included.                     *)
(***************************************************************************)

RECURSIVE array_spans(_, _, _)
array_spans(r, i, spans) ==
  LET start == ws(r, i)
      j == skip_value(r, i, 1)
      all == Append(spans, <<start, j - 1>>)
  IN CASE at(r, start) = "]" -> IF ws(r, start + 1) = Len(r) + 1 THEN {spans} ELSE {}
       [] at(r, start) # "]" /\ j # 0 /\ at(r, ws(r, j)) = "," -> array_spans(r, ws(r, j) + 1, all)
       [] at(r, start) # "]" /\ j # 0 /\ at(r, ws(r, j)) = "]" ->
            IF ws(r, ws(r, j) + 1) = Len(r) + 1 THEN {all} ELSE {}
       [] OTHER -> {}

discover_array_spans(r) == IF at(r, ws(r, 1)) = "[" THEN array_spans(r, ws(r, 1) + 1, <<>>) ELSE {}

(* The spans of one array member, moved from the member to the payload. *)
moved(m) ==
  {[k \in DOMAIN s |-> <<s[k][1] + (m.start - 1), s[k][2] + (m.start - 1)>>] :
     s \in discover_array_spans(m.raw)}

(* All the spans under the key, of every member that bears it. *)
RECURSIVE member_spans(_, _)
member_spans(found, key) ==
  IF found = <<>> THEN {<<>>}
  ELSE IF raw_key_eq(Head(found).key, <<key>>) /\ value_type(Head(found).raw) = "array"
       THEN {s \o t : s \in moved(Head(found)), t \in member_spans(Tail(found), key)}
       ELSE member_spans(Tail(found), key)

discover_federation_spans(p) ==
  UNION {{[pdus |-> s, auth_chain |-> t] :
            s \in member_spans(m, "pdus"), t \in member_spans(m, "auth_chain")} :
           m \in object_walk(p)}

(***************************************************************************)
(* The caller.                                                             *)
(***************************************************************************)

clear(s) == [s EXCEPT !.prev_events = <<>>, !.auth_events = <<>>]

(* What extract_matrix_event_view leaves in the scratch and returns, from  *)
(* the members found and the scratch as cleared.                           *)
extracted_view(found, s) ==
  LET scalars == [k \in ScalarKeys |-> scalar(found, k)]
      prev == filled(found, "prev_events", s.prev_events)
      auth == filled(found, "auth_events", s.auth_events)
      views == {[fields |-> [k \in ScalarKeys |-> CHOOSE x \in scalars[k] : TRUE], content |-> c,
                 prev_events |-> prev.ids, auth_events |-> auth.ids] : c \in content_of(found)}
  IN CASE \E k \in ScalarKeys : scalars[k] = {} -> [scratch |-> s, view |-> {}]
       [] ~(\E k \in ScalarKeys : scalars[k] = {}) /\ ~prev.ok ->
            [scratch |-> [s EXCEPT !.prev_events = prev.ids], view |-> {}]
       [] OTHER ->
            [scratch |-> [prev_events |-> prev.ids, auth_events |-> auth.ids],
             view |-> IF auth.ok THEN views ELSE {}]

extract_matrix_event_view(r, s) ==
  LET found == object_walk(r)
  IN IF found = {} THEN [scratch |-> clear(s), view |-> {}]
     ELSE extracted_view(CHOOSE m \in found : TRUE, clear(s))

Init == scratch = empty_scratch /\ raw = <<>> /\ view = {} /\ calls = 0

Extract ==
  /\ calls < MaxCalls
  /\ \E r \in Inputs : \E x \in {extract_matrix_event_view(r, scratch)} :
       raw' = r /\ scratch' = x.scratch /\ view' = x.view
  /\ calls' = calls + 1

Done == calls = MaxCalls /\ UNCHANGED vars

Next == Extract \/ Done

Spec == Init /\ [][Next]_vars

(***************************************************************************)
(* What a caller may rely on.                                              *)
(***************************************************************************)

(* A field of a decoded object: its text, when it has one. *)
text(v, key) ==
  IF v[1] = "obj" /\ <<key>> \in DOMAIN v[2]
  THEN {x[2] : x \in {y \in {v[2][<<key>>]} : y[1] = "str"}} ELSE {}

inner(v, key) ==
  IF v[1] = "obj" /\ <<key>> \in DOMAIN v[2] THEN v[2][<<key>>] ELSE Null

(* The items of an array of references. *)
references(v, key) == IF inner(v, key)[1] = "arr" THEN inner(v, key)[2] ELSE <<>>

reference_id(x) == IF x[1] = "raw" THEN x[2] ELSE x[2][1][2]

is_reference(x) ==
  \/ x[1] = "raw" /\ ~escaped(x[2])
  \/ x[1] = "arr" /\ Len(x[2]) = 2 /\ x[2][1][1] = "raw" /\ ~escaped(x[2][1][2])

(* The undecoded reference array under the key of a ValueRef. *)
raw_references(r, key) ==
  LET hits == IF r[1] = "obj" THEN SelectSeq(r[2], LAMBDA f : raw_key_eq(f[1], <<key>>)) ELSE <<>>
  IN IF hits # <<>> /\ Last(hits)[2][1] = "arr" THEN Last(hits)[2][2] ELSE <<>>

expected_view(r, v) ==
  LET rel == inner(inner(v, "content"), "relates_to")
  IN [fields |-> [k \in ScalarKeys |-> text(v, k)],
      content |-> [room_version |-> text(inner(v, "content"), "room_version"),
                   relates_to |-> {<<x, y>> : x \in text(rel, "rel_type"), y \in text(rel, "event_id")}],
      prev_events |-> [k \in DOMAIN raw_references(r, "prev_events") |->
                         reference_id(raw_references(r, "prev_events")[k])],
      auth_events |-> [k \in DOMAIN raw_references(r, "auth_events") |->
                         reference_id(raw_references(r, "auth_events")[k])]]

well_shaped(r) ==
  \A key \in {"prev_events", "auth_events"} :
    \A k \in DOMAIN raw_references(r, key) : is_reference(raw_references(r, key)[k])

(* Whatever events the scratch served before, failed ones included, the    *)
(* view of a JSON object without repeated keys holds the fields that a     *)
(* full parse of this event's bytes holds, and none of another event's;    *)
(* it is refused exactly when a reference is not a plain or a paired id.   *)
ViewIsOfThisEvent ==
  \A v \in {w \in parse(raw, lenient) : w[1] = "obj"}, r \in parse_masked(raw, {}) :
    unique(r) => view = IF well_shaped(r) THEN {expected_view(r, v)} ELSE {}

(* The spans found in a transaction are its events: the n-th span of an    *)
(* array, cut out of the whole payload, parses to the array's n-th item.   *)
SpansAreExact ==
  \A v \in parse(raw, lenient), r \in parse_masked(raw, {}) :
    v[1] = "obj" /\ unique(r) =>
      \E s \in discover_federation_spans(raw) : \A key \in {"pdus", "auth_chain"} :
        LET items == references(v, key)
        IN /\ Len(s[key]) = Len(items)
           /\ \A k \in DOMAIN items : parse(SubSeq(raw, s[key][k][1], s[key][k][2]), lenient) = {items[k]}

=============================================================================

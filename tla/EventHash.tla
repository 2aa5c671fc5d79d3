----------------------------- MODULE EventHash ------------------------------
(***************************************************************************)
(* What an event keeps when it is redacted, the two hashes that bind it,   *)
(* and the ingest of a received event (src/basespec/rezzy_types.rs), while *)
(* the event travels: the sender hashes it, servers on the way redact it,  *)
(* sign it again, annotate it or damage it, and the receiver ingests it.   *)
(*                                                                         *)
(* An object is a function from field names to values; a value is a scalar *)
(* [s |-> a string], an object [o |-> fields] or a hash [h |-> what was    *)
(* hashed], so that two hashes agree exactly when their inputs do.  A room *)
(* version is [kind |-> "numeric", n |-> 1..12], or one of the kinds       *)
(* msc4242, msc3389, cdo and unknown.  Scalar "1.5" is a fraction, "long"  *)
(* an identifier of more than 255 bytes and "bad" a malformed user.        *)
(***************************************************************************)
EXTENDS Naturals, FiniteSets, Sequences, SequencesExt

CONSTANTS
  None,
  Drafts,     \* [doc : an event without hashes, version : its room version, hashed : BOOLEAN]
  MaxHops     \* what may happen to an event on its way

VARIABLES draft, doc, hops, honest, ingested

hashVars == <<draft, doc, hops, honest, ingested>>

Scalar(s) == [s |-> s]
Object(f) == [o |-> f]
NoFields == [x \in {} |-> 0]

IsObject(v) == "o" \in DOMAIN v
StringOf(v) == IF "s" \in DOMAIN v THEN v.s ELSE None

Get(obj, field) == IF field \in DOMAIN obj THEN obj[field] ELSE Scalar(None)

Restricted(obj, fields) == [x \in DOMAIN obj \cap fields |-> obj[x]]

-----------------------------------------------------------------------------
(***************************************************************************)
(* RoomVersionFormat.                                                      *)
(***************************************************************************)
Supported(v) == v.kind # "unknown"
AtLeast(v, n) == v.kind = "numeric" /\ v.n >= n

requires_strict_canonical_numbers(v) == AtLeast(v, 6) \/ v.kind \in {"msc4242", "msc3389", "cdo"}
uses_v11_redaction_rules(v) == AtLeast(v, 11) \/ v.kind \in {"msc4242", "cdo"}
uses_v12_create_rules(v) == AtLeast(v, 12) \/ v.kind \in {"msc4242", "cdo"}
uses_reference_hash_event_ids(v) == Supported(v) /\ ~(v.kind = "numeric" /\ v.n \in {1, 2})

ver_num(v) == CASE v.kind = "numeric" -> v.n
                [] v.kind = "msc3389" -> 10
                [] OTHER -> 11

-----------------------------------------------------------------------------
(***************************************************************************)
(* The redaction rules: the content fields that survive, a nested one as a *)
(* path of two names.                                                      *)
(***************************************************************************)
Relation == {<<"m.relates_to", "rel_type">>, <<"m.relates_to", "event_id">>}

Levels == {"ban", "events", "events_default", "kick", "redact", "state_default", "users", "users_default"}

Kept(type, n) ==
  CASE type = "m.room.create" -> {<<"creator">>}
    [] type = "m.room.member" ->
         {<<"membership">>} \cup (IF n >= 9 THEN {<<"join_authorised_via_users_server">>} ELSE {})
           \cup (IF n >= 11 THEN {<<"third_party_invite", "signed">>} ELSE {})
    [] type = "m.room.power_levels" ->
         {<<f>> : f \in Levels} \cup (IF n >= 11 THEN {<<"invite">>} ELSE {})
    [] type = "m.room.join_rules" -> {<<"join_rule">>} \cup (IF n >= 9 THEN {<<"allow">>} ELSE {})
    [] type = "m.room.history_visibility" -> {<<"history_visibility">>}
    [] type = "m.room.aliases" /\ n <= 5 -> {<<"aliases">>}
    [] type = "m.room.redaction" /\ n >= 11 -> {<<"redacts">>}
    [] OTHER -> {}

\* redaction_preserved_keys with msc3389_redaction_rule; "All" for a create event from v11 on.
redaction_preserved_keys(type, v) ==
  CASE v.kind = "unknown" -> {}
    [] v.kind = "msc3389" -> Kept(type, 10) \cup Relation
    [] OTHER -> Kept(type, ver_num(v))

keeps_all(type, v) == type = "m.room.create" /\ v.kind \notin {"unknown", "msc3389"} /\ ver_num(v) >= 11

redact_content(content, type, v) ==
  LET paths == redaction_preserved_keys(type, v)
      inner(top) == {p[2] : p \in {q \in paths : Len(q) = 2 /\ q[1] = top}}
      nested(top) == IsObject(content[top]) /\ inner(top) \cap DOMAIN content[top].o # {}
  IN  IF keeps_all(type, v) THEN content
      ELSE [top \in {f \in DOMAIN content : <<f>> \in paths \/ nested(f)} |->
             IF <<top>> \in paths THEN content[top]
             ELSE Object(Restricted(content[top].o, inner(top)))]

redactable_content_remainder(content, redacted) ==
  LET both(f) == f \in DOMAIN redacted /\ IsObject(redacted[f]) /\ IsObject(content[f])
      rest(f) == {x \in DOMAIN content[f].o :
                    ~(x \in DOMAIN redacted[f].o /\ redacted[f].o[x] = content[f].o[x])}
  IN  [f \in {g \in DOMAIN content : /\ ~(g \in DOMAIN redacted /\ redacted[g] = content[g])
                                     /\ both(g) => rest(g) # {}} |->
         IF both(f) THEN Object(Restricted(content[f].o, rest(f))) ELSE content[f]]

Type(d) == IF StringOf(Get(d, "type")) = None THEN "" ELSE StringOf(Get(d, "type"))

Envelope == {"event_id", "type", "sender", "state_key", "content", "hashes", "depth",
             "prev_events", "auth_events", "origin_server_ts"}

v12_create(d, v) == Type(d) = "m.room.create" /\ uses_v12_create_rules(v)

Preserved(d, v) ==
  Envelope \cup (IF v12_create(d, v) THEN {} ELSE {"room_id"})
    \cup (IF v.kind = "msc4242" THEN {"prev_state_events"} ELSE {})
    \cup (IF uses_v11_redaction_rules(v) THEN {} ELSE {"origin", "membership", "prev_state"})

redact_top_level(d, v) == Restricted(d, Preserved(d, v) \cup {"signatures"})

ContentOf(d) == IF IsObject(Get(d, "content")) THEN d["content"].o ELSE NoFields

redact_json(d, v) ==
  LET top == redact_top_level(d, v)
  IN  [x \in DOMAIN top \cup {"content"} |->
         IF x = "content" THEN Object(redact_content(ContentOf(top), Type(d), v)) ELSE top[x]]

-----------------------------------------------------------------------------
(***************************************************************************)
(* The canonical writers, as the sequence of fields they write.            *)
(***************************************************************************)
FieldOrder ==
  <<"auth_events", "content", "depth", "event_id", "hashes", "membership", "origin",
    "origin_server_ts", "prev_events", "prev_state", "prev_state_events", "redacts", "room_id",
    "sender", "signatures", "state_key", "type", "unsigned">>

AfterContent == {FieldOrder[n] : n \in 3..Len(FieldOrder)}

Fields(d) == SelectSeq(FieldOrder, LAMBDA f : f \in DOMAIN d)

Canonical(d) == [n \in DOMAIN Fields(d) |-> <<Fields(d)[n], d[Fields(d)[n]]>>]

Fraction(value) ==
  \/ StringOf(value) = "1.5"
  \/ IsObject(value) /\ \E f \in DOMAIN value.o : StringOf(value.o[f]) = "1.5"

\* The strict numbers of v6 make the writer fail: None.
writes(pairs, v) ==
  IF requires_strict_canonical_numbers(v) /\ \E n \in DOMAIN pairs : Fraction(pairs[n][2])
  THEN None ELSE [h |-> pairs]

\* A plausible mistake: an empty content is written at the end.
pairs_with_late_content(d, v) ==
  LET kept == SelectSeq(Fields(d), LAMBDA f : f \in Preserved(d, v))
      value(f) == IF f # "content" THEN d[f]
                  ELSE Object(redact_content(ContentOf(d), Type(d), v))
      out == [n \in DOMAIN kept |-> <<kept[n], value(kept[n])>>]
  IN  IF "content" \in DOMAIN d THEN out ELSE Append(out, <<"content", Object(NoFields)>>)

\* write_redacted_canonical: one pass over the fields, which adds the empty
\* content when the event has none before the first field that sorts after it.
RedactedPairs(d, v) ==
  LET empty == <<"content", Object(NoFields)>>
      value(f) == IF f # "content" THEN d[f]
                  ELSE Object(redact_content(ContentOf(d), Type(d), v))
      step(acc, f) ==
        LET filled == IF acc.written \/ f \notin AfterContent THEN acc
                      ELSE [out |-> Append(acc.out, empty), written |-> TRUE]
        IN  IF f \in Preserved(d, v)
            THEN [out |-> Append(filled.out, <<f, value(f)>>),
                  written |-> filled.written \/ f = "content"]
            ELSE filled
      end == FoldLeft(step, [out |-> <<>>, written |-> FALSE], Fields(d))
  IN  IF end.written THEN end.out ELSE Append(end.out, empty)

write_redacted_canonical(d, v) == writes(RedactedPairs(d, v), v)

write_content_hash_canonical(d, v) ==
  writes(Canonical(Restricted(d, DOMAIN d \ {"unsigned", "signatures", "hashes"})), v)

\* The two hashes, None for an error.
reference_hash(d, v) == IF uses_reference_hash_event_ids(v) THEN write_redacted_canonical(d, v) ELSE None

compute_content_hash(d, v) == IF Supported(v) THEN write_content_hash_canonical(d, v) ELSE None

verify_content_hash(d, v) ==
  /\ IsObject(d["hashes"]) /\ "sha256" \in DOMAIN d["hashes"].o
  /\ compute_content_hash(d, v) # None
  /\ compute_content_hash(d, v) = d["hashes"].o["sha256"]

-----------------------------------------------------------------------------
(***************************************************************************)
(* ingest_events for one event: the lean event, or None when it is refused.*)
(***************************************************************************)
validate_raw_pdu_shape(d) ==
  /\ {"type", "sender", "content", "origin_server_ts"} \subseteq DOMAIN d
  /\ StringOf(d["type"]) # None /\ StringOf(d["sender"]) # None

\* The redacted id, at the top level before v11 and in the content from then on.
redacts_agree(d) ==
  LET top == Get(d, "redacts")
      own == IF IsObject(d["content"]) THEN Get(d["content"].o, "redacts") ELSE Scalar(None)
  IN  /\ IsObject(d["content"]) \/ StringOf(d["content"]) = "null"
      /\ "redacts" \in DOMAIN d => StringOf(top) # None
      /\ IsObject(d["content"]) /\ "redacts" \in DOMAIN d["content"].o =>
           StringOf(own) # None /\ ("redacts" \in DOMAIN d => StringOf(own) = StringOf(top))

lean_content(d) ==
  IF Type(d) = "m.room.redaction" /\ "redacts" \in DOMAIN d
  THEN [f \in DOMAIN ContentOf(d) \cup {"redacts"} |-> IF f = "redacts" THEN d["redacts"] ELSE ContentOf(d)[f]]
  ELSE ContentOf(d)

derived_id(d, v) == IF "event_id" \in DOMAIN d THEN d["event_id"] ELSE reference_hash(d, v)

from_value(d, v) ==
  IF \/ v.kind = "msc4242" /\ "auth_events" \in DOMAIN d
     \/ derived_id(d, v) = None
     \/ Type(d) = ""
     \/ StringOf(Get(d, "depth")) = "bad"
     \/ Type(d) = "m.room.redaction" /\ ~redacts_agree(d)
  THEN None
  ELSE [id |-> derived_id(d, v), type |-> Type(d), content |-> lean_content(d)]

\* The checks of validate_syntactic.  "bad" stands for a value of the wrong form,
\* "many" for a list beyond its limit (20 prev_events, 10 auth_events or 20
\* prev_state_events), "long" for a string of more than 255 bytes.
validate_structure(d, v) ==
  /\ Supported(v)
  /\ StringOf(Get(d, "prev_events")) # "many"
  /\ StringOf(Get(d, IF v.kind = "msc4242" THEN "prev_state_events" ELSE "auth_events")) # "many"
  /\ Type(d) = "m.room.create" => StringOf(Get(ContentOf(d), "room_version")) # "bad"

validate_identifiers(d, v) ==
  /\ StringOf(Get(d, "event_id")) # "bad"
  /\ StringOf(d["sender"]) # "bad"
  /\ Type(d) = "m.room.create" =>
       IF uses_v12_create_rules(v) THEN StringOf(Get(ContentOf(d), "additional_creators")) # "bad"
       ELSE StringOf(Get(ContentOf(d), "creator")) \notin {None, "bad"}

validate_field_lengths(d, v) ==
  uses_v11_redaction_rules(v) =>
    \A f \in {"event_id", "sender", "type", "state_key"} : StringOf(Get(d, f)) # "long"

validate_syntactic(d, v) ==
  /\ validate_structure(d, v)
  /\ validate_identifiers(d, v)
  /\ StringOf(Get(d, "depth")) # "long"
  /\ validate_field_lengths(d, v)

ingest_events(d, v) ==
  IF /\ validate_raw_pdu_shape(d)
     /\ ~(uses_reference_hash_event_ids(v) /\ "event_id" \in DOMAIN d)
     /\ from_value(d, v) # None
     /\ validate_syntactic(d, v)
     /\ "hashes" \in DOMAIN d => verify_content_hash(d, v)
  THEN from_value(d, v) ELSE None

-----------------------------------------------------------------------------
(***************************************************************************)
(* The way of an event.                                                    *)
(***************************************************************************)
With(d, field, value) == [x \in DOMAIN d \cup {field} |-> IF x = field THEN value ELSE d[x]]

Sent(dr) ==
  IF dr.hashed /\ compute_content_hash(dr.doc, dr.version) # None
  THEN With(dr.doc, "hashes", Object([x \in {"sha256"} |-> compute_content_hash(dr.doc, dr.version)]))
  ELSE dr.doc

Init == /\ draft \in Drafts /\ doc = Sent(draft)
        /\ hops = 0 /\ honest = TRUE /\ ingested = <<>>

Travels == hops < MaxHops /\ ingested = <<>> /\ hops' = hops + 1

Redact ==
  /\ Travels
  /\ doc' = redact_json(doc, draft.version)
  /\ UNCHANGED <<draft, honest, ingested>>

Annotate ==
  /\ Travels
  /\ \E f \in {"unsigned", "signatures"} : doc' = With(doc, f, Scalar("a"))
  /\ UNCHANGED <<draft, honest, ingested>>

Damage ==
  /\ Travels /\ honest' = FALSE
  /\ \/ \E f \in DOMAIN doc : doc' = Restricted(doc, DOMAIN doc \ {f})
     \/ \E f \in {"origin", "redacts", "event_id", "auth_events", "prev_state_events"} :
          doc' = With(doc, f, Scalar("z"))
     \/ \E p \in {<<"prev_events", "many">>, <<"depth", "bad">>, <<"depth", "long">>,
                   <<"sender", "bad">>, <<"state_key", "long">>} :
          doc' = With(doc, p[1], Scalar(p[2]))
     \/ \E f \in DOMAIN ContentOf(doc) :
          doc' = With(doc, "content", Object(Restricted(ContentOf(doc), DOMAIN ContentOf(doc) \ {f})))
     \/ doc' = With(doc, "content", Scalar("null"))
  /\ UNCHANGED <<draft, ingested>>

Ingest ==
  /\ ingested = <<>>
  /\ ingested' = <<ingest_events(doc, draft.version)>>
  /\ UNCHANGED <<draft, doc, hops, honest>>

Next == Redact \/ Annotate \/ Damage \/ Ingest

-----------------------------------------------------------------------------
\* write_redacted_canonical, which builds no intermediate value, writes exactly
\* what redact_json keeps, without the signatures, whatever fields the event has
\* and lacks.
StreamMirrorsRedaction ==
  RedactedPairs(doc, draft.version) =
    Canonical(Restricted(redact_json(doc, draft.version), {FieldOrder[n] : n \in DOMAIN FieldOrder} \ {"signatures"}))

\* The id of an event (reference_hash) is the same for every copy of it that was
\* redacted, signed and annotated on the way, in any order and number.
IdSurvivesRedaction ==
  honest /\ reference_hash(Sent(draft), draft.version) # None =>
    reference_hash(doc, draft.version) = reference_hash(Sent(draft), draft.version)

Merged(a, b) ==
  [f \in DOMAIN a \cup DOMAIN b |->
     IF f \notin DOMAIN b THEN a[f]
     ELSE IF f \notin DOMAIN a THEN b[f]
     ELSE Object([x \in DOMAIN a[f].o \cup DOMAIN b[f].o |->
                    IF x \in DOMAIN a[f].o THEN a[f].o[x] ELSE b[f].o[x]])]

\* The two parts of split_redaction_content, the fields a redaction keeps and
\* those it strips, together are the content again, nested fields included.
SplitIsLossless ==
  LET redacted == redact_content(ContentOf(doc), Type(doc), draft.version)
  IN  Merged(redacted, redactable_content_remainder(ContentOf(doc), redacted)) = ContentOf(doc)

\* An event that ingest accepts with its hashes is what its sender hashed, apart
\* from signatures and unsigned data; one accepted under the id of the sent event
\* at least agrees with it on everything that redaction keeps.
AcceptedIsWhatWasSent ==
  ingested # <<>> /\ ingested # <<None>> =>
    LET v == draft.version
    IN  /\ "hashes" \in DOMAIN doc => write_content_hash_canonical(doc, v) = write_content_hash_canonical(draft.doc, v)
        /\ uses_reference_hash_event_ids(v) /\ ingested[1].id = reference_hash(Sent(draft), v) =>
             RedactedPairs(doc, v) = RedactedPairs(Sent(draft), v)
=============================================================================

-------------------------------- MODULE Json --------------------------------
(***************************************************************************)
(* The lexical half of rezzy-json: the strings and the numbers of a JSON   *)
(* document, each read twice by the code, once by Parser, which decodes,   *)
(* and once by Tokenizer, which only finds where the token ends.           *)
(*                                                                         *)
(* A document is a sequence of units: the structural bytes, the quote, the *)
(* backslash, plain text "a" and "b", "u61" and "uD8" (which spell an      *)
(* escape of "a" and a lone surrogate after a backslash and are plain text *)
(* elsewhere), the literal "null", the bytes of numbers, a control byte, a *)
(* byte that is not UTF-8, and a space.  An option is a set of at most one *)
(* element, and a position of 0 means that nothing was read.               *)
(***************************************************************************)
EXTENDS Integers, Sequences, SequencesExt, TLC

CONSTANT SafeDigits  \* the digits of MAX_SAFE_INTEGER

at(d, i) == IF i \in 1..Len(d) THEN d[i] ELSE "end"

(* The first position from i on whose unit is not in S. *)
past(d, i, S) ==
  CHOOSE j \in i..(IF i > Len(d) THEN i ELSE Len(d) + 1) :
    at(d, j) \notin S /\ \A k \in i..(j - 1) : d[k] \in S

ws(d, i) == past(d, i, {"sp"})

Digit == {"0", "1"}

NumberStart == Digit \cup {"-"}

(***************************************************************************)
(* Strings.                                                                *)
(***************************************************************************)

(* What a backslash before the unit u stands for: an option.  The literal  *)
(* null after a backslash reads as an escaped n and three letters.         *)
simple_escape(u) ==
  CASE u = "quote" -> {"quote"}
    [] u = "\\" -> {"\\"}
    [] u = "u61" -> {"a"}
    [] u = "null" -> {"newline_ull"}
    [] OTHER -> {}

(* Parser::string: decode up to the closing quote. *)
RECURSIVE decoding(_, _, _)
decoding(d, i, out) ==
  CASE at(d, i) = "quote" -> {<<out, i + 1>>}
    [] at(d, i) \in {"end", "ctl", "utf8"} -> {}
    [] at(d, i) = "\\" ->
         UNION {decoding(d, i + 2, Append(out, u)) : u \in simple_escape(at(d, i + 1))}
    [] OTHER -> decoding(d, i + 1, Append(out, d[i]))

string(d, i) == decoding(d, i + 1, <<>>)

(* Tokenizer::string_raw: the body between the byte at i, which is taken   *)
(* for a quote, and the closing quote.  Escapes are checked, not decoded.  *)
RECURSIVE raw_end(_, _)
raw_end(d, i) ==
  CASE at(d, i) = "quote" -> i
    [] at(d, i) \in {"end", "ctl"} -> 0
    [] at(d, i) = "\\" ->
         IF at(d, i + 1) \in {"quote", "\\", "u61", "uD8", "null"} THEN raw_end(d, i + 2) ELSE 0
    [] OTHER -> raw_end(d, i + 1)

string_raw(d, i) ==
  LET e == raw_end(d, i + 1)
  IN IF e = 0 THEN {} ELSE {<<SubSeq(d, i + 1, e - 1), e + 1>>}

(* unescape_raw_string, and the UTF-8 check of a body without escapes. *)
RECURSIVE unescaped(_, _)
unescaped(body, out) ==
  CASE body = <<>> -> {out}
    [] body # <<>> /\ Head(body) = "utf8" -> {}
    [] body # <<>> /\ Head(body) = "\\" ->
         UNION {unescaped(SubSeq(body, 3, Len(body)), Append(out, u)) :
                  u \in simple_escape(at(body, 2))}
    [] OTHER -> unescaped(Tail(body), Append(out, Head(body)))

unescape_raw_string(body) == unescaped(body, <<>>)

(***************************************************************************)
(* Numbers.  A scanned part answers the position after it, or 0.           *)
(***************************************************************************)

digits(t, i) == IF i = 0 THEN 0 ELSE IF past(t, i, Digit) = i THEN 0 ELSE past(t, i, Digit)

fraction(t, i) == IF i = 0 THEN 0 ELSE IF at(t, i) = "." THEN digits(t, i + 1) ELSE i

exponent(t, i) ==
  IF i = 0 THEN 0
  ELSE IF at(t, i) = "e" THEN digits(t, IF at(t, i + 1) = "-" THEN i + 2 ELSE i + 1)
  ELSE i

signless(t, i) == IF at(t, i) = "-" THEN i + 1 ELSE i

(* valid_number, over the whole run of number bytes Parser::number took. *)
valid_number(t) ==
  LET i == signless(t, 1)
      whole == CASE at(t, i) = "0" -> i + 1
                 [] at(t, i) = "1" -> past(t, i, Digit)
                 [] OTHER -> 0
  IN exponent(t, fraction(t, whole)) = Len(t) + 1

(* Tokenizer::skip_number, which stops where the number does. *)
skip_number(d, p) ==
  LET i == signless(d, p)
  IN IF at(d, i) = "0" /\ at(d, i + 1) \in Digit THEN 0
     ELSE exponent(d, fraction(d, digits(d, i)))

numeral(t) == FoldLeft(LAMBDA n, u : 10 * n + (IF u = "1" THEN 1 ELSE 0), 0,
                       SelectSeq(t, LAMBDA u : u \in Digit))

RECURSIVE normalized(_, _)
normalized(m, e) ==
  IF m = 0 THEN <<0, 0>> ELSE IF m % 10 = 0 THEN normalized(m \div 10, e + 1) ELSE <<m, e>>

(* Number::parse: an integer keeps its text, anything else is rendered     *)
(* from its value, so equal floats are one number however they are spelt.  *)
parsed_number(t) ==
  LET e == past(t, 1, Digit \cup {"-", "."})
      mantissa == SubSeq(t, 1, e - 1)
      power == SubSeq(t, e + 1, Len(t))
      dot == past(t, 1, Digit \cup {"-"})
      places == IF at(t, dot) = "." THEN e - dot - 1 ELSE 0
      scale == (IF at(power, 1) = "-" THEN 0 - numeral(power) ELSE numeral(power)) - places
  IN CASE t = <<"-", "0">> -> <<"float", <<"-">>, <<0, 0>>>>
       [] \A k \in DOMAIN t : t[k] \notin {".", "e"} -> <<"int", t, <<0, 0>>>>
       [] OTHER -> <<"float", SelectSeq(<<Head(t)>>, LAMBDA u : u = "-"),
                     normalized(numeral(mantissa), scale)>>

is_canonical_integer_str(t) ==
  LET body == SubSeq(t, signless(t, 1), Len(t))
  IN /\ body # <<>> /\ ~(Len(body) > 1 /\ Head(body) = "0") /\ t # <<"-", "0">>
     /\ \A k \in DOMAIN t : t[k] \notin {".", "e"}
     /\ Len(body) <= SafeDigits

number(d, i) ==
  LET j == past(d, i, NumberStart \cup {".", "e"})
      t == SubSeq(d, i, j - 1)
  IN IF valid_number(t) THEN {<<<<"num", parsed_number(t)>>, j>>} ELSE {}

-----------------------------------------------------------------------------
(***************************************************************************)
(* rezzy-json reads the same bytes in four ways: Parser builds a value;    *)
(* Tokenizer::skip_value steps over one; ValueRef::parse_masked builds the *)
(* part a FieldMask selects and skips the rest; RawEmitter rewrites the    *)
(* bytes canonically without building anything.  Each reader is an         *)
(* operator over one document.                                             *)
(*                                                                         *)
(* A value is a pair of a tag and its contents.  An object is a function   *)
(* from decoded keys, as the sorted map of the code is, so that a value    *)
(* also stands for its canonical text.                                     *)
(***************************************************************************)

CONSTANT MaxDepth  \* MAX_DEPTH (128 in the code)

Null == <<"null", 0>>

(***************************************************************************)
(* Parser.                                                                 *)
(***************************************************************************)

RECURSIVE value(_, _, _, _), elements(_, _, _, _, _), members(_, _, _, _, _)

value(d, from, depth, parser) ==
  LET i == ws(d, from)
      first == at(d, ws(d, i + 1))
  IN CASE at(d, i) = "null" -> {<<Null, i + 1>>}
       [] at(d, i) = "quote" -> {<<<<"str", s[1]>>, s[2]>> : s \in string(d, i)}
       [] at(d, i) \in NumberStart -> number(d, i)
       [] at(d, i) \in {"[", "{"} /\ depth >= parser.limit -> {}
       [] at(d, i) = "[" /\ depth < parser.limit ->
            IF first = "]" THEN {<<<<"arr", <<>>>>, ws(d, i + 1) + 1>>}
            ELSE elements(d, i + 1, depth + 1, parser, <<>>)
       [] at(d, i) = "{" /\ depth < parser.limit ->
            IF first = "}" THEN {<<<<"obj", <<>>>>, ws(d, i + 1) + 1>>}
            ELSE members(d, i + 1, depth + 1, parser, <<>>)
       [] OTHER -> {}

after_element(d, i, depth, parser, read) ==
  CASE at(d, i) = "," -> elements(d, i + 1, depth, parser, read)
    [] at(d, i) = "]" -> {<<<<"arr", read>>, i + 1>>}
    [] OTHER -> {}

elements(d, i, depth, parser, read) ==
  UNION {after_element(d, ws(d, v[2]), depth, parser, Append(read, v[1])) :
           v \in value(d, i, depth, parser)}

after_member(d, i, depth, parser, read) ==
  CASE at(d, i) = "," -> members(d, i + 1, depth, parser, read)
    [] at(d, i) = "}" -> {<<<<"obj", read>>, i + 1>>}
    [] OTHER -> {}

member_value(d, i, depth, parser, read, key) ==
  IF at(d, i) # ":" THEN {}
  ELSE UNION {IF parser.strict /\ key \in DOMAIN read THEN {}
              ELSE after_member(d, ws(d, v[2]), depth, parser, (key :> v[1]) @@ read) :
                v \in value(d, i + 1, depth, parser)}

members(d, i, depth, parser, read) ==
  IF at(d, ws(d, i)) # "quote" THEN {}
  ELSE UNION {member_value(d, ws(d, k[2]), depth, parser, read, k[1]) :
                k \in string(d, ws(d, i))}

(* Value::parse: nothing may follow the value.  A set of at most one value. *)
parse(d, parser) ==
  {v[1] : v \in {w \in value(d, 1, 0, parser) : ws(d, w[2]) = Len(d) + 1}}

lenient == [limit |-> MaxDepth, strict |-> FALSE]

(***************************************************************************)
(* Tokenizer: the position after the value at i, or 0.                     *)
(***************************************************************************)

RECURSIVE skip_value(_, _, _), skip_array(_, _, _), skip_object(_, _, _)

skip_value(d, from, depth) ==
  LET i == ws(d, from)
      first == at(d, ws(d, i + 1))
  IN CASE at(d, i) = "null" -> i + 1
       [] at(d, i) = "quote" -> IF raw_end(d, i + 1) = 0 THEN 0 ELSE raw_end(d, i + 1) + 1
       [] at(d, i) \in NumberStart -> skip_number(d, i)
       [] at(d, i) \in {"[", "{"} /\ depth >= MaxDepth -> 0
       [] at(d, i) = "[" /\ depth < MaxDepth ->
            IF first = "]" THEN ws(d, i + 1) + 1 ELSE skip_array(d, i + 1, depth + 1)
       [] at(d, i) = "{" /\ depth < MaxDepth ->
            IF first = "}" THEN ws(d, i + 1) + 1 ELSE skip_object(d, i + 1, depth + 1)
       [] OTHER -> 0

skipped_element(d, i, depth, j) ==
  CASE i # 0 /\ at(d, j) = "," -> skip_array(d, j + 1, depth)
    [] i # 0 /\ at(d, j) = "]" -> j + 1
    [] OTHER -> 0

skip_array(d, i, depth) ==
  LET j == skip_value(d, i, depth) IN skipped_element(d, j, depth, ws(d, j))

skipped_member(d, i, depth, j) ==
  CASE i # 0 /\ at(d, j) = "," -> skip_object(d, j + 1, depth)
    [] i # 0 /\ at(d, j) = "}" -> j + 1
    [] OTHER -> 0

skipped_key(d, i, depth) ==
  IF at(d, i) # ":" THEN 0
  ELSE LET j == skip_value(d, i + 1, depth) IN skipped_member(d, j, depth, ws(d, j))

skip_object(d, i, depth) ==
  LET k == ws(d, i)
      e == raw_end(d, k + 1)
  IN IF at(d, k) # "quote" \/ e = 0 THEN 0 ELSE skipped_key(d, ws(d, e + 1), depth)

(* Whether one skip_value steps over the whole document. *)
skips(d) ==
  LET j == skip_value(d, 1, 0) IN j # 0 /\ ws(d, j) = Len(d) + 1

(***************************************************************************)
(* ValueRef::parse_masked.  A reference keeps the bytes of strings and     *)
(* numbers, and every member of an object it selected, in order.           *)
(***************************************************************************)

utf8(body) == \A k \in DOMAIN body : body[k] # "utf8"

(* A mutant: keys are compared as they are spelt. *)
raw_key_same(raw, key) == raw = key

raw_key_eq(raw, key) == unescape_raw_string(raw) = {key}

(* FieldMask::matches_path_by: the path and the mask agree as far as the   *)
(* shorter of the two goes.  The segments are undecoded keys.              *)
matches_raw_path(mask, segments) ==
  \/ mask = {} \/ segments = <<>>
  \/ \E path \in mask : \A k \in DOMAIN segments \cap DOMAIN path :
       raw_key_eq(segments[k], path[k])

RECURSIVE masked_value(_, _, _, _, _), masked_array(_, _, _, _, _, _),
          masked_object(_, _, _, _, _, _)

masked_value(d, from, depth, mask, segments) ==
  LET i == ws(d, from)
      first == at(d, ws(d, i + 1))
      n == skip_number(d, i)
  IN CASE at(d, i) = "null" -> {<<Null, i + 1>>}
       [] at(d, i) = "quote" ->
            {<<<<"raw", s[1]>>, s[2]>> : s \in {r \in string_raw(d, i) : utf8(r[1])}}
       [] at(d, i) \in NumberStart ->
            IF n = 0 THEN {} ELSE {<<<<"num", SubSeq(d, i, n - 1)>>, n>>}
       [] at(d, i) \in {"[", "{"} /\ depth >= MaxDepth -> {}
       [] at(d, i) = "[" /\ depth < MaxDepth ->
            IF first = "]" THEN {<<<<"arr", <<>>>>, ws(d, i + 1) + 1>>}
            ELSE masked_array(d, i + 1, depth + 1, mask, segments, <<>>)
       [] at(d, i) = "{" /\ depth < MaxDepth ->
            IF first = "}" THEN {<<<<"obj", <<>>>>, ws(d, i + 1) + 1>>}
            ELSE masked_object(d, i + 1, depth + 1, mask, segments, <<>>)
       [] OTHER -> {}

masked_item(d, i, depth, mask, segments, items) ==
  CASE at(d, i) = "," -> masked_array(d, i + 1, depth, mask, segments, items)
    [] at(d, i) = "]" -> {<<<<"arr", items>>, i + 1>>}
    [] OTHER -> {}

masked_array(d, i, depth, mask, segments, items) ==
  UNION {masked_item(d, ws(d, v[2]), depth, mask, segments, Append(items, v[1])) :
           v \in masked_value(d, i, depth, mask, segments)}

masked_field(d, i, depth, mask, segments, fields) ==
  CASE at(d, i) = "," -> masked_object(d, i + 1, depth, mask, segments, fields)
    [] at(d, i) = "}" -> {<<<<"obj", fields>>, i + 1>>}
    [] OTHER -> {}

(* The fields after the member whose value starts at i: the value is read  *)
(* when the mask wants its path and skipped when it does not.              *)
extracted(d, i, depth, mask, path, fields) ==
  IF matches_raw_path(mask, path)
  THEN {<<Append(fields, <<Last(path), v[1]>>), v[2]>> : v \in masked_value(d, i, depth, mask, path)}
  ELSE {<<fields, j>> : j \in {skip_value(d, i, depth)} \ {0}}

masked_object(d, i, depth, mask, segments, fields) ==
  LET named == {k \in string_raw(d, ws(d, i)) :
                  /\ at(d, ws(d, i)) = "quote" /\ at(d, ws(d, k[2])) = ":"
                  /\ unescape_raw_string(k[1]) # {}}
  IN UNION {UNION {masked_field(d, ws(d, f[2]), depth, mask, segments, f[1]) :
                     f \in extracted(d, ws(d, k[2]) + 1, depth, mask, Append(segments, k[1]), fields)} :
              k \in named}

parse_masked(d, mask) ==
  {v[1] : v \in {w \in masked_value(d, 1, 0, mask, <<>>) : ws(d, w[2]) = Len(d) + 1}}

(* What a ValueRef stands for: of members with one key, get finds the last. *)
RECURSIVE decoded(_)
decoded(r) ==
  CASE r[1] = "raw" -> <<"str", CHOOSE t \in unescape_raw_string(r[2]) : TRUE>>
    [] r[1] = "num" -> <<"num", parsed_number(r[2])>>
    [] r[1] = "arr" -> <<"arr", [i \in DOMAIN r[2] |-> decoded(r[2][i])]>>
    [] r[1] = "obj" ->
         <<"obj", [k \in UNION {unescape_raw_string(r[2][n][1]) : n \in DOMAIN r[2]} |->
                     decoded(Last(SelectSeq(r[2], LAMBDA f : raw_key_eq(f[1], k)))[2])]>>
    [] OTHER -> r

(* Whether no object of the reference has a key twice. *)
RECURSIVE unique(_)
unique(r) ==
  CASE r[1] = "arr" -> \A i \in DOMAIN r[2] : unique(r[2][i])
    [] r[1] = "obj" ->
         /\ \A i \in DOMAIN r[2] : unique(r[2][i][2])
         /\ \A i, j \in DOMAIN r[2] : unescape_raw_string(r[2][i][1]) = unescape_raw_string(r[2][j][1]) => i = j
    [] OTHER -> TRUE

(***************************************************************************)
(* RawEmitter.                                                             *)
(***************************************************************************)

RECURSIVE walk_raw_object_members(_, _, _)

(* The member whose key ended before i, and the walk from there. *)
walked(d, i, j, found, key) ==
  LET next == ws(d, j)
      all == Append(found, [key |-> key, start |-> ws(d, i + 1),
                             raw |-> SubSeq(d, ws(d, i + 1), j - 1)])
  IN CASE at(d, i) # ":" \/ j = 0 \/ unescape_raw_string(key) = {} -> {}
       [] at(d, i) = ":" /\ j # 0 /\ unescape_raw_string(key) # {} /\ at(d, next) = "," ->
            walk_raw_object_members(d, next + 1, all)
       [] at(d, i) = ":" /\ j # 0 /\ unescape_raw_string(key) # {} /\ at(d, next) = "}" ->
            {<<all, next + 1>>}
       [] OTHER -> {}

(* One turn of the loop.  string_raw takes the byte it stands on for the   *)
(* opening quote, whatever that byte is.                                   *)
walk_raw_object_members(d, i, found) ==
  UNION {walked(d, ws(d, k[2]), skip_value(d, ws(d, k[2]) + 1, 0), found, k[1]) :
           k \in string_raw(d, ws(d, i))}

(* Tokenizer::object_members, from the opening brace at i. *)
object_members(d, i) ==
  IF at(d, ws(d, i + 1)) = "}" THEN {<<<<>>, ws(d, i + 1) + 1>>}
  ELSE walk_raw_object_members(d, i + 1, <<>>)

RECURSIVE emit_raw(_, _, _), emit_object(_, _, _, _), emit_array(_, _, _, _, _)

emit_raw(d, strict, ex) ==
  LET i == ws(d, 1)
      n == skip_number(d, i)
  IN CASE at(d, i) = "null" -> IF ws(d, i + 1) = Len(d) + 1 THEN {Null} ELSE {}
       [] at(d, i) = "quote" ->
            {<<"str", t>> : t \in UNION {unescape_raw_string(s[1]) :
               s \in {r \in string_raw(d, i) : ws(d, r[2]) = Len(d) + 1}}}
       [] at(d, i) \in NumberStart ->
            {<<"num", parsed_number(t)>> : t \in {u \in {SubSeq(d, i, n - 1)} :
               n # 0 /\ ws(d, n) = Len(d) + 1 /\ (strict => is_canonical_integer_str(u))}}
       [] at(d, i) = "[" -> emit_array(d, ws(d, i + 1), strict, ex, <<>>)
       [] at(d, i) = "{" ->
            UNION {emit_object(m[1], 1, strict, ex) :
                     m \in {o \in object_members(d, i) : ws(d, o[2]) = Len(d) + 1}}
       [] OTHER -> {}

(* The members from the n-th on: a later member of the same key and an     *)
(* excluded key are both passed over without being read.                   *)
emit_object(found, n, strict, ex) ==
  IF n > Len(found) THEN {<<"obj", <<>>>>}
  ELSE LET key == CHOOSE k \in unescape_raw_string(found[n].key) : TRUE
           rest == emit_object(found, n + 1, strict, ex)
       IN IF key \in ex \/ \E m \in (n + 1)..Len(found) : raw_key_eq(found[m].key, key)
          THEN rest
          ELSE UNION {{<<"obj", (key :> v) @@ o[2]>> : o \in rest} :
                        v \in emit_raw(found[n].raw, strict, ex)}

emitted(d, i, strict, ex, items) ==
  CASE at(d, i) = "," /\ at(d, ws(d, i + 1)) # "]" -> emit_array(d, ws(d, i + 1), strict, ex, items)
    [] at(d, i) = "]" /\ ws(d, i + 1) = Len(d) + 1 -> {<<"arr", items>>}
    [] OTHER -> {}

emit_array(d, i, strict, ex, items) ==
  LET j == skip_value(d, i, 0)
  IN CASE at(d, i) = "]" -> emitted(d, i, strict, ex, items)
       [] at(d, i) # "]" /\ j # 0 ->
            UNION {emitted(d, ws(d, j), strict, ex, Append(items, v)) :
                     v \in emit_raw(SubSeq(d, i, j - 1), strict, ex)}
       [] OTHER -> {}

-----------------------------------------------------------------------------
(***************************************************************************)
(* One document, whole or damaged one unit at a time, and what the readers *)
(* of rezzy-json owe each other on it.                                     *)
(***************************************************************************)

CONSTANTS
  Docs,        \* the undamaged documents
  Units,       \* the units damage may put in
  MaxEdits,    \* bound: how many units are damaged
  Masks,       \* the field masks asked for: sets of paths of keys
  Excluded     \* the keys a filtered writer leaves out

VARIABLES doc, edits

docVars == <<doc, edits>>

(***************************************************************************)
(* A document arrives, whole or damaged: a unit lost, changed or put in.   *)
(***************************************************************************)

DocInit == doc \in Docs /\ edits = 0

Lose ==
  /\ edits < MaxEdits
  /\ \E i \in DOMAIN doc : doc' = RemoveAt(doc, i)
  /\ edits' = edits + 1

Change ==
  /\ edits < MaxEdits
  /\ \E i \in DOMAIN doc, u \in Units : doc' = ReplaceAt(doc, i, u)
  /\ edits' = edits + 1

PutIn ==
  /\ edits < MaxEdits
  /\ \E i \in 1..(Len(doc) + 1), u \in Units : doc' = InsertAt(doc, i, u)
  /\ edits' = edits + 1

Read == edits = MaxEdits /\ UNCHANGED docVars

DocNext == Lose \/ Change \/ PutIn \/ Read

(***************************************************************************)
(* What the readers owe each other.                                        *)
(***************************************************************************)

(* The document with every text made decodable.  skip_value leaves strings *)
(* undecoded on purpose, so a lone surrogate or a byte that is not UTF-8   *)
(* is the one thing it may pass over.                                      *)
plain(d) == [i \in DOMAIN d |-> CASE d[i] = "utf8" -> "a" [] d[i] = "uD8" -> "u61" [] OTHER -> d[i]]

RECURSIVE filtered(_, _)
filtered(v, ex) ==
  CASE v[1] = "arr" -> <<"arr", [i \in DOMAIN v[2] |-> filtered(v[2][i], ex)]>>
    [] v[1] = "obj" -> <<"obj", [k \in DOMAIN v[2] \ ex |-> filtered(v[2][k], ex)]>>
    [] OTHER -> v

(* FieldMask::matches_segments, on decoded keys. *)
matches_segments(mask, segments) ==
  \/ mask = {} \/ segments = <<>>
  \/ \E path \in mask : \A k \in DOMAIN segments \cap DOMAIN path : segments[k] = path[k]

RECURSIVE restricted(_, _, _)
restricted(v, mask, path) ==
  CASE v[1] = "arr" -> <<"arr", [i \in DOMAIN v[2] |-> restricted(v[2][i], mask, path)]>>
    [] v[1] = "obj" ->
         <<"obj", [k \in {j \in DOMAIN v[2] : matches_segments(mask, Append(path, j))} |->
                     restricted(v[2][k], mask, Append(path, k))]>>
    [] OTHER -> v

RECURSIVE numbers(_)
numbers(v) ==
  CASE v[1] = "num" -> {v[2]}
    [] v[1] \in {"arr", "obj"} -> UNION {numbers(v[2][k]) : k \in DOMAIN v[2]}
    [] OTHER -> {}

(* skip_value steps over exactly the documents Parser accepts, text that   *)
(* does not decode aside: two grammars written out twice in the source, of *)
(* strings, numbers, nesting and depth, are one.                           *)
SkipsWhatParses == skips(doc) <=> parse(plain(doc), lenient) # {}

(* parse_masked on a document Parser accepts is Parser's value cut down to *)
(* the mask, with the last of duplicate keys winning under any spelling of *)
(* the key; and it accepts no document Parser would call malformed.        *)
MaskedIsProjection ==
  \A mask \in Masks :
    /\ \A v \in parse(doc, lenient) :
         {decoded(r) : r \in parse_masked(doc, mask)} = {restricted(v, mask, <<>>)}
    /\ parse_masked(doc, mask) # {} => parse(plain(doc), lenient) # {}

(* Rewriting the bytes of a document Parser accepts gives the text of      *)
(* Parser's value without the excluded keys: the same members, the same    *)
(* last of the duplicates, the same numbers.  The strict writer refuses it *)
(* exactly when a number it would have to write is not canonical.          *)
RewriteIsExact ==
  \A v \in parse(doc, lenient), ex \in {{}, Excluded} :
    /\ emit_raw(doc, FALSE, ex) = {filtered(v, ex)}
    /\ emit_raw(doc, TRUE, ex) =
         IF \A n \in numbers(filtered(v, ex)) : n[1] = "int" /\ is_canonical_integer_str(n[2])
         THEN {filtered(v, ex)} ELSE {}

(* parse_strict refuses a document Parser accepts exactly when some object *)
(* in it, at any depth, has two members whose decoded keys are equal.      *)
StrictIsUnique ==
  parse(doc, [lenient EXCEPT !.strict = TRUE]) =
    {v \in parse(doc, lenient) : \A r \in parse_masked(doc, {}) : unique(r)}

(* "Returns Error when the input is malformed JSON": the raw writer writes *)
(* nothing for a document that is not JSON at any depth.                   *)
RewriteRejectsMalformed ==
  emit_raw(doc, FALSE, {}) # {} => parse(plain(doc), [limit |-> Len(doc), strict |-> FALSE]) # {}
=============================================================================

------------------------------- MODULE Bitmap -------------------------------
(***************************************************************************)
(* The compressed sets of rezzy-recon (rezzy-recon/src/bitmap/).           *)
(*                                                                         *)
(* A chunk (mod.rs) holds the values that share their high half: a sorted  *)
(* array while there are at most ArrayMax of them, a bitset beyond.  It is *)
(* [key, len, store], a store [dense, array, bits] of which one part is    *)
(* used; a chunk that may be absent is a set of at most one.               *)
(*                                                                         *)
(* A Bitmap is a list of chunks by ascending key.  A clone shares its      *)
(* chunks with the original (Arc) until one of the two writes.  There are  *)
(* two bitmaps here, so which chunks are shared is a set of keys.          *)
(*                                                                         *)
(* A Bitmap64 or Bitmap128 (wide.rs) is a map from the high bits to a      *)
(* bitmap of the low ones.  Values are pairs <<high, low>>; the map is a   *)
(* function on the keys it holds.                                          *)
(***************************************************************************)
EXTENDS Integers, Sequences, FiniteSets, SequencesExt

CONSTANTS
    ArrayMax,       \* ARRAY_MAX (4096)
    Width           \* how many low halves there are (65536)

(* A set of numbers as a sorted sequence.                                  *)
sorted(S) == SelectSeq([i \in 1 .. Width |-> i - 1], LAMBDA x : x \in S)

Array(values) == [dense |-> FALSE, array |-> values, bits |-> {}]

Dense(bits) == [dense |-> TRUE, array |-> <<>>, bits |-> bits]

chunk(key, len, store) == [key |-> key, len |-> len, store |-> store]

(* words_to_array and array_to_words.                                      *)
words_to_array(bits) == sorted(bits)

array_to_words(values) == ToSet(values)

(* from_array, from_words (which counts) and from_counted_words.           *)
from_array(key, values) ==
    IF values = <<>> THEN {}
    ELSE {chunk(key, Len(values),
                IF Len(values) > ArrayMax THEN Dense(array_to_words(values)) ELSE Array(values))}

from_counted_words(key, bits, len) ==
    IF len = 0 THEN {}
    ELSE {chunk(key, len, IF len <= ArrayMax THEN Array(words_to_array(bits)) ELSE Dense(bits))}

from_words(key, bits) == from_counted_words(key, bits, Cardinality(bits))

holds(c, lo) == IF c.store.dense THEN lo \in c.store.bits ELSE lo \in ToSet(c.store.array)

(* Chunk::insert and Chunk::remove.                                        *)
chunk_insert(c, lo) ==
    IF c.store.dense
    THEN chunk(c.key, c.len + (IF lo \in c.store.bits THEN 0 ELSE 1), Dense(c.store.bits \union {lo}))
    ELSE IF holds(c, lo) THEN c
    ELSE LET smaller == SelectSeq(c.store.array, LAMBDA x : x < lo)
             larger == SelectSeq(c.store.array, LAMBDA x : x > lo)
             v == smaller \o <<lo>> \o larger
         IN  chunk(c.key, c.len + 1,
                   IF Len(v) > ArrayMax THEN Dense(array_to_words(v)) ELSE Array(v))

chunk_remove(c, lo) ==
    IF ~ holds(c, lo) THEN c
    ELSE IF ~ c.store.dense
    THEN chunk(c.key, c.len - 1, Array(SelectSeq(c.store.array, LAMBDA x : x # lo)))
    ELSE chunk(c.key, c.len - 1,
               IF c.len - 1 <= ArrayMax THEN Array(words_to_array(c.store.bits \ {lo}))
               ELSE Dense(c.store.bits \ {lo}))

----------------------------------------------------------------------------
(* The walks over two sorted arrays.                                       *)
RECURSIVE either(_, _)

either(a, b) ==
    IF a = <<>> THEN b
    ELSE IF b = <<>> THEN a
    ELSE IF Head(a) < Head(b) THEN <<Head(a)>> \o either(Tail(a), b)
    ELSE IF Head(a) > Head(b) THEN <<Head(b)>> \o either(a, Tail(b))
    ELSE <<Head(a)>> \o either(Tail(a), Tail(b))

RECURSIVE both(_, _)

both(a, b) ==
    IF a = <<>> \/ b = <<>> THEN <<>>
    ELSE (IF Head(a) = Head(b) THEN <<Head(a)>> ELSE <<>>)
           \o both(IF Head(a) <= Head(b) THEN Tail(a) ELSE a,
                   IF Head(b) <= Head(a) THEN Tail(b) ELSE b)

RECURSIVE only_first(_, _)

only_first(a, b) ==
    IF a = <<>> THEN <<>>
    ELSE IF b # <<>> /\ Head(b) < Head(a) THEN only_first(a, Tail(b))
    ELSE (IF b = <<>> \/ Head(b) # Head(a) THEN <<Head(a)>> ELSE <<>>) \o only_first(Tail(a), b)

(* union, for the two arrays union_assign leaves to it.                    *)
union(a, b) == from_array(a.key, either(a.store.array, b.store.array))

(* union_assign: the length is kept by counting what is new.               *)
union_assign(a, b) ==
    IF a.store.dense
    THEN LET theirs == IF b.store.dense THEN b.store.bits ELSE ToSet(b.store.array)
         IN  chunk(a.key, a.len + Cardinality(theirs \ a.store.bits),
                   Dense(a.store.bits \union theirs))
    ELSE IF b.store.dense
    THEN chunk(a.key, b.len + Cardinality(ToSet(a.store.array) \ b.store.bits),
               Dense(b.store.bits \union ToSet(a.store.array)))
    ELSE CHOOSE c \in union(a, b) : TRUE

intersection(a, b) ==
    IF a.store.dense /\ b.store.dense
    THEN from_counted_words(a.key, a.store.bits \intersect b.store.bits,
                            Cardinality(a.store.bits \intersect b.store.bits))
    ELSE IF a.store.dense
    THEN from_array(a.key, SelectSeq(b.store.array, LAMBDA x : x \in a.store.bits))
    ELSE IF b.store.dense
    THEN from_array(a.key, SelectSeq(a.store.array, LAMBDA x : x \in b.store.bits))
    ELSE from_array(a.key, both(a.store.array, b.store.array))

difference(a, b) ==
    IF ~ a.store.dense
    THEN from_array(a.key,
                    IF b.store.dense THEN SelectSeq(a.store.array, LAMBDA x : x \notin b.store.bits)
                    ELSE only_first(a.store.array, b.store.array))
    ELSE from_words(a.key,
                    a.store.bits \ (IF b.store.dense THEN b.store.bits ELSE ToSet(b.store.array)))

chunk_subset(a, b) ==
    IF ~ a.store.dense THEN \A x \in ToSet(a.store.array) : holds(b, x)
    ELSE b.store.dense /\ a.store.bits \subseteq b.store.bits

chunk_disjoint(a, b) ==
    IF a.store.dense /\ b.store.dense THEN a.store.bits \intersect b.store.bits = {}
    ELSE IF a.store.dense THEN \A x \in ToSet(b.store.array) : ~ holds(a, x)
    ELSE IF b.store.dense THEN \A x \in ToSet(a.store.array) : ~ holds(b, x)
    ELSE both(a.store.array, b.store.array) = <<>>

-----------------------------------------------------------------------------
CONSTANTS
    Universe,       \* the values the bitmaps may hold
    Inputs          \* what may be given to decode

VARIABLES
    bitmaps,        \* the two bitmaps: sequences of chunks
    shared,         \* the keys whose chunk the two hold in common
    contents        \* the sets they should stand for

bitmapVars == <<bitmaps, shared, contents>>

Both == {1, 2}

other(b) == 3 - b

key_of(v) == v \div Width

low_of(v) == v % Width

keys(m) == {m[i].key : i \in DOMAIN m}

chunk_at(m, k) == CHOOSE c \in ToSet(m) : c.key = k

put(m, c) ==
    SelectSeq(m, LAMBDA d : d.key < c.key) \o <<c>> \o SelectSeq(m, LAMBDA d : d.key > c.key)

drop(m, k) == SelectSeq(m, LAMBDA d : d.key # k)

(* contains, insert and remove.                                            *)
contains(m, v) == key_of(v) \in keys(m) /\ holds(chunk_at(m, key_of(v)), low_of(v))

insert(m, v) ==
    IF key_of(v) \in keys(m) THEN put(m, chunk_insert(chunk_at(m, key_of(v)), low_of(v)))
    ELSE put(m, chunk(key_of(v), 1, Array(<<low_of(v)>>)))

remove(m, v) ==
    IF key_of(v) \notin keys(m) THEN m
    ELSE LET c == chunk_remove(chunk_at(m, key_of(v)), low_of(v))
         IN  IF c.len = 0 THEN drop(m, key_of(v)) ELSE put(m, c)

(* merge_with, chunk by chunk of two different, non-empty bitmaps.         *)
RECURSIVE merged(_, _, _)

merged(mine, theirs, mode) ==
    IF mine = <<>> THEN IF mode = "Or" THEN theirs ELSE <<>>
    ELSE IF theirs # <<>> /\ Head(theirs).key < Head(mine).key
    THEN (IF mode = "Or" THEN <<Head(theirs)>> ELSE <<>>) \o merged(mine, Tail(theirs), mode)
    ELSE IF theirs # <<>> /\ Head(theirs).key = Head(mine).key
    THEN (CASE mode = "Or"  -> <<union_assign(Head(mine), Head(theirs))>>
            [] mode = "And" -> SetToSeq(intersection(Head(mine), Head(theirs)))
            [] mode = "Sub" -> SetToSeq(difference(Head(mine), Head(theirs))))
           \o merged(Tail(mine), Tail(theirs), mode)
    ELSE (IF mode = "And" THEN <<>> ELSE <<Head(mine)>>) \o merged(Tail(mine), theirs, mode)

merge_with(mine, theirs, mode) ==
    IF theirs = <<>> THEN IF mode = "And" THEN <<>> ELSE mine
    ELSE IF mine = <<>> THEN IF mode = "Or" THEN theirs ELSE mine
    ELSE merged(mine, theirs, mode)

(* merge_with a bitmap itself.                                             *)
merge_self(m, mode) == IF mode = "Sub" THEN <<>> ELSE m

is_subset(m, n) ==
    \A i \in DOMAIN m : m[i].key \in keys(n) /\ chunk_subset(m[i], chunk_at(n, m[i].key))

is_disjoint(m, n) ==
    \A k \in keys(m) \intersect keys(n) : chunk_disjoint(chunk_at(m, k), chunk_at(n, k))

len(m) == FoldSeq(LAMBDA c, sum : c.len + sum, 0, m)

(* advance, from a cursor [chunk, pos] to the end.                         *)
RECURSIVE iterate(_, _, _)

iterate(m, i, pos) ==
    IF i > Len(m) THEN <<>>
    ELSE LET c == m[i]
             later == {b \in c.store.bits : b >= pos}
             bit == CHOOSE b \in later : \A o \in later : b <= o
         IN  IF c.store.dense /\ later # {}
             THEN <<c.key * Width + bit>> \o iterate(m, i, bit + 1)
             ELSE IF ~ c.store.dense /\ pos < Len(c.store.array)
             THEN <<c.key * Width + c.store.array[pos + 1]>> \o iterate(m, i, pos + 1)
             ELSE iterate(m, i + 1, 0)

(* encode: per chunk its key, kind, length and payload.                    *)
encode(m) ==
    [i \in DOMAIN m |-> [key |-> m[i].key, kind |-> IF m[i].store.dense THEN 1 ELSE 0,
                         len |-> m[i].len, array |-> m[i].store.array, bits |-> m[i].store.bits]]

(* decode: {} for what is truncated, of an unknown kind, left over or not  *)
(* in canonical form.  array holds the numbers that follow an array's      *)
(* header, so it is short or long when its length is not len.              *)
valid(e) ==
    CASE e.kind = 0 -> /\ e.len > 0 /\ e.len <= ArrayMax
                       /\ Len(e.array) = e.len
                       /\ \A i \in 1 .. (Len(e.array) - 1) : e.array[i] < e.array[i + 1]
      [] e.kind = 1 -> e.len > ArrayMax /\ Cardinality(e.bits) = e.len
      [] OTHER -> FALSE

decode(es) ==
    IF /\ \A i \in DOMAIN es : valid(es[i])
       /\ \A i \in 1 .. (Len(es) - 1) : es[i].key < es[i + 1].key
    THEN {[i \in DOMAIN es |->
             IF es[i].kind = 0 THEN CHOOSE c \in from_array(es[i].key, es[i].array) : TRUE
             ELSE chunk(es[i].key, es[i].len, Dense(es[i].bits))]}
    ELSE {}

----------------------------------------------------------------------------
BitmapInit == bitmaps = [b \in Both |-> <<>>] /\ shared = {} /\ contents = [b \in Both |-> {}]

(* As make_mut, writing to a shared chunk in place.                        *)
make_mut_in_place(b, m, touched) ==
    [state |-> [bitmaps EXCEPT ![b] = m,
                               ![other(b)] = IF touched \subseteq shared /\ touched \subseteq keys(m)
                                             THEN put(@, chunk_at(m, CHOOSE k \in touched : TRUE))
                                             ELSE @],
     shared |-> shared]

(* Arc::make_mut on one chunk of b: a shared chunk is copied first, so     *)
(* the other bitmap keeps the old one.                                     *)
make_mut(b, m, touched) ==
    [state |-> [bitmaps EXCEPT ![b] = m], shared |-> shared \ touched]

Write(b, m, touched, S) ==
    /\ \E w \in {make_mut(b, m, touched)} : bitmaps' = w.state /\ shared' = w.shared
    /\ contents' = [contents EXCEPT ![b] = S]

Insert_(b, v) == Write(b, insert(bitmaps[b], v), {key_of(v)}, contents[b] \union {v})

Remove_(b, v) == Write(b, remove(bitmaps[b], v), {key_of(v)}, contents[b] \ {v})

applied(S, T, mode) ==
    CASE mode = "Or" -> S \union T [] mode = "And" -> S \intersect T [] mode = "Sub" -> S \ T

Modes == {"Or", "And", "Sub"}

(* b |= other, b &= other, b -= other.  A chunk only the other has is      *)
(* taken over as it is (Or), and is shared from then on.                   *)
Merge(b, mode) ==
    /\ bitmaps' = [bitmaps EXCEPT ![b] = merge_with(bitmaps[b], bitmaps[other(b)], mode)]
    /\ shared' = IF mode = "Or" THEN keys(bitmaps[other(b)]) \ keys(bitmaps[b]) ELSE {}
    /\ contents' = [contents EXCEPT ![b] = applied(contents[b], contents[other(b)], mode)]

MergeSelf(b, mode) ==
    /\ bitmaps' = [bitmaps EXCEPT ![b] = merge_self(bitmaps[b], mode)]
    /\ shared' = IF mode = "Sub" THEN {} ELSE shared
    /\ contents' = [contents EXCEPT ![b] = applied(contents[b], contents[b], mode)]

(* The other becomes a clone of b.                                         *)
Clone(b) ==
    /\ bitmaps' = [bitmaps EXCEPT ![other(b)] = bitmaps[b]]
    /\ shared' = keys(bitmaps[b])
    /\ contents' = [contents EXCEPT ![other(b)] = contents[b]]

(* Some bytes are read, when both are empty.                               *)
Load(input) ==
    /\ bitmaps[1] = <<>> /\ bitmaps[2] = <<>>
    /\ \E m \in decode(input) :
         /\ bitmaps' = [bitmaps EXCEPT ![1] = m]
         /\ contents' = [contents EXCEPT ![1] = {v \in Universe : contains(m, v)}]
    /\ UNCHANGED shared

BitmapNext ==
    \/ \E b \in Both : \E v \in Universe : Insert_(b, v) \/ Remove_(b, v)
    \/ \E b \in Both : \E mode \in Modes : Merge(b, mode) \/ MergeSelf(b, mode)
    \/ \E b \in Both : Clone(b)
    \/ \E input \in Inputs : Load(input)

----------------------------------------------------------------------------
\* bitmap/mod.rs insert, remove, merge_with, decode and advance: each bitmap
\* holds exactly the set that was built, however the two share chunks: what is
\* written through one never shows in the other.  The iterator yields it in
\* ascending order, and len and contains agree with it.
BitmapsAreExact ==
    \A b \in Both :
        /\ \A v \in Universe : contains(bitmaps[b], v) <=> v \in contents[b]
        /\ ToSet(iterate(bitmaps[b], 1, 0)) = contents[b]
        /\ \A i \in 1 .. (Cardinality(contents[b]) - 1) :
              iterate(bitmaps[b], 1, 0)[i] < iterate(bitmaps[b], 1, 0)[i + 1]
        /\ len(bitmaps[b]) = Cardinality(contents[b])

\* bitmap/mod.rs: the representation is canonical, so the derived equality of
\* two bitmaps is equality of the sets, and encoding and decoding give a bitmap
\* back.
BitmapsAreCanonical ==
    /\ (bitmaps[1] = bitmaps[2]) <=> (contents[1] = contents[2])
    /\ \A b \in Both : decode(encode(bitmaps[b])) = {bitmaps[b]}

\* bitmap/mod.rs is_subset and is_disjoint, in all four pairings of containers.
RelationsAreExact ==
    /\ is_subset(bitmaps[1], bitmaps[2]) <=> contents[1] \subseteq contents[2]
    /\ is_disjoint(bitmaps[1], bitmaps[2]) <=> contents[1] \intersect contents[2] = {}

-----------------------------------------------------------------------------
CONSTANTS
    Highs,          \* the high halves
    Batches         \* the sequences of values given to extend

VARIABLES
    wides,          \* the two wide bitmaps
    members         \* the sets they should stand for

wideVars == <<wides, members>>

at(w, k) == IF k \in DOMAIN w THEN w[k] ELSE <<>>

with(w, k, m) == [h \in DOMAIN w \union {k} |-> IF h = k THEN m ELSE w[h]]

(* The map without the keys whose bitmap is empty.                         *)
retained(w) == [k \in {h \in DOMAIN w : w[h] # <<>>} |-> w[k]]

wide_insert(w, v) == with(w, v[1], insert(at(w, v[1]), v[2]))

wide_remove(w, v) == IF v[1] \notin DOMAIN w THEN w ELSE retained(with(w, v[1], remove(w[v[1]], v[2])))

(* absorb.                                                                 *)
absorb(w, k, m) == with(w, k, IF k \in DOMAIN w THEN merge_with(w[k], m, "Or") ELSE m)

(* extend: runs of values with one high half are collected in a bitmap of  *)
(* their own, current, and merged when the high half changes.              *)
RECURSIVE extend_from(_, _, _, _)

extend_from(w, vs, key, current) ==
    IF vs = <<>> THEN absorb(w, key, current)
    ELSE IF Head(vs)[1] = key THEN extend_from(w, Tail(vs), key, insert(current, Head(vs)[2]))
    ELSE extend_from(absorb(w, key, current), Tail(vs), Head(vs)[1], insert(<<>>, Head(vs)[2]))

extend(w, vs) ==
    IF vs = <<>> THEN w ELSE extend_from(w, Tail(vs), Head(vs)[1], insert(<<>>, Head(vs)[2]))

(* |=, &= and -=.                                                          *)
wide_merge(w, r, mode) ==
    CASE mode = "Or"  -> [k \in DOMAIN w \union DOMAIN r |-> merge_with(at(w, k), at(r, k), "Or")]
      [] mode = "And" -> retained([k \in DOMAIN w \intersect DOMAIN r |-> merge_with(w[k], r[k], "And")])
      [] mode = "Sub" -> retained([k \in DOMAIN w |-> merge_with(w[k], at(r, k), "Sub")])

wide_subset(w, r) == \A k \in DOMAIN w : k \in DOMAIN r /\ is_subset(w[k], r[k])

wide_disjoint(w, r) == \A k \in DOMAIN w : k \in DOMAIN r => is_disjoint(w[k], r[k])

----------------------------------------------------------------------------
WideInit == wides = [b \in Both |-> <<>>] /\ members = [b \in Both |-> {}]

WideWrite(b, w, S) == wides' = [wides EXCEPT ![b] = w] /\ members' = [members EXCEPT ![b] = S]

WideNext ==
    \E b \in Both :
        \/ \E v \in Highs \X Universe :
              \/ WideWrite(b, wide_insert(wides[b], v), members[b] \union {v})
              \/ WideWrite(b, wide_remove(wides[b], v), members[b] \ {v})
        \/ \E vs \in Batches : WideWrite(b, extend(wides[b], vs), members[b] \union ToSet(vs))
        \/ \E mode \in Modes :
              WideWrite(b, wide_merge(wides[b], wides[other(b)], mode),
                        applied(members[b], members[other(b)], mode))

----------------------------------------------------------------------------
(* The values of a wide bitmap, in the order of its iterator.              *)
values_of(w) == UNION {{k} \X ToSet(iterate(w[k], 1, 0)) : k \in DOMAIN w}

\* bitmap/wide.rs insert, remove, extend, |=, &= and -=: a wide bitmap holds
\* exactly the set that was built, whatever the order of the batches it came
\* in, never keeps an empty inner bitmap (so equality is structural), and
\* is_subset and is_disjoint tell the truth.
WideBitmapsAreExact ==
    /\ \A b \in Both : values_of(wides[b]) = members[b]
    /\ (wides[1] = wides[2]) <=> (members[1] = members[2])
    /\ wide_subset(wides[1], wides[2]) <=> members[1] \subseteq members[2]
    /\ wide_disjoint(wides[1], wides[2]) <=> members[1] \intersect members[2] = {}
=============================================================================

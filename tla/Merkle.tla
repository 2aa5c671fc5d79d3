------------------------------- MODULE Merkle -------------------------------
(***************************************************************************)
(* The Merkle trees of rezzy.  A hash is the term it was computed from: two*)
(* hashes are equal exactly when their inputs are.                         *)
(*                                                                         *)
(* The causal sparse Merkle sum trie (src/merkle.rs, module causal): a set *)
(* of event keys with a node cache kept up to date on the path of each     *)
(* insert, proofs that a key is in the set or is not, their compressed     *)
(* encoding, and the verifiers a remote server runs.                       *)
(*                                                                         *)
(* The tree over an event's signed fields (src/merkle.rs) and the sparse   *)
(* Merkle map over a room's state (src/state/merkle.rs) follow it.         *)
(***************************************************************************)
EXTENDS Integers, Sequences, FiniteSets, SequencesExt

CONSTANTS Depth,     \* CAUSAL_DEPTH: 256 in the code, one level per key bit
          MaxCount,  \* the largest u64 a proof can carry, scaled down
          CausalKeys \* the keys inserted: bit strings of length Depth

VARIABLES mine,    \* two causal sets, as a merge event combines them:
          theirs   \* records [keys, nodes], nodes keyed by bit prefix

vars == <<mine, theirs>>

-----------------------------------------------------------------------------
(* Hashes and the empty table.                                                *)

causal_leaf(key) == <<"leaf", key>>

causal_node(depth, l, r) == <<"node", depth, l.hash, l.count, r.hash, r.count>>

empty_table ==
  LET at[d \in 0 .. Depth] ==
        IF d = Depth THEN <<"empty">>
        ELSE causal_node(d, [hash |-> at[d + 1], count |-> 0], [hash |-> at[d + 1], count |-> 0])
  IN  at

blank(d) == [hash |-> empty_table[d], count |-> 0]

count_sum(a, b) == IF a + b > MaxCount THEN MaxCount ELSE a + b

\* A cached node, or the canonical empty one of its depth.
node_at(nodes, prefix) == IF prefix \in DOMAIN nodes THEN nodes[prefix] ELSE blank(Len(prefix))

parent_of(d, l, r) == [hash |-> causal_node(d, l, r), count |-> count_sum(l.count, r.count)]

-----------------------------------------------------------------------------
(* CausalSet.                                                                 *)

empty == [keys |-> {}, nodes |-> <<>>]

\* The second phase of an insert: the nodes of the key's path, from the leaf up,
\* are recomputed from their cached children.
RECURSIVE rehash(_, _, _)
rehash(nodes, key, d) ==
  IF d < 0 THEN nodes
  ELSE LET p == SubSeq(key, 1, d)
           n == parent_of(d, node_at(nodes, Append(p, 0)), node_at(nodes, Append(p, 1)))
       IN  rehash([q \in DOMAIN nodes \cup {p} |-> IF q = p THEN n ELSE nodes[q]], key, d - 1)

insert_mut(s, key) ==
  IF key \in s.keys THEN s
  ELSE LET leaf == [hash |-> causal_leaf(key), count |-> 1]
           grown == [q \in DOMAIN s.nodes \cup {key} |-> IF q = key THEN leaf ELSE s.nodes[q]]
       IN  [keys |-> s.keys \cup {key}, nodes |-> rehash(grown, key, Depth - 1)]

\* extend and union insert one key after another, the union in key order.
extend(s, list) == FoldLeft(insert_mut, s, list)

before(j, k) == \E i \in 1 .. Depth : SubSeq(j, 1, i - 1) = SubSeq(k, 1, i - 1) /\ j[i] < k[i]

in_order(S) == SortSeq(SetToSeq(S), before)

union(s, other) == extend(s, in_order(other.keys))

root(s) == IF s.keys = {} THEN empty_table[0] ELSE node_at(s.nodes, <<>>).hash

Init ==
  /\ mine = empty
  /\ theirs = empty

InsertMine ==
  /\ \E k \in CausalKeys : mine' = insert_mut(mine, k)
  /\ UNCHANGED theirs

InsertTheirs ==
  /\ \E j, k \in CausalKeys : theirs' = extend(theirs, <<j, k>>)
  /\ UNCHANGED mine

\* A merge event commits to the union of its predecessors' sets.
Merge ==
  /\ mine' = union(mine, theirs)
  /\ UNCHANGED theirs

Next == InsertMine \/ InsertTheirs \/ Merge

-----------------------------------------------------------------------------
(* Proofs.  A path lists the siblings of the key's descent, deepest first.    *)

sibling(key, d) == Append(SubSeq(key, 1, d), 1 - key[d + 1])

own(key, d) == SubSeq(key, 1, d + 1)

siblings(s, key, depth) == [i \in 1 .. depth |-> node_at(s.nodes, sibling(key, depth - i))]

inclusion_proof(s, key) == IF key \in s.keys THEN {siblings(s, key, Depth)} ELSE {}

\* The first level at which the key's own child is missing or counts nothing.
terminal_depths(s, key) == {d \in 0 .. Depth - 1 : node_at(s.nodes, own(key, d)).count = 0}

non_inclusion_proof(s, key) ==
  IF s.keys = {} THEN {[path |-> <<>>, depth |-> 0]}
  ELSE {[path |-> siblings(s, key, d + 1), depth |-> d + 1] :
          d \in {e \in terminal_depths(s, key) : \A f \in terminal_depths(s, key) : e <= f}}

\* verify_causal_path: the side comes from the key, a count that overflows is
\* refused.  The result is the recomputed node, or nothing.
RECURSIVE climb(_, _, _, _)
climb(node, key, path, d) ==
  IF path = <<>> THEN {node}
  ELSE LET step == Head(path)
           up == [hash |-> IF key[d] = 0 THEN causal_node(d - 1, node, step)
                           ELSE causal_node(d - 1, step, node),
                  count |-> node.count + step.count]
       IN  IF up.count > MaxCount THEN {} ELSE climb(up, key, Tail(path), d - 1)

verify_causal_path(node, depth, key, path, hash, count) ==
  /\ Len(path) = depth
  /\ climb(node, key, path, depth) = {[hash |-> hash, count |-> count]}

verify_causal_inclusion(key, path, hash, count) ==
  verify_causal_path([hash |-> causal_leaf(key), count |-> 1], Depth, key, path, hash, count)

\* A mutant: any depth at which the key's path is empty will do.
verify_at_any_depth(key, depth, path, hash, count) ==
  depth <= Depth /\ verify_causal_path(blank(depth), depth, key, path, hash, count)

\* A terminal whose sibling is empty too would have stopped a level higher.
verify_causal_non_inclusion(key, depth, path, hash, count) ==
  /\ depth <= Depth
  /\ Len(path) = depth
  /\ path # <<>> => Head(path) # blank(depth)
  /\ verify_causal_path(blank(depth), depth, key, path, hash, count)

-----------------------------------------------------------------------------
(* Compression: runs of empty siblings become one entry.                      *)

step_entry(s) == [run |-> FALSE, step |-> s, start |-> 0, length |-> 0]

run_entry(start, length) == [run |-> TRUE, step |-> blank(Depth), start |-> start, length |-> length]

\* One turn of compress_causal_path: an empty sibling opens or extends a run.
compress_step(out, s, depth) ==
  CASE s # blank(depth) -> Append(out, step_entry(s))
    [] out # <<>> /\ Last(out).run -> Append(Front(out), [Last(out) EXCEPT !.length = @ + 1])
    [] OTHER -> Append(out, run_entry(depth, 1))

RECURSIVE compressed(_, _, _)
compressed(out, path, depth) ==
  IF path = <<>> THEN out
  ELSE compressed(compress_step(out, Head(path), depth), Tail(path), depth - 1)

compress_causal_path(depth, path) == compressed(<<>>, path, depth)

\* What an entry expands to after out has been read; nothing when the entry is
\* malformed, misplaced or not what the compressor would have written.
expansion(out, prev_run, entry, depth) ==
  LET at == depth - Len(out)
  IN  IF ~entry.run
      THEN IF Len(out) >= depth \/ entry.step = blank(at) THEN {} ELSE {<<entry.step>>}
      ELSE IF \/ prev_run
              \/ entry.length = 0
              \/ entry.start \notin 1 .. Depth
              \/ entry.length > entry.start
              \/ entry.start # at
           THEN {}
           ELSE {[j \in 1 .. entry.length |-> blank(entry.start - j + 1)]}

RECURSIVE decompressed(_, _, _, _)
decompressed(out, prev_run, entries, depth) ==
  IF entries = <<>> THEN (IF Len(out) = depth THEN {out} ELSE {})
  ELSE UNION {decompressed(out \o more, Head(entries).run, Tail(entries), depth) :
                more \in expansion(out, prev_run, Head(entries), depth)}

decompress_causal_path(depth, entries) ==
  IF depth > Depth THEN {} ELSE decompressed(<<>>, FALSE, entries, depth)

-----------------------------------------------------------------------------
(* What the trie promises.                                                    *)

all_keys == [1 .. Depth -> {0, 1}]

\* The node of a key set computed from nothing, as the tests' oracle does.
RECURSIVE subtree_root(_, _)
subtree_root(keys, d) ==
  IF keys = {} THEN blank(d)
  ELSE IF d = Depth THEN [hash |-> causal_leaf(CHOOSE k \in keys : TRUE), count |-> 1]
  ELSE parent_of(d, subtree_root({k \in keys : k[d + 1] = 0}, d + 1),
                    subtree_root({k \in keys : k[d + 1] = 1}, d + 1))

\* However the keys arrived, one by one, in lists or through a union, the cached
\* root and every cached node are those of the key set computed from nothing.
CacheMatchesOracle ==
  \A s \in {mine, theirs} :
    /\ root(s) = subtree_root(s.keys, 0).hash
    /\ \A p \in DOMAIN s.nodes :
         s.nodes[p] = subtree_root({k \in s.keys : SubSeq(k, 1, Len(p)) = p}, Len(p))

\* Exactly one of the two proofs exists for a key, it verifies against the root
\* and count of the set, and it still does after compression.
EveryKeyIsProvable ==
  \A k \in all_keys :
    LET h == root(mine)
        n == Cardinality(mine.keys)
    IN  IF k \in mine.keys
        THEN /\ non_inclusion_proof(mine, k) = {}
             /\ \E p \in inclusion_proof(mine, k) :
                  /\ verify_causal_inclusion(k, p, h, n)
                  /\ decompress_causal_path(Depth, compress_causal_path(Depth, p)) = {p}
        ELSE /\ inclusion_proof(mine, k) = {}
             /\ \E p \in non_inclusion_proof(mine, k) :
                  /\ verify_causal_non_inclusion(k, p.depth, p.path, h, n)
                  /\ decompress_causal_path(p.depth, compress_causal_path(p.depth, p.path)) = {p.path}

\* The siblings a path may carry at a level: nodes of either set, empty ones, and
\* nodes whose count is wrong.
plausible(d) ==
  LET at(s) == {s.nodes[p] : p \in {q \in DOMAIN s.nodes : Len(q) = d}}
      real == at(mine) \cup at(theirs) \cup {blank(d)}
  IN  real \cup {[n EXCEPT !.count = c] : n \in real, c \in {0, MaxCount}}

RECURSIVE paths(_)
paths(d) == IF d = 0 THEN {<<>>} ELSE {<<s>> \o p : s \in plausible(d), p \in paths(d - 1)}

\* What verifies is true: a path accepted against the root and count of a set shows
\* membership only of a member and absence only of a key that is not there, and a
\* key's absence verifies at one depth alone.
VerifiedIsTrue ==
  \A d \in 0 .. Depth : \A p \in paths(d) : \A k \in all_keys :
    /\ verify_causal_inclusion(k, p, root(mine), Cardinality(mine.keys)) => k \in mine.keys
    /\ verify_causal_non_inclusion(k, d, p, root(mine), Cardinality(mine.keys)) =>
         /\ k \notin mine.keys
         /\ \A q \in non_inclusion_proof(mine, k) : q.depth = d

\* A compressed path that is accepted is the one the compressor writes: two
\* encodings never stand for the same proof.
EncodingsAreUnique ==
  \A depth \in 0 .. Depth :
    \A entries \in UNION {[1 .. m -> {step_entry(blank(d)) : d \in 1 .. Depth}
                                     \cup {step_entry([hash |-> causal_leaf(k), count |-> 1]) : k \in mine.keys}
                                     \cup {run_entry(s, l) : s, l \in 0 .. Depth + 1}] : m \in 0 .. 2} :
      \A path \in decompress_causal_path(depth, entries) :
        compress_causal_path(depth, path) = entries

-----------------------------------------------------------------------------
(***************************************************************************)
(* The Merkle tree over an event's signed fields (merkle.rs): fields are   *)
(* hashed into leaves, sorted by name, and halved at the largest power of  *)
(* two below their number; a path shows one field without the others.      *)
(*                                                                         *)
(* A name is a number, ordered as the bytes of the names are: 0 is the     *)
(* empty name and -1 a name with a NUL byte, both of which are refused.  A *)
(* hash is the term it was computed from.                                  *)
(***************************************************************************)

CONSTANTS Names, Values, MaxFields

VARIABLE fields  \* the list a caller builds: pairs <<name, value>>

fieldVars == <<fields>>

validate_field_name(name) == name > 0

leaf_hash(name, value) == <<"leaf", name, value>>

inner_hash(left, right) == <<"node", left, right>>

(* leaves: sorted by name; nothing when a name is invalid or repeated. *)
leaves(fs) ==
  LET sorted == SortSeq(fs, LAMBDA f, g : f[1] < g[1])
  IN IF \/ \E i \in DOMAIN fs : ~validate_field_name(fs[i][1])
        \/ \E i \in 2..Len(sorted) : sorted[i - 1][1] = sorted[i][1]
     THEN {} ELSE {sorted}

hashes(ls) == [i \in DOMAIN ls |-> leaf_hash(ls[i][1], ls[i][2])]

RECURSIVE doubled(_, _)
doubled(k, n) == IF 2 * k < n THEN doubled(2 * k, n) ELSE k

largest_power_of_two_less_than(n) == doubled(1, n)

RECURSIVE merkle_root(_)
merkle_root(hs) ==
  CASE Len(hs) = 0 -> {}
    [] Len(hs) = 1 -> {hs[1]}
    [] Len(hs) = 2 -> {inner_hash(hs[1], hs[2])}
    [] OTHER ->
         LET k == largest_power_of_two_less_than(Len(hs))
         IN {inner_hash(l, r) : l \in merkle_root(SubSeq(hs, 1, k)), r \in merkle_root(SubSeq(hs, k + 1, Len(hs)))}

path_step(side, hash) == [side |-> side, hash |-> hash]

(* The root again, with the path of the leaf at target (from 0).  An option.*)
RECURSIVE merkle_root_and_path(_, _)
merkle_root_and_path(hs, target) ==
  CASE Len(hs) = 0 -> {}
    [] Len(hs) = 1 -> {[root |-> hs[1], path |-> <<>>]}
    [] Len(hs) = 2 ->
         {[root |-> inner_hash(hs[1], hs[2]),
           path |-> IF target = 0 THEN <<path_step("right", hs[2])>> ELSE <<path_step("left", hs[1])>>]}
    [] OTHER ->
         LET k == largest_power_of_two_less_than(Len(hs))
             lower == SubSeq(hs, 1, k)
             upper == SubSeq(hs, k + 1, Len(hs))
         IN IF target < k
            THEN {[root |-> inner_hash(l.root, r), path |-> Append(l.path, path_step("right", r))] :
                    l \in merkle_root_and_path(lower, target), r \in merkle_root(upper)}
            ELSE {[root |-> inner_hash(l, r.root), path |-> Append(r.path, path_step("left", l))] :
                    r \in merkle_root_and_path(upper, target - k), l \in merkle_root(lower)}

field_root(fs) == UNION {merkle_root(hashes(ls)) : ls \in leaves(fs)}

leaf_path(fs, name) ==
  UNION {UNION {merkle_root_and_path(hashes(ls), i - 1) : i \in {j \in DOMAIN ls : ls[j][1] = name}} :
           ls \in leaves(fs)}

verify_leaf_path(leaf, path, hash) ==
  hash = FoldLeft(LAMBDA h, s : IF s.side = "left" THEN inner_hash(s.hash, h) ELSE inner_hash(h, s.hash),
                  leaf, path)

FieldsInit == fields = <<>>

Push ==
  /\ Len(fields) < MaxFields
  /\ \E n \in Names, v \in Values : fields' = Append(fields, <<n, v>>)

Ended == Len(fields) = MaxFields /\ UNCHANGED fieldVars

FieldsNext == Push \/ Ended

names_ascend(fs) == \A i \in 2..Len(fs) : fs[i - 1][1] < fs[i][1]

(* The root is the event's, not the caller's list's: rotating or reversing *)
(* the list leaves it as it is, and a list with an invalid or a repeated   *)
(* name, or none at all, has no root.                                      *)
RootIgnoresOrder ==
  /\ field_root(Reverse(fields)) = field_root(fields)
  /\ fields # <<>> => field_root(Append(Tail(fields), Head(fields))) = field_root(fields)
  /\ field_root(fields) = {} <=>
       \/ fields = <<>>
       \/ \E i \in DOMAIN fields : fields[i][1] <= 0
       \/ \E i, j \in DOMAIN fields : i # j /\ fields[i][1] = fields[j][1]

(* Every field of a list that has a root has a path, the path carries the  *)
(* same root although it is computed by another recursion, and it verifies *)
(* for the field's value and no other.                                     *)
EveryFieldIsProvable ==
  \A r \in field_root(fields), n \in Names :
    IF \E i \in DOMAIN fields : fields[i][1] = n
    THEN \E p \in leaf_path(fields, n) : p.root = r /\
           \A v \in Values \cup {"other"} : verify_leaf_path(leaf_hash(n, v), p.path, r) <=>
                               \E i \in DOMAIN fields : fields[i] = <<n, v>>
    ELSE leaf_path(fields, n) = {}

(* The hashes of the tree's nodes: all runs of leaves give more than those. *)
subtrees(fs) ==
  UNION {merkle_root(hashes(SubSeq(fs, i, j))) : i \in DOMAIN fs, j \in DOMAIN fs}

(* A path put together from any nodes of the tree, on any sides, verifies  *)
(* only for a field the event has.                                         *)
VerifiedIsPresent ==
  names_ascend(fields) =>
    \A r \in field_root(fields), length \in 0..2 :
      \A p \in [1..length -> [side : {"left", "right"}, hash : subtrees(fields)]], n \in Names, v \in Values \cup {"other"} :
        verify_leaf_path(leaf_hash(n, v), p, r) => \E i \in DOMAIN fields : fields[i] = <<n, v>>

-----------------------------------------------------------------------------
(***************************************************************************)
(* The sparse Merkle map over a room's state (state/merkle.rs): one leaf   *)
(* for every (type, state key) slot at the slot's key hash, a root that a  *)
(* server publishes, and proofs that a slot holds an event or holds none.  *)
(* A hash is the term it was computed from.                                *)
(***************************************************************************)

CONSTANTS
  Slots,     \* the (type, state key) slots a room's state may have
  KeyHash,   \* state_key_hash: a slot's bit string of length Depth
  EventIds

VARIABLE state  \* the room state: a function from slots to event ids

state_leaf_hash(slot, id) == <<"leaf", slot, id>>

state_node(depth, left, right) == <<"node", depth, left, right>>

empty_state_table ==
  LET at[d \in 0..Depth] == IF d = Depth THEN <<"empty">> ELSE state_node(d, at[d + 1], at[d + 1])
  IN at

(* StateMap::from_state: the leaf hashes by key hash. *)
from_state(s) ==
  [k \in {KeyHash[slot] : slot \in DOMAIN s} |->
     LET slot == CHOOSE x \in DOMAIN s : KeyHash[x] = k IN state_leaf_hash(slot, s[slot])]

partition(entries, depth, b) == {k \in entries : k[depth + 1] = b}

(* The root of the entries below a node at depth. *)
RECURSIVE subtree(_, _, _)
subtree(slots, entries, depth) ==
  IF entries = {} THEN empty_state_table[depth]
  ELSE IF depth = Depth THEN slots[CHOOSE k \in entries : TRUE]
  ELSE state_node(depth, subtree(slots, partition(entries, depth, 0), depth + 1),
                   subtree(slots, partition(entries, depth, 1), depth + 1))

state_root(slots) == subtree(slots, DOMAIN slots, 0)

(* The depth at which the key's descent ends, and the siblings it passed,  *)
(* deepest first.                                                          *)
RECURSIVE descend(_, _, _, _)
descend(slots, entries, key, depth) ==
  IF entries = {} \/ depth = Depth THEN [depth |-> depth, path |-> <<>>]
  ELSE LET b == key[depth + 1]
           below == descend(slots, partition(entries, depth, b), key, depth + 1)
       IN [depth |-> below.depth,
           path |-> Append(below.path, subtree(slots, partition(entries, depth, 1 - b), depth + 1))]

state_inclusion_proof(slots, slot, id) ==
  IF KeyHash[slot] \in DOMAIN slots /\ slots[KeyHash[slot]] = state_leaf_hash(slot, id)
  THEN {descend(slots, DOMAIN slots, KeyHash[slot], 0).path} ELSE {}

state_non_inclusion_proof(slots, slot) ==
  IF KeyHash[slot] \in DOMAIN slots THEN {}
  ELSE {descend(slots, DOMAIN slots, KeyHash[slot], 0)}

(* The node that a path leads to from a value at terminal depth d. *)
climbed(key, value, d, path) ==
  FoldLeft(LAMBDA v, i : IF key[d - i + 1] = 0 THEN state_node(d - i, v, path[i]) ELSE state_node(d - i, path[i], v),
           value, [i \in 1..Len(path) |-> i])

verify(key, value, terminal_depth, path, hash) ==
  Len(path) = terminal_depth /\ climbed(key, value, terminal_depth, path) = hash

verify_inclusion(slot, id, path, hash) ==
  verify(KeyHash[slot], state_leaf_hash(slot, id), Depth, path, hash)

(* An empty sibling at the terminal depth would have made the parent empty *)
(* and the descent stop a level higher.                                    *)
verify_non_inclusion(slot, terminal_depth, path, hash) ==
  /\ terminal_depth <= Depth
  /\ Len(path) = terminal_depth
  /\ path # <<>> => Head(path) # empty_state_table[terminal_depth]
  /\ verify(KeyHash[slot], empty_state_table[terminal_depth], terminal_depth, path, hash)

(***************************************************************************)
(* The room's state changes between one published root and the next.       *)
(***************************************************************************)

SlotsInit == state = <<>>

Set ==
  \E slot \in Slots, id \in EventIds :
    state' = [x \in DOMAIN state \cup {slot} |-> IF x = slot THEN id ELSE state[x]]

Unset == \E slot \in DOMAIN state : state' = [x \in DOMAIN state \ {slot} |-> state[x]]

SlotsNext == Set \/ Unset

(* The hash of every node of the map, level by level, and the empty ones.  *)
siblings_at(slots, d) ==
  {empty_state_table[d]} \cup
  {subtree(slots, {k \in DOMAIN slots : SubSeq(k, 1, d) = p}, d) : p \in [1..d -> {0, 1}]}

RECURSIVE slot_paths(_, _)
slot_paths(slots, d) ==
  IF d = 0 THEN {<<>>} ELSE {<<s>> \o p : s \in siblings_at(slots, d), p \in slot_paths(slots, d - 1)}

(* A slot has a proof of the event it holds, or a proof that it is empty,  *)
(* never both and never neither, and the proof verifies against the root.  *)
EverySlotIsProvable ==
  LET slots == from_state(state)
  IN \A slot \in Slots :
       IF slot \in DOMAIN state
       THEN /\ state_non_inclusion_proof(slots, slot) = {}
            /\ \A id \in EventIds :
                 IF state[slot] = id
                 THEN \E p \in state_inclusion_proof(slots, slot, id) : verify_inclusion(slot, id, p, state_root(slots))
                 ELSE state_inclusion_proof(slots, slot, id) = {}
       ELSE /\ \A id \in EventIds : state_inclusion_proof(slots, slot, id) = {}
            /\ \E p \in state_non_inclusion_proof(slots, slot) :
                 verify_non_inclusion(slot, p.depth, p.path, state_root(slots))

(* What verifies against a root is true of the state behind it: no path    *)
(* through the map's own nodes shows an event in a slot that holds another *)
(* or none, or a slot empty that is not, or empty at two depths.           *)
VerifiedSlotIsTrue ==
  LET slots == from_state(state)
  IN \A d \in 0..Depth : \A p \in slot_paths(slots, d) : \A slot \in Slots :
       /\ \A id \in EventIds :
            verify_inclusion(slot, id, p, state_root(slots)) => slot \in DOMAIN state /\ state[slot] = id
       /\ verify_non_inclusion(slot, d, p, state_root(slots)) =>
            slot \notin DOMAIN state /\ \A q \in state_non_inclusion_proof(slots, slot) : q.depth = d
=============================================================================

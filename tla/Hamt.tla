-------------------------------- MODULE Hamt --------------------------------
(***************************************************************************)
(* The CHAMP trie of src/hamt/mod.rs, its differences (src/hamt/delta.rs)  *)
(* and its reachability audit (src/hamt/audit.rs) as operators on values.  *)
(*                                                                         *)
(* A node is a record of two partial functions on slots: leaves (datamap   *)
(* and the leaf array) and children (nodemap and the child array).  The    *)
(* structural hash commits to exactly that, so a node is its own hash and  *)
(* equal hashes are equal values: collisions of the keyed hash are out of  *)
(* the model.  A child is always there as a value; whether it can be read  *)
(* is a matter of the set "avail" of the hashes that the resolver, or the  *)
(* memory, can deliver.                                                    *)
(***************************************************************************)
EXTENDS Naturals, SequencesExt

CONSTANTS
    Key,        \* the keys of the map
    Slot,       \* the slots of a node (0..31 in the code)
    Path,       \* [Key -> sequence of MaxDepth slots]: the routing hash
    MaxDepth    \* HAMT_MAX_DEPTH

\* Partial functions on slots.
without(f, s) == [t \in DOMAIN f \ {s} |-> f[t]]
values(f) == {f[s] : s \in DOMAIN f}

EmptyNode == [leaves |-> <<>>, children |-> <<>>]

entry(k, v) == [key |-> k, value |-> v]

\* The slot of a key at a depth (the root is at depth 0).
bucket_index(k, depth) == Path[k][depth + 1]

----------------------------------------------------------------------------
\* Nodes and entries of a subtree.

RECURSIVE subtree(_)
subtree(n) == {n} \cup UNION {subtree(c) : c \in values(n.children)}

\* visit_entries and walk_subtree, when every child can be read.
entries(n) == UNION {values(m.leaves) : m \in subtree(n)}

\* A walk over a subtree fails if a child cannot be resolved.
walk_fails(n, avail) == ~(subtree(n) \ {n} \subseteq avail)

----------------------------------------------------------------------------
\* Building.  A result is a record; err is "" or the name of the error.

failed(err) ==
    [err |-> err, kind |-> "node", node |-> EmptyNode, old |-> {}, created |-> {}]

\* A rebuilt node, which the sink is told of, above what was created below it.
rebuilt(n, old, created) ==
    [err |-> "", kind |-> "node", node |-> n, old |-> old, created |-> created \cup {n}]

RECURSIVE build_node(_, _)
build_node(es, depth) ==
    LET bucket(s) == {e \in es : bucket_index(e.key, depth) = s}
        single == {s \in Slot : Cardinality(bucket(s)) = 1}
        deep == {s \in Slot : Cardinality(bucket(s)) > 1}
    IN  IF depth >= MaxDepth \/ (deep # {} /\ depth + 1 >= MaxDepth)
        THEN failed("collision")
        ELSE LET child == [s \in deep |-> build_node(bucket(s), depth + 1)]
             IN  IF \E s \in deep : child[s].err # ""
                 THEN failed("collision")
                 ELSE rebuilt([leaves |-> [s \in single |-> CHOOSE e \in bucket(s) : TRUE],
                               children |-> [s \in deep |-> child[s].node]],
                              {}, UNION {child[s].created : s \in deep})

\* build_hamt
build_hamt(es) == build_node(es, 0)

----------------------------------------------------------------------------
\* Insertion.

\* The leaf branch of insert_into_occupied_slot: the leaf in slot s becomes the
\* child that build_node made of it and of the new entry, and the sink is told
\* of every node of that child.
split_leaf(n, s, split) ==
    IF split.err # "" THEN split
    ELSE rebuilt([leaves |-> without(n.leaves, s),
                  children |-> (s :> split.node) @@ n.children],
                 {}, split.created)

\* The child branch of insert_into_occupied_slot, and rebuild_with_child.
with_child(n, s, r) ==
    IF r.err # "" THEN r
    ELSE rebuilt([n EXCEPT !.children[s] = r.node], r.old, r.created)

RECURSIVE insert_node(_, _, _, _, _)
insert_node(n, k, v, depth, avail) ==
    IF depth >= MaxDepth
    THEN failed("collision")
    ELSE
    LET s == bucket_index(k, depth)
    IN  CASE s \in DOMAIN n.leaves ->
               IF n.leaves[s].key = k
               THEN rebuilt([n EXCEPT !.leaves[s] = entry(k, v)], {n.leaves[s].value}, {})
               ELSE split_leaf(n, s, build_node({n.leaves[s], entry(k, v)}, depth + 1))
          [] s \in DOMAIN n.children ->
               IF n.children[s] \notin avail
               THEN failed("resolve")
               ELSE with_child(n, s, insert_node(n.children[s], k, v, depth + 1, avail))
          [] OTHER ->
               rebuilt([n EXCEPT !.leaves = (s :> entry(k, v)) @@ @], {}, {})

----------------------------------------------------------------------------
\* Removal.  The kind of a result says what is left of the subtree: a "node",
\* a single "leaf" that the parent must inline, or nothing ("empty").

untouched(n) == [err |-> "", kind |-> "node", node |-> n, old |-> {}, created |-> {}]

\* finalize_after_removal; the sink is told of the node only if it stays one.
finalize_after_removal(n, old, created) ==
    IF DOMAIN n.children = {} /\ Cardinality(DOMAIN n.leaves) <= 1
    THEN [err |-> "", kind |-> IF DOMAIN n.leaves = {} THEN "empty" ELSE "leaf",
          node |-> n, old |-> old, created |-> created]
    ELSE rebuilt(n, old, created)

\* The only entry of a subtree that collapsed to a leaf.
last_leaf(n) == CHOOSE e \in values(n.leaves) : TRUE

\* The tail of remove_node_with_ctx: the child in slot s became r.
lift_removal(n, s, r) ==
    CASE r.err # "" -> r
      [] r.err = "" /\ r.old = {} -> untouched(n)
      [] r.err = "" /\ r.old # {} /\ r.kind = "empty" ->
            finalize_after_removal([n EXCEPT !.children = without(@, s)], r.old, r.created)
      [] r.err = "" /\ r.old # {} /\ r.kind = "leaf" ->
            finalize_after_removal([leaves |-> (s :> last_leaf(r.node)) @@ n.leaves,
                                    children |-> without(n.children, s)],
                                   r.old, r.created)
      [] OTHER -> with_child(n, s, r)

RECURSIVE remove_node(_, _, _, _)
remove_node(n, k, depth, avail) ==
    LET s == bucket_index(k, depth)
    IN  CASE s \in DOMAIN n.leaves ->
               IF n.leaves[s].key # k
               THEN untouched(n)
               ELSE finalize_after_removal([n EXCEPT !.leaves = without(@, s)],
                                           {n.leaves[s].value}, {})
          [] s \in DOMAIN n.children ->
               IF n.children[s] \notin avail
               THEN failed("resolve")
               ELSE IF depth + 1 >= MaxDepth
               THEN failed("depth")
               ELSE lift_removal(n, s, remove_node(n.children[s], k, depth + 1, avail))
          [] OTHER -> untouched(n)

\* A plausible mistake: a trie that collapsed to one leaf is taken for empty.
finalize_remove_root_losing(r) ==
    IF r.kind = "node" THEN r ELSE rebuilt(EmptyNode, r.old, r.created)

\* finalize_remove_root: a last leaf moves to its slot in the root.
finalize_remove_root(r) ==
    CASE r.kind = "empty" -> rebuilt(EmptyNode, r.old, r.created)
      [] r.kind = "leaf" ->
            rebuilt([leaves |-> bucket_index(last_leaf(r.node).key, 0) :> last_leaf(r.node),
                     children |-> <<>>], r.old, r.created)
      [] OTHER -> r

\* remove and remove_spine
remove_spine(root, k, avail) == finalize_remove_root(remove_node(root, k, 0, avail))

----------------------------------------------------------------------------
\* Persistence.  A mutation is [key, value]; value is {v} to insert and {} to
\* remove.  What a call returns: the new root, the displaced value of every
\* mutation and the nodes that must be written before the root is published.

apply_mutation(root, m, avail) ==
    IF m.value = {} THEN remove_spine(root, m.key, avail)
    ELSE insert_node(root, m.key, CHOOSE v \in m.value : TRUE, 0, avail)

\* persist_mutation_with_key_hash
persist_mutation(root, m, avail) ==
    LET r == apply_mutation(root, m, avail)
    IN  [err |-> r.err, root |-> r.node, displaced |-> <<r.old>>,
         created |-> IF r.node = root THEN {} ELSE r.created]

no_delta == [err |-> "", superseded |-> {}, new |-> {}]

\* diff_node_hashes_rec: the nodes that only a's side, and only b's side, has.
\* A list of hashes is a set: no node occurs twice in a trie.
RECURSIVE diff_node_hashes(_, _, _)
diff_node_hashes(a, b, avail) ==
    LET both == DOMAIN a.children \cap DOMAIN b.children
        changed == {s \in both : a.children[s] # b.children[s]}
        only_a == {a.children[s] : s \in DOMAIN a.children \ both}
        only_b == {b.children[s] : s \in DOMAIN b.children \ both}
        resolved == only_a \cup only_b
                    \cup UNION {{a.children[s], b.children[s]} : s \in changed}
        below == {diff_node_hashes(a.children[s], b.children[s], avail) : s \in changed}
    IN  IF a = b THEN no_delta
        ELSE IF \/ ~(resolved \subseteq avail)
                \/ \E c \in only_a \cup only_b : walk_fails(c, avail)
                \/ \E d \in below : d.err # ""
        THEN [no_delta EXCEPT !.err = "resolve"]
        ELSE [err |-> "",
              superseded |-> {a} \cup UNION {subtree(c) : c \in only_a}
                                 \cup UNION {d.superseded : d \in below},
              new |-> {b} \cup UNION {subtree(c) : c \in only_b}
                          \cup UNION {d.new : d \in below}]

\* The nodes of the new root that the batch has to write: the walk of
\* finalize_persisted_mutations enters a child only if it is new.
RECURSIVE new_nodes(_, _)
new_nodes(n, new) ==
    IF n \notin new THEN {}
    ELSE {n} \cup UNION {new_nodes(c, new) : c \in values(n.children)}

finalize_persisted_mutations(prev, batch, delta) ==
    IF batch.err # "" \/ batch.root = prev
    THEN [err |-> batch.err, root |-> batch.root, displaced |-> batch.displaced, created |-> {}]
    ELSE [err |-> delta.err, root |-> batch.root, displaced |-> batch.displaced,
          created |-> new_nodes(batch.root, delta.new)]

\* One mutation of a batch: the nodes made so far are held in memory.
in_batch(batch, m) ==
    IF batch.err # "" THEN batch
    ELSE LET r == apply_mutation(batch.root, m, batch.avail)
         IN  [err |-> r.err, root |-> r.node, displaced |-> Append(batch.displaced, r.old),
              avail |-> batch.avail \cup r.created]

\* HamtMutator::persist_mutations: one published root for the whole batch.
persist_mutations(root, ms, avail) ==
    LET batch == FoldLeft(in_batch,
                          [err |-> "", root |-> root, displaced |-> <<>>, avail |-> avail], ms)
    IN  finalize_persisted_mutations(root, batch,
            diff_node_hashes(root, batch.root, batch.avail))

\* One step of a chain, on top of the step before it.
in_chain(acc, m) ==
    IF acc.err # "" THEN acc
    ELSE LET r == persist_mutation(acc.root, m, acc.avail)
         IN  [err |-> r.err, root |-> r.root, avail |-> acc.avail \cup r.created,
              steps |-> Append(acc.steps, r)]

\* HamtMutator::persist_chain: every step has a root of its own to publish.
persist_chain(root, ms, avail) ==
    FoldLeft(in_chain, [err |-> "", root |-> root, avail |-> avail, steps |-> <<>>], ms)

-----------------------------------------------------------------------------
(***************************************************************************)
(* The readers of a persisted trie: the verified load of a record          *)
(* (src/hamt/codec.rs), the point lookups (src/hamt/mod.rs), the entry     *)
(* difference and the reachability walk (src/hamt/delta.rs) and the audits *)
(* (src/hamt/audit.rs).  A store maps the hashes it has records for to     *)
(* what the record holds, which a fault may have changed.                  *)
(***************************************************************************)

\* decode_v1_verified and into_hamt_node_verified behind a resolver: the node,
\* or nothing if the record is missing or does not hash to h.
load(store, h) == IF h \in DOMAIN store /\ store[h] = h THEN {h} ELSE {}

\* The hashes that the store can deliver.
loadable(store) == {h \in DOMAIN store : load(store, h) = {h}}

----------------------------------------------------------------------------
\* Point lookups.

\* An answer: err, and found = {} or {v}.
found(vs) == [err |-> "", found |-> vs]

\* search_by_path_hash, reading every child from the store.
RECURSIVE search(_, _, _, _)
search(n, k, depth, store) ==
    IF depth >= MaxDepth THEN found({})
    ELSE LET s == bucket_index(k, depth)
         IN  CASE s \in DOMAIN n.leaves ->
                    found(IF n.leaves[s].key = k THEN {n.leaves[s].value} ELSE {})
               [] s \in DOMAIN n.children ->
                    IF load(store, n.children[s]) = {}
                    THEN [err |-> "resolve", found |-> {}]
                    ELSE search(CHOOSE c \in load(store, n.children[s]) : TRUE,
                                k, depth + 1, store)
               [] OTHER -> found({})

\* What one node answers to the keys that were routed to it: "found" and
\* "absent" are final, "pending" goes on in the child.  Keys are told apart by
\* their whole routing hash.
answers(n, keys, depth) ==
    LET s(k) == bucket_index(k, depth)
        leaf == {k \in keys : s(k) \in DOMAIN n.leaves}
        child == {k \in keys \ leaf : s(k) \in DOMAIN n.children}
        hit == {k \in leaf : Path[n.leaves[s(k)].key] = Path[k]}
    IN  [found |-> {<<k, n.leaves[s(k)].value>> : k \in hit},
         absent |-> keys \ (hit \cup child),
         pending |-> {<<n.children[s(k)], k>> : k \in child}]

\* Whether a leaf that one of the keys leads to is not in the slot of its own key.
misrouted(n, keys, depth) ==
    \E k \in keys : LET s == bucket_index(k, depth)
                    IN  s \in DOMAIN n.leaves /\ bucket_index(n.leaves[s].key, depth) # s

\* descend_level: frontier is the set of <<hash, key>> fetched for one level, all of
\* them at one depth.
descend_level(frontier, depth, store) ==
    LET fetched == {p[1] : p \in frontier}
        keys(h) == {p[2] : p \in {q \in frontier : q[1] = h}}
        at == {answers(CHOOSE c \in load(store, h) : TRUE, keys(h), depth) : h \in fetched}
    IN  IF \/ depth >= MaxDepth
           \/ \E h \in fetched : load(store, h) = {}
           \/ \E h \in fetched : misrouted(h, keys(h), depth)
        THEN [err |-> "corrupt", found |-> {}, absent |-> {}, pending |-> {}]
        ELSE [err |-> "",
              found |-> UNION {a.found : a \in at},
              absent |-> UNION {a.absent : a \in at},
              pending |-> UNION {a.pending : a \in at}]

\* The caller's loop: level after level until nothing is pending.
RECURSIVE descend(_, _, _)
descend(frontier, depth, store) ==
    LET r == descend_level(frontier, depth, store)
    IN  IF r.err # "" \/ r.pending = {} THEN r
        ELSE LET deeper == descend(r.pending, depth + 1, store)
             IN  [deeper EXCEPT !.found = @ \cup r.found, !.absent = @ \cup r.absent]

----------------------------------------------------------------------------
\* The difference of the entries of two tries.

\* A plausible mistake: slots with a leaf on one side and a subtree on the
\* other are left to the two ordinary passes, which know only their own kind.
cross_ignored(a, b) == {}

\* The slots with a leaf on one side and a subtree on the other.
cross(a, b) ==
    (DOMAIN a.leaves \cap DOMAIN b.children) \cup (DOMAIN a.children \cap DOMAIN b.leaves)

\* The entries under slot s, leaf or subtree.
slot_entries(n, s) ==
    IF s \in DOMAIN n.leaves THEN {n.leaves[s]}
    ELSE IF s \in DOMAIN n.children THEN entries(n.children[s])
    ELSE {}

\* diff_leaf_subtree, seen from the side of n: the entries under the slot that
\* are not cancelled by an equal entry on the other side.
diff_leaf_subtree(n, other, s) == slot_entries(n, s) \ slot_entries(other, s)

\* What diff_nodes reports for a's side; the entries removed in a diff from a
\* to b are one_side(a, b), the ones added are one_side(b, a).
RECURSIVE one_side(_, _)
one_side(a, b) ==
    LET x == cross(a, b)
        leaves == DOMAIN a.leaves \ x
        kids == DOMAIN a.children \ x
        both == kids \cap (DOMAIN b.children \ x)
    IN  IF a = b THEN {}
        ELSE {a.leaves[s] : s \in {t \in leaves : t \notin DOMAIN b.leaves
                                                  \/ a.leaves[t] # b.leaves[t]}}
             \cup UNION {one_side(a.children[s], b.children[s]) : s \in both}
             \cup UNION {entries(a.children[s]) : s \in kids \ both}
             \cup UNION {diff_leaf_subtree(a, b, s) : s \in x}

\* The nodes that diff_nodes resolves on a's side: the children of a pair that
\* differs, and everything under a slot that only a has or has as a subtree.
RECURSIVE resolved(_, _)
resolved(a, b) ==
    LET pairs == {s \in DOMAIN a.children \cap DOMAIN b.children : a.children[s] # b.children[s]}
    IN  UNION {{a.children[s]} \cup resolved(a.children[s], b.children[s]) : s \in pairs}
        \cup UNION {subtree(a.children[s]) : s \in DOMAIN a.children \ DOMAIN b.children}

\* diff_nodes: an error if one of them is not available.
diff_nodes(a, b, avail) ==
    [err |-> IF resolved(a, b) \cup resolved(b, a) \subseteq avail THEN "" ELSE "resolve",
     added |-> one_side(b, a), removed |-> one_side(a, b)]

----------------------------------------------------------------------------
\* The reachability audits.

\* walk_reachable_children, with the marks of the sweep in acc.  A child is
\* looked up in the marks before it is resolved.
RECURSIVE walk_children(_, _, _)
walk_children(acc, n, avail) ==
    LET visit(c, sofar) ==
            IF sofar.err # "" \/ c \in sofar.marks THEN sofar
            ELSE IF c \notin avail
            THEN [err |-> "resolve", marks |-> sofar.marks \cup {c}]
            ELSE walk_children([sofar EXCEPT !.marks = @ \cup {c}], c, avail)
    IN  FoldSet(visit, acc, values(n.children))

\* walk_reachable_node_hashes over all roots with one set of marks.
walk_roots(roots, avail) ==
    LET visit(r, sofar) ==
            IF sofar.err # "" \/ r \in sofar.marks THEN sofar
            ELSE walk_children([sofar EXCEPT !.marks = @ \cup {r}], r, avail)
    IN  FoldSet(visit, [err |-> "", marks |-> {}], roots)

\* node_reachability_audit
node_reachability_audit(roots, universe, avail) ==
    LET walk == walk_roots(roots, avail)
    IN  IF walk.err # "" THEN [err |-> walk.err, reachable |-> {}, unreachable |-> {}]
        ELSE [err |-> "", reachable |-> walk.marks \cap universe,
              unreachable |-> universe \ walk.marks]
=============================================================================

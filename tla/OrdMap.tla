------------------------------- MODULE OrdMap -------------------------------
(***************************************************************************)
(* PersistentOrdMap of src/state/persistent_ord_map.rs: a B+ tree whose    *)
(* clones share nodes.  Nodes live on a heap, because what matters is      *)
(* which nodes two maps share: a mutation edits a node in place if no      *)
(* other map can reach it (its Arc is unique) and copies it otherwise, and *)
(* diff skips a subtree if both sides hold the same Arc.                   *)
(*                                                                         *)
(* A node is [leaf, entries, keys, children]; entries is a sequence of     *)
(* <<key, value>>, children a sequence of heap addresses.                  *)
(***************************************************************************)
EXTENDS Naturals, SequencesExt, FiniteSetsExt

CONSTANTS
    MAX_FANOUT  \* most entries of a leaf and most children of a node

BULK_FILL == MAX_FANOUT - MAX_FANOUT \div 4

Leaf(entries) == [leaf |-> TRUE, entries |-> entries, keys |-> <<>>, children |-> <<>>]
Internal(keys, children) ==
    [leaf |-> FALSE, entries |-> <<>>, keys |-> keys, children |-> children]

----------------------------------------------------------------------------
\* The heap.

\* The elements of a set of positive numbers in ascending order.
ascending(S) ==
    SelectSeq([i \in 1..(IF S = {} THEN 0 ELSE Max(S)) |-> i], LAMBDA i : i \in S)

\* The smallest free address.
fresh(heap) == CHOOSE a \in 1..(Cardinality(DOMAIN heap) + 1) :
                 /\ a \notin DOMAIN heap
                 /\ \A b \in 1..(a - 1) : b \in DOMAIN heap

write(heap, a, node) == [b \in DOMAIN heap \cup {a} |-> IF b = a THEN node ELSE heap[b]]

RECURSIVE reachable(_, _)
reachable(heap, a) ==
    {a} \cup UNION {reachable(heap, heap[a].children[i]) : i \in DOMAIN heap[a].children}

\* The addresses below a, in the order of a walk.
RECURSIVE walk(_, _)
walk(heap, a) ==
    <<a>> \o FlattenSeq([i \in DOMAIN heap[a].children |-> walk(heap, heap[a].children[i])])

\* What two maps still refer to: [heap, first, second].  Other nodes are
\* dropped.  An address is only an identity, so the addresses are numbered anew
\* in the order of a walk, which makes equal sharing equal states.
collected(heap, m1, m2) ==
    LET order == walk(heap, m1.root) \o walk(heap, m2.root)
        firsts == {i \in DOMAIN order : \A j \in 1..(i - 1) : order[j] # order[i]}
        new(a) == Cardinality({i \in firsts : i <= Min({j \in DOMAIN order : order[j] = a})})
        moved(n) == [n EXCEPT !.children = [i \in DOMAIN @ |-> new(@[i])]]
        at == ascending(firsts)
    IN  [heap |-> [i \in DOMAIN at |-> moved(heap[order[at[i]]])],
         first |-> [m1 EXCEPT !.root = new(@)], second |-> [m2 EXCEPT !.root = new(@)]]

\* A plausible mistake: the node is edited in place, shared or not.
make_mut_in_place(heap, a, shared) == a

\* Arc::make_mut and Arc::get_mut: where the edited node goes.  shared holds the
\* addresses that another map can reach.
make_mut(heap, a, shared) == IF a \in shared THEN fresh(heap) ELSE a

----------------------------------------------------------------------------
\* Lookup.

\* partition_point over the separators, as a position in children.
child_index(node, k) == Cardinality({i \in DOMAIN node.keys : node.keys[i] <= k}) + 1

\* The position of k among the entries: where it is or where it belongs.
slot(entries, k) == Cardinality({i \in DOMAIN entries : entries[i][1] < k}) + 1
holds(entries, k) == slot(entries, k) \in DOMAIN entries /\ entries[slot(entries, k)][1] = k

\* get: {} or {v}
RECURSIVE get(_, _, _)
get(heap, a, k) ==
    LET n == heap[a]
    IN  IF n.leaf
        THEN IF holds(n.entries, k) THEN {n.entries[slot(n.entries, k)][2]} ELSE {}
        ELSE IF child_index(n, k) \notin DOMAIN n.children THEN {}
        ELSE get(heap, n.children[child_index(n, k)], k)

\* first_key: {} or {k}
RECURSIVE first_key(_, _)
first_key(heap, a) ==
    LET n == heap[a]
    IN  IF n.leaf
        THEN {n.entries[i][1] : i \in DOMAIN n.entries \cap {1}}
        ELSE UNION {first_key(heap, n.children[i]) : i \in DOMAIN n.children \cap {1}}

----------------------------------------------------------------------------
\* Insertion.  A result is [heap, at, old, split]: the address of the edited
\* node, the replaced value ({} or {v}) and, if the node overflowed, the
\* separator and the address of its new right sibling ({} or {<<k, a>>}).

leaf_split(heap, at, es) ==
    LET m == Len(es) \div 2
        h == write(heap, at, Leaf(SubSeq(es, 1, m)))
    IN  [heap |-> write(h, fresh(h), Leaf(SubSeq(es, m + 1, Len(es)))),
         at |-> at, old |-> {}, split |-> {<<es[m + 1][1], fresh(h)>>}]

\* The leaf arm of insert_rec.
insert_leaf(heap, at, n, k, v) ==
    LET i == slot(n.entries, k)
        es == InsertAt(n.entries, i, <<k, v>>)
    IN  IF holds(n.entries, k)
        THEN [heap |-> write(heap, at, Leaf([n.entries EXCEPT ![i] = <<k, v>>])),
              at |-> at, old |-> {n.entries[i][2]}, split |-> {}]
        ELSE IF Len(es) > MAX_FANOUT THEN leaf_split(heap, at, es)
        ELSE [heap |-> write(heap, at, Leaf(es)), at |-> at, old |-> {}, split |-> {}]

\* The rest of the internal arm, after the child in position i was edited.
link_child(at, n, i, r) ==
    LET kids == [n.children EXCEPT ![i] = r.at]
        s == CHOOSE x \in r.split : TRUE
        keys == InsertAt(n.keys, i, s[1])
        wide == InsertAt(kids, i + 1, s[2])
        m == Len(wide) \div 2
        left == Internal(SubSeq(keys, 1, m - 1), SubSeq(wide, 1, m))
        right == Internal(SubSeq(keys, m + 1, Len(keys)), SubSeq(wide, m + 1, Len(wide)))
    IN  IF r.split = {}
        THEN [heap |-> write(r.heap, at, Internal(n.keys, kids)),
              at |-> at, old |-> r.old, split |-> {}]
        ELSE IF Len(wide) <= MAX_FANOUT
        THEN [heap |-> write(r.heap, at, Internal(keys, wide)),
              at |-> at, old |-> r.old, split |-> {}]
        ELSE LET h == write(r.heap, at, left)
             IN  [heap |-> write(h, fresh(h), right), at |-> at, old |-> r.old,
                  split |-> {<<keys[m], fresh(h)>>}]

RECURSIVE insert_rec(_, _, _, _, _)
insert_rec(heap, a, k, v, shared) ==
    LET n == heap[a]
        at == make_mut(heap, a, shared)
        i == child_index(n, k)
    IN  IF n.leaf THEN insert_leaf(heap, at, n, k, v)
        ELSE link_child(at, n, i,
                        insert_rec(write(heap, at, n), n.children[i], k, v, shared))

\* A map is [root, height, len].
\* insert: the map after the call, and the heap.
insert(heap, m, k, v, shared) ==
    LET r == insert_rec(heap, m.root, k, v, shared)
        s == CHOOSE x \in r.split : TRUE
        grown == write(r.heap, fresh(r.heap), Internal(<<s[1]>>, <<r.at, s[2]>>))
        len == IF r.old = {} THEN m.len + 1 ELSE m.len
    IN  IF r.split = {}
        THEN [heap |-> r.heap, map |-> [root |-> r.at, height |-> m.height, len |-> len]]
        ELSE [heap |-> grown,
              map |-> [root |-> fresh(r.heap), height |-> m.height + 1, len |-> len]]

----------------------------------------------------------------------------
\* Removal.

is_empty(n) == IF n.leaf THEN n.entries = <<>> ELSE n.children = <<>>

\* drop_if_empty
drop_if_empty(heap, n, i) ==
    IF ~is_empty(heap[n.children[i]]) THEN n
    ELSE Internal(IF n.keys = <<>> THEN n.keys
                  ELSE RemoveAt(n.keys, IF i = 1 THEN 1 ELSE i - 1),
                  RemoveAt(n.children, i))

\* remove_rec and, below the first shared node, remove_copied: nothing is
\* written unless the key is there.
RECURSIVE remove_rec(_, _, _, _)
remove_rec(heap, a, k, shared) ==
    LET n == heap[a]
        i == child_index(n, k)
        e == slot(n.entries, k)
        at == make_mut(heap, a, shared)
    IN  IF n.leaf
        THEN IF ~holds(n.entries, k) THEN [heap |-> heap, at |-> a, old |-> {}]
             ELSE [heap |-> write(heap, at, Leaf(RemoveAt(n.entries, e))),
                   at |-> at, old |-> {n.entries[e][2]}]
        ELSE LET r == remove_rec(heap, n.children[i], k, shared)
                 to == make_mut(r.heap, a, shared)
                 kept == Internal(n.keys, [n.children EXCEPT ![i] = r.at])
             IN  IF r.old = {} THEN [heap |-> heap, at |-> a, old |-> {}]
                 ELSE [heap |-> write(r.heap, to, drop_if_empty(r.heap, kept, i)),
                       at |-> to, old |-> r.old]

\* A root with a single child gives way to it.
RECURSIVE collapsed(_, _)
collapsed(heap, m) ==
    IF ~heap[m.root].leaf /\ Len(heap[m.root].children) = 1
    THEN collapsed(heap, [m EXCEPT !.root = heap[m.root].children[1], !.height = @ - 1])
    ELSE m

\* new
empty_at(heap) ==
    [heap |-> write(heap, fresh(heap), Leaf(<<>>)),
     map |-> [root |-> fresh(heap), height |-> 0, len |-> 0]]

\* remove
remove(heap, m, k, shared) ==
    LET r == remove_rec(heap, m.root, k, shared)
    IN  IF r.old = {} THEN [heap |-> heap, map |-> m]
        ELSE IF m.len = 1 THEN empty_at(r.heap)
        ELSE [heap |-> r.heap,
              map |-> collapsed(r.heap, [m EXCEPT !.root = r.at, !.len = @ - 1])]

-----------------------------------------------------------------------------
\* from_iter

\* The entries in key order, the last value of a key wins (a stable sort, then
\* later entries of a key overwrite earlier ones).
deduped(es) ==
    LET ks == ascending({es[i][1] : i \in DOMAIN es})
        last(k) == Max({i \in DOMAIN es : es[i][1] = k})
    IN  [j \in DOMAIN ks |-> es[last(ks[j])]]

\* even_chunks: the sizes of the groups.
even_chunks(n) ==
    LET up == (n + BULK_FILL - 1) \div BULK_FILL
        groups == IF up = 0 THEN 1 ELSE up
    IN  [i \in 1..groups |-> n \div groups + (IF i - 1 < n % groups THEN 1 ELSE 0)]

\* s cut into the groups.
chunks(s) ==
    LET sizes == even_chunks(Len(s))
        start(i) == FoldLeft(+, 0, SubSeq(sizes, 1, i - 1))
    IN  [i \in DOMAIN sizes |-> SubSeq(s, start(i) + 1, start(i) + sizes[i])]

\* One level of from_sorted: every group of [min, at] becomes a node.
parent_of(acc, group) ==
    LET node == Internal([i \in 1..(Len(group) - 1) |-> group[i + 1].min],
                         [i \in DOMAIN group |-> group[i].at])
        at == fresh(acc.heap)
    IN  [heap |-> write(acc.heap, at, node),
         level |-> Append(acc.level, [min |-> group[1].min, at |-> at])]

leaf_of(acc, chunk) ==
    LET at == fresh(acc.heap)
    IN  [heap |-> write(acc.heap, at, Leaf(chunk)),
         level |-> Append(acc.level, [min |-> chunk[1][1], at |-> at])]

RECURSIVE build_up(_, _, _, _)
build_up(heap, level, height, len) ==
    IF Len(level) = 1
    THEN [heap |-> heap, map |-> [root |-> level[1].at, height |-> height, len |-> len]]
    ELSE LET up == FoldLeft(parent_of, [heap |-> heap, level |-> <<>>], chunks(level))
         IN  build_up(up.heap, up.level, height + 1, len)

from_sorted(heap, es) ==
    IF es = <<>> THEN empty_at(heap)
    ELSE LET leaves == FoldLeft(leaf_of, [heap |-> heap, level |-> <<>>], chunks(es))
         IN  build_up(leaves.heap, leaves.level, 0, Len(es))

from_iter(heap, es) == from_sorted(heap, deduped(es))

----------------------------------------------------------------------------
\* Iteration.  An iterator is [stack, leaf, pos]: the ancestors with the next
\* child to visit, the entries of the current leaf and the next position.

no_iter == [stack |-> <<>>, leaf |-> <<>>, pos |-> 1]

RECURSIVE descend_leftmost(_, _, _)
descend_leftmost(heap, stack, a) ==
    LET n == heap[a]
    IN  IF n.leaf THEN [stack |-> stack, leaf |-> n.entries, pos |-> 1]
        ELSE IF n.children = <<>> THEN [stack |-> stack, leaf |-> <<>>, pos |-> 1]
        ELSE descend_leftmost(heap, Append(stack, <<n.children, 2>>), n.children[1])

\* seek: the first entry >= k (> k if not inclusive).
RECURSIVE seek(_, _, _, _, _)
seek(heap, stack, a, k, inclusive) ==
    LET n == heap[a]
        below == {i \in DOMAIN n.entries :
                     n.entries[i][1] < k \/ (~inclusive /\ n.entries[i][1] = k)}
    IN  IF n.leaf THEN [stack |-> stack, leaf |-> n.entries, pos |-> Cardinality(below) + 1]
        ELSE IF n.children = <<>> THEN [no_iter EXCEPT !.stack = stack]
        ELSE seek(heap, Append(stack, <<n.children, child_index(n, k) + 1>>),
                  n.children[child_index(n, k)], k, inclusive)

\* Iter::next until it returns None: all the entries that are still to come.
RECURSIVE drain(_, _)
drain(heap, it) ==
    LET frame == Last(it.stack)
        above == Front(it.stack)
    IN  IF it.pos \in DOMAIN it.leaf
        THEN <<it.leaf[it.pos]>> \o drain(heap, [it EXCEPT !.pos = @ + 1])
        ELSE IF it.stack = <<>> THEN <<>>
        ELSE IF frame[2] \in DOMAIN frame[1]
        THEN drain(heap, descend_leftmost(heap, Append(above, <<frame[1], frame[2] + 1>>),
                                          frame[1][frame[2]]))
        ELSE drain(heap, [stack |-> above, leaf |-> <<>>, pos |-> 1])

iter(heap, m) == drain(heap, descend_leftmost(heap, <<>>, m.root))

\* Range from a lower bound (included or excluded) to an included upper bound:
\* the iterator stops for good at the first entry beyond it.
range(heap, m, lo, inclusive, hi) ==
    LET es == drain(heap, seek(heap, <<>>, m.root, lo, inclusive))
        beyond == {i \in DOMAIN es : es[i][1] > hi}
    IN  IF beyond = {} THEN es ELSE SubSeq(es, 1, Min(beyond) - 1)

----------------------------------------------------------------------------
\* Differences.  A cursor is a stack of frames [nodes, items, idx, height].

cursor(m) == <<[nodes |-> TRUE, items |-> <<m.root>>, idx |-> 1, height |-> m.height]>>

\* head drops exhausted frames.
RECURSIVE trimmed(_)
trimmed(c) ==
    IF c = <<>> THEN c
    ELSE IF Last(c).idx \in DOMAIN Last(c).items THEN c ELSE trimmed(Front(c))

head(c) == Last(c).items[Last(c).idx]

skip(c) == [c EXCEPT ![Len(c)].idx = @ + 1]

\* expand: the subtree at the head is replaced by what it holds.
expand(heap, c) ==
    LET n == heap[head(c)]
    IN  Append(skip(c),
               IF n.leaf
               THEN [nodes |-> FALSE, items |-> n.entries, idx |-> 1, height |-> 0]
               ELSE [nodes |-> TRUE, items |-> n.children, idx |-> 1,
                     height |-> IF Last(c).height = 0 THEN 0 ELSE Last(c).height - 1])

\* frame_height
frame_height(c) == IF Last(c).nodes THEN Last(c).height ELSE 0

\* advance_nodes: two subtrees at the heads.
advance_nodes(heap, l, r) ==
    LET lk == first_key(heap, head(l))
        rk == first_key(heap, head(r))
        less(x, y) == \E p \in x, q \in y : p < q
    IN  CASE head(l) = head(r) -> <<skip(l), skip(r)>>
          [] head(l) # head(r) /\ lk = {} -> <<skip(l), r>>
          [] head(l) # head(r) /\ lk # {} /\ rk = {} -> <<l, skip(r)>>
          [] head(l) # head(r) /\ less(lk, rk) -> <<expand(heap, l), r>>
          [] head(l) # head(r) /\ less(rk, lk) -> <<l, expand(heap, r)>>
          [] OTHER ->
               <<IF frame_height(l) >= frame_height(r) THEN expand(heap, l) ELSE l,
                 IF frame_height(r) >= frame_height(l) THEN expand(heap, r) ELSE r>>

removed(e) == [kind |-> "remove", old |-> {e}, new |-> {}]
added(e) == [kind |-> "add", old |-> {}, new |-> {e}]
updated(e, f) == [kind |-> "update", old |-> {e}, new |-> {f}]

\* One turn of the loop of next_item on trimmed cursors: the items it yields
\* (none or one) and the cursors after it.
diff_turn(heap, l, r) ==
    LET le == l # <<>> /\ ~Last(l).nodes
        re == r # <<>> /\ ~Last(r).nodes
        ln == l # <<>> /\ Last(l).nodes
        rn == r # <<>> /\ Last(r).nodes
        turn(items, l1, r1) == [items |-> items, l |-> l1, r |-> r1]
        lfirst == first_key(heap, head(l))
        rfirst == first_key(heap, head(r))
    IN  CASE le /\ r = <<>> -> turn(<<removed(head(l))>>, skip(l), r)
          [] l = <<>> /\ re -> turn(<<added(head(r))>>, l, skip(r))
          [] ln /\ r = <<>> -> turn(<<>>, expand(heap, l), r)
          [] l = <<>> /\ rn -> turn(<<>>, l, expand(heap, r))
          [] le /\ re ->
               IF head(l)[1] < head(r)[1] THEN turn(<<removed(head(l))>>, skip(l), r)
               ELSE IF head(l)[1] > head(r)[1] THEN turn(<<added(head(r))>>, l, skip(r))
               ELSE turn(IF head(l)[2] = head(r)[2] THEN <<>> ELSE <<updated(head(l), head(r))>>,
                         skip(l), skip(r))
          [] ln /\ rn ->
               LET p == advance_nodes(heap, l, r) IN turn(<<>>, p[1], p[2])
          [] ln /\ re ->
               IF lfirst = {} THEN turn(<<>>, skip(l), r)
               ELSE IF \E k \in lfirst : k > head(r)[1]
               THEN turn(<<added(head(r))>>, l, skip(r))
               ELSE turn(<<>>, expand(heap, l), r)
          [] OTHER ->
               IF rfirst = {} THEN turn(<<>>, l, skip(r))
               ELSE IF \E k \in rfirst : k > head(l)[1]
               THEN turn(<<removed(head(l))>>, skip(l), r)
               ELSE turn(<<>>, l, expand(heap, r))

RECURSIVE diff_from(_, _, _)
diff_from(heap, l, r) ==
    IF l = <<>> /\ r = <<>> THEN <<>>
    ELSE LET t == diff_turn(heap, l, r)
         IN  t.items \o diff_from(heap, trimmed(t.l), trimmed(t.r))

\* diff: all the items, in order.
diff(heap, old, new) == diff_from(heap, trimmed(cursor(old)), trimmed(cursor(new)))

-----------------------------------------------------------------------------
\* Two maps that share nodes: one that is changed and a clone that is kept, as
\* SharedState is used (src/state/at.rs clones the state per event and changes it).

CONSTANTS
    Key,        \* a set of naturals
    Entries,    \* the <<key, value>> pairs that may be inserted
    Bulk        \* the sequences of entries that from_iter is given

VARIABLES
    heap,       \* [address -> node]
    cur,        \* the map that is changed
    snap,       \* the clone
    want        \* [cur, snap]: what the two maps should hold

vars == <<heap, cur, snap, want>>

Init ==
    \E e \in {empty_at([a \in {} |-> {}])} :
        /\ heap = e.heap
        /\ cur = e.map
        /\ snap = e.map
        /\ want = [cur |-> [k \in {} |-> {}], snap |-> [k \in {} |-> {}]]

\* What the other map can reach.
Shared == reachable(heap, snap.root)

\* The maps and the heap after a step; what neither map holds is freed.
Keep(h, m1, m2) ==
    \E c \in {collected(h, m1, m2)} :
        heap' = c.heap /\ cur' = c.first /\ snap' = c.second

Change(r, f) ==
    /\ Keep(r.heap, r.map, snap)
    /\ want' = [want EXCEPT !.cur = f]

Insert(k, v) ==
    \E r \in {insert(heap, cur, k, v, Shared)} :
        Change(r, [j \in DOMAIN want.cur \cup {k} |-> IF j = k THEN v ELSE want.cur[j]])

RemoveKey(k) ==
    \E r \in {remove(heap, cur, k, Shared)} :
        Change(r, [j \in DOMAIN want.cur \ {k} |-> want.cur[j]])

FromIter(es) ==
    \E r \in {from_iter(heap, es)} :
        Change(r, [k \in {es[i][1] : i \in DOMAIN es} |->
                      es[Max({i \in DOMAIN es : es[i][1] = k})][2]])

\* clone
Clone ==
    /\ Keep(heap, cur, cur)
    /\ want' = [want EXCEPT !.snap = want.cur]

\* The clone is taken up again.
Restore ==
    /\ Keep(heap, snap, snap)
    /\ want' = [want EXCEPT !.cur = want.snap]

Next ==
    \/ \E e \in Entries : Insert(e[1], e[2])
    \/ \E k \in Key : RemoveKey(k)
    \/ \E es \in Bulk : FromIter(es)
    \/ Clone \/ Restore

Spec == Init /\ [][Next]_vars

----------------------------------------------------------------------------
sorted(f) == LET ks == ascending(DOMAIN f) IN [i \in DOMAIN ks |-> <<ks[i], f[ks[i]]>>]

\* Both maps hold exactly what was put into them, whichever way one asks: no
\* mutation of one map shows in the other (nodes are edited in place only if
\* their Arc is unique), and get, len, iteration and every range agree.
MapsAreExact ==
    \A p \in {<<cur, want.cur>>, <<snap, want.snap>>} :
        LET m == p[1]
            f == p[2]
            all == sorted(f)
        IN  /\ iter(heap, m) = all
            /\ m.len = Cardinality(DOMAIN f)
            /\ \A k \in Key : get(heap, m.root, k) = (IF k \in DOMAIN f THEN {f[k]} ELSE {})
            /\ \A lo, hi \in Key, inc \in BOOLEAN :
                 range(heap, m, lo, inc, hi) =
                    SelectSeq(all, LAMBDA e : /\ lo < e[1] \/ (inc /\ lo = e[1])
                                              /\ e[1] <= hi)

RECURSIVE WellFormed(_, _)
WellFormed(a, height) ==
    LET n == heap[a]
    IN  /\ n.leaf <=> height = 0
        /\ Len(n.entries) <= MAX_FANOUT /\ Len(n.children) <= MAX_FANOUT
        /\ ~n.leaf => Len(n.keys) + 1 = Len(n.children)
        /\ \A i \in DOMAIN n.children : WellFormed(n.children[i], height - 1)

\* All leaves lie at the recorded height and no node is overfull or has the
\* wrong number of separators, although removal never rebalances.
TreesAreWellFormed ==
    \A m \in {cur, snap} : WellFormed(m.root, m.height)

\* diff reports every difference once, in key order, and nothing else, although
\* it never looks into a subtree that both maps share and the two trees may
\* have different heights.
DiffIsExact ==
    LET old == want.snap
        new == want.cur
        changed == {k \in DOMAIN old \cup DOMAIN new :
                      ~(k \in DOMAIN old /\ k \in DOMAIN new /\ old[k] = new[k])}
        item(k) == IF k \notin DOMAIN new THEN removed(<<k, old[k]>>)
                   ELSE IF k \notin DOMAIN old THEN added(<<k, new[k]>>)
                   ELSE updated(<<k, old[k]>>, <<k, new[k]>>)
        ks == ascending(changed)
    IN  diff(heap, snap, cur) = [i \in DOMAIN ks |-> item(ks[i])]
=============================================================================

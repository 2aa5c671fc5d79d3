------------------------------ MODULE HamtStore ------------------------------
(***************************************************************************)
(* A state store built on src/hamt as its publication contracts ask for:   *)
(* mutations are turned into steps (persist_mutation, persist_mutations,   *)
(* persist_chain), the created nodes of a step are written one by one, the *)
(* root is published through a LinearRootChain, and the hashes that the    *)
(* chain reports as zeroed are deleted.                                    *)
(*                                                                         *)
(* The library computes, the caller stores.  The caller is not part of the *)
(* repository.  It does what the contracts ask for: one writer, and the    *)
(* created nodes of a step before its root.  They do not say how early     *)
(* these may be written, so there are two kinds of caller.  The eager one  *)
(* writes the nodes of every step under way whenever it likes.  The        *)
(* patient one follows a rule that is an assumption of this module: it     *)
(* writes nodes of the next step only, and only when no retirement is      *)
(* pending and everything reported has been deleted.  Both delete what was *)
(* reported before they publish again.                                     *)
(*                                                                         *)
(* Faults: the process dies at any point and keeps only the store and the  *)
(* published root, and a record of the store is replaced by the bytes of   *)
(* another node.  To keep the model small, they happen to the patient      *)
(* caller only, and the eager one writes all nodes of a step together.     *)
(***************************************************************************)
EXTENDS Hamt

CONSTANTS
    Value,      \* the values of the map
    Batches,    \* sequences of mutations that a caller may ask for
    MaxFaults,  \* how often the process may die or a record be damaged
    MaxLate     \* how many requests may come after the first fault

VARIABLES
    patient,    \* whether the caller is the patient one
    store,      \* [hash -> the node that the record holds]
    chain,      \* the LinearRootChain
    previous,   \* {r} while the root r awaits its retirement, {} otherwise
    zeroed,     \* what the last call of the chain reported, until deleted
    steps,      \* the steps that are persisted but not yet published
    deleted,    \* nodes deleted although they were written for a step under way
    published,  \* {delta} of the last publication until its answer arrives
    crashes,    \* how often the process has died
    rots,       \* how often a record was damaged
    late        \* requests since the first fault or such a deletion

vars == <<patient, store, chain, previous, zeroed, steps, deleted, published, crashes, rots, late>>

\* The entries that a caller may put, and every trie over them.
AllEntries ==
    UNION {{entry(m.key, v) : v \in m.value} : m \in UNION {ToSet(ms) : ms \in Batches}}

AllRoots ==
    {b.node : b \in {c \in {build_hamt(es) :
                               es \in {ds \in SUBSET AllEntries :
                                         \A d, e \in ds : d.key = e.key => d = e}} :
                     c.err = ""}}

\* RefcountTable and LinearRootChain.
RC == INSTANCE RootChain WITH Root <- AllRoots, Reach <- subtree

\* A step on its way: its root, the values it displaces, the nodes it created
\* and those of them that are not yet written, and the mutations it stands for.
step(r, ms) ==
    [root |-> r.root, displaced |-> r.displaced, created |-> r.created,
     unwritten |-> r.created, mutations |-> ms]

Init ==
    /\ patient \in BOOLEAN
    /\ store = [h \in {EmptyNode} |-> h]
    /\ chain = RC!bootstrap(RC!once({EmptyNode}), EmptyNode)
    /\ previous = {} /\ zeroed = {} /\ steps = <<>> /\ deleted = {} /\ published = {}
    /\ crashes = 0 /\ rots = 0 /\ late = 0

\* Children are read from the store, or are still in memory.
Readable == {loadable(store), loadable(store) \cup subtree(chain.current_root)}

\* The nodes that are written for steps under way.
Written == UNION {steps[i].created \ steps[i].unwritten : i \in DOMAIN steps}

\* One node, so that the process can die in between, or all that are left.
written_together(unwritten) ==
    IF patient THEN {{h} : h \in unwritten} ELSE {unwritten} \ {{}}

Intact == rots = 0 /\ deleted = {}

\* The one writer takes the next request.
Idle ==
    /\ steps = <<>> /\ zeroed = {}
    /\ published' = {}
    /\ late' = IF Intact /\ crashes = 0 THEN 0 ELSE late + 1
    /\ late' <= MaxLate

\* persist_mutations (persist_mutation for a single one): one step.
PersistBatch(ms) ==
    /\ Idle
    /\ \E avail \in Readable :
         \E r \in {persist_mutations(chain.current_root, ms, avail)} :
            /\ r.err = ""
            /\ steps' = <<step(r, ms)>>
    /\ UNCHANGED <<patient, store, chain, previous, zeroed, deleted, crashes, rots>>

PersistOne(ms) ==
    /\ Idle
    /\ Len(ms) = 1
    /\ \E avail \in Readable :
         \E r \in {persist_mutation(chain.current_root, ms[1], avail)} :
            /\ r.err = ""
            /\ steps' = <<step(r, ms)>>
    /\ UNCHANGED <<patient, store, chain, previous, zeroed, deleted, crashes, rots>>

\* persist_chain: a step per mutation.
PersistChain(ms) ==
    /\ Idle
    /\ \E avail \in Readable :
         \E r \in {persist_chain(chain.current_root, ms, avail)} :
            /\ r.err = ""
            /\ steps' = [i \in 1..Len(ms) |-> step(r.steps[i], <<ms[i]>>)]
    /\ UNCHANGED <<patient, store, chain, previous, zeroed, deleted, crashes, rots>>

\* The caller writes created nodes of a step.
Write ==
    /\ published' = {}
    /\ \E i \in DOMAIN steps : \E W \in written_together(steps[i].unwritten) :
         /\ patient => i = 1 /\ zeroed = {} /\ chain.pending_retirement = {}
         /\ store' = [h \in DOMAIN store \cup W |-> IF h \in W THEN h ELSE store[h]]
         /\ steps' = [steps EXCEPT ![i].unwritten = @ \ W]
    /\ UNCHANGED <<patient, chain, previous, zeroed, deleted, crashes, rots, late>>

\* The difference that the caller takes from the current root to the next one,
\* whose new nodes are still in memory.
next_delta(avail) ==
    LET d == diff_node_hashes(chain.current_root, Head(steps).root,
                              avail \cup (subtree(Head(steps).root)
                                           \ subtree(chain.current_root)))
    IN  [err |-> d.err, superseded |-> RC!once(d.superseded), new |-> RC!once(d.new)]

Publishable ==
    /\ steps # <<>> /\ zeroed = {}
    /\ Head(steps).unwritten = {}
    /\ chain.pending_retirement = {}

\* The next root is published and the current one stays readable.
PublishKeeping ==
    /\ Publishable
    /\ \E avail \in Readable : \E d \in {next_delta(avail)} :
         /\ d.err = ""
         /\ chain' = RC!transition(chain, d, Head(steps).root)
         /\ published' = {d}
    /\ previous' = {chain.current_root}
    /\ zeroed' = {}
    /\ steps' = Tail(steps)
    /\ UNCHANGED <<patient, store, deleted, crashes, rots, late>>

\* The next root is published and the current one given up at once.
PublishReplacing ==
    /\ Publishable
    /\ \E avail \in Readable : \E d \in {next_delta(avail)} :
         \E r \in {RC!advance(chain, d, Head(steps).root)} :
            /\ d.err = ""
            /\ ~r.err
            /\ chain' = r.chain
            /\ zeroed' = r.zeroed
            /\ published' = {d}
    /\ steps' = Tail(steps)
    /\ UNCHANGED <<patient, store, previous, deleted, crashes, rots, late>>

\* The difference cannot be taken because a record is damaged or deleted: the
\* caller gives up the steps under way.
Abandon ==
    /\ Publishable
    /\ \E avail \in Readable : next_delta(avail).err # ""
    /\ steps' = <<>>
    /\ UNCHANGED <<patient, store, chain, previous, zeroed, deleted, published, crashes, rots, late>>

\* The caller did not see the answer of the last publication and repeats it.
RepeatPublication ==
    /\ published # {}
    /\ chain.pending_retirement = {}
    /\ \E d \in published : \E r \in {RC!advance(chain, d, chain.current_root)} :
         /\ chain' = r.chain
         /\ zeroed' = IF r.err THEN zeroed ELSE r.zeroed
    /\ published' = {}
    /\ UNCHANGED <<patient, store, previous, steps, deleted, crashes, rots, late>>

\* The previous root is retired.
Retire ==
    /\ chain.pending_retirement # {} /\ zeroed = {}
    /\ published' = {}
    /\ \E r \in {RC!retire_previous(chain)} :
         /\ chain' = r.chain
         /\ previous' = IF r.err THEN previous ELSE {}
         /\ zeroed' = r.zeroed
    /\ UNCHANGED <<patient, store, steps, deleted, crashes, rots, late>>

\* The caller deletes what the chain reported.
Reap ==
    /\ zeroed # {}
    /\ zeroed' = {}
    /\ store' = [h \in DOMAIN store \ zeroed |-> store[h]]
    /\ deleted' = deleted \cup (zeroed \cap Written)
    /\ UNCHANGED <<patient, chain, previous, steps, published, crashes, rots, late>>

\* The process dies.  What is written stays, steps under way and the pending
\* retirement are forgotten, and the table is rebuilt by a walk over the
\* published root, which needs every record of it.
Crash ==
    /\ patient /\ crashes + rots < MaxFaults
    /\ ~walk_fails(chain.current_root, loadable(store))
    /\ chain' = RC!bootstrap(RC!once(subtree(chain.current_root)), chain.current_root)
    /\ previous' = {} /\ zeroed' = {} /\ steps' = <<>> /\ published' = {}
    /\ crashes' = crashes + 1
    /\ UNCHANGED <<patient, store, deleted, rots, late>>

\* An offline sweep deletes what the audit finds unreachable.
Sweep ==
    /\ steps = <<>>
    /\ \E a \in {node_reachability_audit({chain.current_root} \cup previous,
                                         DOMAIN store, loadable(store))} :
         /\ a.err = ""
         /\ a.unreachable # {}
         /\ store' = [h \in DOMAIN store \ a.unreachable |-> store[h]]
    /\ UNCHANGED <<patient, chain, previous, zeroed, steps, deleted, published, crashes, rots, late>>

\* A record is replaced by the bytes of another node.
Rot ==
    /\ patient /\ crashes + rots < MaxFaults
    /\ \E h \in DOMAIN store :
         /\ DOMAIN store # {h}
         /\ store' = [store EXCEPT ![h] = CHOOSE g \in DOMAIN store : g # h]
    /\ rots' = rots + 1
    /\ UNCHANGED <<patient, chain, previous, zeroed, steps, deleted, published, crashes, late>>

\* The last request within the bound has been served.
Done ==
    /\ late = MaxLate /\ steps = <<>> /\ zeroed = {}
    /\ UNCHANGED vars

Next ==
    \/ \E ms \in Batches : PersistOne(ms) \/ PersistBatch(ms) \/ PersistChain(ms)
    \/ Write
    \/ PublishKeeping \/ PublishReplacing \/ Abandon \/ RepeatPublication
    \/ Retire \/ Reap
    \/ Crash \/ Sweep \/ Rot \/ Done

Spec == Init /\ [][Next]_vars

----------------------------------------------------------------------------
LiveRoots == {chain.current_root} \cup previous

\* The roots that readers may hold or are about to get.
KnownRoots == LiveRoots \cup {steps[i].root : i \in DOMAIN steps}

\* The value of every key in a trie, {} if it has none.
contents(root) == [k \in Key |-> {e.value : e \in {f \in entries(root) : f.key = k}}]

\* Every root that the chain still serves has a record for each of its nodes, if
\* the caller is patient: what persist_* returns as created is enough, and what the
\* chain reports as zeroed is not too much, whatever the order of publishing,
\* retiring, deleting and dying.  The rule of the patient caller is needed, as the
\* chain does not count a node before its root is published: of an eager caller's
\* roots those nodes can be missing that it wrote for a step under way and then
\* deleted as reported, and no others.
PublishedRootsAreComplete ==
    /\ patient => deleted = {}
    /\ \A r \in LiveRoots : subtree(r) \subseteq DOMAIN store \cup deleted

\* As long as nothing has failed, the store holds nothing but the nodes of live
\* roots, the ones written for steps under way, and the reported ones: the
\* superseded hashes of diff_node_hashes are complete, so deleting the zeroed ones
\* leaks nothing.
NothingLeaks ==
    Intact /\ crashes = 0 =>
        DOMAIN store \subseteq UNION {subtree(r) : r \in LiveRoots} \cup zeroed \cup Written

\* Path copying keeps the trie canonical: a root that came about by inserts and
\* removals, split and collapsed in any order, is the node that build_hamt
\* makes of the same entries (so equal maps have equal hashes).
TriesAreCanonical ==
    \A r \in KnownRoots : build_hamt(entries(r)).node = r

\* The displaced values that a step returns are the ones that its mutations
\* really replace, one after the other (the caller subtracts them from the
\* lattice hash of the state).
before(ms, i) == [j \in 1..(i - 1) |-> ms[j]]
DisplacedIsExact ==
    steps # <<>> =>
        \A i \in DOMAIN Head(steps).mutations :
            LET ms == Head(steps).mutations
                map == FoldLeft(LAMBDA f, m : [f EXCEPT ![m.key] = m.value],
                                contents(chain.current_root), before(ms, i))
            IN  Head(steps).displaced[i] = map[ms[i].key]

\* A lookup answers with what the published trie says or with an error, never
\* with a wrong value or a false absence, even if records of the store were
\* swapped; search and the level by level descent agree; without damage or a
\* premature deletion there is no error.  (The descent knows keys by their routing hash only.)
ReadsNeverLie ==
    \A r \in LiveRoots :
        LET map == contents(r)
            level == descend({<<r, k>> : k \in Key}, 0, store)
            wanted(k) == UNION {map[j] : j \in {i \in Key : Path[i] = Path[k]}}
        IN  /\ \A k \in Key : search(r, k, 0, store)
                                \in {found(map[k]), [err |-> "resolve", found |-> {}]}
            /\ Intact => \A k \in Key : search(r, k, 0, store).err = ""
            /\ Intact => level.err = ""
            /\ level.err = "" =>
                 \A k \in Key : /\ {p[2] : p \in {q \in level.found : q[1] = k}} = wanted(k)
                                /\ k \in level.absent <=> wanted(k) = {}

\* diff_nodes reports exactly the entries that two tries do not share, also
\* where a leaf of one trie became a subtree of the other, or an error when a
\* record it needs is damaged or deleted.
DiffsAreExact ==
    LET avail == loadable(store) \cup UNION {subtree(steps[i].root) : i \in DOMAIN steps}
    IN  \A a, b \in KnownRoots : \E d \in {diff_nodes(a, b, avail)} :
            /\ Intact => d.err = ""
            /\ d.err = "" => /\ d.added = entries(b) \ entries(a)
                             /\ d.removed = entries(a) \ entries(b)

\* The audit finds exactly the records that no live root reaches, although it
\* walks a shared subtree only once; it gives no answer if it could not read a
\* node on the way.
AuditIsExact ==
    LET live == UNION {subtree(r) : r \in LiveRoots}
        a == node_reachability_audit(LiveRoots, DOMAIN store, loadable(store))
    IN  /\ a.err = "" <=> live \ LiveRoots \subseteq loadable(store)
        /\ a.err = "" => a.unreachable = DOMAIN store \ live

\* The store has what the live roots need and nothing that nobody can reach:
\* publications, retirements, deletions and crashes in any order, for a caller that
\* writes no node while the chain may still report it; a caller that does loses
\* such nodes only.
StoreIsExact == PublishedRootsAreComplete /\ NothingLeaks

\* What is computed on tries is exact, after any history of inserts, removals,
\* crashes and damaged records: the trie itself, the values it displaced, lookups,
\* differences and audits.
TriesAreExact ==
    TriesAreCanonical /\ DisplacedIsExact /\ ReadsNeverLie /\ DiffsAreExact /\ AuditIsExact

----------------------------------------------------------------------------
\* What HamtStore implements.

KS == INSTANCE KeyedState WITH
        current <- contents(chain.current_root),
        queue <- [i \in DOMAIN steps |-> steps[i].mutations],
        Batches <- {<<ms>> : ms \in Batches}
                   \cup {[i \in DOMAIN ms |-> <<ms[i]>>] : ms \in Batches}

\* The reference counts follow RootChain: the differences that diff_node_hashes
\* takes are the exact ones of that specification, a repeated publication is
\* rejected without a trace, and a retirement never underflows.
ImplementsRootChain == RC!Spec

\* The published contents follow KeyedState: every accepted step is published
\* whole and in order, or lost with all steps after it when the process dies.
ImplementsKeyedState == KS!Spec
=============================================================================

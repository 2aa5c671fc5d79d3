----------------------------- MODULE RootChain -----------------------------
(***************************************************************************)
(* The life of a LinearRootChain (src/hamt/gc.rs) over a linear history of *)
(* roots: what the reference counts promise when every delta is the exact  *)
(* difference of two adjacent roots.                                       *)
(*                                                                         *)
(* This is the specification that HamtStore implements with real tries;    *)
(* here a root is any value and Reach gives the hashes of its nodes.       *)
(***************************************************************************)
EXTENDS Naturals

(***************************************************************************)
(* RefcountTable and LinearRootChain of src/hamt/gc.rs as pure operators.  *)
(*                                                                         *)
(* A node hash is any value.  The table is a function from the tracked     *)
(* hashes to their counts.  The lists of hashes that the code takes are    *)
(* tallies: a function from the hashes of the list to how often each one   *)
(* occurs.  Only the order of the list is lost, and it matters only for    *)
(* which hash an error names.                                              *)
(*                                                                         *)
(* A chain is the record                                                   *)
(*    counts              the table                                        *)
(*    current_root        the live root                                    *)
(*    pending_retirement  {} for None, {tally} for Some(list)              *)
(***************************************************************************)

\* RefcountTable::count
count(counts, h) == IF h \in DOMAIN counts THEN counts[h] ELSE 0

\* The tally of a list without repetitions.
once(hashes) == [h \in hashes |-> 1]

\* The empty table.
no_counts == once({})

\* RefcountTable::bootstrap and RefcountTable::apply_new
apply_new(counts, more) ==
    [h \in DOMAIN counts \cup DOMAIN more |-> count(counts, h) + count(more, h)]

\* The validation pass of apply_superseded: the hashes whose count cannot
\* absorb the decrements asked for.
underflows(counts, need) == {h \in DOMAIN need : count(counts, h) < need[h]}

\* The mutation pass of apply_superseded: a count that reaches zero is removed
\* from the table.
decremented(counts, need) ==
    [h \in {g \in DOMAIN counts : counts[g] > count(need, g)}
        |-> counts[h] - count(need, h)]

\* RefcountTable::apply_superseded
apply_superseded(counts, need) ==
    IF underflows(counts, need) # {}
    THEN [err |-> TRUE, counts |-> counts, zeroed |-> {}]
    ELSE [err |-> FALSE,
          counts |-> decremented(counts, need),
          zeroed |-> {h \in DOMAIN need : count(counts, h) = need[h]}]

\* LinearRootChain::bootstrap
bootstrap(hashes, root) ==
    [counts |-> apply_new(no_counts, hashes),
     current_root |-> root,
     pending_retirement |-> {}]

\* LinearRootChain::transition, once its assertion that nothing is pending
\* has passed.
transition(chain, delta, new_root) ==
    [counts |-> apply_new(chain.counts, delta.new),
     current_root |-> new_root,
     pending_retirement |-> {delta.superseded}]

\* A plausible mistake: the pending list is dropped without being applied.
retire_forgetting(chain) ==
    [err |-> FALSE, zeroed |-> {}, chain |-> [chain EXCEPT !.pending_retirement = {}]]

\* LinearRootChain::retire_previous, once something is known to be pending:
\* an error keeps the pending retirement.
retire_previous(chain) ==
    LET pending == CHOOSE p \in chain.pending_retirement : TRUE
        result == apply_superseded(chain.counts, pending)
    IN  [err |-> result.err,
         zeroed |-> result.zeroed,
         chain |-> IF result.err THEN chain
                   ELSE [counts |-> result.counts,
                         current_root |-> chain.current_root,
                         pending_retirement |-> {}]]

\* A plausible mistake in advance: the increments come before the validation.
advance_new_first(chain, delta, new_root) ==
    LET grown == apply_new(chain.counts, delta.new)
        result == apply_superseded(grown, delta.superseded)
    IN  [err |-> result.err,
         zeroed |-> result.zeroed,
         chain |-> IF result.err THEN [chain EXCEPT !.counts = grown]
                   ELSE [chain EXCEPT !.counts = result.counts,
                                      !.current_root = new_root]]

\* LinearRootChain::advance, once its assertion that nothing is pending has
\* passed: the decrements are validated and applied first, then the increments.
advance(chain, delta, new_root) ==
    LET result == apply_superseded(chain.counts, delta.superseded)
    IN  [err |-> result.err,
         zeroed |-> result.zeroed,
         chain |-> IF result.err THEN chain
                   ELSE [counts |-> apply_new(result.counts, delta.new),
                         current_root |-> new_root,
                         pending_retirement |-> chain.pending_retirement]]

-----------------------------------------------------------------------------
CONSTANTS
    Root,       \* the roots that the history may go through
    Reach(_)    \* the node hashes reachable from a root, its own included

VARIABLES
    chain,      \* the LinearRootChain
    previous,   \* {r} while the root r awaits its retirement, {} otherwise
    zeroed      \* the reclaimable hashes that the last call reported, until deleted

vars == <<chain, previous, zeroed>>

\* What diff_node_hashes promises for two adjacent roots.
delta(a, b) ==
    [superseded |-> once(Reach(a) \ Reach(b)),
     new |-> once(Reach(b) \ Reach(a))]

Init ==
    /\ \E r \in Root : chain = bootstrap(once(Reach(r)), r)
    /\ previous = {}
    /\ zeroed = {}

\* The next root is live and the current one stays live until it is retired.
Transition(b) ==
    /\ chain.pending_retirement = {}
    /\ chain' = transition(chain, delta(chain.current_root, b), b)
    /\ previous' = {chain.current_root}
    /\ zeroed' = {}

Retire ==
    /\ chain.pending_retirement # {}
    /\ chain' = retire_previous(chain).chain
    /\ zeroed' = retire_previous(chain).zeroed
    /\ previous' = IF retire_previous(chain).err THEN previous ELSE {}

\* The next root replaces the current one at once.
Advance(b) ==
    /\ chain.pending_retirement = {}
    /\ chain' = advance(chain, delta(chain.current_root, b), b).chain
    /\ zeroed' = advance(chain, delta(chain.current_root, b), b).zeroed
    /\ UNCHANGED previous

\* The caller has deleted what was reported.
Reap ==
    /\ zeroed' = {}
    /\ UNCHANGED <<chain, previous>>

\* The process restarts: the table is rebuilt by a walk over the current root,
\* and a root that awaited its retirement is forgotten.
Restart ==
    /\ chain' = bootstrap(once(Reach(chain.current_root)), chain.current_root)
    /\ previous' = {}
    /\ zeroed' = {}

Next ==
    \/ \E b \in Root : Transition(b) \/ Advance(b)
    \/ Retire
    \/ Reap
    \/ Restart

Spec == Init /\ [][Next]_vars

----------------------------------------------------------------------------
\* The roots that somebody may still read.
LiveRoots == {chain.current_root} \cup previous

LiveNodes == UNION {Reach(r) : r \in LiveRoots}

\* The table tracks exactly the nodes of the live roots, each with count one:
\* nothing live is missing from it and nothing dead stays in it.
CountsAreExact == chain.counts = once(LiveNodes)

\* A retirement is pending exactly while a previous root is kept, and what is
\* pending is what that root has and the current one has not.
PendingIsTheDifference ==
    chain.pending_retirement =
        {once(Reach(r) \ Reach(chain.current_root)) : r \in previous}

\* The hashes that retire_previous and advance report as reclaimable are not
\* reachable from any root that is live after the call.
ZeroedIsUnreachable == zeroed \cap LiveNodes = {}

\* retire_previous never reports an underflow in a linear history, so a pending
\* retirement can always be completed.
RetireNeverUnderflows ==
    chain.pending_retirement # {} => ~retire_previous(chain).err
=============================================================================

----------------------------- MODULE Delegation -----------------------------
(***************************************************************************)
(* Finding the endpoint of a server (resolve_delegation in                 *)
(* rezzy-cli/src/federation.rs): the well-known file first, then two SRV   *)
(* records; answers are cached for the life of the process, and the dial   *)
(* target of an SRV record is kept in a table of its own.                  *)
(***************************************************************************)
EXTENDS Naturals

CONSTANTS
    Worlds,     \* what may be published: [well_known, fed, legacy], each {} or {target}
    MaxFaults   \* bound on lookups that fail

VARIABLES
    world,
    delegation_cache,   \* {} or {answer}; an answer is {} or {endpoint}
    srv_targets,        \* {} or {the address to dial for the logical name}
    faults

vars == <<world, delegation_cache, srv_targets, faults>>

Init ==
    /\ world \in Worlds
    /\ delegation_cache = {} /\ srv_targets = {} /\ faults = 0

\* srv_lookup: a failed lookup of the preferred record leaves the answer open.
srv_lookup(fed_ok, legacy_ok) ==
    IF fed_ok /\ world.fed # {} THEN [found |-> world.fed, definitive |-> TRUE]
    ELSE IF legacy_ok /\ world.legacy # {} THEN [found |-> world.legacy, definitive |-> fed_ok]
    ELSE [found |-> {}, definitive |-> fed_ok /\ legacy_ok]

Fails(ok) == IF ok THEN 0 ELSE 1

\* base_url of a server name: the cache, or the lookups that are needed.
base_url(wk_ok, fed_ok, legacy_ok) ==
    /\ delegation_cache = {}
    /\ faults + Fails(wk_ok) + Fails(fed_ok) + Fails(legacy_ok) <= MaxFaults
    /\ faults' = faults + Fails(wk_ok) + Fails(fed_ok) + Fails(legacy_ok)
    /\ IF wk_ok /\ world.well_known # {}
       THEN delegation_cache' = {world.well_known} /\ UNCHANGED srv_targets
       ELSE \E srv \in {srv_lookup(fed_ok, legacy_ok)} :
              /\ srv_targets' = IF srv.found = {} THEN srv_targets ELSE srv.found
              /\ delegation_cache' =
                    IF ~(srv.definitive /\ wk_ok) THEN {}
                    ELSE IF srv.found = {} THEN {{}} ELSE {{"logical"}}
    /\ UNCHANGED world

Cached == delegation_cache # {} /\ UNCHANGED vars

Next == (\E w, f, l \in BOOLEAN : base_url(w, f, l)) \/ Cached

Spec == Init /\ [][Next]_vars

----------------------------------------------------------------------------
\* Where requests must go.
Published ==
    IF world.well_known # {} THEN world.well_known
    ELSE IF world.fed # {} THEN world.fed ELSE world.legacy

\* A cached answer is the published one: a lookup that failed for the moment never
\* decides for the rest of the process where requests go.
CachedIsPublished ==
    \A answer \in delegation_cache :
        (IF answer = {"logical"} THEN srv_targets ELSE answer) = Published
=============================================================================

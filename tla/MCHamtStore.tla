---------------------------- MODULE MCHamtStore ----------------------------
(* HamtStore on tries of three levels with two slots a node. *)
EXTENDS HamtStore

CONSTANTS k1, k2, k3, k4

\* k1 and k2 part at the last level only, k3 one level up, and k4 has the same
\* routing hash as k1: the two cannot be in one trie.
MCPath == (k1 :> <<1, 1, 1>>) @@ (k2 :> <<1, 1, 2>>) @@ (k3 :> <<1, 2, 1>>)
          @@ (k4 :> <<1, 1, 1>>)

Put(k, v) == [key |-> k, value |-> {v}]
Del(k) == [key |-> k, value |-> {}]

MCSingles == {<<Put(k, 1)>> : k \in Key} \cup {<<Del(k)>> : k \in {k1, k2}}
MCPairs == {<<Put(k2, 1), Put(k3, 1)>>, <<Put(k3, 1), Del(k3)>>, <<Del(k3), Put(k1, 2)>>}
MCBatches == MCSingles \cup MCPairs
=============================================================================

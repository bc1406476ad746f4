----------------------------- MODULE MCGossipKV -----------------------------
(* GossipKV on small instances.  Nodes, keys and values are interchangeable. *)
EXTENDS GossipKV, TLC

Interchangeable ==
  Permutations(Node) \cup Permutations(Key) \cup Permutations(Value)
=============================================================================

----------------------------- MODULE MCPeerLists -----------------------------
(* Four nodes for five lists, two peers and more slots than they can use:  *)
(* two or three nodes of one list in each of the loops, and nodes that     *)
(* pass from one side to the other.                                        *)
EXTENDS PeerLists, TLC

Symmetry == Permutations(Nodes)
=============================================================================

--------------------------- MODULE MCPeerRegistry ---------------------------
(* PeerRegistry on a small instance: two configured users with one address, *)
(* and a second address, so that requests compete for both keys.            *)
EXTENDS PeerRegistry, TLC

MCConfig == (1 :> "x") @@ (2 :> "x")
Symmetry == Permutations(Admins)
=============================================================================

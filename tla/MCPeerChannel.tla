--------------------------- MODULE MCPeerChannel ---------------------------
(* PeerChannel for TLC: two peers connected to each other. *)
EXTENDS PeerChannel, TLC

CONSTANTS a, b

MCNodes  == {a, b}
MCRemote == [n \in MCNodes |-> IF n = a THEN b ELSE a]

\* Sessions differ in nothing but their ids (used for safety properties only).
MCSymmetry == Permutations(Sessions)
=============================================================================

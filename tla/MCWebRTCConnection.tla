------------------------- MODULE MCWebRTCConnection -------------------------
(* Two peers that send one message each, or one that sends both.            *)
EXTENDS WebRTCConnection

CONSTANTS alice, bob, m1, m2

MCNodes    == {alice, bob}
MCRemote   == [n \in MCNodes |-> CHOOSE r \in MCNodes : r # n]
MCTwo      == {m1, m2}
MCOneWay   == [m \in MCTwo |-> alice]
MCBothWays == [m \in MCTwo |-> IF m = m1 THEN alice ELSE bob]
MCAttempts == [n \in MCNodes |-> IF n = alice THEN 2 ELSE 1]
=============================================================================

-------------------------- MODULE MCSignalingRelay --------------------------
(* Two peers that poll; two signals to one of them and one to the other.    *)
EXTENDS SignalingRelay

CONSTANTS a, b, offer, candidate, answer

MCNodes   == {a, b}
MCSignals == {offer, candidate, answer}
MCTarget  == [s \in MCSignals |-> IF s = answer THEN b ELSE a]
=============================================================================

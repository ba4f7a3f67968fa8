-------------------------- MODULE ChannelAgreement --------------------------
(***************************************************************************)
(* What the two ends of an authenticated channel promise together          *)
(* (claude-adr.md 2.2 and the handshake of javascript/peer-channel.js):    *)
(* the responder is ready only in a session the initiator has confirmed,   *)
(* an end that is over stays over, and each end gets ready at most once.   *)
(***************************************************************************)
CONSTANT Sessions

VARIABLES
    initiator,  \* initiator[s], responder[s]: "idle", "opening", "ready", "over"
    responder,
    confirmed   \* sessions in which the initiator has sent its confirmation

vars == <<initiator, responder, confirmed>>

Init ==
    /\ initiator = [s \in Sessions |-> "idle"]
    /\ responder = [s \in Sessions |-> "idle"]
    /\ confirmed = {}

\* A session is opened; the attempt may fail at once, and the peer be gone.
Open(s) ==
    /\ initiator[s] = "idle"
    /\ \E i \in {"opening", "over"}, r \in {"idle", "over"} :
          /\ initiator' = [initiator EXCEPT ![s] = i]
          /\ responder' = [responder EXCEPT ![s] = r]
    /\ UNCHANGED confirmed

Accept(s) ==
    /\ initiator[s] # "idle"
    /\ responder[s] = "idle"
    /\ responder' = [responder EXCEPT ![s] = "opening"]
    /\ UNCHANGED <<initiator, confirmed>>

Confirm(s) ==
    /\ initiator[s] = "opening"
    /\ responder[s] # "idle"
    /\ initiator' = [initiator EXCEPT ![s] = "ready"]
    /\ confirmed' = confirmed \cup {s}
    /\ UNCHANGED responder

Complete(s) ==
    /\ s \in confirmed
    /\ responder[s] = "opening"
    /\ responder' = [responder EXCEPT ![s] = "ready"]
    /\ UNCHANGED <<initiator, confirmed>>

\* Close, failure or stop: any ends, of any sessions that were opened.
End ==
    /\ \E I, R \in SUBSET {s \in Sessions : initiator[s] # "idle"} :
          /\ initiator' = [s \in Sessions |-> IF s \in I THEN "over" ELSE initiator[s]]
          /\ responder' = [s \in Sessions |-> IF s \in R THEN "over" ELSE responder[s]]
    /\ UNCHANGED confirmed

Next == (\E s \in Sessions : Open(s) \/ Accept(s) \/ Confirm(s) \/ Complete(s)) \/ End

Spec == Init /\ [][Next]_vars
=============================================================================

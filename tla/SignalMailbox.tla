--------------------------- MODULE SignalMailbox ---------------------------
(***************************************************************************)
(* What a peer may expect of its signaling path, whatever carries it       *)
(* (WebRTC-p2p-ADR.md: "isolate signaling and engine responsibilities"):   *)
(* each signal reaches its target at most once, in the order in which the  *)
(* signals to that target were posted.  A failure loses the oldest ones    *)
(* that wait or the one that arrives, never one out of the middle.         *)
(***************************************************************************)
EXTENDS Sequences, Naturals

CONSTANTS
    Nodes,    \* the peers
    Signals,  \* offers, answers and candidates, each posted once
    Target    \* Target[s]: the peer s is addressed to, Target \in [Signals -> Nodes]

VARIABLES
    posted,  \* the signals that were accepted
    box,     \* box[n]: what waits for n, oldest first
    handled  \* handled[n]: what n's transport was given, in order

mailVars == <<posted, box, handled>>

MailInit ==
    /\ posted  = {}
    /\ box     = [n \in Nodes |-> << >>]
    /\ handled = [n \in Nodes |-> << >>]

Post(s) ==
    /\ s \notin posted
    /\ posted' = posted \cup {s}
    /\ box' = [box EXCEPT ![Target[s]] = Append(@, s)]
    /\ UNCHANGED handled

\* Posted and lost on its arrival, also while older ones are being handed over.
PostAndLose(s) ==
    /\ s \notin posted
    /\ posted' = posted \cup {s}
    /\ UNCHANGED <<box, handled>>

Hand(n) ==
    /\ box[n] # << >>
    /\ handled' = [handled EXCEPT ![n] = Append(@, Head(box[n]))]
    /\ \E k \in 0 .. Len(Tail(box[n])) :
          box' = [box EXCEPT ![n] = SubSeq(Tail(@), k + 1, Len(Tail(@)))]
    /\ UNCHANGED posted

LoseOldest(n) ==
    /\ \E k \in 1 .. Len(box[n]) : box' = [box EXCEPT ![n] = SubSeq(@, k + 1, Len(@))]
    /\ UNCHANGED <<posted, handled>>

MailNext ==
    \/ \E s \in Signals : Post(s) \/ PostAndLose(s)
    \/ \E n \in Nodes : Hand(n) \/ LoseOldest(n)

MailSpec == MailInit /\ [][MailNext]_mailVars
=============================================================================

-------------------------- MODULE ReliableDelivery --------------------------
(***************************************************************************)
(* ACK-tracked messages over one READY channel: sendMessage, the           *)
(* OutboundMessageQueue with its retry timer, the receiver's ACK and the   *)
(* sender's #handleAck (javascript/peer-channel.js), in one direction; the *)
(* other direction is the same code with its own queue.                    *)
(*                                                                         *)
(* sendMessage awaits its first transmission BEFORE it enqueues, and the   *)
(* receiver awaits its ACK BEFORE it calls onMessageReceived: both awaits  *)
(* are two actions here.  Inline, SendMayFail and the guards on suspended  *)
(* handlers are those of PeerChannel.                                      *)
(*                                                                         *)
(* Over WebRTC a connection may break while the channel stays READY        *)
(* (javascript/webrtc-p2p.js).  onclose forgets it at both ends; the next  *)
(* send makes a new one and waits until that opens, until its timer        *)
(* rejects it, or, if it closes before it has opened, forever.             *)
(***************************************************************************)
EXTENDS SequenceFilter

CONSTANTS
    Messages,     \* message ids, each a fresh UUID of one sendMessage call
    MaxRetries,   \* queueOptions.maxRetries
    Inline,       \* TRUE: MemoryPeerTransport; FALSE: an open WebRTC data channel
    SendMayFail,  \* transport.send may reject
    Lossy         \* connections may break

ASSUME DeliveryAssumption ==
    /\ MaxRetries \in Nat
    /\ Inline \in BOOLEAN /\ SendMayFail \in BOOLEAN /\ Lossy \in BOOLEAN
    /\ Inline => ~SendMayFail /\ ~Lossy
    /\ "GOODBYE" \notin Messages

VARIABLES
    ready,      \* ready.sender, ready.receiver: status READY at that end
    up,         \* the sender's manager has not been stopped
    outcome,    \* the promise of sendMessage(m); before it has enqueued m
                \* "connecting" while m waits in pendingMessages, then "sending"
    queue,      \* OutboundMessageQueue.#pending, in insertion order
    retries,    \* entry.retries
    timer,      \* OutboundMessageQueue.#timer is set
    linked,     \* a data channel is open
    waiting,    \* pendingMessages of the connection the sender is making, if any
    toReceiver, \* APP messages, and GOODBYE, on their way
    toSender,   \* ACKs, and GOODBYE, on their way
    accepted,   \* messages the receiver has decrypted and acknowledged
    delivering, \* messages whose ACK is being sent, before onMessageReceived
    received,   \* received[m]: calls of onMessageReceived
    acked,      \* messages onMessageAcknowledged was called for
    sends       \* sends[m]: calls of sendFn

vars == <<ready, up, outcome, queue, retries, timer, linked, waiting, toReceiver,
          toSender, accepted, delivering, received, acked, sends>>

senderVars   == <<up, outcome, queue, retries, timer, acked, sends>>
linkVars     == <<linked, waiting>>
receiverVars == <<accepted, delivering, received>>

Init ==
    /\ ready      = [sender |-> TRUE, receiver |-> TRUE]
    /\ up         = TRUE
    /\ outcome    = [m \in Messages |-> "none"]
    /\ queue      = << >>
    /\ retries    = [m \in Messages |-> 0]
    /\ timer      = FALSE
    /\ linked     = TRUE
    /\ waiting    = << >>
    /\ toReceiver = << >>
    /\ toSender   = << >>
    /\ accepted   = {}
    /\ delivering = {}
    /\ received   = [m \in Messages |-> 0]
    /\ acked      = {}
    /\ sends      = [m \in Messages |-> 0]

Sending == {m \in Messages : outcome[m] = "sending"}
Queued  == {m \in Messages : \E i \in DOMAIN queue : queue[i] = m}

\* With MemoryPeerTransport nothing runs while a message is being handled, and
\* no timer fires before every suspended handler has run on.
Quiet == Inline => toReceiver = << >> /\ toSender = << >>
Idle  == Inline => Sending = {} /\ delivering = {}

-----------------------------------------------------------------------------
(* The sender *)

\* transport.send at the sender, of these messages in this order: over an open
\* channel, or with those that wait for the connection that is being made.
Transmit(q) ==
    IF linked
    THEN toReceiver' = toReceiver \o q /\ UNCHANGED waiting
    ELSE waiting' = waiting \o q /\ UNCHANGED toReceiver

\* sendMessage up to `await sendFn()`; a rejected send rejects the call, and
\* nothing is queued.
SendMessage(m) ==
    /\ Quiet
    /\ up
    /\ ready.sender
    /\ outcome[m] = "none"
    /\ sends' = [sends EXCEPT ![m] = @ + 1]
    /\ \/ /\ Transmit(<<m>>)
          /\ outcome' = [outcome EXCEPT ![m] = IF linked THEN "sending" ELSE "connecting"]
       \/ /\ SendMayFail
          /\ outcome' = [outcome EXCEPT ![m] = "rejected"]
          /\ UNCHANGED <<waiting, toReceiver>>
    /\ UNCHANGED <<ready, up, queue, retries, timer, linked, toSender, acked>>
    /\ UNCHANGED receiverVars

\* enqueue, which neither asks whether the ACK has come nor whether the queue
\* was stopped.
Enqueue(m) ==
    /\ Quiet
    /\ outcome[m] = "sending"
    /\ outcome' = [outcome EXCEPT ![m] = "pending"]
    /\ queue'   = Append(queue, m)
    /\ retries' = [retries EXCEPT ![m] = 0]
    /\ timer'   = TRUE
    /\ UNCHANGED <<ready, up, linked, waiting, toReceiver, toSender, acked, sends>>
    /\ UNCHANGED receiverVars

\* Mutant of Expired: one retry too many.
ExpiredLate == {m \in Queued : retries[m] > MaxRetries}

Expired == {m \in Queued : retries[m] >= MaxRetries}
Retried == Queued \ Expired

\* Which of these sends may be rejected at once.
Failures(M) == SUBSET (IF SendMayFail THEN M ELSE {})

\* #tick: every entry either expires or is sent again.  It awaits no send, and
\* ignores one that is rejected.  The timer is cleared with the last entry.
Tick ==
    /\ Quiet
    /\ Idle
    /\ timer
    /\ outcome' = [m \in Messages |-> IF m \in Expired THEN "rejected" ELSE outcome[m]]
    /\ retries' = [m \in Messages |-> IF m \in Retried THEN retries[m] + 1 ELSE retries[m]]
    /\ sends'   = [m \in Messages |-> IF m \in Retried THEN sends[m] + 1 ELSE sends[m]]
    /\ queue'   = Keep(queue, Retried)
    /\ timer'   = (Retried # {})
    /\ \E failed \in Failures(Retried) : Transmit(Keep(queue, Retried \ failed))
    /\ UNCHANGED <<ready, up, linked, toSender, acked>>
    /\ UNCHANGED receiverVars

\* The sender's event loop takes a message only when no handler of it waits
\* for a send to return, unless the transport runs inline.
SenderReceives(x) ==
    /\ Inline \/ (up /\ Sending = {})
    /\ toSender # << >>
    /\ Head(toSender) = x
    /\ toSender' = Tail(toSender)

\* Mutants of Acknowledge: the timer stopped under entries that still wait, the
\* entry settled and kept, an ACK that only counts on a READY channel.
AcknowledgeStopsTimer(m) ==
    IF m \in Queued
    THEN /\ outcome' = [outcome EXCEPT ![m] = "resolved"]
         /\ queue'   = Keep(queue, Queued \ {m})
         /\ timer'   = FALSE
    ELSE UNCHANGED <<outcome, queue, timer>>

AcknowledgeKeepsEntry(m) ==
    /\ outcome' = [outcome EXCEPT ![m] = IF m \in Queued THEN "resolved" ELSE @]
    /\ UNCHANGED <<queue, timer>>

AcknowledgeWhenReady(m) ==
    IF m \in Queued /\ ready.sender
    THEN /\ outcome' = [outcome EXCEPT ![m] = "resolved"]
         /\ queue'   = Keep(queue, Queued \ {m})
         /\ timer'   = (timer /\ Queued # {m})
    ELSE UNCHANGED <<outcome, queue, timer>>

\* acknowledge: only an entry that is queued is settled and removed.
Acknowledge(m) ==
    IF m \in Queued
    THEN /\ outcome' = [outcome EXCEPT ![m] = "resolved"]
         /\ queue'   = Keep(queue, Queued \ {m})
         /\ timer'   = (timer /\ Queued # {m})
    ELSE UNCHANGED <<outcome, queue, timer>>

\* #handleAck: onMessageAcknowledged is called whether or not m is queued; a
\* stopped manager has no entry for the channel and ignores the ACK.
HandleAck(m) ==
    /\ SenderReceives(m)
    /\ IF up
       THEN Acknowledge(m) /\ acked' = acked \cup {m}
       ELSE UNCHANGED <<outcome, queue, timer, acked>>
    /\ UNCHANGED <<ready, up, retries, linked, waiting, toReceiver, sends>>
    /\ UNCHANGED receiverVars

\* Mutant of StopQueue: the queue is cleared, its promises are left alone.
StopQueueSilently ==
    /\ queue' = << >>
    /\ timer' = FALSE
    /\ UNCHANGED outcome

\* OutboundMessageQueue.stop: what it holds is rejected.
StopQueue ==
    /\ outcome' = [m \in Messages |-> IF m \in Queued THEN "rejected" ELSE outcome[m]]
    /\ queue'   = << >>
    /\ timer'   = FALSE

\* PeerChannelManager.stop: a sendMessage that still waits for its send will
\* enqueue later.  The connection is closed, also one that is being made, whose
\* timer is cleared.
Stop ==
    /\ Quiet
    /\ up
    /\ up'       = FALSE
    /\ StopQueue
    /\ linked'   = Inline
    /\ waiting'  = << >>
    /\ toSender' = << >>
    /\ ready'    = [ready EXCEPT !.sender = FALSE]
    /\ UNCHANGED <<retries, toReceiver, acked, sends>>
    /\ UNCHANGED receiverVars

-----------------------------------------------------------------------------
(* The receiver *)

ReceiverReceives(x) ==
    /\ Inline \/ delivering = {}
    /\ toReceiver # << >>
    /\ Head(toReceiver) = x
    /\ toReceiver' = Tail(toReceiver)

\* Mutants of HandleAppMessage: the ACK sent before the status is looked at;
\* onMessageReceived called before the ACK as well as after it.
HandleAppMessageAcksFirst(m) ==
    /\ ReceiverReceives(m)
    /\ IF ready.receiver
       THEN accepted' = accepted \cup {m} /\ delivering' = delivering \cup {m}
       ELSE UNCHANGED <<accepted, delivering>>
    /\ toSender' = IF linked THEN Append(toSender, m) ELSE toSender
    /\ UNCHANGED <<ready, received>>
    /\ UNCHANGED senderVars /\ UNCHANGED linkVars

HandleAppMessageTwice(m) ==
    /\ ReceiverReceives(m)
    /\ ready.receiver
    /\ accepted'   = accepted \cup {m}
    /\ delivering' = delivering \cup {m}
    /\ received'   = [received EXCEPT ![m] = @ + 1]
    /\ toSender'   = IF linked THEN Append(toSender, m) ELSE toSender
    /\ UNCHANGED ready
    /\ UNCHANGED senderVars /\ UNCHANGED linkVars

\* #handleAppMessage up to `await sendData(ACK)`.  A message for a channel that
\* is not READY is dropped; a rejected ACK escapes the handler.
HandleAppMessage(m) ==
    /\ ReceiverReceives(m)
    /\ \/ /\ ready.receiver
          /\ accepted'   = accepted \cup {m}
          /\ delivering' = delivering \cup {m}
          /\ toSender'   = IF linked THEN Append(toSender, m) ELSE toSender
       \/ /\ ready.receiver => SendMayFail
          /\ UNCHANGED <<accepted, delivering, toSender>>
    /\ UNCHANGED <<ready, received>>
    /\ UNCHANGED senderVars /\ UNCHANGED linkVars

\* The rest of #handleAppMessage: onMessageReceived.
DeliverMessage(m) ==
    /\ Quiet
    /\ m \in delivering
    /\ delivering' = delivering \ {m}
    /\ received'   = [received EXCEPT ![m] = @ + 1]
    /\ UNCHANGED <<ready, accepted, toReceiver, toSender>>
    /\ UNCHANGED senderVars /\ UNCHANGED linkVars

-----------------------------------------------------------------------------
(* Closing, and the connection *)

\* closeChannel at either end: the status leaves READY, GOODBYE goes out, and
\* the queue is told nothing.
CloseAtSender ==
    /\ Quiet
    /\ up
    /\ ready.sender
    /\ ready' = [ready EXCEPT !.sender = FALSE]
    /\ Transmit(<<"GOODBYE">>)
    /\ UNCHANGED <<linked, toSender>>
    /\ UNCHANGED senderVars /\ UNCHANGED receiverVars

\* Without a connection the GOODBYE is lost, unless the receiver has made a new
\* one (Connect) before.  A receiver that stops is one whose GOODBYE is lost.
CloseAtReceiver ==
    /\ Quiet
    /\ ready.receiver
    /\ ready' = [ready EXCEPT !.receiver = FALSE]
    /\ toSender' = IF linked THEN Append(toSender, "GOODBYE") ELSE toSender
    /\ UNCHANGED toReceiver
    /\ UNCHANGED senderVars /\ UNCHANGED receiverVars /\ UNCHANGED linkVars

GoodbyeAtSender ==
    /\ SenderReceives("GOODBYE")
    /\ ready' = [ready EXCEPT !.sender = FALSE]
    /\ UNCHANGED toReceiver
    /\ UNCHANGED senderVars /\ UNCHANGED receiverVars /\ UNCHANGED linkVars

GoodbyeAtReceiver ==
    /\ ReceiverReceives("GOODBYE")
    /\ ready' = [ready EXCEPT !.receiver = FALSE]
    /\ UNCHANGED toSender
    /\ UNCHANGED senderVars /\ UNCHANGED receiverVars /\ UNCHANGED linkVars

\* A connection that breaks takes what it carried with it, and onclose deletes
\* the entry.
Lose ==
    /\ Lossy
    /\ linked
    /\ linked'     = FALSE
    /\ toReceiver' = << >>
    /\ toSender'   = << >>
    /\ UNCHANGED <<ready, waiting>>
    /\ UNCHANGED senderVars /\ UNCHANGED receiverVars

\* Calls that wait for the connection that is being made.
Connecting ==
    {m \in Messages : outcome[m] = "connecting" /\ \E i \in DOMAIN waiting : waiting[i] = m}

\* onopen of a connection that either end has made: what waits for it is sent,
\* and the calls go on.  A stopped sender polls for no answer to its offer.
Connect ==
    /\ up
    /\ ~linked
    /\ linked'     = TRUE
    /\ toReceiver' = toReceiver \o waiting
    /\ waiting'    = << >>
    /\ outcome'    = [m \in Messages |-> IF m \in Connecting THEN "sending" ELSE outcome[m]]
    /\ UNCHANGED <<ready, up, queue, retries, timer, toSender, acked, sends>>
    /\ UNCHANGED receiverVars

\* The connection timer: readyPromise rejects, and so do the calls that wait.
ConnectTimesOut ==
    /\ waiting # << >>
    /\ waiting' = << >>
    /\ outcome' = [m \in Messages |-> IF m \in Connecting THEN "rejected" ELSE outcome[m]]
    /\ UNCHANGED <<ready, up, queue, retries, timer, linked, toReceiver, toSender, acked, sends>>
    /\ UNCHANGED receiverVars

\* onclose of a connection that has not opened: its timer is cleared, and the
\* calls that wait for it are left with a promise nobody settles.
ConnectCloses ==
    /\ Lossy
    /\ waiting # << >>
    /\ waiting' = << >>
    /\ UNCHANGED <<ready, linked, toReceiver, toSender>>
    /\ UNCHANGED senderVars /\ UNCHANGED receiverVars

-----------------------------------------------------------------------------
Sender   == (\E m \in Messages : Enqueue(m) \/ HandleAck(m)) \/ Tick \/ GoodbyeAtSender
Receiver == (\E m \in Messages : HandleAppMessage(m) \/ DeliverMessage(m)) \/ GoodbyeAtReceiver

Next ==
    \/ \E m \in Messages : SendMessage(m)
    \/ Sender
    \/ Receiver
    \/ CloseAtSender
    \/ CloseAtReceiver
    \/ Stop
    \/ Lose
    \/ Connect
    \/ ConnectTimesOut
    \/ ConnectCloses

Spec == Init /\ [][Next]_vars

\* Each event loop runs what is ready: handlers and continuations, the interval
\* timer while it is set, and the timer of a connection that has not opened.
Fairness ==
    /\ WF_vars(\E m \in Messages : Enqueue(m))
    /\ WF_vars(Tick)
    /\ WF_vars((\E m \in Messages : HandleAck(m)) \/ GoodbyeAtSender)
    /\ WF_vars(Receiver)
    /\ WF_vars(ConnectTimesOut)

FairSpec == Spec /\ Fairness

-----------------------------------------------------------------------------
(* Properties *)

TypeOK ==
    /\ ready      \in [sender : BOOLEAN, receiver : BOOLEAN]
    /\ up         \in BOOLEAN
    /\ outcome    \in [Messages -> {"none", "connecting", "sending", "pending",
                                    "resolved", "rejected"}]
    /\ queue      \in Seq(Messages)
    /\ retries    \in [Messages -> 0 .. MaxRetries]
    /\ timer      \in BOOLEAN
    /\ linked     \in BOOLEAN
    /\ waiting    \in Seq(Messages \cup {"GOODBYE"})
    /\ toReceiver \in Seq(Messages \cup {"GOODBYE"})
    /\ toSender   \in Seq(Messages \cup {"GOODBYE"})
    /\ accepted   \in SUBSET Messages
    /\ delivering \in SUBSET Messages
    /\ received   \in [Messages -> Nat]
    /\ acked      \in SUBSET Messages
    /\ sends      \in [Messages -> 0 .. MaxRetries + 1]

\* The queue holds exactly the calls that wait for an ACK, and its timer runs
\* exactly while there is one: no call waits with nothing to retry or expire it.
QueueIsServed ==
    /\ Queued = {m \in Messages : outcome[m] = "pending"}
    /\ timer <=> queue # << >>

\* What sendMessage resolves has been decrypted and acknowledged by the
\* receiver, and its application has it or is about to get it.
ResolvedIsAccepted ==
    \A m \in Messages : outcome[m] = "resolved" =>
        m \in accepted /\ (received[m] > 0 \/ m \in delivering)

\* The receiver's application sees a message at most as often as it was sent.
NoSpontaneousDuplicates ==
    \A m \in Messages : received[m] <= sends[m]

\* A message whose ACK has come is not sent again.
NoRetryAfterAck ==
    [][\A m \in acked : sends'[m] = sends[m]]_vars

\* A message whose ACK has come does not expire.
AckedDoesNotExpire ==
    [][\A m \in acked : outcome'[m] = "rejected" => outcome[m] = "rejected"]_vars

\* m's first transmission waits for a connection that is not being made any more:
\* it closed before it had opened, or the transport was stopped.
Abandoned(m) == outcome[m] = "connecting" /\ m \notin Connecting

\* Every sendMessage call settles, whatever is lost, rejected, closed or stopped,
\* unless its first transmission was abandoned: a call that has been transmitted
\* or queued always settles, whatever becomes of the connections its retries wait
\* for.
SendSettles ==
    \A m \in Messages :
        outcome[m] \in {"connecting", "sending", "pending"} ~>
            outcome[m] \in {"resolved", "rejected"} \/ Abandoned(m)
=============================================================================

--------------------------- MODULE DeliveryProofs ---------------------------
(* Theorems about ReliableDelivery, for any messages, retries and transport. *)
EXTENDS ReliableDelivery, SequenceLemmas

Envelopes == Messages \cup {"GOODBYE"}

Outcomes == {"none", "connecting", "sending", "pending", "resolved", "rejected"}

-----------------------------------------------------------------------------
(* The inductive invariant *)

\* How often a call has been sent follows from how far it is.
SendsCounted ==
    \A m \in Messages :
        /\ outcome[m] = "none" => sends[m] = 0
        /\ outcome[m] \in {"connecting", "sending"} => sends[m] = 1
        /\ outcome[m] = "pending" => sends[m] = retries[m] + 1

SenderInv == QueueIsServed /\ Distinct(queue) /\ SendsCounted

\* Each transmission waits for a connection, is on its way, being handled,
\* delivered or lost.
Accounted ==
    \A m \in Messages :
        /\ received[m] + Count(toReceiver, m) + Count(waiting, m) <= sends[m]
        /\ m \in delivering =>
              received[m] + Count(toReceiver, m) + Count(waiting, m) < sends[m]

\* The receiver knows nothing of a call that waits for a connection.
Unsent ==
    \A m \in Messages : outcome[m] = "connecting" =>
        received[m] = 0 /\ m \notin delivering /\ Count(toReceiver, m) = 0

AcceptedIsSeen == \A m \in accepted : received[m] > 0 \/ m \in delivering

AcksAreTrue == \A i \in 1 .. Len(toSender) : toSender[i] \in accepted \cup {"GOODBYE"}

FlowInv == Accounted /\ Unsent /\ AcceptedIsSeen /\ AcksAreTrue

\* Over a data channel an ACK never overtakes the send it is for.
SettledInv ==
    /\ \A m \in Messages : outcome[m] = "resolved" => m \in accepted
    /\ ~Inline => \A m \in acked : outcome[m] \in {"resolved", "rejected"}

IInv == TypeOK /\ SenderInv /\ FlowInv /\ SettledInv

\* A step that is not the sender's keeps what is known of the sender.
LEMMA SenderKept ==
    ASSUME SenderInv, UNCHANGED senderVars
    PROVE  SenderInv'
  BY DEF SenderInv, QueueIsServed, Queued, Distinct, SendsCounted, senderVars

\* What Keep leaves of the queue.
LEMMA QueueKept ==
    ASSUME TypeOK, SenderInv, NEW T \in SUBSET Queued, queue' = Keep(queue, T)
    PROVE  /\ queue' \in Seq(Messages) /\ Distinct(queue') /\ Queued' = T
           /\ queue' # << >> <=> T # {}
  <1>1. queue \in Seq(Messages) /\ Distinct(queue)
    BY DEF TypeOK, SenderInv
  <1>2. /\ queue' \in Seq(Messages) /\ Distinct(queue')
        /\ \A x : (\E j \in DOMAIN queue' : queue'[j] = x)
                     <=> x \in T /\ \E j \in DOMAIN queue : queue[j] = x
    BY <1>1, KeepProperties
  <1>3. \A x \in T : x \in Messages /\ \E j \in DOMAIN queue : queue[j] = x
    BY DEF Queued
  <1>4. Queued' = T
    BY <1>2, <1>3 DEF Queued
  <1>5. queue' # << >> <=> \E j \in DOMAIN queue' : TRUE
    BY <1>2
  <1>6. queue' # << >> <=> T # {}
    BY <1>2, <1>3, <1>5
  <1>. QED  BY <1>2, <1>4, <1>6

\* What waits for a connection is not in the queue yet.
LEMMA ConnectingKept ==
    ASSUME SenderInv, UNCHANGED <<queue, timer, retries, sends>>,
           \A m \in Messages :
              \/ outcome'[m] = outcome[m]
              \/ outcome[m] = "connecting" /\ outcome'[m] \in {"sending", "rejected"}
    PROVE  SenderInv'
  <1>1. \A m \in Messages : outcome'[m] = "pending" <=> outcome[m] = "pending"
    OBVIOUS
  <1>2. QueueIsServed'
    BY <1>1 DEF SenderInv, QueueIsServed, Queued
  <1>. QED  BY <1>2 DEF SenderInv, SendsCounted, Distinct

\* What the transport is handed travels, or waits for a connection.
LEMMA TransmitAdds ==
    ASSUME TypeOK, NEW q \in Seq(Envelopes), Transmit(q)
    PROVE  /\ toReceiver' \in Seq(Envelopes) /\ waiting' \in Seq(Envelopes)
           /\ \A m \in Messages :
                 /\ Count(toReceiver, m) \in Nat /\ Count(waiting, m) \in Nat
                 /\ Count(toReceiver', m) + Count(waiting', m)
                       = Count(toReceiver, m) + Count(waiting, m) + Count(q, m)
                 /\ ~linked \/ Count(q, m) = 0 => Count(toReceiver', m) = Count(toReceiver, m)
  <1>1. toReceiver \in Seq(Envelopes) /\ waiting \in Seq(Envelopes)
    BY DEF TypeOK, Envelopes
  <1>2. ASSUME NEW m \in Messages
        PROVE  /\ Count(toReceiver, m) \in Nat /\ Count(waiting, m) \in Nat /\ Count(q, m) \in Nat
               /\ Count(toReceiver \o q, m) = Count(toReceiver, m) + Count(q, m)
               /\ Count(waiting \o q, m) = Count(waiting, m) + Count(q, m)
    BY <1>1, CountType, CountConcat
  <1>3. CASE linked
    <2>1. toReceiver' = toReceiver \o q /\ waiting' = waiting
      BY <1>3 DEF Transmit
    <2>. QED  BY <1>1, <1>2, <1>3, <2>1
  <1>4. CASE ~linked
    <2>1. waiting' = waiting \o q /\ toReceiver' = toReceiver
      BY <1>4 DEF Transmit
    <2>. QED  BY <1>1, <1>2, <1>4, <2>1
  <1>. QED  BY <1>3, <1>4

-----------------------------------------------------------------------------
(* The sender's steps *)

\* A call is sent once before it is queued.
LEMMA SendMessageKeeps ==
    ASSUME TypeOK, SenderInv, NEW m \in Messages, SendMessage(m)
    PROVE  TypeOK' /\ SenderInv'
  <1>1. <<m>> \in Seq(Envelopes) /\ toReceiver \in Seq(Envelopes) /\ waiting \in Seq(Envelopes)
    BY DEF TypeOK, Envelopes
  <1>2. Transmit(<<m>>) \/ UNCHANGED <<waiting, toReceiver>>
    BY DEF SendMessage
  <1>3. toReceiver' \in Seq(Envelopes) /\ waiting' \in Seq(Envelopes)
    BY <1>1, <1>2, TransmitAdds
  <1>4. outcome[m] = "none" /\ sends[m] = 0 /\ sends'[m] = 1 /\ MaxRetries \in Nat
    BY DeliveryAssumption DEF SendMessage, SenderInv, SendsCounted, TypeOK
  <1>5. /\ outcome' \in [Messages -> Outcomes]
        /\ outcome'[m] \in {"connecting", "sending", "rejected"}
        /\ \A k \in Messages \ {m} : outcome'[k] = outcome[k] /\ sends'[k] = sends[k]
    BY DEF SendMessage, TypeOK, Outcomes
  <1>6. sends' \in [Messages -> 0 .. MaxRetries + 1]
    BY <1>4 DEF SendMessage, TypeOK
  <1>7. TypeOK'
    BY <1>3, <1>5, <1>6 DEF SendMessage, TypeOK, receiverVars, Envelopes, Outcomes
  <1>8. UNCHANGED <<queue, timer, retries>> /\ Queued' = Queued
    BY DEF SendMessage, Queued
  <1>9. \A k \in Messages : outcome'[k] = "pending" <=> outcome[k] = "pending"
    BY <1>4, <1>5
  <1>10. QueueIsServed'
    BY <1>8, <1>9 DEF SenderInv, QueueIsServed
  <1>11. SendsCounted'
    BY <1>4, <1>5, <1>8 DEF SenderInv, SendsCounted
  <1>. QED  BY <1>7, <1>8, <1>10, <1>11 DEF SenderInv, Distinct

\* A call that is queued was not queued before.
LEMMA EnqueueKeeps ==
    ASSUME TypeOK, SenderInv, NEW m \in Messages, Enqueue(m)
    PROVE  TypeOK' /\ SenderInv'
  <1>1. /\ queue \in Seq(Messages) /\ queue' = Append(queue, m) /\ timer' = TRUE
        /\ outcome[m] = "sending" /\ outcome'[m] = "pending" /\ retries'[m] = 0
        /\ \A k \in Messages \ {m} : outcome'[k] = outcome[k] /\ retries'[k] = retries[k]
    BY DEF Enqueue, TypeOK
  <1>2. m \notin Queued
    BY <1>1 DEF SenderInv, QueueIsServed
  <1>3. /\ queue' \in Seq(Messages) /\ Len(queue') = Len(queue) + 1 /\ Len(queue) \in Nat
        /\ queue'[Len(queue) + 1] = m /\ queue' # << >>
        /\ \A i \in 1 .. Len(queue) : queue'[i] = queue[i]
        /\ DOMAIN queue = 1 .. Len(queue) /\ DOMAIN queue' = 1 .. Len(queue')
    BY <1>1
  <1>4. \A i \in 1 .. Len(queue) : queue[i] # m
    BY <1>2, <1>3 DEF Queued
  <1>5. Distinct(queue')
    BY <1>3, <1>4 DEF SenderInv, Distinct
  <1>6. Queued' = Queued \cup {m}
    BY <1>3 DEF Queued
  <1>7. QueueIsServed'
    BY <1>1, <1>3, <1>6 DEF SenderInv, QueueIsServed
  <1>8. SendsCounted'
    BY <1>1, DeliveryAssumption DEF Enqueue, SenderInv, SendsCounted, TypeOK
  <1>9. TypeOK'
    <2>1. /\ retries' \in [Messages -> 0 .. MaxRetries]
          /\ outcome' \in [Messages -> Outcomes]
      BY DeliveryAssumption DEF Enqueue, TypeOK, Outcomes
    <2>. QED  BY <1>3, <2>1 DEF Enqueue, TypeOK, receiverVars, Outcomes
  <1>. QED  BY <1>5, <1>7, <1>8, <1>9 DEF SenderInv

\* The timer's entries expire or are sent once more, never too often.
LEMMA TickKeeps ==
    ASSUME TypeOK, SenderInv, Tick
    PROVE  TypeOK' /\ SenderInv'
  <1>1. Retried \in SUBSET Queued /\ Expired \in SUBSET Queued /\ Queued \subseteq Messages
    BY DEF Retried, Expired, Queued
  <1>2. /\ queue' \in Seq(Messages) /\ Distinct(queue') /\ Queued' = Retried
        /\ queue' # << >> <=> Retried # {}
    BY <1>1, QueueKept DEF Tick
  <1>3. Queued = {m \in Messages : outcome[m] = "pending"}
    BY DEF SenderInv, QueueIsServed
  <1>4. \A m \in Messages : outcome'[m] = "pending" <=> m \in Retried
    BY <1>1, <1>3 DEF Tick, Retried
  <1>5. QueueIsServed'
    BY <1>1, <1>2, <1>4 DEF QueueIsServed, Tick
  <1>6. \A m \in Retried : retries[m] + 1 \in 0 .. MaxRetries /\ sends[m] = retries[m] + 1
    <2>1. ASSUME NEW m \in Retried
          PROVE  retries[m] + 1 \in 0 .. MaxRetries /\ sends[m] = retries[m] + 1
      <3>1. m \in Messages /\ outcome[m] = "pending" /\ m \in Queued \ Expired
        BY <1>1, <1>3 DEF Retried
      <3>2. ~(retries[m] >= MaxRetries)
        BY <3>1 DEF Expired
      <3>3. retries[m] \in 0 .. MaxRetries /\ MaxRetries \in Nat
        BY <3>1, DeliveryAssumption DEF TypeOK
      <3>4. sends[m] = retries[m] + 1
        BY <3>1 DEF SenderInv, SendsCounted
      <3>. QED  BY <3>2, <3>3, <3>4
    <2>. QED  BY <2>1
  <1>7. SendsCounted'
    <2>1. \A m \in Retried : retries'[m] = retries[m] + 1 /\ sends'[m] = sends[m] + 1
      BY <1>1 DEF Tick
    <2>2. \A m \in Messages : outcome'[m] \in {"none", "connecting", "sending"} =>
             outcome[m] = outcome'[m] /\ sends'[m] = sends[m]
      BY <1>1, <1>3 DEF Tick, Retried
    <2>. QED  BY <1>4, <1>6, <2>1, <2>2 DEF SenderInv, SendsCounted
  <1>8. TypeOK'
    <2>1. /\ retries' \in [Messages -> 0 .. MaxRetries]
          /\ sends' \in [Messages -> 0 .. MaxRetries + 1]
      BY <1>6, DeliveryAssumption DEF Tick, TypeOK
    <2>2. outcome' \in [Messages -> Outcomes]
      BY DEF Tick, TypeOK, Outcomes
    <2>3. toReceiver' \in Seq(Envelopes) /\ waiting' \in Seq(Envelopes)
      <3>1. PICK T : Transmit(Keep(queue, T))
        BY DEF Tick
      <3>2. Keep(queue, T) \in Seq(Messages)
        BY KeepProperties DEF TypeOK
      <3>3. Keep(queue, T) \in Seq(Envelopes)
        BY <3>2 DEF Envelopes
      <3>. QED  BY <3>1, <3>3, TransmitAdds
    <2>. QED  BY <1>2, <2>1, <2>2, <2>3 DEF Tick, TypeOK, Envelopes, Outcomes, receiverVars
  <1>. QED  BY <1>2, <1>5, <1>7, <1>8 DEF SenderInv

\* A message that is taken is one of those that were on their way.
LEMMA TailTyped ==
    ASSUME NEW S, NEW s \in Seq(S), s # << >>
    PROVE  /\ Tail(s) \in Seq(S) /\ Head(s) = s[1] /\ 1 \in 1 .. Len(s)
           /\ \A i \in 1 .. Len(Tail(s)) : i + 1 \in 1 .. Len(s) /\ Tail(s)[i] = s[i + 1]
  OBVIOUS

\* An ACK settles the entry it finds.
LEMMA HandleAckKeeps ==
    ASSUME TypeOK, SenderInv, NEW m \in Messages, HandleAck(m)
    PROVE  TypeOK' /\ SenderInv'
  <1>1. toSender' \in Seq(Envelopes)
    BY TailTyped DEF HandleAck, SenderReceives, TypeOK, Envelopes
  <1>2. acked' \in SUBSET Messages
    BY DEF HandleAck, TypeOK
  <1>3. UNCHANGED <<ready, up, retries, linked, waiting, toReceiver, sends>> /\ UNCHANGED receiverVars
    BY DEF HandleAck
  <1>4. CASE up /\ m \in Queued
    <2>1. /\ outcome' = [outcome EXCEPT ![m] = "resolved"]
          /\ queue' = Keep(queue, Queued \ {m}) /\ timer' = (timer /\ Queued # {m})
      BY <1>4 DEF HandleAck, Acknowledge
    <2>2. /\ queue' \in Seq(Messages) /\ Distinct(queue') /\ Queued' = Queued \ {m}
          /\ queue' # << >> <=> Queued \ {m} # {}
      BY <2>1, QueueKept
    <2>3. Queued = {k \in Messages : outcome[k] = "pending"} /\ (timer <=> queue # << >>)
      BY DEF SenderInv, QueueIsServed
    <2>4. \A k \in Messages : outcome'[k] = IF k = m THEN "resolved" ELSE outcome[k]
      BY <2>1 DEF TypeOK
    <2>5. Queued' = {k \in Messages : outcome'[k] = "pending"}
      BY <2>2, <2>3, <2>4
    <2>6. queue # << >>
      BY <1>4 DEF Queued, TypeOK
    <2>7. timer' <=> queue' # << >>
      BY <1>4, <2>1, <2>2, <2>3, <2>6
    <2>8. SendsCounted'
      BY <1>3, <2>4 DEF SenderInv, SendsCounted
    <2>9. outcome' \in [Messages -> Outcomes]
      BY <2>1 DEF TypeOK, Outcomes
    <2>10. timer' \in BOOLEAN
      BY <2>1
    <2>. QED  BY <1>1, <1>2, <1>3, <2>2, <2>5, <2>7, <2>8, <2>9, <2>10
              DEF TypeOK, SenderInv, QueueIsServed, Envelopes, Outcomes, receiverVars
  <1>5. CASE ~(up /\ m \in Queued)
    <2>1. UNCHANGED <<outcome, queue, timer>>
      BY <1>5 DEF HandleAck, Acknowledge
    <2>2. SenderInv'
      BY <1>3, <2>1 DEF SenderInv, QueueIsServed, Queued, Distinct, SendsCounted
    <2>. QED  BY <1>1, <1>2, <1>3, <2>1, <2>2 DEF TypeOK, Envelopes, receiverVars
  <1>. QED  BY <1>4, <1>5

\* stop leaves nothing that waits.
LEMMA StopKeeps ==
    ASSUME TypeOK, SenderInv, Stop
    PROVE  TypeOK' /\ SenderInv'
  <1>1. /\ queue' = << >> /\ timer' = FALSE /\ toSender' = << >>
        /\ outcome' = [m \in Messages |-> IF m \in Queued THEN "rejected" ELSE outcome[m]]
        /\ UNCHANGED <<retries, toReceiver, acked, sends>> /\ UNCHANGED receiverVars
        /\ up' = FALSE /\ ready' = [ready EXCEPT !.sender = FALSE]
        /\ linked' = Inline /\ waiting' = << >>
    BY DEF Stop, StopQueue
  <1>2. /\ queue' \in Seq(Messages) /\ toSender' \in Seq(Messages \cup {"GOODBYE"})
        /\ Len(queue') = 0 /\ waiting' \in Seq(Messages \cup {"GOODBYE"})
    BY <1>1
  <1>3. Queued' = {} /\ Distinct(queue')
    BY <1>2 DEF Queued, Distinct
  <1>4. \A m \in Messages : /\ outcome'[m] # "pending"
                            /\ outcome'[m] # "rejected" => outcome'[m] = outcome[m]
    BY <1>1 DEF SenderInv, QueueIsServed
  <1>5. QueueIsServed'
    BY <1>1, <1>3, <1>4 DEF QueueIsServed
  <1>6. SendsCounted'
    BY <1>1, <1>4 DEF SenderInv, SendsCounted
  <1>7. outcome' \in [Messages -> Outcomes]
    BY <1>1 DEF TypeOK, Outcomes
  <1>. QED  BY <1>1, <1>2, <1>3, <1>5, <1>6, <1>7, DeliveryAssumption
            DEF TypeOK, SenderInv, Outcomes, receiverVars

-----------------------------------------------------------------------------
(* All steps: types and the sender *)

\* Every step keeps types and what is known of the sender.
LEMMA SenderStep ==
    ASSUME TypeOK, SenderInv, [Next]_vars
    PROVE  TypeOK' /\ SenderInv'
  <1>1. CASE UNCHANGED vars
    <2>1. UNCHANGED senderVars
      BY <1>1 DEF vars, senderVars
    <2>. QED  BY <1>1, <2>1, SenderKept DEF TypeOK, vars
  <1>2. ASSUME NEW m \in Messages, SendMessage(m) PROVE TypeOK' /\ SenderInv'
    BY <1>2, SendMessageKeeps
  <1>3. ASSUME NEW m \in Messages, Enqueue(m) PROVE TypeOK' /\ SenderInv'
    BY <1>3, EnqueueKeeps
  <1>4. ASSUME NEW m \in Messages, HandleAck(m) PROVE TypeOK' /\ SenderInv'
    BY <1>4, HandleAckKeeps
  <1>5. CASE Tick
    BY <1>5, TickKeeps
  <1>6. CASE Stop
    BY <1>6, StopKeeps
  <1>7. CASE GoodbyeAtSender
    <2>1. toSender' \in Seq(Envelopes) /\ ready' \in [sender : BOOLEAN, receiver : BOOLEAN]
      BY <1>7, TailTyped DEF GoodbyeAtSender, SenderReceives, TypeOK, Envelopes
    <2>. QED  BY <1>7, <2>1, SenderKept DEF GoodbyeAtSender, TypeOK, Envelopes, senderVars, linkVars, receiverVars
  <1>8. ASSUME NEW m \in Messages, HandleAppMessage(m) PROVE TypeOK' /\ SenderInv'
    <2>1. toReceiver' \in Seq(Envelopes)
      BY <1>8, TailTyped DEF HandleAppMessage, ReceiverReceives, TypeOK, Envelopes
    <2>2. toSender' \in Seq(Envelopes)
      <3>1. m \in Envelopes /\ toSender \in Seq(Envelopes)
        BY DEF TypeOK, Envelopes
      <3>2. Append(toSender, m) \in Seq(Envelopes)
        BY <3>1
      <3>. QED  BY <1>8, <3>1, <3>2 DEF HandleAppMessage
    <2>3. accepted' \in SUBSET Messages /\ delivering' \in SUBSET Messages
      BY <1>8 DEF HandleAppMessage, TypeOK
    <2>. QED
      BY <1>8, <2>1, <2>2, <2>3, SenderKept DEF HandleAppMessage, TypeOK, Envelopes, senderVars, linkVars
  <1>9. ASSUME NEW m \in Messages, DeliverMessage(m) PROVE TypeOK' /\ SenderInv'
    <2>1. received' \in [Messages -> Nat] /\ delivering' \in SUBSET Messages
      BY <1>9 DEF DeliverMessage, TypeOK
    <2>. QED  BY <1>9, <2>1, SenderKept DEF DeliverMessage, TypeOK, senderVars, linkVars
  <1>10. CASE GoodbyeAtReceiver
    <2>1. toReceiver' \in Seq(Envelopes) /\ ready' \in [sender : BOOLEAN, receiver : BOOLEAN]
      BY <1>10, TailTyped DEF GoodbyeAtReceiver, ReceiverReceives, TypeOK, Envelopes
    <2>. QED  BY <1>10, <2>1, SenderKept DEF GoodbyeAtReceiver, TypeOK, Envelopes, senderVars, linkVars, receiverVars
  <1>11. CASE CloseAtSender
    <2>1. /\ toReceiver' \in Seq(Envelopes) /\ waiting' \in Seq(Envelopes)
          /\ ready' \in [sender : BOOLEAN, receiver : BOOLEAN]
      <3>1. <<"GOODBYE">> \in Seq(Envelopes)
        BY DEF Envelopes
      <3>. QED  BY <1>11, <3>1, TransmitAdds DEF CloseAtSender, TypeOK
    <2>. QED  BY <1>11, <2>1, SenderKept DEF CloseAtSender, TypeOK, Envelopes, senderVars, receiverVars
  <1>12. CASE CloseAtReceiver
    <2>1. toSender' \in Seq(Envelopes) /\ ready' \in [sender : BOOLEAN, receiver : BOOLEAN]
      <3>1. "GOODBYE" \in Envelopes /\ toSender \in Seq(Envelopes)
        BY DEF TypeOK, Envelopes
      <3>2. Append(toSender, "GOODBYE") \in Seq(Envelopes)
        BY <3>1
      <3>. QED  BY <1>12, <3>1, <3>2 DEF CloseAtReceiver, TypeOK
    <2>. QED  BY <1>12, <2>1, SenderKept DEF CloseAtReceiver, TypeOK, Envelopes, senderVars, receiverVars, linkVars
  <1>13. CASE Lose
    <2>1. toReceiver' \in Seq(Envelopes) /\ toSender' \in Seq(Envelopes)
      BY <1>13 DEF Lose
    <2>. QED  BY <1>13, <2>1, SenderKept DEF Lose, TypeOK, Envelopes, senderVars, receiverVars
  <1>14. CASE Connect \/ ConnectTimesOut
    <2>1. /\ outcome' \in [Messages -> Outcomes]
          /\ \A m \in Messages :
                \/ outcome'[m] = outcome[m]
                \/ outcome[m] = "connecting" /\ outcome'[m] \in {"sending", "rejected"}
      <3>1. PICK settled \in {"sending", "rejected"} :
               outcome' = [m \in Messages |-> IF m \in Connecting THEN settled ELSE outcome[m]]
        BY <1>14 DEF Connect, ConnectTimesOut
      <3>2. settled \in Outcomes /\ outcome \in [Messages -> Outcomes]
        BY DEF TypeOK, Outcomes
      <3>3. \A m \in Connecting : outcome[m] = "connecting"
        BY DEF Connecting
      <3>. QED  BY <3>1, <3>2, <3>3
    <2>2. toReceiver' \in Seq(Envelopes) /\ waiting' \in Seq(Envelopes)
      <3>1. /\ waiting' = << >> /\ << >> \in Seq(Envelopes)
            /\ toReceiver' = toReceiver \o waiting \/ toReceiver' = toReceiver
        BY <1>14 DEF Connect, ConnectTimesOut
      <3>2. toReceiver \in Seq(Envelopes) /\ waiting \in Seq(Envelopes)
        BY DEF TypeOK, Envelopes
      <3>3. toReceiver \o waiting \in Seq(Envelopes)
        BY <3>2
      <3>. QED  BY <3>1, <3>2, <3>3
    <2>3. SenderInv'
      BY <1>14, <2>1, ConnectingKept DEF Connect, ConnectTimesOut
    <2>. QED
      BY <1>14, <2>1, <2>2, <2>3
      DEF Connect, ConnectTimesOut, TypeOK, Envelopes, Outcomes, receiverVars
  <1>15. CASE ConnectCloses
    <2>1. waiting' \in Seq(Envelopes)
      BY <1>15 DEF ConnectCloses
    <2>. QED  BY <1>15, <2>1, SenderKept DEF ConnectCloses, TypeOK, Envelopes, senderVars, receiverVars
  <1>. QED
    BY <1>1, <1>2, <1>3, <1>4, <1>5, <1>6, <1>7, <1>8, <1>9, <1>10, <1>11, <1>12, <1>13, <1>14, <1>15
    DEF Next, Sender, Receiver

-----------------------------------------------------------------------------
(* What is on its way *)

\* A transmission is counted in sends, and a new call that waits for a connection
\* has not been sent before.
LEMMA FlowKept ==
    ASSUME TypeOK, TypeOK', FlowInv, UNCHANGED receiverVars,
           \A i \in 1 .. Len(toSender') : toSender'[i] \in accepted \cup {"GOODBYE"},
           \A m \in Messages :
              \/ /\ sends'[m] = sends[m]
                 /\ Count(toReceiver', m) + Count(waiting', m)
                       <= Count(toReceiver, m) + Count(waiting, m)
              \/ /\ sends'[m] = sends[m] + 1
                 /\ Count(toReceiver', m) + Count(waiting', m)
                       <= Count(toReceiver, m) + Count(waiting, m) + 1,
           \A m \in Messages : outcome'[m] = "connecting" =>
              /\ Count(toReceiver', m) <= Count(toReceiver, m)
              /\ outcome[m] = "connecting" \/ sends[m] = 0
    PROVE  FlowInv'
  <1>1. AcceptedIsSeen' /\ AcksAreTrue'
    BY DEF FlowInv, AcceptedIsSeen, AcksAreTrue, receiverVars
  <1>2. ASSUME NEW m \in Messages
        PROVE  /\ received'[m] + Count(toReceiver', m) + Count(waiting', m) <= sends'[m]
               /\ m \in delivering' =>
                     received'[m] + Count(toReceiver', m) + Count(waiting', m) < sends'[m]
               /\ outcome'[m] = "connecting" =>
                     received'[m] = 0 /\ m \notin delivering' /\ Count(toReceiver', m) = 0
    <2>1. /\ Count(toReceiver, m) \in Nat /\ Count(waiting, m) \in Nat
          /\ Count(toReceiver', m) \in Nat /\ Count(waiting', m) \in Nat
          /\ sends[m] \in Nat /\ sends'[m] \in Nat /\ received[m] \in Nat
      BY CountType, DeliveryAssumption DEF TypeOK
    <2>2. received'[m] = received[m] /\ delivering' = delivering
      BY DEF receiverVars
    <2>3. /\ received[m] + Count(toReceiver, m) + Count(waiting, m) <= sends[m]
          /\ m \in delivering => received[m] + Count(toReceiver, m) + Count(waiting, m) < sends[m]
          /\ outcome[m] = "connecting" =>
                received[m] = 0 /\ m \notin delivering /\ Count(toReceiver, m) = 0
      BY DEF FlowInv, Accounted, Unsent
    <2>4. /\ received[m] + Count(toReceiver', m) + Count(waiting', m) <= sends'[m]
          /\ m \in delivering => received[m] + Count(toReceiver', m) + Count(waiting', m) < sends'[m]
      <3>1. CASE sends'[m] = sends[m]
        BY <2>1, <2>3, <3>1
      <3>2. CASE sends'[m] = sends[m] + 1
        <4>1. Count(toReceiver', m) + Count(waiting', m) <= Count(toReceiver, m) + Count(waiting, m) + 1
          BY <2>1, <3>2
        <4>. QED  BY <2>1, <2>3, <3>2, <4>1
      <3>. QED  BY <3>1, <3>2
    <2>5. ASSUME outcome'[m] = "connecting"
          PROVE  received[m] = 0 /\ m \notin delivering /\ Count(toReceiver', m) = 0
      BY <2>1, <2>3, <2>5
    <2>. QED  BY <2>2, <2>4, <2>5
  <1>. QED  BY <1>1, <1>2 DEF FlowInv, Accounted, Unsent

\* The receiver takes a message for one that was on its way, at most.
LEMMA HandleAppMessageFlow ==
    ASSUME TypeOK, TypeOK', FlowInv, NEW m \in Messages, HandleAppMessage(m)
    PROVE  FlowInv'
  <1>1. /\ toReceiver \in Seq(Envelopes) /\ toReceiver # << >> /\ Head(toReceiver) = m
        /\ toReceiver' = Tail(toReceiver) /\ UNCHANGED <<received, sends, outcome, waiting>>
    BY DEF HandleAppMessage, ReceiverReceives, TypeOK, Envelopes, senderVars, linkVars
  <1>2. /\ \A k \in Messages \ {m} : Count(toReceiver, k) = Count(toReceiver', k)
        /\ Count(toReceiver, m) = Count(toReceiver', m) + 1
    BY <1>1, CountTail
  <1>3. \A k \in Messages : Count(toReceiver, k) \in Nat /\ Count(toReceiver', k) \in Nat
                            /\ Count(waiting, k) \in Nat
                            /\ sends[k] \in Nat /\ received[k] \in Nat
    <2>1. toReceiver' \in Seq(Envelopes)
      BY DEF TypeOK, Envelopes
    <2>2. ASSUME NEW k \in Messages
          PROVE  /\ Count(toReceiver, k) \in Nat /\ Count(toReceiver', k) \in Nat
                 /\ Count(waiting, k) \in Nat
      BY <1>1, <2>1, CountType DEF TypeOK
    <2>3. ASSUME NEW k \in Messages PROVE sends[k] \in Nat /\ received[k] \in Nat
      BY DeliveryAssumption DEF TypeOK
    <2>. QED  BY <2>2, <2>3
  <1>4. Accounted'
    <2>1. delivering' \in {delivering, delivering \cup {m}}
      BY DEF HandleAppMessage
    <2>2. ASSUME NEW k \in Messages
          PROVE  /\ received[k] + Count(toReceiver', k) + Count(waiting, k) <= sends[k]
                 /\ k \in delivering' => received[k] + Count(toReceiver', k) + Count(waiting, k) < sends[k]
      <3>1. received[k] + Count(toReceiver, k) + Count(waiting, k) <= sends[k]
        BY DEF FlowInv, Accounted
      <3>2. CASE k = m
        BY <1>2, <1>3, <3>1, <3>2
      <3>3. CASE k # m
        <4>1. k \in delivering' => k \in delivering
          BY <2>1, <3>3
        <4>2. k \in delivering => received[k] + Count(toReceiver, k) + Count(waiting, k) < sends[k]
          BY DEF FlowInv, Accounted
        <4>3. Count(toReceiver, k) = Count(toReceiver', k)
          BY <1>2, <3>3
        <4>. QED  BY <3>1, <4>1, <4>2, <4>3
      <3>. QED  BY <3>2, <3>3
    <2>. QED  BY <1>1, <2>2 DEF Accounted
  <1>7. Unsent'
    <2>1. ASSUME NEW k \in Messages, outcome[k] = "connecting"
          PROVE  received[k] = 0 /\ k \notin delivering' /\ Count(toReceiver', k) = 0
      <3>1. received[k] = 0 /\ k \notin delivering /\ Count(toReceiver, k) = 0
        BY <2>1 DEF FlowInv, Unsent
      <3>2. k # m
        BY <1>2, <1>3, <3>1
      <3>. QED  BY <1>2, <3>1, <3>2 DEF HandleAppMessage
    <2>. QED  BY <1>1, <2>1 DEF Unsent
  <1>5. AcceptedIsSeen'
    BY <1>1 DEF HandleAppMessage, FlowInv, AcceptedIsSeen
  <1>6. AcksAreTrue'
    <2>1. CASE toSender' = toSender
      BY <2>1 DEF HandleAppMessage, FlowInv, AcksAreTrue
    <2>2. CASE toSender' # toSender
      <3>1. toSender' = Append(toSender, m) /\ accepted' = accepted \cup {m}
        BY <2>2 DEF HandleAppMessage
      <3>2. /\ Len(toSender') = Len(toSender) + 1 /\ toSender'[Len(toSender) + 1] = m
            /\ \A i \in 1 .. Len(toSender) : toSender'[i] = toSender[i]
            /\ Len(toSender) \in Nat
        BY <3>1 DEF TypeOK
      <3>. QED  BY <3>1, <3>2 DEF FlowInv, AcksAreTrue
    <2>. QED  BY <2>1, <2>2
  <1>. QED  BY <1>4, <1>5, <1>6, <1>7 DEF FlowInv

\* onMessageReceived is called for a message that is being handled.
LEMMA DeliverMessageFlow ==
    ASSUME TypeOK, FlowInv, NEW m \in Messages, DeliverMessage(m)
    PROVE  FlowInv'
  <1>1. /\ m \in delivering /\ delivering' = delivering \ {m} /\ received'[m] = received[m] + 1
        /\ \A k \in Messages \ {m} : received'[k] = received[k]
        /\ UNCHANGED <<accepted, toReceiver, toSender, sends, outcome, waiting>>
    BY DEF DeliverMessage, TypeOK, senderVars, linkVars
  <1>2. \A k \in Messages : Count(toReceiver, k) \in Nat /\ Count(waiting, k) \in Nat
                            /\ sends[k] \in Nat /\ received[k] \in Nat
    BY CountType, DeliveryAssumption DEF TypeOK
  <1>3. Accounted'
    <2>1. ASSUME NEW k \in Messages
          PROVE  /\ received'[k] + Count(toReceiver, k) + Count(waiting, k) <= sends[k]
                 /\ k \in delivering' => received'[k] + Count(toReceiver, k) + Count(waiting, k) < sends[k]
      <3>1. /\ received[k] + Count(toReceiver, k) + Count(waiting, k) <= sends[k]
            /\ k \in delivering => received[k] + Count(toReceiver, k) + Count(waiting, k) < sends[k]
        BY DEF FlowInv, Accounted
      <3>2. CASE k = m
        BY <1>1, <1>2, <3>1, <3>2
      <3>3. CASE k # m
        BY <1>1, <3>1, <3>3
      <3>. QED  BY <3>2, <3>3
    <2>. QED  BY <1>1, <2>1 DEF Accounted
  <1>4. AcceptedIsSeen'
    <2>1. ASSUME NEW k \in accepted PROVE received'[k] > 0 \/ k \in delivering'
      <3>1. k \in Messages /\ (received[k] > 0 \/ k \in delivering)
        BY DEF FlowInv, AcceptedIsSeen, TypeOK
      <3>2. received[m] + 1 > 0
        BY <1>2
      <3>. QED  BY <1>1, <3>1, <3>2
    <2>. QED  BY <1>1, <2>1 DEF AcceptedIsSeen
  <1>5. AcksAreTrue'
    BY <1>1 DEF FlowInv, AcksAreTrue
  <1>6. Unsent'
    BY <1>1 DEF FlowInv, Unsent
  <1>. QED  BY <1>3, <1>4, <1>5, <1>6 DEF FlowInv

\* A tick sends every entry at most once: the queue holds it once.
LEMMA TickFlow ==
    ASSUME TypeOK, TypeOK', SenderInv, FlowInv, Tick
    PROVE  FlowInv'
  <1>1. PICK T \in SUBSET Retried : Transmit(Keep(queue, T))
    BY DEF Tick, Failures
  <1>0. PICK k : k = Keep(queue, T)
    OBVIOUS
  <1>2. /\ k \in Seq(Messages) /\ Distinct(k)
        /\ \A x : (\E j \in DOMAIN k : k[j] = x) <=> x \in T /\ \E j \in DOMAIN queue : queue[j] = x
    <2>1. queue \in Seq(Messages) /\ Distinct(queue)
      BY DEF TypeOK, SenderInv
    <2>2. /\ Keep(queue, T) \in Seq(Messages)
          /\ \A x : (\E j \in DOMAIN Keep(queue, T) : Keep(queue, T)[j] = x)
                       <=> x \in T /\ \E j \in DOMAIN queue : queue[j] = x
          /\ Distinct(queue) => Distinct(Keep(queue, T))
      BY <2>1, KeepProperties, Zenon
    <2>. QED  BY <1>0, <2>1, <2>2, Zenon
  <1>3. k \in Seq(Envelopes) /\ Transmit(k)
    BY <1>0, <1>1, <1>2 DEF Envelopes
  <1>4. ASSUME NEW m \in Messages
        PROVE  /\ Count(k, m) \in {0, 1}
               /\ Count(k, m) # 0 => m \in Retried
               /\ sends'[m] = IF m \in Retried THEN sends[m] + 1 ELSE sends[m]
    <2>1. Count(k, m) # 0 => \E i \in 1 .. Len(k) : k[i] = m
      BY <1>2, CountAbsent
    <2>2. DOMAIN k = 1 .. Len(k)
      BY <1>2
    <2>. QED  BY <1>2, <2>1, <2>2, CountDistinct DEF Tick
  <1>5. ASSUME NEW m \in Messages
        PROVE  \/ /\ sends'[m] = sends[m]
                  /\ Count(toReceiver', m) + Count(waiting', m)
                        <= Count(toReceiver, m) + Count(waiting, m)
               \/ /\ sends'[m] = sends[m] + 1
                  /\ Count(toReceiver', m) + Count(waiting', m)
                        <= Count(toReceiver, m) + Count(waiting, m) + 1
    <2>1. /\ Count(toReceiver, m) \in Nat /\ Count(waiting, m) \in Nat
          /\ Count(toReceiver', m) + Count(waiting', m)
                = Count(toReceiver, m) + Count(waiting, m) + Count(k, m)
      BY <1>3, TransmitAdds
    <2>. QED  BY <1>4, <2>1
  <1>6. ASSUME NEW m \in Messages, outcome'[m] = "connecting"
        PROVE  /\ Count(toReceiver', m) <= Count(toReceiver, m)
               /\ outcome[m] = "connecting" \/ sends[m] = 0
    <2>1. outcome[m] = "connecting"
      BY <1>6 DEF Tick
    <2>2. m \notin Retried
      BY <2>1 DEF SenderInv, QueueIsServed, Retried
    <2>3. Count(k, m) = 0
      BY <1>4, <2>2
    <2>4. Count(toReceiver, m) \in Nat /\ Count(toReceiver', m) = Count(toReceiver, m)
      BY <1>3, <2>3, TransmitAdds
    <2>. QED  BY <2>1, <2>4
  <1>7. /\ UNCHANGED receiverVars
        /\ \A i \in 1 .. Len(toSender') : toSender'[i] \in accepted \cup {"GOODBYE"}
    BY DEF Tick, FlowInv, AcksAreTrue
  <1>. QED  BY <1>5, <1>6, <1>7, FlowKept, Zenon

\* A step of neither the sender nor the receiver, or one that takes something out.
LEMMA FlowUnsent ==
    ASSUME TypeOK, TypeOK', FlowInv, UNCHANGED receiverVars, sends' = sends,
           \A i \in 1 .. Len(toSender') : toSender'[i] \in accepted \cup {"GOODBYE"},
           \A m \in Messages :
              /\ Count(toReceiver', m) <= Count(toReceiver, m)
              /\ Count(waiting', m) <= Count(waiting, m)
              /\ outcome'[m] = "connecting" => outcome[m] = "connecting"
    PROVE  FlowInv'
  <1>1. ASSUME NEW m \in Messages
        PROVE  /\ sends'[m] = sends[m]
               /\ Count(toReceiver', m) + Count(waiting', m)
                     <= Count(toReceiver, m) + Count(waiting, m)
    <2>1. /\ Count(toReceiver, m) \in Nat /\ Count(waiting, m) \in Nat
          /\ Count(toReceiver', m) \in Nat /\ Count(waiting', m) \in Nat
      BY CountType DEF TypeOK
    <2>. QED  BY <2>1
  <1>. QED  BY <1>1, FlowKept, Zenon

\* A new call is transmitted once, or waits for a connection for the first time.
LEMMA SendMessageFlow ==
    ASSUME TypeOK, TypeOK', SenderInv, FlowInv, NEW m \in Messages, SendMessage(m)
    PROVE  FlowInv'
  <1>1. /\ UNCHANGED receiverVars
        /\ \A i \in 1 .. Len(toSender') : toSender'[i] \in accepted \cup {"GOODBYE"}
    BY DEF SendMessage, FlowInv, AcksAreTrue
  <1>2. /\ <<m>> \in Seq(Envelopes) /\ Len(<<m>>) = 1 /\ <<m>>[1] = m
        /\ toReceiver \in Seq(Envelopes) /\ waiting \in Seq(Envelopes)
    BY DEF Envelopes, TypeOK
  <1>3. Count(<<m>>, m) \in {0, 1} /\ \A k \in Messages \ {m} : Count(<<m>>, k) = 0
    <2>1. Distinct(<<m>>) /\ \A i \in 1 .. Len(<<m>>) : <<m>>[i] = m
      BY <1>2 DEF Distinct
    <2>2. Count(<<m>>, m) \in {0, 1}
      BY <1>2, <2>1, CountDistinct
    <2>3. ASSUME NEW k \in Messages \ {m} PROVE Count(<<m>>, k) = 0
      BY <1>2, <2>1, CountAbsent
    <2>. QED  BY <2>2, <2>3
  <1>4. /\ sends[m] = 0 /\ sends'[m] = sends[m] + 1
        /\ \A k \in Messages \ {m} : sends'[k] = sends[k] /\ outcome'[k] = outcome[k]
    BY DEF SendMessage, SenderInv, SendsCounted, TypeOK
  <1>5. ASSUME NEW k \in Messages
        PROVE  /\ Count(toReceiver, k) \in Nat /\ Count(waiting, k) \in Nat
               /\ Count(toReceiver', k) + Count(waiting', k)
                     <= Count(toReceiver, k) + Count(waiting, k) + (IF k = m THEN 1 ELSE 0)
               /\ outcome'[k] = "connecting" => Count(toReceiver', k) = Count(toReceiver, k)
    <2>1. Count(toReceiver, k) \in Nat /\ Count(waiting, k) \in Nat
      BY <1>2, CountType
    <2>2. CASE UNCHANGED <<waiting, toReceiver>>
      BY <2>1, <2>2
    <2>3. CASE Transmit(<<m>>) /\ outcome' = [outcome EXCEPT ![m] = IF linked THEN "sending" ELSE "connecting"]
      <3>1. /\ Count(toReceiver', k) + Count(waiting', k)
                  = Count(toReceiver, k) + Count(waiting, k) + Count(<<m>>, k)
            /\ ~linked \/ Count(<<m>>, k) = 0 => Count(toReceiver', k) = Count(toReceiver, k)
        BY <1>2, <2>3, TransmitAdds
      <3>2. k = m /\ outcome'[k] = "connecting" => ~linked
        BY <2>3 DEF TypeOK
      <3>3. Count(toReceiver', k) + Count(waiting', k)
                  <= Count(toReceiver, k) + Count(waiting, k) + (IF k = m THEN 1 ELSE 0)
        BY <1>3, <2>1, <3>1
      <3>. QED  BY <1>3, <2>1, <3>1, <3>2, <3>3
    <2>. QED  BY <2>2, <2>3 DEF SendMessage
  <1>6. ASSUME NEW k \in Messages
        PROVE  \/ /\ sends'[k] = sends[k]
                  /\ Count(toReceiver', k) + Count(waiting', k)
                        <= Count(toReceiver, k) + Count(waiting, k)
               \/ /\ sends'[k] = sends[k] + 1
                  /\ Count(toReceiver', k) + Count(waiting', k)
                        <= Count(toReceiver, k) + Count(waiting, k) + 1
    <2>1. CASE k = m
      BY <1>4, <1>5, <2>1
    <2>2. CASE k # m
      <3>1. /\ Count(toReceiver', k) + Count(waiting', k)
                  <= Count(toReceiver, k) + Count(waiting, k) + 0
            /\ Count(toReceiver, k) \in Nat /\ Count(waiting, k) \in Nat
        BY <1>5, <2>2
      <3>. QED  BY <1>4, <2>2, <3>1
    <2>. QED  BY <2>1, <2>2
  <1>7. ASSUME NEW k \in Messages, outcome'[k] = "connecting"
        PROVE  /\ Count(toReceiver', k) <= Count(toReceiver, k)
               /\ outcome[k] = "connecting" \/ sends[k] = 0
    BY <1>4, <1>5, <1>7
  <1>. QED  BY <1>1, <1>6, <1>7, FlowKept, Zenon

\* A new connection carries what waited for it, and no call that it sent waits on.
LEMMA ConnectFlow ==
    ASSUME TypeOK, TypeOK', FlowInv, Connect
    PROVE  FlowInv'
  <1>1. /\ toReceiver' = toReceiver \o waiting /\ waiting' = << >>
        /\ UNCHANGED <<toSender, sends>> /\ UNCHANGED receiverVars
        /\ outcome' = [m \in Messages |-> IF m \in Connecting THEN "sending" ELSE outcome[m]]
    BY DEF Connect
  <1>2. toReceiver \in Seq(Envelopes) /\ waiting \in Seq(Envelopes)
    BY DEF TypeOK, Envelopes
  <1>3. ASSUME NEW m \in Messages
        PROVE  /\ Count(toReceiver, m) \in Nat /\ Count(waiting, m) \in Nat
               /\ Count(toReceiver', m) = Count(toReceiver, m) + Count(waiting, m)
               /\ Count(waiting', m) = 0
    <2>1. waiting' \in Seq(Envelopes) /\ \A i \in 1 .. Len(waiting') : waiting'[i] # m
      BY <1>1
    <2>2. Count(waiting', m) = 0
      BY <2>1, CountAbsent
    <2>3. Count(toReceiver', m) = Count(toReceiver, m) + Count(waiting, m)
      BY <1>1, <1>2, CountConcat
    <2>. QED  BY <1>2, <2>2, <2>3, CountType
  <1>4. ASSUME NEW m \in Messages
        PROVE  /\ sends'[m] = sends[m]
               /\ Count(toReceiver', m) + Count(waiting', m)
                     <= Count(toReceiver, m) + Count(waiting, m)
    BY <1>1, <1>3
  <1>5. ASSUME NEW m \in Messages, outcome'[m] = "connecting"
        PROVE  /\ Count(toReceiver', m) <= Count(toReceiver, m)
               /\ outcome[m] = "connecting" \/ sends[m] = 0
    <2>1. outcome[m] = "connecting" /\ m \notin Connecting
      BY <1>1, <1>5
    <2>2. Count(waiting, m) = 0
      <3>1. DOMAIN waiting = 1 .. Len(waiting)
        BY <1>2
      <3>. QED  BY <1>2, <2>1, <3>1, CountAbsent DEF Connecting
    <2>. QED  BY <1>3, <2>1, <2>2
  <1>6. \A i \in 1 .. Len(toSender') : toSender'[i] \in accepted \cup {"GOODBYE"}
    BY <1>1 DEF FlowInv, AcksAreTrue
  <1>. QED  BY <1>1, <1>4, <1>5, <1>6, FlowKept, Zenon

\* Every step keeps what is known of the messages on their way.
LEMMA FlowStep ==
    ASSUME TypeOK, TypeOK', SenderInv, FlowInv, [Next]_vars
    PROVE  FlowInv'
  <1>0. /\ toReceiver \in Seq(Envelopes) /\ waiting \in Seq(Envelopes)
        /\ toSender \in Seq(Envelopes) /\ accepted \subseteq Messages
    BY DEF TypeOK, Envelopes
  <1>1. \A m \in Messages : Count(toReceiver, m) \in Nat /\ Count(waiting, m) \in Nat
    BY <1>0, CountType
  <1>2. AcksAreTrue
    BY DEF FlowInv
  <1>3. CASE UNCHANGED vars
    BY <1>3 DEF FlowInv, Accounted, Unsent, AcceptedIsSeen, AcksAreTrue, Count, Places, vars
  <1>4. ASSUME NEW m \in Messages, SendMessage(m) PROVE FlowInv'
    BY <1>4, SendMessageFlow
  <1>5. ASSUME NEW m \in Messages, Enqueue(m) PROVE FlowInv'
    <2>1. \A k \in Messages : outcome'[k] = "connecting" => outcome[k] = "connecting"
      BY <1>5 DEF Enqueue, TypeOK
    <2>. QED
      BY <1>5, <2>1
      DEF Enqueue, FlowInv, Accounted, Unsent, AcceptedIsSeen, AcksAreTrue, receiverVars
  <1>6. ASSUME toSender # << >>, toSender' = Tail(toSender)
        PROVE  \A i \in 1 .. Len(toSender') : toSender'[i] \in accepted \cup {"GOODBYE"}
    BY <1>0, <1>2, <1>6, TailTyped DEF AcksAreTrue
  <1>7. ASSUME NEW m \in Messages, HandleAck(m) PROVE FlowInv'
    <2>1. \A k \in Messages : /\ Count(toReceiver', k) <= Count(toReceiver, k)
                              /\ Count(waiting', k) <= Count(waiting, k)
      BY <1>1, <1>7 DEF HandleAck
    <2>2. \A k \in Messages : outcome'[k] = "connecting" => outcome[k] = "connecting"
      BY <1>7 DEF HandleAck, Acknowledge, TypeOK
    <2>. QED  BY <1>6, <1>7, <2>1, <2>2, FlowUnsent DEF HandleAck, SenderReceives
  <1>8. CASE Tick
    BY <1>8, TickFlow
  <1>9. CASE GoodbyeAtSender
    <2>1. \A k \in Messages : /\ Count(toReceiver', k) <= Count(toReceiver, k)
                              /\ Count(waiting', k) <= Count(waiting, k)
      BY <1>1, <1>9 DEF GoodbyeAtSender, linkVars
    <2>. QED  BY <1>6, <1>9, <2>1, FlowUnsent DEF GoodbyeAtSender, SenderReceives, senderVars
  <1>10. ASSUME NEW m \in Messages, HandleAppMessage(m) PROVE FlowInv'
    BY <1>10, HandleAppMessageFlow
  <1>11. ASSUME NEW m \in Messages, DeliverMessage(m) PROVE FlowInv'
    BY <1>11, DeliverMessageFlow
  <1>12. CASE GoodbyeAtReceiver
    <2>1. toReceiver # << >> /\ Head(toReceiver) = "GOODBYE" /\ toReceiver' = Tail(toReceiver)
      BY <1>12 DEF GoodbyeAtReceiver, ReceiverReceives
    <2>2. \A k \in Messages : Count(toReceiver', k) <= Count(toReceiver, k)
      <3>1. \A k \in Messages : "GOODBYE" # k
        BY DeliveryAssumption
      <3>. QED  BY <1>0, <1>1, <2>1, <3>1, CountTail
    <2>3. \A k \in Messages : Count(waiting', k) <= Count(waiting, k)
      BY <1>1, <1>12 DEF GoodbyeAtReceiver, linkVars
    <2>. QED  BY <1>2, <1>12, <2>2, <2>3, FlowUnsent DEF GoodbyeAtReceiver, AcksAreTrue, senderVars
  <1>13. CASE CloseAtSender
    <2>1. <<"GOODBYE">> \in Seq(Envelopes) /\ Transmit(<<"GOODBYE">>)
      BY <1>13 DEF CloseAtSender, Envelopes
    <2>2. ASSUME NEW k \in Messages
          PROVE  /\ sends'[k] = sends[k]
                 /\ Count(toReceiver', k) + Count(waiting', k)
                       <= Count(toReceiver, k) + Count(waiting, k)
                 /\ outcome'[k] = "connecting" =>
                       /\ Count(toReceiver', k) <= Count(toReceiver, k)
                       /\ outcome[k] = "connecting" \/ sends[k] = 0
      <3>1. Count(<<"GOODBYE">>, k) = 0
        <4>1. k # "GOODBYE" /\ \A i \in 1 .. Len(<<"GOODBYE">>) : <<"GOODBYE">>[i] = "GOODBYE"
          BY DeliveryAssumption
        <4>. QED  BY <2>1, <4>1, CountAbsent
      <3>2. /\ Count(toReceiver', k) + Count(waiting', k)
                  = Count(toReceiver, k) + Count(waiting, k) + Count(<<"GOODBYE">>, k)
            /\ Count(toReceiver', k) = Count(toReceiver, k)
        BY <2>1, <3>1, TransmitAdds
      <3>. QED  BY <1>1, <1>13, <3>1, <3>2 DEF CloseAtSender, senderVars
    <2>3. /\ UNCHANGED receiverVars
          /\ \A i \in 1 .. Len(toSender') : toSender'[i] \in accepted \cup {"GOODBYE"}
      BY <1>2, <1>13 DEF CloseAtSender, AcksAreTrue
    <2>. QED  BY <2>2, <2>3, FlowKept, Zenon
  <1>14. CASE CloseAtReceiver
    <2>1. \A k \in Messages : /\ Count(toReceiver', k) <= Count(toReceiver, k)
                              /\ Count(waiting', k) <= Count(waiting, k)
      BY <1>1, <1>14 DEF CloseAtReceiver, linkVars
    <2>2. \A i \in 1 .. Len(toSender') : toSender'[i] \in accepted \cup {"GOODBYE"}
      <3>1. CASE toSender' = toSender
        BY <1>2, <3>1 DEF AcksAreTrue
      <3>2. CASE toSender' = Append(toSender, "GOODBYE")
        <4>1. /\ Len(toSender') = Len(toSender) + 1 /\ toSender'[Len(toSender) + 1] = "GOODBYE"
              /\ \A i \in 1 .. Len(toSender) : toSender'[i] = toSender[i]
              /\ Len(toSender) \in Nat
          BY <1>0, <3>2
        <4>. QED  BY <1>2, <4>1 DEF AcksAreTrue
      <3>. QED  BY <1>14, <3>1, <3>2 DEF CloseAtReceiver
    <2>. QED  BY <1>14, <2>1, <2>2, FlowUnsent DEF CloseAtReceiver, senderVars
  <1>15. ASSUME NEW q, q = << >> PROVE \A k \in Messages : Count(q, k) = 0
    <2>1. q \in Seq(Envelopes) /\ \A k \in Messages, i \in 1 .. Len(q) : q[i] # k
      BY <1>15
    <2>. QED  BY <2>1, CountAbsent
  <1>16. CASE Stop
    <2>1. \A k \in Messages : /\ Count(toReceiver', k) <= Count(toReceiver, k)
                              /\ Count(waiting', k) <= Count(waiting, k)
      BY <1>1, <1>15, <1>16 DEF Stop
    <2>2. \A i \in 1 .. Len(toSender') : toSender'[i] \in accepted \cup {"GOODBYE"}
      BY <1>16 DEF Stop
    <2>3. \A k \in Messages : outcome'[k] = "connecting" => outcome[k] = "connecting"
      BY <1>16 DEF Stop, StopQueue, TypeOK
    <2>. QED  BY <1>16, <2>1, <2>2, <2>3, FlowUnsent DEF Stop
  <1>17. CASE Lose
    <2>1. \A k \in Messages : /\ Count(toReceiver', k) <= Count(toReceiver, k)
                              /\ Count(waiting', k) <= Count(waiting, k)
      BY <1>1, <1>15, <1>17 DEF Lose
    <2>2. \A i \in 1 .. Len(toSender') : toSender'[i] \in accepted \cup {"GOODBYE"}
      BY <1>17 DEF Lose
    <2>. QED  BY <1>17, <2>1, <2>2, FlowUnsent DEF Lose, senderVars
  <1>18. CASE Connect
    BY <1>18, ConnectFlow
  <1>19. CASE ConnectTimesOut \/ ConnectCloses
    <2>1. /\ waiting' = << >> /\ UNCHANGED <<toReceiver, toSender, sends>>
          /\ UNCHANGED receiverVars
      BY <1>19 DEF ConnectTimesOut, ConnectCloses, senderVars
    <2>2. \A k \in Messages : /\ Count(toReceiver', k) <= Count(toReceiver, k)
                              /\ Count(waiting', k) <= Count(waiting, k)
      BY <1>1, <1>15, <2>1
    <2>3. \A k \in Messages : outcome'[k] = "connecting" => outcome[k] = "connecting"
      BY <1>19 DEF ConnectTimesOut, ConnectCloses, TypeOK, senderVars
    <2>. QED  BY <1>2, <2>1, <2>2, <2>3, FlowUnsent DEF AcksAreTrue
  <1>. QED
    BY <1>3, <1>4, <1>5, <1>7, <1>8, <1>9, <1>10, <1>11, <1>12, <1>13, <1>14, <1>16, <1>17, <1>18, <1>19
    DEF Next, Sender, Receiver

-----------------------------------------------------------------------------
(* What is settled *)

\* A call is resolved by an ACK, and over a data channel an ACK finds no call that
\* still sends.
LEMMA SettledStep ==
    ASSUME TypeOK, SenderInv, FlowInv, SettledInv, [Next]_vars
    PROVE  SettledInv'
  <1>1. Queued = {m \in Messages : outcome[m] = "pending"}
    BY DEF SenderInv, QueueIsServed
  <1>2. CASE UNCHANGED <<outcome, acked>> /\ accepted \subseteq accepted'
    BY <1>2 DEF SettledInv
  <1>3. ASSUME NEW m \in Messages, SendMessage(m) PROVE SettledInv'
    BY <1>3 DEF SendMessage, SettledInv, TypeOK, receiverVars
  <1>4. ASSUME NEW m \in Messages, Enqueue(m) PROVE SettledInv'
    BY <1>4 DEF Enqueue, SettledInv, TypeOK, receiverVars
  <1>5. CASE Tick
    BY <1>1, <1>5 DEF Tick, Expired, SettledInv, TypeOK, receiverVars
  <1>6. CASE Stop
    BY <1>1, <1>6 DEF Stop, StopQueue, SettledInv, TypeOK, receiverVars
  <1>7. ASSUME NEW m \in Messages, HandleAck(m) PROVE SettledInv'
    <2>1. m \in accepted /\ accepted' = accepted
      <3>1. toSender # << >> /\ Head(toSender) = m /\ accepted' = accepted
        BY <1>7 DEF HandleAck, SenderReceives, receiverVars
      <3>2. toSender[1] = m /\ 1 \in 1 .. Len(toSender)
        BY <3>1, TailTyped DEF TypeOK
      <3>. QED  BY <3>1, <3>2, DeliveryAssumption DEF FlowInv, AcksAreTrue
    <2>2. \A k \in Messages : outcome'[k] = outcome[k] \/ (k = m /\ outcome'[k] = "resolved")
      <3>1. outcome' = outcome \/ outcome' = [outcome EXCEPT ![m] = "resolved"]
        BY <1>7 DEF HandleAck, Acknowledge
      <3>2. outcome' = outcome => \A k \in Messages : outcome'[k] = outcome[k]
        OBVIOUS
      <3>3. outcome' = [outcome EXCEPT ![m] = "resolved"]
               => \A k \in Messages : outcome'[k] = outcome[k] \/ (k = m /\ outcome'[k] = "resolved")
        BY DEF TypeOK
      <3>. QED  BY <3>1, <3>2, <3>3
    <2>3. \A k \in Messages : outcome'[k] = "resolved" => k \in accepted
      BY <2>1, <2>2 DEF SettledInv
    <2>4. ASSUME ~Inline, NEW k \in acked' PROVE outcome'[k] \in {"resolved", "rejected"}
      <3>1. CASE k \in acked
        BY <2>2, <2>4, <3>1 DEF SettledInv, TypeOK
      <3>2. CASE k \notin acked
        <4>1. k = m /\ up
          BY <1>7, <2>4, <3>2 DEF HandleAck
        <4>2. outcome[m] # "sending"
          BY <1>7, <2>4 DEF HandleAck, SenderReceives, Sending
        <4>3. outcome[m] \notin {"none", "connecting"}
          <5>1. received[m] > 0 \/ m \in delivering
            BY <2>1 DEF FlowInv, AcceptedIsSeen
          <5>2. /\ received[m] + Count(toReceiver, m) + Count(waiting, m) <= sends[m]
                /\ m \in delivering => received[m] + Count(toReceiver, m) + Count(waiting, m) < sends[m]
            BY DEF FlowInv, Accounted
          <5>3. /\ Count(toReceiver, m) \in Nat /\ Count(waiting, m) \in Nat
                /\ sends[m] \in Nat /\ received[m] \in Nat
            BY CountType, DeliveryAssumption DEF TypeOK
          <5>4. sends[m] # 0
            BY <5>1, <5>2, <5>3
          <5>5. outcome[m] # "connecting"
            BY <5>1, <5>3 DEF FlowInv, Unsent
          <5>. QED  BY <5>4, <5>5 DEF SenderInv, SendsCounted
        <4>4. outcome[m] = "pending" => outcome'[m] = "resolved"
          BY <1>1, <1>7, <4>1 DEF HandleAck, Acknowledge, TypeOK
        <4>. QED  BY <2>2, <4>1, <4>2, <4>3, <4>4 DEF TypeOK
      <3>. QED  BY <3>1, <3>2
    <2>. QED  BY <2>1, <2>3, <2>4 DEF SettledInv
  <1>8. ASSUME NEW m \in Messages, HandleAppMessage(m) PROVE SettledInv'
    BY <1>2, <1>8 DEF HandleAppMessage, senderVars
  <1>9. ASSUME NEW m \in Messages, DeliverMessage(m) PROVE SettledInv'
    BY <1>2, <1>9 DEF DeliverMessage, senderVars
  <1>10. CASE GoodbyeAtSender \/ GoodbyeAtReceiver \/ CloseAtSender \/ CloseAtReceiver
             \/ Lose \/ ConnectCloses
    BY <1>2, <1>10 DEF GoodbyeAtSender, GoodbyeAtReceiver, CloseAtSender, CloseAtReceiver, Lose, ConnectCloses,
                       senderVars, receiverVars
  <1>11. CASE UNCHANGED vars
    BY <1>2, <1>11 DEF vars
  <1>12. CASE Connect \/ ConnectTimesOut
    <2>1. PICK settled \in {"sending", "rejected"} :
             outcome' = [m \in Messages |-> IF m \in Connecting THEN settled ELSE outcome[m]]
      BY <1>12 DEF Connect, ConnectTimesOut
    <2>2. UNCHANGED <<acked, accepted>>
      BY <1>12 DEF Connect, ConnectTimesOut, receiverVars
    <2>3. \A m \in Messages : \/ outcome'[m] = outcome[m]
                              \/ outcome[m] = "connecting" /\ outcome'[m] # "resolved"
      BY <2>1 DEF Connecting
    <2>. QED  BY <2>2, <2>3 DEF SettledInv, TypeOK
  <1>. QED
    BY <1>3, <1>4, <1>5, <1>6, <1>7, <1>8, <1>9, <1>10, <1>11, <1>12 DEF Next, Sender, Receiver

-----------------------------------------------------------------------------
(* Theorems *)

\* The invariant holds at first.
LEMMA InvariantInit == Init => IInv
  <1>. SUFFICES ASSUME Init PROVE IInv
    OBVIOUS
  <1>1. << >> \in Seq(Messages) /\ << >> \in Seq(Messages \cup {"GOODBYE"}) /\ Len(<< >>) = 0
    OBVIOUS
  <1>2. /\ queue \in Seq(Messages) /\ toReceiver \in Seq(Messages \cup {"GOODBYE"}) /\ Len(queue) = 0
        /\ toSender \in Seq(Messages \cup {"GOODBYE"}) /\ Len(toReceiver) = 0 /\ Len(toSender) = 0
        /\ waiting \in Seq(Messages \cup {"GOODBYE"}) /\ Len(waiting) = 0
    BY <1>1 DEF Init
  <1>3. TypeOK
    <2>1. 0 \in 0 .. MaxRetries /\ 0 \in 0 .. MaxRetries + 1
      BY DeliveryAssumption
    <2>2. retries \in [Messages -> 0 .. MaxRetries] /\ sends \in [Messages -> 0 .. MaxRetries + 1]
      BY <2>1 DEF Init
    <2>3. received \in [Messages -> Nat] /\ outcome \in [Messages -> {"none"}]
      BY DEF Init
    <2>4. ready \in [sender : BOOLEAN, receiver : BOOLEAN] /\ up \in BOOLEAN /\ timer \in BOOLEAN
          /\ linked \in BOOLEAN
      BY DEF Init
    <2>. QED  BY <1>2, <2>2, <2>3, <2>4 DEF Init, TypeOK
  <1>4. Queued = {} /\ Distinct(queue)
    BY <1>2 DEF Queued, Distinct
  <1>5. SenderInv
    BY <1>4 DEF Init, SenderInv, QueueIsServed, SendsCounted
  <1>6. \A m \in Messages : Count(toReceiver, m) = 0 /\ Count(waiting, m) = 0
    <2>. TAKE m \in Messages
    <2>1. /\ \A i \in 1 .. Len(toReceiver) : toReceiver[i] # m
          /\ \A i \in 1 .. Len(waiting) : waiting[i] # m
      BY <1>2
    <2>. QED  BY <1>2, <2>1, CountAbsent
  <1>7. FlowInv
    BY <1>2, <1>6 DEF Init, FlowInv, Accounted, Unsent, AcceptedIsSeen, AcksAreTrue
  <1>8. SettledInv
    BY DEF Init, SettledInv
  <1>. QED  BY <1>3, <1>5, <1>7, <1>8 DEF IInv

\* Every step keeps the invariant.
LEMMA InvariantStep ==
    ASSUME IInv, [Next]_vars
    PROVE  IInv'
  BY SenderStep, FlowStep, SettledStep DEF IInv

\* The invariant holds on either transport, whatever is lost, closed or stopped.
THEOREM Invariance == Spec => []IInv
  BY InvariantInit, InvariantStep, PTL DEF Spec

\* The variables keep their types: no message is sent more than MaxRetries + 1 times.
THEOREM TypeCorrect == Spec => []TypeOK
  BY Invariance, PTL DEF IInv

\* The queue of OutboundMessageQueue holds exactly the calls that wait for an ACK,
\* and its interval timer runs exactly while it holds one.
THEOREM QueueServed == Spec => []QueueIsServed
  BY Invariance, PTL DEF IInv, SenderInv

\* A promise that sendMessage resolves is for a message that the receiver has
\* decrypted, and that its application has or is about to get.
THEOREM ResolvedAccepted == Spec => []ResolvedIsAccepted
  <1>1. IInv => ResolvedIsAccepted
    BY DEF IInv, SettledInv, FlowInv, AcceptedIsSeen, ResolvedIsAccepted
  <1>. QED  BY <1>1, Invariance, PTL

\* onMessageReceived is called at most as often as sendFn was.
THEOREM DuplicatesAreResent == Spec => []NoSpontaneousDuplicates
  <1>1. ASSUME IInv, NEW m \in Messages PROVE received[m] <= sends[m]
    <2>1. received[m] + Count(toReceiver, m) + Count(waiting, m) <= sends[m]
      BY <1>1 DEF IInv, FlowInv, Accounted
    <2>2. Count(toReceiver, m) \in Nat /\ Count(waiting, m) \in Nat /\ received[m] \in Nat /\ sends[m] \in Nat
      BY <1>1, CountType, DeliveryAssumption DEF IInv, TypeOK
    <2>. QED  BY <2>1, <2>2
  <1>2. IInv => NoSpontaneousDuplicates
    BY <1>1 DEF NoSpontaneousDuplicates
  <1>. QED  BY <1>2, Invariance, PTL

-----------------------------------------------------------------------------
(* What an ACK ends, over a data channel *)

\* A call that is settled stays as it is.
LEMMA SettledStays ==
    ASSUME IInv, [Next]_vars, NEW m \in Messages, outcome[m] \in {"resolved", "rejected"}
    PROVE  outcome'[m] = outcome[m] /\ sends'[m] = sends[m]
  <1>1. m \notin Queued /\ outcome \in [Messages -> Outcomes]
        /\ sends \in [Messages -> 0 .. MaxRetries + 1]
    BY DEF IInv, SenderInv, QueueIsServed, TypeOK, Outcomes
  <1>2. CASE UNCHANGED <<outcome, sends>>
    BY <1>2
  <1>3. ASSUME NEW k \in Messages, SendMessage(k) PROVE outcome'[m] = outcome[m] /\ sends'[m] = sends[m]
    BY <1>1, <1>3 DEF SendMessage
  <1>4. ASSUME NEW k \in Messages, Enqueue(k) PROVE outcome'[m] = outcome[m] /\ sends'[m] = sends[m]
    BY <1>1, <1>4 DEF Enqueue
  <1>5. ASSUME NEW k \in Messages, HandleAck(k) PROVE outcome'[m] = outcome[m] /\ sends'[m] = sends[m]
    <2>1. sends' = sends /\ (outcome' = outcome \/ (k \in Queued /\ outcome' = [outcome EXCEPT ![k] = "resolved"]))
      BY <1>5 DEF HandleAck, Acknowledge
    <2>2. k \in Queued => k # m
      BY <1>1
    <2>. QED  BY <1>1, <2>1, <2>2
  <1>6. CASE Tick
    BY <1>1, <1>6 DEF Tick, Expired, Retried
  <1>7. CASE Stop
    BY <1>1, <1>7 DEF Stop, StopQueue
  <1>8. ASSUME NEW k \in Messages, HandleAppMessage(k) \/ DeliverMessage(k)
        PROVE  UNCHANGED <<outcome, sends>>
    BY <1>8 DEF HandleAppMessage, DeliverMessage, senderVars
  <1>9. CASE GoodbyeAtSender \/ GoodbyeAtReceiver \/ CloseAtSender \/ CloseAtReceiver
             \/ Lose \/ ConnectCloses
    BY <1>2, <1>9 DEF GoodbyeAtSender, GoodbyeAtReceiver, CloseAtSender, CloseAtReceiver, Lose, ConnectCloses,
                      senderVars, receiverVars
  <1>10. CASE UNCHANGED vars
    BY <1>2, <1>10 DEF vars
  <1>11. CASE Connect \/ ConnectTimesOut
    BY <1>11 DEF Connect, ConnectTimesOut, Connecting
  <1>. QED
    BY <1>2, <1>3, <1>4, <1>5, <1>6, <1>7, <1>8, <1>9, <1>10, <1>11 DEF Next, Sender, Receiver

\* Over a data channel, whose first transmission is awaited before an ACK can be
\* handled, a message that was acknowledged is never sent again.
THEOREM AckEndsRetries == ~Inline => (Spec => NoRetryAfterAck)
  <1>. SUFFICES ASSUME ~Inline PROVE Spec => NoRetryAfterAck
    OBVIOUS
  <1>1. ASSUME IInv, [Next]_vars, NEW m \in acked PROVE sends'[m] = sends[m]
    <2>1. m \in Messages /\ outcome[m] \in {"resolved", "rejected"}
      BY <1>1 DEF IInv, TypeOK, SettledInv
    <2>. QED  BY <1>1, <2>1, SettledStays
  <1>2. IInv /\ [Next]_vars => [\A m \in acked : sends'[m] = sends[m]]_vars
    BY <1>1
  <1>. QED  BY <1>2, Invariance, PTL DEF Spec, NoRetryAfterAck

\* Over a data channel a message that was acknowledged does not expire.
THEOREM AckEndsExpiry == ~Inline => (Spec => AckedDoesNotExpire)
  <1>. SUFFICES ASSUME ~Inline PROVE Spec => AckedDoesNotExpire
    OBVIOUS
  <1>1. ASSUME IInv, [Next]_vars, NEW m \in acked PROVE outcome'[m] = outcome[m]
    <2>1. m \in Messages /\ outcome[m] \in {"resolved", "rejected"}
      BY <1>1 DEF IInv, TypeOK, SettledInv
    <2>. QED  BY <1>1, <2>1, SettledStays
  <1>2. IInv /\ [Next]_vars
           => [\A m \in acked : outcome'[m] = "rejected" => outcome[m] = "rejected"]_vars
    BY <1>1
  <1>. QED  BY <1>2, Invariance, PTL DEF Spec, AckedDoesNotExpire
=============================================================================

-------------------------- MODULE SignalingProofs --------------------------
(* Theorems about SignalingRelay, for any nodes, signals and MaxPolls. *)
EXTENDS SignalingRelay, TLAPS

-----------------------------------------------------------------------------
(* Sequences *)

\* RemoveAt closes the gap.
LEMMA RemoveAtProperties ==
    ASSUME NEW S, NEW s \in Seq(S), NEW i \in DOMAIN s
    PROVE  /\ RemoveAt(s, i) \in Seq(S)
           /\ Len(RemoveAt(s, i)) = Len(s) - 1
           /\ \A j \in 1 .. Len(s) - 1 :
                 RemoveAt(s, i)[j] = IF j < i THEN s[j] ELSE s[j + 1]
  <1>. DEFINE front == SubSeq(s, 1, i - 1)
              back  == SubSeq(s, i + 1, Len(s))
  <1>1. i \in 1 .. Len(s) /\ Len(s) \in Nat
    OBVIOUS
  <1>2. front \in Seq(S) /\ Len(front) = i - 1 /\ \A j \in 1 .. i - 1 : front[j] = s[j]
    BY <1>1
  <1>3. back \in Seq(S) /\ Len(back) = Len(s) - i /\ \A j \in 1 .. Len(s) - i : back[j] = s[i + j]
    BY <1>1
  <1>. HIDE DEF front, back
  <1>4. RemoveAt(s, i) = front \o back
    BY DEF RemoveAt, front, back
  <1>. QED  BY <1>1, <1>2, <1>3, <1>4

-----------------------------------------------------------------------------
(* Type correctness *)

\* An answered poll leaves queue, client and batch typed.
LEMMA RespondType ==
    ASSUME TypeOK, NEW n \in Nodes, NEW poll \in {"live", "dead"}, NEW q \in Seq(Signals),
           Respond(n, poll, q)
    PROVE  /\ queue'  \in [Nodes -> Seq(Signals)]
           /\ client' \in [Nodes -> ClientState]
           /\ batch'  \in [Nodes -> Seq(Signals)]
  <1>1. queue' \in [Nodes -> Seq(Signals)]
    BY DEF Respond, TypeOK
  <1>2. CASE poll = "live"
    BY <1>1, <1>2 DEF Respond, TypeOK, ClientState
  <1>3. CASE poll # "live"
    BY <1>1, <1>3 DEF Respond, TypeOK
  <1>. QED  BY <1>2, <1>3

\* So does a request that ends without its response.
LEMMA AbandonType ==
    ASSUME TypeOK, NEW n \in Nodes, Abandon(n)
    PROVE  polls' \in [Nodes -> Seq({"live", "dead"})] /\ batch' \in [Nodes -> Seq(Signals)]
  <1>1. polls[n] \in Seq({"live", "dead"})
    BY DEF TypeOK
  <1>2. [i \in DOMAIN polls[n] |-> "dead"] \in Seq({"live", "dead"})
    BY <1>1
  <1>. QED  BY <1>2 DEF Abandon, TypeOK

\* Every step keeps the types.
LEMMA TypeStep ==
    ASSUME TypeOK, [Next]_vars
    PROVE  TypeOK'
  <1>0. CASE UNCHANGED vars
    BY <1>0 DEF TypeOK, vars
  <1>1. ASSUME NEW s \in Signals, Publish(s) PROVE TypeOK'
    <2>. DEFINE n == Target[s]
                q == Append(queue[n], s)
    <2>1. n \in Nodes
      BY RelayAssumption
    <2>2. q \in Seq(Signals) /\ polls[n] \in Seq({"live", "dead"})
      BY <2>1 DEF TypeOK
    <2>. HIDE DEF n, q
    <2>3. Wake(n, q) /\ UNCHANGED <<stopped, handled>> /\ published' \subseteq Signals
      BY <1>1 DEF Publish, n, q, TypeOK
    <2>4. CASE polls[n] = << >>
      BY <2>1, <2>2, <2>3, <2>4 DEF Wake, TypeOK
    <2>5. CASE polls[n] # << >>
      <3>1. polls' = [polls EXCEPT ![n] = << >>]
        BY <2>3, <2>5 DEF Wake
      <3>2. << >> \in Seq({"live", "dead"}) /\ << >> \in Seq(Signals)
        OBVIOUS
      <3>3. polls' \in [Nodes -> Seq({"live", "dead"})]
        BY <3>1, <3>2 DEF TypeOK
      <3>4. Head(polls[n]) \in {"live", "dead"}
        BY <2>2, <2>5
      <3>5. \E poll \in {"live", "dead"}, r \in Seq(Signals) : Respond(n, poll, r)
        BY <2>2, <2>3, <2>5, <3>2, <3>4 DEF Wake
      <3>6. /\ queue'  \in [Nodes -> Seq(Signals)]
            /\ client' \in [Nodes -> ClientState]
            /\ batch'  \in [Nodes -> Seq(Signals)]
        BY <2>1, <3>5, RespondType
      <3>. QED  BY <2>3, <3>3, <3>6 DEF TypeOK
    <2>. QED  BY <2>4, <2>5
  <1>2. ASSUME NEW n \in Nodes, NEW i \in 1 .. MaxPolls, PollTimeout(n, i) PROVE TypeOK'
    <2>1. polls[n] \in Seq({"live", "dead"}) /\ i \in DOMAIN polls[n]
      BY <1>2 DEF PollTimeout, TypeOK
    <2>2. RemoveAt(polls[n], i) \in Seq({"live", "dead"})
      BY <2>1, RemoveAtProperties
    <2>3. polls' \in [Nodes -> Seq({"live", "dead"})]
      BY <1>2, <2>2 DEF PollTimeout, TypeOK
    <2>4. polls[n][i] \in {"live", "dead"} /\ queue[n] \in Seq(Signals)
      BY <2>1 DEF TypeOK
    <2>5. /\ queue'  \in [Nodes -> Seq(Signals)]
          /\ client' \in [Nodes -> ClientState]
          /\ batch'  \in [Nodes -> Seq(Signals)]
      BY <1>2, <2>4, RespondType DEF PollTimeout
    <2>. QED  BY <1>2, <2>3, <2>5 DEF PollTimeout, TypeOK
  <1>3. ASSUME NEW n \in Nodes, Start(n) PROVE TypeOK'
    BY <1>3 DEF Start, TypeOK, ClientState
  <1>4. ASSUME NEW n \in Nodes, Stop(n) PROVE TypeOK'
    <2>1. CASE Abandon(n)
      BY <1>4, <2>1, AbandonType DEF Stop, TypeOK, ClientState, Abandon
    <2>2. CASE UNCHANGED <<polls, batch, client>>
      BY <1>4, <2>2 DEF Stop, TypeOK
    <2>. QED  BY <1>4, <2>1, <2>2 DEF Stop
  <1>5. ASSUME NEW n \in Nodes, PollFails(n) PROVE TypeOK'
    <2>1. polls' \in [Nodes -> Seq({"live", "dead"})] /\ batch' \in [Nodes -> Seq(Signals)]
      BY <1>5, AbandonType DEF PollFails, TypeOK
    <2>. QED  BY <1>5, <2>1 DEF PollFails, TypeOK, ClientState
  <1>6. ASSUME NEW n \in Nodes, Poll(n) PROVE TypeOK'
    <2>1. CASE queue[n] # << >>
      <3>1. queue[n] \in Seq(Signals)
        BY DEF TypeOK
      <3>2. /\ queue'  \in [Nodes -> Seq(Signals)]
            /\ client' \in [Nodes -> ClientState]
            /\ batch'  \in [Nodes -> Seq(Signals)]
        BY <1>6, <2>1, <3>1, RespondType DEF Poll
      <3>. QED  BY <1>6, <2>1, <3>2 DEF Poll, TypeOK
    <2>2. CASE queue[n] = << >>
      <3>1. polls[n] \in Seq({"live", "dead"})
        BY DEF TypeOK
      <3>2. Append(polls[n], "live") \in Seq({"live", "dead"})
        BY <3>1
      <3>3. polls' \in [Nodes -> Seq({"live", "dead"})]
        BY <1>6, <2>2, <3>2 DEF Poll, TypeOK
      <3>. QED  BY <1>6, <2>2, <3>3 DEF Poll, TypeOK, ClientState
    <2>. QED  BY <2>1, <2>2
  <1>7. ASSUME NEW n \in Nodes, ReceiveResponse(n) PROVE TypeOK'
    BY <1>7 DEF ReceiveResponse, TypeOK, ClientState
  <1>8. ASSUME NEW n \in Nodes, HandleSignal(n) PROVE TypeOK'
    <2>1. Head(batch[n]) \in Signals /\ Tail(batch[n]) \in Seq(Signals)
      BY <1>8 DEF HandleSignal, TypeOK
    <2>2. handled' \in [Nodes -> Seq(Signals)]
      BY <1>8, <2>1 DEF HandleSignal, TypeOK
    <2>3. \E r \in Seq(Signals) : batch' = [batch EXCEPT ![n] = r]
      <3>1. << >> \in Seq(Signals)
        OBVIOUS
      <3>. QED  BY <1>8, <2>1, <3>1 DEF HandleSignal
    <2>4. client' \in [Nodes -> ClientState]
      BY <1>8 DEF HandleSignal, TypeOK, ClientState
    <2>. QED  BY <1>8, <2>2, <2>3, <2>4 DEF HandleSignal, TypeOK
  <1>9. ASSUME NEW n \in Nodes, NextRound(n) PROVE TypeOK'
    BY <1>9 DEF NextRound, TypeOK, ClientState
  <1>10. ASSUME NEW n \in Nodes, LoopEnds(n) PROVE TypeOK'
    BY <1>10 DEF LoopEnds, TypeOK, ClientState
  <1>. QED
    BY <1>0, <1>1, <1>2, <1>3, <1>4, <1>5, <1>6, <1>7, <1>8, <1>9, <1>10 DEF Next, Loop

\* The variables start typed.
LEMMA TypeInit == Init => TypeOK
  BY DEF Init, TypeOK, ClientState

\* The variables keep their types.
THEOREM TypeCorrect == Spec => []TypeOK
  BY TypeInit, TypeStep, PTL DEF Spec

-----------------------------------------------------------------------------
(* Wake-ups *)

\* NoLostWakeup of one node.
Attended(n) ==
    /\ polls[n] # << >> => queue[n] = << >>
    /\ client[n] = "polling" => polls[n] # << >>
    /\ \A i \in DOMAIN polls[n] :
          polls[n][i] = "live" <=> client[n] = "polling" /\ i = Len(polls[n])

\* What a loop that does not handle a response has of it.
BatchHeld ==
    \A n \in Nodes : client[n] \notin {"answered", "handling"} => batch[n] = << >>

IInv == TypeOK /\ NoLostWakeup /\ BatchHeld

\* What a step that changes node n only leaves alone.
OthersKept(n) ==
    \A k \in Nodes \ {n} :
        /\ polls'[k] = polls[k] /\ queue'[k] = queue[k]
        /\ client'[k] = client[k] /\ batch'[k] = batch[k]

\* A step about node n is looked at for node n.
LEMMA StepIsLocal ==
    ASSUME NoLostWakeup, BatchHeld, NEW n \in Nodes, OthersKept(n), Attended(n)',
           client'[n] \notin {"answered", "handling"} => batch'[n] = << >>
    PROVE  NoLostWakeup' /\ BatchHeld'
  <1>1. ASSUME NEW k \in Nodes, k # n
        PROVE  Attended(k)' /\ (client'[k] \notin {"answered", "handling"} => batch'[k] = << >>)
    BY <1>1 DEF OthersKept, NoLostWakeup, BatchHeld, Attended
  <1>. QED  BY <1>1 DEF NoLostWakeup, BatchHeld, Attended

\* A live poll is the last one.
LEMMA LiveIsLast ==
    ASSUME TypeOK, NoLostWakeup, NEW n \in Nodes, polls[n] # << >>
    PROVE  /\ polls[n] \in Seq({"live", "dead"}) /\ Len(polls[n]) \in Nat \ {0}
           /\ Contains(Tail(polls[n]), "live") <=> client[n] = "polling" /\ Len(polls[n]) > 1
           /\ Head(polls[n]) = "live" <=> client[n] = "polling" /\ Len(polls[n]) = 1
           /\ queue[n] = << >>
  <1>. DEFINE p == polls[n]
  <1>1. p \in Seq({"live", "dead"}) /\ p # << >>
    BY DEF TypeOK
  <1>2. queue[n] = << >> /\ \A i \in DOMAIN p : p[i] = "live" <=> client[n] = "polling" /\ i = Len(p)
    BY DEF NoLostWakeup
  <1>. HIDE DEF p
  <1>3. Len(p) \in Nat \ {0} /\ DOMAIN p = 1 .. Len(p) /\ Head(p) = p[1]
    BY <1>1
  <1>4. Len(Tail(p)) = Len(p) - 1 /\ \A i \in 1 .. Len(p) - 1 : Tail(p)[i] = p[i + 1]
    BY <1>1, <1>3
  <1>5. Contains(Tail(p), "live") <=> client[n] = "polling" /\ Len(p) > 1
    <2>1. ASSUME Contains(Tail(p), "live") PROVE client[n] = "polling" /\ Len(p) > 1
      BY <1>2, <1>3, <1>4, <2>1 DEF Contains
    <2>2. ASSUME client[n] = "polling", Len(p) > 1 PROVE Contains(Tail(p), "live")
      <3>1. Len(p) - 1 \in 1 .. Len(Tail(p)) /\ Tail(p)[Len(p) - 1] = p[Len(p)]
        BY <1>3, <1>4, <2>2
      <3>. QED  BY <1>2, <1>3, <2>2, <3>1 DEF Contains
    <2>. QED  BY <2>1, <2>2
  <1>6. Head(p) = "live" <=> client[n] = "polling" /\ Len(p) = 1
    <2>1. 1 \in DOMAIN p
      BY <1>3
    <2>. QED  BY <1>2, <1>3, <2>1
  <1>. QED  BY <1>1, <1>2, <1>3, <1>5, <1>6 DEF p

\* An answer changes its node only.  A live poll's client has it and holds q, a
\* dead one's is as it was.
LEMMA RespondEffect ==
    ASSUME TypeOK, NEW n \in Nodes, NEW poll, NEW q, Respond(n, poll, q)
    PROVE  /\ queue'[n] = << >>
           /\ poll = "live" => client'[n] = "answered" /\ batch'[n] = q
           /\ poll # "live" => UNCHANGED <<client, batch>>
           /\ \A k \in Nodes \ {n} :
                 queue'[k] = queue[k] /\ client'[k] = client[k] /\ batch'[k] = batch[k]
  BY DEF Respond, TypeOK

\* What Wake does where no poll waits, where the live poll is the first, where it
\* is behind a dead one, and where there are dead ones only.
LEMMA WakeEffect ==
    ASSUME TypeOK, NoLostWakeup, NEW n \in Nodes, NEW q, Wake(n, q)
    PROVE  /\ polls[n] = << >> => /\ queue' = [queue EXCEPT ![n] = q]
                                  /\ UNCHANGED <<polls, client, batch>>
           /\ polls[n] # << >> => /\ polls' = [polls EXCEPT ![n] = << >>]
                                  /\ queue[n] = << >> /\ queue'[n] = << >>
                                  /\ client'[n] # "polling"
           /\ polls[n] # << >> /\ client[n] = "polling" =>
                 client'[n] = "answered" /\ batch'[n] \in {q, << >>}
           /\ polls[n] # << >> /\ client[n] # "polling" => UNCHANGED <<client, batch>>
           /\ \A k \in Nodes \ {n} :
                 queue'[k] = queue[k] /\ client'[k] = client[k] /\ batch'[k] = batch[k]
  <1>1. CASE polls[n] = << >>
    BY <1>1 DEF Wake, TypeOK
  <1>2. CASE polls[n] # << >>
    <2>1. polls' = [polls EXCEPT ![n] = << >>]
      BY <1>2 DEF Wake
    <2>2. queue[n] = << >>
      BY <1>2, LiveIsLast
    <2>3. CASE Contains(Tail(polls[n]), "live")
      <3>1. client[n] = "polling"
        BY <1>2, <2>3, LiveIsLast
      <3>2. Respond(n, "live", << >>)
        BY <1>2, <2>3 DEF Wake
      <3>. QED  BY <1>2, <2>1, <2>2, <3>1, <3>2, RespondEffect
    <2>4. CASE ~Contains(Tail(polls[n]), "live")
      <3>1. Respond(n, Head(polls[n]), q)
        BY <1>2, <2>4 DEF Wake
      <3>2. Head(polls[n]) = "live" <=> client[n] = "polling"
        <4>1. ~(client[n] = "polling" /\ Len(polls[n]) > 1)
          BY <1>2, <2>4, LiveIsLast
        <4>2. Head(polls[n]) = "live" <=> client[n] = "polling" /\ Len(polls[n]) = 1
          BY <1>2, LiveIsLast
        <4>3. Len(polls[n]) = 1 \/ Len(polls[n]) > 1
          <5>1. Len(polls[n]) \in Nat \ {0}
            BY <1>2, LiveIsLast
          <5>2. \A k \in Nat \ {0} : k = 1 \/ k > 1
            OBVIOUS
          <5>. QED  BY <5>1, <5>2, Zenon
        <4>. QED  BY <4>1, <4>2, <4>3, Zenon
      <3>3. CASE Head(polls[n]) = "live"
        BY <1>2, <2>1, <2>2, <3>1, <3>2, <3>3, RespondEffect
      <3>4. CASE Head(polls[n]) # "live"
        BY <1>2, <2>1, <2>2, <3>1, <3>2, <3>4, RespondEffect
      <3>. QED  BY <3>3, <3>4
    <2>. QED  BY <2>3, <2>4
  <1>. QED  BY <1>1, <1>2

\* A request that ends without its response leaves dead polls and no batch.
LEMMA AbandonEffect ==
    ASSUME TypeOK, NEW n \in Nodes, Abandon(n)
    PROVE  /\ DOMAIN polls'[n] = DOMAIN polls[n]
           /\ \A i \in DOMAIN polls'[n] : polls'[n][i] = "dead"
           /\ polls'[n] = << >> <=> polls[n] = << >>
           /\ batch'[n] = << >>
           /\ \A k \in Nodes \ {n} : polls'[k] = polls[k] /\ batch'[k] = batch[k]
  <1>1. polls'[n] = [i \in DOMAIN polls[n] |-> "dead"] /\ batch'[n] = << >>
    BY DEF Abandon, TypeOK
  <1>2. polls[n] \in Seq({"live", "dead"})
    BY DEF TypeOK
  <1>3. [i \in DOMAIN polls[n] |-> "dead"] = << >> <=> polls[n] = << >>
    <2>. DEFINE d == [i \in DOMAIN polls[n] |-> "dead"]
    <2>1. d \in Seq({"dead"}) /\ Len(d) = Len(polls[n])
      BY <1>2
    <2>2. d = << >> <=> Len(d) = 0
      BY <2>1
    <2>3. polls[n] = << >> <=> Len(polls[n]) = 0
      BY <1>2
    <2>. QED  BY <2>1, <2>2, <2>3
  <1>4. \A k \in Nodes \ {n} : polls'[k] = polls[k] /\ batch'[k] = batch[k]
    BY DEF Abandon, TypeOK
  <1>. QED  BY <1>1, <1>3, <1>4

\* Publishing wakes all polls of the target.
LEMMA PublishAttends ==
    ASSUME IInv, NEW s \in Signals, Publish(s)
    PROVE  NoLostWakeup' /\ BatchHeld'
  <1>. DEFINE n == Target[s]
              q == Append(queue[n], s)
  <1>1. n \in Nodes /\ Wake(n, q)
    BY RelayAssumption DEF Publish
  <1>. HIDE DEF n, q
  <1>2. TypeOK /\ NoLostWakeup /\ BatchHeld
    BY DEF IInv
  <1>3. CASE polls[n] = << >>
    <2>1. UNCHANGED <<polls, client, batch>> /\ client[n] # "polling"
      BY <1>1, <1>2, <1>3, WakeEffect DEF NoLostWakeup
    <2>2. OthersKept(n)
      BY <1>1, <1>2, <2>1, WakeEffect DEF OthersKept
    <2>3. Attended(n)'
      BY <1>3, <2>1 DEF Attended
    <2>. QED  BY <1>1, <1>2, <2>1, <2>2, <2>3, StepIsLocal DEF BatchHeld
  <1>4. CASE polls[n] # << >>
    <2>1. /\ polls' = [polls EXCEPT ![n] = << >>] /\ client'[n] # "polling"
          /\ queue'[n] = << >>
      BY <1>1, <1>2, <1>4, WakeEffect
    <2>2. polls'[n] = << >> /\ \A k \in Nodes \ {n} : polls'[k] = polls[k]
      BY <1>1, <1>2, <2>1 DEF TypeOK
    <2>3. OthersKept(n)
      BY <1>1, <1>2, <2>2, WakeEffect DEF OthersKept
    <2>4. Attended(n)'
      BY <2>1, <2>2 DEF Attended
    <2>5. client'[n] \notin {"answered", "handling"} => batch'[n] = << >>
      <3>1. CASE client[n] = "polling"
        BY <1>1, <1>2, <1>4, <3>1, WakeEffect
      <3>2. CASE client[n] # "polling"
        BY <1>1, <1>2, <1>4, <3>2, WakeEffect DEF BatchHeld
      <3>. QED  BY <3>1, <3>2
    <2>. QED  BY <1>1, <1>2, <2>3, <2>4, <2>5, StepIsLocal
  <1>. QED  BY <1>3, <1>4

\* A poll that times out leaves those behind it, and the live one, if any, waits.
LEMMA TimeoutAttends ==
    ASSUME IInv, NEW n \in Nodes, NEW i \in 1 .. MaxPolls, PollTimeout(n, i)
    PROVE  NoLostWakeup' /\ BatchHeld'
  <1>1. TypeOK /\ NoLostWakeup /\ BatchHeld
    BY DEF IInv
  <1>. DEFINE p == polls[n]
              r == RemoveAt(polls[n], i)
  <1>2. i \in DOMAIN p /\ p \in Seq({"live", "dead"}) /\ p # << >>
    BY <1>1 DEF PollTimeout, TypeOK
  <1>3. queue[n] = << >> /\ Respond(n, p[i], queue[n])
    BY <1>1, <1>2 DEF PollTimeout, NoLostWakeup
  <1>4. polls'[n] = r /\ \A k \in Nodes \ {n} : polls'[k] = polls[k]
    BY <1>1 DEF PollTimeout, TypeOK
  <1>5. \A j \in DOMAIN p : p[j] = "live" <=> client[n] = "polling" /\ j = Len(p)
    BY <1>1 DEF NoLostWakeup
  <1>6. /\ r \in Seq({"live", "dead"}) /\ Len(r) = Len(p) - 1
        /\ \A j \in 1 .. Len(p) - 1 : r[j] = IF j < i THEN p[j] ELSE p[j + 1]
    BY <1>2, RemoveAtProperties
  <1>7. OthersKept(n)
    BY <1>1, <1>3, <1>4, RespondEffect DEF OthersKept
  <1>. HIDE DEF p, r
  <1>8. Len(p) \in Nat \ {0} /\ i \in 1 .. Len(p) /\ DOMAIN p = 1 .. Len(p)
    BY <1>2
  <1>9. DOMAIN r = 1 .. Len(p) - 1
    BY <1>6
  <1>10. queue'[n] = << >>
    BY <1>1, <1>3, RespondEffect
  <1>11. CASE p[i] = "live"
    <2>1. i = Len(p) /\ client'[n] = "answered"
      BY <1>1, <1>2, <1>3, <1>5, <1>11, RespondEffect
    <2>2. \A j \in 1 .. Len(p) - 1 : r[j] = p[j] /\ p[j] # "live"
      BY <1>5, <1>6, <1>8, <2>1
    <2>3. Attended(n)'
      BY <1>4, <1>9, <1>10, <2>1, <2>2 DEF Attended
    <2>. QED  BY <1>1, <1>7, <2>1, <2>3, StepIsLocal
  <1>12. CASE p[i] # "live"
    <2>1. UNCHANGED <<client, batch>>
      BY <1>1, <1>3, <1>12, RespondEffect
    <2>2. \A j \in 1 .. Len(p) - 1 :
             r[j] = "live" <=> client[n] = "polling" /\ j = Len(p) - 1
      <3>1. TAKE j \in 1 .. Len(p) - 1
      <3>2. CASE j < i
        <4>1. r[j] = p[j] /\ j \in DOMAIN p /\ j # Len(p)
          BY <1>6, <1>8, <3>2
        <4>2. p[j] # "live"
          BY <1>5, <4>1
        <4>3. j = Len(p) - 1 => i = Len(p)
          <5>1. Len(p) \in Nat /\ i \in 1 .. Len(p)
            BY <1>8
          <5>. QED  BY <5>1, <3>2
        <4>4. i = Len(p) => client[n] # "polling"
          BY <1>2, <1>5, <1>12
        <4>. QED  BY <4>1, <4>2, <4>3, <4>4
      <3>3. CASE ~(j < i)
        <4>1. r[j] = p[j + 1] /\ j + 1 \in DOMAIN p /\ (j + 1 = Len(p) <=> j = Len(p) - 1)
          BY <1>6, <1>8, <3>3
        <4>. QED  BY <1>5, <4>1, Zenon
      <3>. QED  BY <3>2, <3>3
    <2>3. client[n] = "polling" => r # << >>
      <3>1. HAVE client[n] = "polling"
      <3>2. p[Len(p)] = "live"
        BY <1>5, <1>8, <3>1
      <3>3. i # Len(p)
        BY <1>12, <3>2
      <3>. QED  BY <1>6, <1>8, <3>3
    <2>4. Len(r) = Len(p) - 1 /\ polls'[n] = r
      BY <1>4, <1>6
    <2>5. Attended(n)'
      BY <1>9, <1>10, <2>1, <2>2, <2>3, <2>4 DEF Attended
    <2>. QED  BY <1>1, <1>7, <2>1, <2>5, StepIsLocal DEF BatchHeld
  <1>. QED  BY <1>11, <1>12

\* A request that ends leaves dead polls to a client that does not wait.
LEMMA AbandonAttends ==
    ASSUME IInv, NEW n \in Nodes, Abandon(n), UNCHANGED queue,
           client' = [client EXCEPT ![n] = "backoff"] \/ client' = [client EXCEPT ![n] = "off"]
    PROVE  NoLostWakeup' /\ BatchHeld'
  <1>1. TypeOK /\ NoLostWakeup /\ BatchHeld
    BY DEF IInv
  <1>2. client'[n] \in {"backoff", "off"} /\ \A k \in Nodes \ {n} : client'[k] = client[k]
    BY <1>1 DEF TypeOK
  <1>3. OthersKept(n)
    BY <1>1, <1>2, AbandonEffect DEF OthersKept
  <1>4. batch'[n] = << >> /\ \A i \in DOMAIN polls'[n] : polls'[n][i] = "dead"
    BY <1>1, AbandonEffect
  <1>5. polls'[n] # << >> => queue'[n] = << >>
    BY <1>1, AbandonEffect DEF NoLostWakeup
  <1>6. Attended(n)'
    BY <1>2, <1>4, <1>5 DEF Attended
  <1>. QED  BY <1>1, <1>3, <1>4, <1>6, StepIsLocal

\* A poll that is not answered at once is the one live poll, the newest.
LEMMA PollAttends ==
    ASSUME IInv, NEW n \in Nodes, Poll(n)
    PROVE  NoLostWakeup' /\ BatchHeld'
  <1>1. TypeOK /\ NoLostWakeup /\ BatchHeld /\ client[n] = "idle"
    BY DEF IInv, Poll
  <1>2. \A i \in DOMAIN polls[n] : polls[n][i] # "live"
    BY <1>1 DEF NoLostWakeup
  <1>3. CASE queue[n] # << >>
    <2>1. Respond(n, "live", queue[n]) /\ UNCHANGED polls
      BY <1>3 DEF Poll
    <2>2. client'[n] = "answered" /\ OthersKept(n)
      BY <1>1, <2>1, RespondEffect DEF OthersKept
    <2>3. polls'[n] = << >>
      BY <1>1, <1>3, <2>1 DEF NoLostWakeup
    <2>4. Attended(n)'
      BY <2>2, <2>3 DEF Attended
    <2>. QED  BY <1>1, <2>2, <2>4, StepIsLocal
  <1>4. CASE queue[n] = << >>
    <2>. DEFINE a == Append(polls[n], "live")
    <2>1. polls' = [polls EXCEPT ![n] = a] /\ UNCHANGED <<queue, batch>>
      BY <1>4 DEF Poll
    <2>2. client' = [client EXCEPT ![n] = "polling"]
      BY <1>4 DEF Poll
    <2>3. polls'[n] = a /\ client'[n] = "polling" /\ OthersKept(n)
      BY <1>1, <2>1, <2>2 DEF OthersKept, TypeOK
    <2>4. polls[n] \in Seq({"live", "dead"})
      BY <1>1 DEF TypeOK
    <2>5. /\ a # << >> /\ Len(a) = Len(polls[n]) + 1 /\ DOMAIN a = 1 .. Len(a)
          /\ \A i \in 1 .. Len(polls[n]) : a[i] = polls[n][i]
          /\ a[Len(a)] = "live" /\ Len(polls[n]) \in Nat
      BY <2>4
    <2>. HIDE DEF a
    <2>6. \A i \in DOMAIN a : i = Len(a) \/ (i # Len(a) /\ a[i] # "live")
      <3>1. DOMAIN polls[n] = 1 .. Len(polls[n])
        BY <2>4
      <3>. QED  BY <1>2, <2>5, <3>1
    <2>7. Attended(n)'
      BY <1>4, <2>1, <2>3, <2>5, <2>6 DEF Attended
    <2>8. batch'[n] = << >>
      BY <1>1, <2>1 DEF BatchHeld
    <2>. QED  BY <1>1, <2>3, <2>7, <2>8, StepIsLocal
  <1>. QED  BY <1>3, <1>4

\* A loop that leaves polls and queues alone and neither starts nor ends to wait.
LEMMA LoopAttends ==
    ASSUME IInv, NEW n \in Nodes, UNCHANGED <<polls, queue>>, OthersKept(n),
           client[n] # "polling", client'[n] # "polling",
           client'[n] \notin {"answered", "handling"} => batch'[n] = << >>
    PROVE  NoLostWakeup' /\ BatchHeld'
  <1>1. NoLostWakeup /\ BatchHeld
    BY DEF IInv
  <1>2. Attended(n)'
    BY <1>1 DEF Attended, NoLostWakeup
  <1>. QED  BY <1>1, <1>2, StepIsLocal

\* Every step keeps the invariant.
LEMMA WakeUpStep ==
    ASSUME IInv, [Next]_vars
    PROVE  IInv'
  <1>1. TypeOK /\ NoLostWakeup /\ BatchHeld
    BY DEF IInv
  <1>2. TypeOK'
    BY <1>1, TypeStep
  <1>3. SUFFICES NoLostWakeup' /\ BatchHeld'
    BY <1>2 DEF IInv
  <1>4. CASE UNCHANGED vars
    BY <1>1, <1>4 DEF NoLostWakeup, BatchHeld, vars
  <1>5. ASSUME NEW s \in Signals, Publish(s) PROVE NoLostWakeup' /\ BatchHeld'
    BY <1>5, PublishAttends
  <1>6. ASSUME NEW n \in Nodes, NEW i \in 1 .. MaxPolls, PollTimeout(n, i)
        PROVE  NoLostWakeup' /\ BatchHeld'
    BY <1>6, TimeoutAttends
  <1>7. ASSUME NEW n \in Nodes, Start(n) PROVE NoLostWakeup' /\ BatchHeld'
    BY <1>1, <1>7, LoopAttends DEF Start, OthersKept, TypeOK, BatchHeld
  <1>8. ASSUME NEW n \in Nodes, Stop(n) PROVE NoLostWakeup' /\ BatchHeld'
    <2>1. CASE Abandon(n) /\ client' = [client EXCEPT ![n] = "off"]
      BY <1>8, <2>1, AbandonAttends DEF Stop
    <2>2. CASE UNCHANGED <<polls, batch, client>>
      BY <1>1, <1>8, <2>2 DEF Stop, NoLostWakeup, BatchHeld
    <2>. QED  BY <1>8, <2>1, <2>2 DEF Stop
  <1>9. ASSUME NEW n \in Nodes, PollFails(n) PROVE NoLostWakeup' /\ BatchHeld'
    <2>1. CASE Abandon(n)
      BY <1>9, <2>1, AbandonAttends DEF PollFails
    <2>2. CASE client[n] = "idle" /\ UNCHANGED <<polls, batch>>
      BY <1>1, <1>9, <2>2, LoopAttends DEF PollFails, OthersKept, TypeOK, BatchHeld
    <2>. QED  BY <1>9, <2>1, <2>2 DEF PollFails
  <1>10. ASSUME NEW n \in Nodes, Poll(n) PROVE NoLostWakeup' /\ BatchHeld'
    BY <1>10, PollAttends
  <1>11. ASSUME NEW n \in Nodes, ReceiveResponse(n) PROVE NoLostWakeup' /\ BatchHeld'
    BY <1>1, <1>11, LoopAttends DEF ReceiveResponse, OthersKept, TypeOK
  <1>12. ASSUME NEW n \in Nodes, HandleSignal(n) PROVE NoLostWakeup' /\ BatchHeld'
    <2>1. client[n] = "handling" /\ UNCHANGED <<queue, polls>>
      BY <1>12 DEF HandleSignal
    <2>2. CASE batch' = [batch EXCEPT ![n] = Tail(@)] /\ UNCHANGED client
      BY <1>1, <2>1, <2>2, LoopAttends DEF OthersKept, TypeOK
    <2>3. CASE batch' = [batch EXCEPT ![n] = << >>] /\ client' = [client EXCEPT ![n] = "backoff"]
      BY <1>1, <2>1, <2>3, LoopAttends DEF OthersKept, TypeOK
    <2>. QED  BY <1>12, <2>2, <2>3 DEF HandleSignal
  <1>13. ASSUME NEW n \in Nodes, NextRound(n) PROVE NoLostWakeup' /\ BatchHeld'
    BY <1>1, <1>13, LoopAttends DEF NextRound, OthersKept, TypeOK, BatchHeld
  <1>14. ASSUME NEW n \in Nodes, LoopEnds(n) PROVE NoLostWakeup' /\ BatchHeld'
    BY <1>1, <1>14, LoopAttends DEF LoopEnds, OthersKept, TypeOK
  <1>. QED
    BY <1>4, <1>5, <1>6, <1>7, <1>8, <1>9, <1>10, <1>11, <1>12, <1>13, <1>14 DEF Next, Loop

\* The invariant holds at first.
LEMMA WakeUpInit == Init => IInv
  BY TypeInit DEF Init, IInv, NoLostWakeup, BatchHeld

\* No lost wake-up, with any number of polls waiting, dead or alive: enqueueSignal
\* and the listener of GET /signals/poll, against the requests of #pollLoop.
THEOREM WakeUpsAreNotLost == Spec => []NoLostWakeup
  <1>1. IInv => NoLostWakeup
    BY DEF IInv
  <1>. QED  BY <1>1, WakeUpInit, WakeUpStep, PTL DEF Spec

-----------------------------------------------------------------------------
(* Refinement *)

\* What waits for each node: its batch, then its queue.
Box == [n \in Nodes |-> batch[n] \o queue[n]]

\* Dropping the first of two sequences leaves the second.
LEMMA DropFirst ==
    ASSUME NEW S, NEW s \in Seq(S), NEW t \in Seq(S)
    PROVE  /\ s \o t \in Seq(S) /\ Len(s \o t) = Len(s) + Len(t)
           /\ SubSeq(s \o t, Len(s) + 1, Len(s \o t)) = t
           /\ s = << >> => s \o t = t
           /\ t = << >> => s \o t = s
  <1>1. s \o t \in Seq(S) /\ Len(s \o t) = Len(s) + Len(t)
    OBVIOUS
  <1>2. SubSeq(s \o t, Len(s) + 1, Len(s \o t)) = t
    BY <1>1
  <1>3. s = << >> => s \o t = t
    OBVIOUS
  <1>4. t = << >> => s \o t = s
    OBVIOUS
  <1>. QED  BY <1>1, <1>2, <1>3, <1>4

\* The tail of two sequences, the first of which is not empty.
LEMMA TailOfConcat ==
    ASSUME NEW S, NEW s \in Seq(S), NEW t \in Seq(S), s # << >>
    PROVE  /\ s \o t # << >> /\ Head(s \o t) = Head(s)
           /\ Tail(s \o t) = Tail(s) \o t /\ Tail(s) \in Seq(S)
  <1>1. Len(s) \in Nat \ {0} /\ s \o t \in Seq(S) /\ Len(s \o t) = Len(s) + Len(t)
    OBVIOUS
  <1>2. s \o t # << >>
    BY <1>1
  <1>3. (s \o t)[1] = s[1]
    BY <1>1
  <1>4. Tail(s) \in Seq(S) /\ Len(Tail(s)) = Len(s) - 1 /\ \A i \in 1 .. Len(s) - 1 : Tail(s)[i] = s[i + 1]
    OBVIOUS
  <1>5. Tail(s \o t) = Tail(s) \o t
    BY <1>1, <1>2, <1>4
  <1>. QED  BY <1>2, <1>3, <1>4, <1>5

\* Appending to the queue appends to the box.
LEMMA AppendToConcat ==
    ASSUME NEW S, NEW s \in Seq(S), NEW t \in Seq(S), NEW e \in S
    PROVE  s \o Append(t, e) = Append(s \o t, e)
  OBVIOUS

\* A step that changes node n only changes its box only.
LEMMA BoxIsLocal ==
    ASSUME NEW n \in Nodes, OthersKept(n)
    PROVE  Box' = [Box EXCEPT ![n] = batch'[n] \o queue'[n]]
  BY DEF OthersKept, Box

\* A step that keeps the boxes is a stutter.
LEMMA KeptBoxStutters ==
    ASSUME Box' = Box, UNCHANGED <<published, handled>>
    PROVE  UNCHANGED Mail!mailVars
  BY DEF Box, Mail!mailVars

\* A batch that is dropped is a loss of the oldest signals, or of none.
LEMMA BatchDropped ==
    ASSUME TypeOK, NEW n \in Nodes, OthersKept(n), batch'[n] = << >>, queue'[n] = queue[n],
           UNCHANGED <<published, handled>>
    PROVE  Mail!LoseOldest(n) \/ UNCHANGED Mail!mailVars
  <1>. DEFINE s == batch[n]
              t == queue[n]
  <1>1. s \in Seq(Signals) /\ t \in Seq(Signals) /\ << >> \in Seq(Signals)
    BY DEF TypeOK
  <1>2. Box[n] = s \o t /\ Box \in [Nodes -> Seq(Signals)]
    BY <1>1, DropFirst DEF Box, TypeOK
  <1>3. Box' = [Box EXCEPT ![n] = t]
    <2>1. << >> \o t = t
      BY <1>1, DropFirst
    <2>2. Box' = [Box EXCEPT ![n] = batch'[n] \o queue'[n]]
      BY BoxIsLocal
    <2>. QED  BY <2>1, <2>2
  <1>. HIDE DEF s, t
  <1>4. CASE s = << >>
    <2>1. Box[n] = t
      BY <1>1, <1>2, <1>4, DropFirst
    <2>2. Box' = Box
      BY <1>2, <1>3, <2>1
    <2>. QED  BY <2>2, KeptBoxStutters
  <1>5. CASE s # << >>
    <2>1. Len(s) \in 1 .. Len(s \o t)
      BY <1>1, <1>5, DropFirst
    <2>2. t = SubSeq(Box[n], Len(s) + 1, Len(Box[n])) /\ Len(s) \in 1 .. Len(Box[n])
      BY <1>1, <1>2, <2>1, DropFirst
    <2>3. Box' = [Box EXCEPT ![n] = SubSeq(@, Len(s) + 1, Len(@))]
      BY <1>3, <2>2
    <2>. QED  BY <2>2, <2>3 DEF Mail!LoseOldest, Box
  <1>. QED  BY <1>4, <1>5

\* A signal that is published is posted, or lost on its arrival at a dead poll.
LEMMA PublishPosts ==
    ASSUME IInv, NEW s \in Signals, Publish(s)
    PROVE  Mail!Post(s) \/ Mail!PostAndLose(s)
  <1>. DEFINE n == Target[s]
              q == Append(queue[n], s)
  <1>1. TypeOK /\ NoLostWakeup /\ BatchHeld
    BY DEF IInv
  <1>2. /\ n \in Nodes /\ Wake(n, q) /\ s \notin published
        /\ published' = published \cup {s} /\ UNCHANGED handled
    BY RelayAssumption DEF Publish
  <1>3. batch[n] \in Seq(Signals) /\ queue[n] \in Seq(Signals) /\ q \in Seq(Signals)
    BY <1>1, <1>2 DEF TypeOK
  <1>4. Box[n] = batch[n] \o queue[n] /\ Box \in [Nodes -> Seq(Signals)]
    BY <1>1, <1>2, DropFirst DEF Box, TypeOK
  <1>5. q = Append(queue[n], s)
    OBVIOUS
  <1>6. Box' = [Box EXCEPT ![n] = batch'[n] \o queue'[n]]
    BY <1>1, <1>2, WakeEffect DEF Box
  <1>7. SUFFICES Box' = Box \/ Box' = [Box EXCEPT ![n] = Append(@, s)]
    BY <1>2 DEF Mail!Post, Mail!PostAndLose, Box
  <1>. HIDE DEF n, q
  <1>8. CASE polls[n] = << >>
    <2>1. batch'[n] = batch[n] /\ queue'[n] = q
      BY <1>1, <1>2, <1>8, WakeEffect DEF TypeOK
    <2>2. batch'[n] \o queue'[n] = Append(Box[n], s)
      <3>1. ASSUME NEW x \in Seq(Signals), NEW y \in Seq(Signals)
            PROVE  x \o Append(y, s) = Append(x \o y, s)
        BY AppendToConcat
      <3>2. batch[n] \o Append(queue[n], s) = Append(batch[n] \o queue[n], s)
        BY <1>3, <3>1
      <3>. QED  BY <1>4, <1>5, <2>1, <3>2, Zenon
    <2>. QED  BY <1>4, <1>6, <2>2
  <1>9. CASE polls[n] # << >>
    <2>1. queue[n] = << >> /\ queue'[n] = << >>
      BY <1>1, <1>2, <1>9, WakeEffect
    <2>2. CASE batch'[n] = batch[n]
      <3>1. batch'[n] \o queue'[n] = Box[n]
        BY <1>4, <2>1, <2>2
      <3>. QED  BY <1>4, <1>6, <3>1
    <2>3. CASE batch'[n] = q /\ batch[n] = << >>
      <3>1. Box[n] = queue[n]
        BY <1>3, <1>4, <2>3, DropFirst
      <3>2. << >> \in Seq(Signals)
        OBVIOUS
      <3>3. batch'[n] \o queue'[n] = Append(Box[n], s)
        <4>1. q \o << >> = q
          BY <1>3, <3>2, DropFirst
        <4>. QED  BY <1>5, <2>1, <2>3, <3>1, <4>1, Zenon
      <3>. QED  BY <1>4, <1>6, <3>3
    <2>4. CASE client[n] = "polling"
      <3>1. batch[n] = << >> /\ batch'[n] \in {q, << >>}
        BY <1>1, <1>2, <1>9, <2>4, WakeEffect DEF BatchHeld
      <3>. QED  BY <2>2, <2>3, <3>1
    <2>5. CASE client[n] # "polling"
      BY <1>1, <1>2, <1>9, <2>2, <2>5, WakeEffect
    <2>. QED  BY <2>4, <2>5
  <1>. QED  BY <1>8, <1>9

\* A signal that is handled is the oldest in the box.
LEMMA HandleHands ==
    ASSUME IInv, NEW n \in Nodes, HandleSignal(n)
    PROVE  Mail!Hand(n)
  <1>. DEFINE s == batch[n]
              t == queue[n]
              r == Tail(Box[n])
  <1>1. TypeOK
    BY DEF IInv
  <1>2. /\ s \in Seq(Signals) /\ t \in Seq(Signals) /\ s # << >>
        /\ Box[n] = s \o t /\ Box \in [Nodes -> Seq(Signals)]
    BY <1>1, DropFirst DEF HandleSignal, TypeOK, Box
  <1>3. OthersKept(n) /\ queue'[n] = t
    BY <1>1 DEF HandleSignal, OthersKept, TypeOK
  <1>4. batch'[n] = Tail(s) \/ batch'[n] = << >>
    BY <1>1 DEF HandleSignal, TypeOK
  <1>5. Box' = [Box EXCEPT ![n] = batch'[n] \o t]
    BY <1>3, BoxIsLocal
  <1>6. /\ Box[n] # << >> /\ handled' = [handled EXCEPT ![n] = Append(@, Head(Box[n]))]
        /\ UNCHANGED published
    <2>1. Box[n] # << >> /\ Head(Box[n]) = Head(s)
      BY <1>2, TailOfConcat
    <2>. QED  BY <2>1 DEF HandleSignal
  <1>. HIDE DEF s, t
  <1>7. r = Tail(s) \o t /\ Tail(s) \in Seq(Signals)
    BY <1>2, TailOfConcat
  <1>8. r \in Seq(Signals) /\ Len(r) = Len(Tail(s)) + Len(t) /\ Len(Tail(s)) \in Nat /\ Len(t) \in Nat
    BY <1>2, <1>7, DropFirst
  <1>. HIDE DEF r
  <1>9. \E k \in 0 .. Len(r) : batch'[n] \o t = SubSeq(r, k + 1, Len(r))
    <2>1. CASE batch'[n] = Tail(s)
      <3>1. r = SubSeq(r, 0 + 1, Len(r)) /\ 0 \in 0 .. Len(r)
        BY <1>8
      <3>. QED  BY <1>7, <2>1, <3>1
    <2>2. CASE batch'[n] = << >>
      <3>1. batch'[n] \o t = t
        BY <1>2, <2>2, DropFirst
      <3>2. Len(Tail(s)) \in 0 .. Len(r) /\ t = SubSeq(r, Len(Tail(s)) + 1, Len(r))
        BY <1>2, <1>7, <1>8, DropFirst
      <3>. QED  BY <3>1, <3>2
    <2>. QED  BY <1>4, <2>1, <2>2
  <1>10. \E k \in 0 .. Len(r) : Box' = [Box EXCEPT ![n] = SubSeq(r, k + 1, Len(r))]
    BY <1>5, <1>9
  <1>. QED  BY <1>6, <1>10 DEF Mail!Hand, Box, r

\* A step that keeps batches and queues is a stutter.
LEMMA OtherStepsStutter ==
    ASSUME UNCHANGED <<batch, queue, published, handled>>
    PROVE  UNCHANGED Mail!mailVars
  <1>. QED  BY KeptBoxStutters DEF Box

\* Every step of the relay is one of the mailbox, or a stutter.
LEMMA StepRefines ==
    ASSUME IInv, [Next]_vars
    PROVE  [Mail!MailNext]_Mail!mailVars
  <1>1. TypeOK /\ NoLostWakeup /\ BatchHeld
    BY DEF IInv
  <1>2. << >> \in Seq(Signals)
    OBVIOUS
  <1>3. CASE UNCHANGED vars
    BY <1>3, OtherStepsStutter DEF vars
  <1>4. ASSUME NEW s \in Signals, Publish(s) PROVE Mail!MailNext
    BY <1>4, PublishPosts DEF Mail!MailNext
  <1>5. ASSUME NEW n \in Nodes, NEW i \in 1 .. MaxPolls, PollTimeout(n, i)
        PROVE  UNCHANGED Mail!mailVars
    <2>1. polls[n] # << >> /\ Respond(n, polls[n][i], queue[n]) /\ i \in DOMAIN polls[n]
      BY <1>1, <1>5 DEF PollTimeout, TypeOK
    <2>2. queue[n] = << >> /\ queue'[n] = << >>
      BY <1>1, <2>1, RespondEffect DEF NoLostWakeup
    <2>3. batch'[n] = batch[n]
      <3>1. CASE polls[n][i] = "live"
        <4>1. client[n] = "polling"
          BY <1>1, <2>1, <3>1 DEF NoLostWakeup
        <4>. QED  BY <1>1, <2>1, <2>2, <3>1, <4>1, RespondEffect DEF BatchHeld
      <3>2. CASE polls[n][i] # "live"
        BY <1>1, <2>1, <3>2, RespondEffect
      <3>. QED  BY <3>1, <3>2
    <2>4. \A k \in Nodes : queue'[k] = queue[k] /\ batch'[k] = batch[k]
      BY <1>1, <2>1, <2>2, <2>3, RespondEffect
    <2>5. Box' = Box
      BY <2>4 DEF Box
    <2>. QED  BY <1>5, <2>5, KeptBoxStutters DEF PollTimeout
  <1>6. ASSUME NEW n \in Nodes, Start(n) PROVE UNCHANGED Mail!mailVars
    BY <1>6, OtherStepsStutter DEF Start
  <1>7. ASSUME NEW n \in Nodes, Abandon(n), UNCHANGED <<queue, published, handled>>,
               \A k \in Nodes \ {n} : client'[k] = client[k]
        PROVE  Mail!LoseOldest(n) \/ UNCHANGED Mail!mailVars
    <2>1. OthersKept(n) /\ batch'[n] = << >> /\ queue'[n] = queue[n]
      BY <1>1, <1>7, AbandonEffect DEF OthersKept
    <2>. QED  BY <1>1, <1>7, <2>1, BatchDropped
  <1>8. ASSUME NEW n \in Nodes, Stop(n) PROVE [Mail!MailNext]_Mail!mailVars
    <2>1. CASE Abandon(n) /\ client' = [client EXCEPT ![n] = "off"]
      <3>1. \A k \in Nodes \ {n} : client'[k] = client[k]
        BY <1>1, <2>1 DEF TypeOK
      <3>. QED  BY <1>7, <1>8, <2>1, <3>1 DEF Stop, Mail!MailNext
    <2>2. CASE UNCHANGED batch
      BY <1>8, <2>2, OtherStepsStutter DEF Stop
    <2>. QED  BY <1>8, <2>1, <2>2 DEF Stop
  <1>9. ASSUME NEW n \in Nodes, PollFails(n) PROVE [Mail!MailNext]_Mail!mailVars
    <2>1. CASE Abandon(n)
      <3>1. \A k \in Nodes \ {n} : client'[k] = client[k]
        BY <1>1, <1>9 DEF TypeOK, PollFails
      <3>. QED  BY <1>7, <1>9, <2>1, <3>1 DEF PollFails, Mail!MailNext
    <2>2. CASE UNCHANGED batch
      BY <1>9, <2>2, OtherStepsStutter DEF PollFails
    <2>. QED  BY <1>9, <2>1, <2>2 DEF PollFails
  <1>10. ASSUME NEW n \in Nodes, Poll(n) PROVE UNCHANGED Mail!mailVars
    <2>1. CASE queue[n] # << >>
      <3>1. Respond(n, "live", queue[n]) /\ batch[n] = << >>
        BY <1>1, <1>10, <2>1 DEF Poll, BatchHeld
      <3>2. batch'[n] = queue[n] /\ queue'[n] = << >>
        BY <1>1, <3>1, RespondEffect
      <3>3. queue[n] \in Seq(Signals)
        BY <1>1 DEF TypeOK
      <3>4. batch'[n] \o queue'[n] = batch[n] \o queue[n]
        BY <1>2, <3>1, <3>2, <3>3, DropFirst
      <3>5. \A k \in Nodes : batch'[k] \o queue'[k] = batch[k] \o queue[k]
        BY <1>1, <3>1, <3>4, RespondEffect
      <3>6. Box' = Box
        BY <3>5 DEF Box
      <3>. QED  BY <1>10, <3>6, KeptBoxStutters DEF Poll
    <2>2. CASE queue[n] = << >>
      BY <1>10, <2>2, OtherStepsStutter DEF Poll
    <2>. QED  BY <2>1, <2>2
  <1>11. ASSUME NEW n \in Nodes, ReceiveResponse(n) PROVE UNCHANGED Mail!mailVars
    BY <1>11, OtherStepsStutter DEF ReceiveResponse
  <1>12. ASSUME NEW n \in Nodes, HandleSignal(n) PROVE Mail!MailNext
    BY <1>12, HandleHands DEF Mail!MailNext
  <1>13. ASSUME NEW n \in Nodes, NextRound(n) PROVE UNCHANGED Mail!mailVars
    BY <1>13, OtherStepsStutter DEF NextRound
  <1>14. ASSUME NEW n \in Nodes, LoopEnds(n) PROVE [Mail!MailNext]_Mail!mailVars
    <2>1. OthersKept(n) /\ batch'[n] = << >> /\ queue'[n] = queue[n]
      BY <1>1, <1>14 DEF LoopEnds, OthersKept, TypeOK
    <2>. QED  BY <1>1, <1>14, <2>1, BatchDropped DEF LoopEnds, Mail!MailNext
  <1>. QED
    BY <1>3, <1>4, <1>5, <1>6, <1>8, <1>9, <1>10, <1>11, <1>12, <1>13, <1>14 DEF Next, Loop

\* The relay starts as an empty mailbox.
LEMMA InitRefines == Init => Mail!MailInit
  <1>1. << >> \o << >> = << >>
    OBVIOUS
  <1>. QED  BY <1>1 DEF Init, Mail!MailInit

\* The server and the poll loops implement the mailbox: a signal is handed over at
\* most once and in order, and the failures of requests, handlers and stops lose
\* the oldest ones or the one that arrives.
THEOREM RelayImplementsMailbox == Spec => ImplementsMailbox
  BY InitRefines, WakeUpInit, WakeUpStep, StepRefines, PTL DEF Spec, ImplementsMailbox, Mail!MailSpec
=============================================================================

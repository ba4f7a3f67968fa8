-------------------------- MODULE ConnectionProofs --------------------------
(* Theorems about WebRTCConnection, for any peers, messages and attempts. *)
EXTENDS WebRTCConnection, SequenceLemmas

-----------------------------------------------------------------------------
(* The inductive invariant *)

\* Whatever refers to an attempt refers to one that was made.
Grounded ==
    /\ \A n \in Nodes : peer[n] = 0 \/ peer[n] \in DOMAIN att[n]
    /\ \A n \in Nodes : handling[n] = 0 \/ handling[n] \in DOMAIN att[n]
    /\ \A m \in Messages : send[m] = "none" \/ on[m] \in DOMAIN att[Sender[m]]

\* The channels, the timer and the promise of one attempt agree.
Coherent(a) ==
    /\ a.timer => ~ a.ready /\ ~ Closed(a) /\ a.promise = "pending"
    /\ a.ready => a.promise = "resolved" /\ a.waiting = << >>
    /\ a.promise = "resolved" => a.ready \/ Closed(a)
    /\ a.promise = "rejected" => a.pc = "closed"

AttemptsCoherent == \A n \in Nodes : \A i \in DOMAIN att[n] : Coherent(att[n][i])

\* m is among what a node has handed to a channel.
GoneOut(m, sequences) == \E k \in 1 .. Len(sequences[Sender[m]]) : sequences[Sender[m]][k] = m

\* What pendingMessages of an attempt holds are calls of its own that have fared
\* as its promise has and have not gone out, ...
PendingWait ==
    \A n \in Nodes : \A i \in DOMAIN att[n] :
        att[n][i].promise # "rejected" =>
            /\ Distinct(att[n][i].waiting)
            /\ \A k \in 1 .. Len(att[n][i].waiting) :
                  LET m == att[n][i].waiting[k] IN
                  Sender[m] = n /\ on[m] = i /\ send[m] = Result(att[n][i]) /\ ~ GoneOut(m, sent)

\* ... and a call that waits is there.
WaitersPend ==
    \A m \in Messages : send[m] = "waiting" =>
        LET a == att[Sender[m]][on[m]] IN
        a.promise = "pending" /\ \E k \in 1 .. Len(a.waiting) : a.waiting[k] = m

SentInv ==
    \A n \in Nodes :
        /\ Distinct(sent[n])
        /\ \A k \in 1 .. Len(sent[n]) : send[sent[n][k]] = "resolved"

CallInv == PendingWait /\ WaitersPend /\ SentInv /\ ResolvedIsSent

IInv == TypeOK /\ Grounded /\ EntryIsServed /\ AttemptsCoherent /\ CallInv

-----------------------------------------------------------------------------
(* Steps that touch one attempt *)

\* Attempt i of n, an old or a new one, becomes b; all others stay.
Becomes(n, i, b) ==
    /\ b \in Attempt
    /\ i \in DOMAIN att[n] \/ i = Len(att[n]) + 1
    /\ att' \in [Nodes -> Seq(Attempt)]
    /\ \A p \in Nodes \ {n} : att'[p] = att[p]
    /\ DOMAIN att'[n] = DOMAIN att[n] \cup {i}
    /\ att'[n][i] = b
    /\ \A j \in DOMAIN att[n] \ {i} : att'[n][j] = att[n][j]

\* An attempt is assigned to.
LEMMA AttemptAssigned ==
    ASSUME TypeOK, NEW n \in Nodes, NEW i \in DOMAIN att[n], NEW b \in Attempt,
           att' = [att EXCEPT ![n] = [@ EXCEPT ![i] = b]]
    PROVE  Becomes(n, i, b)
  <1>1. att \in [Nodes -> Seq(Attempt)] /\ att[n] \in Seq(Attempt)
    BY DEF TypeOK
  <1>. DEFINE q == [att[n] EXCEPT ![i] = b]
  <1>2. /\ q \in Seq(Attempt) /\ DOMAIN q = DOMAIN att[n] /\ q[i] = b
        /\ \A j \in DOMAIN att[n] \ {i} : q[j] = att[n][j]
    BY <1>1
  <1>3. att' = [att EXCEPT ![n] = q]
    OBVIOUS
  <1>. HIDE DEF q
  <1>4. att' \in [Nodes -> Seq(Attempt)] /\ att'[n] = q /\ \A p \in Nodes \ {n} : att'[p] = att[p]
    BY <1>1, <1>2, <1>3
  <1>. QED  BY <1>2, <1>4 DEF Becomes

\* An attempt is added.
LEMMA AttemptAdded ==
    ASSUME TypeOK, NEW n \in Nodes, NEW b \in Attempt, att' = [att EXCEPT ![n] = Append(@, b)]
    PROVE  Becomes(n, Len(att[n]) + 1, b)
  <1>1. att \in [Nodes -> Seq(Attempt)] /\ att[n] \in Seq(Attempt)
    BY DEF TypeOK
  <1>. DEFINE q == Append(att[n], b)
  <1>2. /\ q \in Seq(Attempt) /\ DOMAIN q = DOMAIN att[n] \cup {Len(att[n]) + 1}
        /\ q[Len(att[n]) + 1] = b
        /\ \A j \in DOMAIN att[n] : q[j] = att[n][j]
    BY <1>1
  <1>3. att' = [att EXCEPT ![n] = q]
    OBVIOUS
  <1>. HIDE DEF q
  <1>4. att' \in [Nodes -> Seq(Attempt)] /\ att'[n] = q /\ \A p \in Nodes \ {n} : att'[p] = att[p]
    BY <1>1, <1>2, <1>3
  <1>. QED  BY <1>2, <1>4 DEF Becomes

\* A step that leaves the attempts alone leaves each as it is.
LEMMA AttemptStays ==
    ASSUME TypeOK, NEW n \in Nodes, NEW i \in DOMAIN att[n], att' = att
    PROVE  Becomes(n, i, att[n][i])
  BY DEF TypeOK, Becomes

\* Coherence is a matter of the attempt that is touched.
LEMMA CoherenceKept ==
    ASSUME AttemptsCoherent, NEW n \in Nodes, NEW i, NEW b, Becomes(n, i, b), Coherent(b)
    PROVE  AttemptsCoherent'
  <1>1. ASSUME NEW p \in Nodes, NEW j \in DOMAIN att'[p] PROVE Coherent(att'[p][j])
    <2>1. CASE p # n
      BY <1>1, <2>1 DEF Becomes, AttemptsCoherent
    <2>2. CASE p = n /\ j = i
      BY <2>2 DEF Becomes
    <2>3. CASE p = n /\ j # i
      <3>1. j \in DOMAIN att[n] /\ att'[n][j] = att[n][j]
        BY <1>1, <2>3 DEF Becomes
      <3>. QED  BY <2>3, <3>1 DEF AttemptsCoherent
    <2>. QED  BY <2>1, <2>2, <2>3
  <1>. QED  BY <1>1 DEF AttemptsCoherent, Coherent

Served(a) == a.pc # "closed" /\ ~ Closed(a) /\ (a.ready \/ a.timer)

\* The map, the offers in hand and the calls refer to old attempts or to the new one.
LEMMA EntriesKept ==
    ASSUME TypeOK, Grounded, EntryIsServed, NEW n \in Nodes, NEW i, NEW b, Becomes(n, i, b),
           \A p \in Nodes : peer'[p] \in {0, peer[p]} \/ (p = n /\ peer'[p] = i),
           \A p \in Nodes : handling'[p] \in {0, handling[p]} \/ (p = n /\ handling'[p] = i),
           \A m \in Messages : \/ send'[m] = "none"
                               \/ send[m] # "none" /\ on'[m] = on[m]
                               \/ Sender[m] = n /\ on'[m] = i,
           peer'[n] = i => Served(b)
    PROVE  Grounded' /\ EntryIsServed'
  <1>1. \A p \in Nodes : DOMAIN att[p] \subseteq DOMAIN att'[p]
    BY DEF Becomes
  <1>2. i \in DOMAIN att'[n]
    BY DEF Becomes
  <1>3. Grounded'
    <2>1. \A m \in Messages : Sender[m] \in Nodes
      BY ConnectionAssumption
    <2>. QED  BY <1>1, <1>2, <2>1 DEF Grounded
  <1>4. ASSUME NEW p \in Nodes, peer'[p] # 0 PROVE Served(att'[p][peer'[p]])
    <2>1. CASE p = n /\ peer'[p] = i
      BY <2>1 DEF Becomes
    <2>2. CASE ~ (p = n /\ peer'[p] = i)
      <3>1. peer'[p] = peer[p] /\ peer[p] \in DOMAIN att[p]
        BY <1>4, <2>2 DEF Grounded
      <3>2. att'[p][peer[p]] = att[p][peer[p]]
        BY <2>2, <3>1 DEF Becomes
      <3>3. Served(att[p][peer[p]])
        BY <1>4, <3>1 DEF EntryIsServed, Served
      <3>. QED  BY <3>1, <3>2, <3>3
    <2>. QED  BY <2>1, <2>2
  <1>5. EntryIsServed'
    BY <1>4 DEF EntryIsServed, Served
  <1>. QED  BY <1>3, <1>5

-----------------------------------------------------------------------------
(* Calls and their messages *)

\* What PendingWait says of one attempt, and WaitersPend of one call.
Awaited(a, n, i, places, calls, sequences) ==
    a.promise # "rejected" =>
        /\ Distinct(a.waiting)
        /\ \A k \in 1 .. Len(a.waiting) :
              LET m == a.waiting[k] IN
              Sender[m] = n /\ places[m] = i /\ calls[m] = Result(a) /\ ~ GoneOut(m, sequences)

Holds(a, m) == a.promise = "pending" /\ \E k \in 1 .. Len(a.waiting) : a.waiting[k] = m

\* PendingWait speaks of one attempt at a time.
LEMMA PendingWaitMeans ==
    PendingWait <=> \A n \in Nodes : \A i \in DOMAIN att[n] : Awaited(att[n][i], n, i, on, send, sent)
  BY DEF PendingWait, Awaited

\* WaitersPend speaks of one call at a time.
LEMMA WaitersPendMeans ==
    WaitersPend <=> \A m \in Messages : send[m] = "waiting" => Holds(att[Sender[m]][on[m]], m)
  BY DEF WaitersPend, Holds

\* A step that leaves the calls of other attempts alone keeps what is known of them.
LEMMA OthersKept ==
    ASSUME TypeOK, Grounded, PendingWait, WaitersPend, NEW n \in Nodes, NEW i, NEW b,
           Becomes(n, i, b), Awaited(b, n, i, on', send', sent'),
           \A m \in Messages : send'[m] # send[m] \/ on'[m] # on[m] =>
              send[m] \notin {"waiting", "resolved"} \/ (Sender[m] = n /\ on[m] = i),
           \A m \in Messages : GoneOut(m, sent') =>
              GoneOut(m, sent) \/ (Sender[m] = n /\ on'[m] = i),
           \A m \in Messages : send'[m] = "waiting" =>
              \/ Sender[m] = n /\ on'[m] = i /\ Holds(b, m)
              \/ send[m] = "waiting" /\ on'[m] = on[m] /\ ~ (Sender[m] = n /\ on[m] = i)
    PROVE  PendingWait' /\ WaitersPend'
  <1>0. \A m \in Messages : Sender[m] \in Nodes
    BY ConnectionAssumption
  <1>1. ASSUME NEW p \in Nodes, NEW j \in DOMAIN att'[p] PROVE Awaited(att'[p][j], p, j, on', send', sent')
    <2>1. CASE p = n /\ j = i
      BY <2>1 DEF Becomes
    <2>2. CASE ~ (p = n /\ j = i)
      <3>1. j \in DOMAIN att[p] /\ att'[p][j] = att[p][j]
        BY <1>1, <2>2 DEF Becomes
      <3>2. Awaited(att[p][j], p, j, on, send, sent)
        BY <3>1, PendingWaitMeans
      <3>3. ASSUME att[p][j].promise # "rejected", NEW k \in 1 .. Len(att[p][j].waiting)
            PROVE  LET m == att[p][j].waiting[k] IN
                   /\ Sender[m] = p /\ on'[m] = j /\ send'[m] = Result(att[p][j])
                   /\ ~ GoneOut(m, sent')
        <4>1. att[p][j].waiting[k] \in Messages
          <5>1. att[p][j] \in Attempt
            BY <3>1 DEF TypeOK
          <5>2. att[p][j].waiting \in Seq(Messages)
            BY <5>1 DEF Attempt
          <5>. QED  BY <5>2
        <4>2. LET m == att[p][j].waiting[k] IN
              Sender[m] = p /\ on[m] = j /\ send[m] = Result(att[p][j]) /\ ~ GoneOut(m, sent)
          BY <3>2, <3>3 DEF Awaited
        <4>3. Result(att[p][j]) \in {"waiting", "resolved"}
          <5>1. att[p][j] \in Attempt
            BY <3>1 DEF TypeOK
          <5>. QED  BY <3>3, <5>1 DEF Result, Attempt
        <4>4. LET m == att[p][j].waiting[k] IN on'[m] = on[m] /\ send'[m] = send[m]
          BY <2>2, <4>1, <4>2, <4>3
        <4>. QED  BY <2>2, <4>1, <4>2, <4>4
      <3>. QED  BY <3>1, <3>2, <3>3 DEF Awaited
    <2>. QED  BY <2>1, <2>2
  <1>2. PendingWait'
    BY <1>1 DEF PendingWait, Awaited, Result, GoneOut
  <1>3. ASSUME NEW m \in Messages, send'[m] = "waiting"
        PROVE  Holds(att'[Sender[m]][on'[m]], m)
    <2>1. CASE Sender[m] = n /\ on'[m] = i /\ Holds(b, m)
      BY <2>1 DEF Becomes
    <2>2. CASE send[m] = "waiting" /\ on'[m] = on[m] /\ ~ (Sender[m] = n /\ on[m] = i)
      <3>1. Holds(att[Sender[m]][on[m]], m) /\ on[m] \in DOMAIN att[Sender[m]]
        BY <2>2, WaitersPendMeans DEF Grounded
      <3>2. att'[Sender[m]][on[m]] = att[Sender[m]][on[m]]
        BY <1>0, <2>2, <3>1 DEF Becomes
      <3>. QED  BY <2>2, <3>1, <3>2
    <2>. QED  BY <1>3, <2>1, <2>2
  <1>4. WaitersPend'
    BY <1>3 DEF WaitersPend, Holds
  <1>. QED  BY <1>2, <1>4

\* A connection that was ready and has lost a channel.
Over(a) == Closed(a) /\ a.promise = "resolved"

\* ResolvedIsSent speaks of one call at a time.
LEMMA ResolvedIsSentMeans ==
    ASSUME TypeOK
    PROVE  ResolvedIsSent <=> \A m \in Messages : send[m] = "resolved" =>
                                  GoneOut(m, sent) \/ Over(att[Sender[m]][on[m]])
  <1>1. \A m \in Messages : DOMAIN sent[Sender[m]] = 1 .. Len(sent[Sender[m]])
    BY ConnectionAssumption DEF TypeOK
  <1>. QED  BY <1>1 DEF ResolvedIsSent, GoneOut, Over, Closed

\* What has gone out stays so, and an attempt that is over stays over.
LEMMA ResolvedKept ==
    ASSUME TypeOK, TypeOK', Grounded, ResolvedIsSent, NEW n \in Nodes, NEW i, NEW b,
           Becomes(n, i, b),
           i \in DOMAIN att[n] /\ Over(att[n][i]) => Over(b),
           \A m \in Messages : GoneOut(m, sent) => GoneOut(m, sent'),
           \A m \in Messages : send'[m] = "resolved" =>
              \/ send[m] = "resolved" /\ on'[m] = on[m]
              \/ GoneOut(m, sent')
              \/ Sender[m] = n /\ on'[m] = i /\ Over(b)
    PROVE  ResolvedIsSent'
  <1>1. ASSUME NEW m \in Messages, send'[m] = "resolved"
        PROVE  GoneOut(m, sent') \/ Over(att'[Sender[m]][on'[m]])
    <2>0. Sender[m] \in Nodes
      BY ConnectionAssumption
    <2>1. CASE send[m] = "resolved" /\ on'[m] = on[m]
      <3>1. on[m] \in DOMAIN att[Sender[m]]
        BY <2>1 DEF Grounded
      <3>2. GoneOut(m, sent) \/ Over(att[Sender[m]][on[m]])
        BY <2>1, ResolvedIsSentMeans
      <3>3. CASE Sender[m] = n /\ on[m] = i
        BY <2>1, <3>1, <3>2, <3>3 DEF Becomes
      <3>4. CASE ~ (Sender[m] = n /\ on[m] = i)
        <4>1. att'[Sender[m]][on[m]] = att[Sender[m]][on[m]]
          BY <2>0, <3>1, <3>4 DEF Becomes
        <4>. QED  BY <2>1, <3>2, <4>1
      <3>. QED  BY <3>3, <3>4
    <2>2. CASE Sender[m] = n /\ on'[m] = i /\ Over(b)
      BY <2>2 DEF Becomes
    <2>. QED  BY <1>1, <2>1, <2>2
  <1>2. \A m \in Messages : DOMAIN sent'[Sender[m]] = 1 .. Len(sent'[Sender[m]])
    BY ConnectionAssumption DEF TypeOK
  <1>. QED  BY <1>1, <1>2 DEF ResolvedIsSent, GoneOut, Over, Closed

\* A step that hands nothing over and settles nothing.
LEMMA QuietStep ==
    ASSUME TypeOK, TypeOK', Grounded, CallInv, NEW n \in Nodes, NEW i, NEW b, Becomes(n, i, b),
           i \in DOMAIN att[n] => /\ b.promise = att[n][i].promise
                                  /\ b.waiting = att[n][i].waiting
                                  /\ Closed(att[n][i]) => Closed(b),
           i \notin DOMAIN att[n] => b.promise = "pending" /\ b.waiting = << >>,
           sent' = sent,
           \A m \in Messages :
              \/ send'[m] = send[m] /\ on'[m] = on[m]
              \/ send[m] \in {"none", "offering"} /\ send'[m] \in {"offering", "posted", "rejected"}
    PROVE  CallInv'
  <1>0. \A m \in Messages : Sender[m] \in Nodes
    BY ConnectionAssumption
  <1>1. Awaited(b, n, i, on', send', sent')
    <2>1. CASE i \in DOMAIN att[n]
      <3>1. Awaited(att[n][i], n, i, on, send, sent)
        BY <2>1, PendingWaitMeans DEF CallInv
      <3>2. att[n][i].waiting \in Seq(Messages) /\ att[n][i].promise \in {"pending", "resolved", "rejected"}
        <4>1. att[n][i] \in Attempt
          BY <2>1 DEF TypeOK
        <4>. QED  BY <4>1 DEF Attempt
      <3>3. Result(b) = Result(att[n][i])
        BY <2>1 DEF Result
      <3>4. ASSUME att[n][i].promise # "rejected", NEW k \in 1 .. Len(att[n][i].waiting)
            PROVE  LET m == att[n][i].waiting[k] IN
                   /\ Sender[m] = n /\ on'[m] = i /\ send'[m] = Result(b) /\ ~ GoneOut(m, sent')
        <4>1. att[n][i].waiting[k] \in Messages
          BY <3>2
        <4>2. LET m == att[n][i].waiting[k] IN
              /\ Sender[m] = n /\ on[m] = i /\ send[m] = Result(att[n][i]) /\ ~ GoneOut(m, sent)
          BY <3>1, <3>4 DEF Awaited
        <4>3. Result(att[n][i]) \in {"waiting", "resolved"}
          BY <3>2, <3>4 DEF Result
        <4>. QED  BY <3>3, <4>1, <4>2, <4>3
      <3>. QED  BY <2>1, <3>1, <3>4 DEF Awaited
    <2>2. CASE i \notin DOMAIN att[n]
      <3>1. b.waiting = << >> /\ Len(<< >>) = 0
        BY <2>2
      <3>. QED  BY <3>1 DEF Awaited, Distinct
    <2>. QED  BY <2>1, <2>2
  <1>2. ASSUME NEW m \in Messages, send'[m] = "waiting"
        PROVE  \/ Sender[m] = n /\ on'[m] = i /\ Holds(b, m)
               \/ send[m] = "waiting" /\ on'[m] = on[m] /\ ~ (Sender[m] = n /\ on[m] = i)
    <2>1. send[m] = "waiting" /\ on'[m] = on[m]
      BY <1>2
    <2>2. Holds(att[Sender[m]][on[m]], m) /\ on[m] \in DOMAIN att[Sender[m]]
      BY <2>1, WaitersPendMeans DEF Grounded, CallInv
    <2>3. Sender[m] = n /\ on[m] = i => Holds(b, m)
      BY <2>2 DEF Holds
    <2>. QED  BY <2>1, <2>3
  <1>3. PendingWait' /\ WaitersPend'
    <2>1. PendingWait /\ WaitersPend
      BY DEF CallInv
    <2>2. /\ \A m \in Messages : send'[m] # send[m] \/ on'[m] # on[m] =>
                 send[m] \notin {"waiting", "resolved"} \/ (Sender[m] = n /\ on[m] = i)
          /\ \A m \in Messages : GoneOut(m, sent') => GoneOut(m, sent)
      OBVIOUS
    <2>. QED  BY <1>1, <1>2, <2>1, <2>2, OthersKept
  <1>4. SentInv'
    <2>1. \A p \in Nodes : \A k \in 1 .. Len(sent[p]) : sent[p][k] \in Messages
      BY DEF TypeOK
    <2>. QED  BY <2>1 DEF CallInv, SentInv
  <1>5. ResolvedIsSent'
    <2>1. i \in DOMAIN att[n] /\ Over(att[n][i]) => Over(b)
      BY DEF Over
    <2>2. ResolvedIsSent
      BY DEF CallInv
    <2>3. \A m \in Messages : send'[m] = "resolved" => send[m] = "resolved" /\ on'[m] = on[m]
      OBVIOUS
    <2>. QED  BY <2>1, <2>2, <2>3, ResolvedKept
  <1>. QED  BY <1>3, <1>4, <1>5 DEF CallInv

\* A message is sent, refused by a channel that is closing, or queued.
HandsOver(n, m, i, b) ==
    /\ b \in Attempt /\ Becomes(n, i, b)
    /\ b.pc = att[n][i].pc /\ b.chans = att[n][i].chans /\ b.ready = att[n][i].ready
    /\ b.timer = att[n][i].timer /\ b.promise = att[n][i].promise
    /\ on'[m] = i
    /\ \A l \in Messages \ {m} : send'[l] = send[l] /\ on'[l] = on[l]
    /\ \/ /\ att[n][i].ready /\ b.waiting = att[n][i].waiting
          /\ send'[m] = "resolved" /\ sent' = [sent EXCEPT ![n] = Append(@, m)]
       \/ /\ att[n][i].ready /\ b.waiting = att[n][i].waiting
          /\ send'[m] = "rejected" /\ sent' = sent
       \/ /\ ~ att[n][i].ready /\ b.waiting = Append(att[n][i].waiting, m)
          /\ send'[m] = Result(att[n][i]) /\ sent' = sent
    /\ send' \in [Messages -> {"none", "offering", "posted", "waiting", "resolved", "rejected"}]
    /\ on' \in [Messages -> Nat] /\ sent' \in [Nodes -> Seq(Messages)]

\* What HandOver does, as one of its three outcomes.
LEMMA HandOverEffect ==
    ASSUME TypeOK, NEW n \in Nodes, NEW m \in Messages, NEW i \in DOMAIN att[n], HandOver(n, m, i)
    PROVE  \E b : HandsOver(n, m, i, b)
  <1>1. att[n][i] \in Attempt /\ att[n][i].waiting \in Seq(Messages) /\ i \in Nat
    <2>1. att[n] \in Seq(Attempt)
      BY DEF TypeOK
    <2>2. att[n][i] \in Attempt
      BY <2>1
    <2>3. i \in Nat
      BY <2>1
    <2>. QED  BY <2>2, <2>3 DEF Attempt
  <1>2. /\ on'[m] = i /\ \A l \in Messages \ {m} : on'[l] = on[l]
        /\ on' \in [Messages -> Nat]
    BY <1>1 DEF HandOver, TypeOK
  <1>3. Result(att[n][i]) \in {"waiting", "resolved", "rejected"}
    BY <1>1 DEF Result, Attempt
  <1>4. ASSUME NEW r \in {"waiting", "resolved", "rejected"}, send' = [send EXCEPT ![m] = r]
        PROVE  /\ send'[m] = r /\ \A l \in Messages \ {m} : send'[l] = send[l]
               /\ send' \in [Messages -> {"none", "offering", "posted", "waiting", "resolved", "rejected"}]
    BY <1>4 DEF TypeOK
  <1>5. CASE att[n][i].ready
    <2>1. Becomes(n, i, att[n][i])
      BY <1>5, AttemptStays DEF HandOver
    <2>2. CASE sent' = [sent EXCEPT ![n] = Append(@, m)] /\ send' = [send EXCEPT ![m] = "resolved"]
      <3>1. sent' \in [Nodes -> Seq(Messages)]
        <4>1. Append(sent[n], m) \in Seq(Messages)
          BY DEF TypeOK
        <4>. QED  BY <2>2, <4>1 DEF TypeOK
      <3>. QED  BY <1>1, <1>2, <1>4, <1>5, <2>1, <2>2, <3>1 DEF HandsOver
    <2>3. CASE sent' = sent /\ send' = [send EXCEPT ![m] = "rejected"]
      <3>1. sent' \in [Nodes -> Seq(Messages)]
        BY <2>3 DEF TypeOK
      <3>. QED  BY <1>1, <1>2, <1>4, <1>5, <2>1, <2>3, <3>1 DEF HandsOver
    <2>. QED  BY <1>5, <2>2, <2>3 DEF HandOver
  <1>6. CASE ~ att[n][i].ready
    <2>. DEFINE b == [att[n][i] EXCEPT !.waiting = Append(@, m)]
    <2>1. Append(att[n][i].waiting, m) \in Seq(Messages)
      BY <1>1
    <2>2. /\ b \in Attempt /\ b.pc = att[n][i].pc /\ b.chans = att[n][i].chans /\ b.ready = att[n][i].ready
          /\ b.timer = att[n][i].timer /\ b.promise = att[n][i].promise
          /\ b.waiting = Append(att[n][i].waiting, m)
      BY <1>1, <2>1 DEF Attempt
    <2>3. att' = [att EXCEPT ![n] = [@ EXCEPT ![i] = b]]
      BY <1>6 DEF HandOver
    <2>. HIDE DEF b
    <2>4. Becomes(n, i, b)
      BY <2>2, <2>3, AttemptAssigned
    <2>5. sent' = sent /\ send' = [send EXCEPT ![m] = Result(att[n][i])] /\ sent' \in [Nodes -> Seq(Messages)]
      BY <1>6 DEF HandOver, TypeOK
    <2>. QED  BY <1>2, <1>3, <1>4, <1>6, <2>2, <2>4, <2>5 DEF HandsOver
  <1>. QED  BY <1>5, <1>6

\* A message is handed over once, and only an open channel takes it at once.
LEMMA HandOverStep ==
    ASSUME TypeOK, TypeOK', Grounded, AttemptsCoherent, CallInv,
           NEW n \in Nodes, NEW m \in Messages, NEW i \in DOMAIN att[n],
           Sender[m] = n, send[m] \in {"none", "posted"}, HandOver(n, m, i)
    PROVE  CallInv'
  <1>0. PICK b : HandsOver(n, m, i, b)
    BY HandOverEffect
  <1>1. /\ b \in Attempt /\ Becomes(n, i, b)
        /\ b.pc = att[n][i].pc /\ b.chans = att[n][i].chans /\ b.ready = att[n][i].ready
        /\ b.timer = att[n][i].timer /\ b.promise = att[n][i].promise
        /\ on'[m] = i
        /\ \A l \in Messages \ {m} : send'[l] = send[l] /\ on'[l] = on[l]
        /\ \/ /\ att[n][i].ready /\ b.waiting = att[n][i].waiting
              /\ send'[m] = "resolved" /\ sent' = [sent EXCEPT ![n] = Append(@, m)]
           \/ /\ att[n][i].ready /\ b.waiting = att[n][i].waiting
              /\ send'[m] = "rejected" /\ sent' = sent
           \/ /\ ~ att[n][i].ready /\ b.waiting = Append(att[n][i].waiting, m)
              /\ send'[m] = Result(att[n][i]) /\ sent' = sent
    BY <1>0 DEF HandsOver
  <1>2. /\ Coherent(att[n][i]) /\ att[n][i].waiting \in Seq(Messages)
        /\ att[n][i].promise \in {"pending", "resolved", "rejected"}
        /\ Awaited(att[n][i], n, i, on, send, sent)
    <2>1. att[n][i] \in Attempt
      BY DEF TypeOK
    <2>. QED  BY <2>1, PendingWaitMeans DEF Attempt, AttemptsCoherent, CallInv
  <1>2a. /\ Result(b) = Result(att[n][i])
         /\ att[n][i].promise # "rejected" => Result(att[n][i]) \in {"waiting", "resolved"}
    BY <1>1, <1>2 DEF Result
  <1>2b. ~ GoneOut(m, sent)
    BY DEF CallInv, SentInv, GoneOut
  <1>3. Awaited(b, n, i, on', send', sent')
    <2>1. CASE att[n][i].ready
      <3>1. b.waiting = << >> /\ Len(<< >>) = 0
        BY <1>1, <1>2, <2>1 DEF Coherent
      <3>. QED  BY <3>1 DEF Awaited, Distinct
    <2>2. ASSUME ~ att[n][i].ready, att[n][i].promise # "rejected"
          PROVE  /\ Distinct(b.waiting)
                 /\ \A k \in 1 .. Len(b.waiting) :
                       /\ Sender[b.waiting[k]] = n /\ on'[b.waiting[k]] = i
                       /\ send'[b.waiting[k]] = Result(b) /\ ~ GoneOut(b.waiting[k], sent')
      <3>. DEFINE w == att[n][i].waiting
      <3>1. sent' = sent /\ send'[m] = Result(b) /\ b.waiting = Append(w, m)
        BY <1>1, <1>2a, <2>2
      <3>2. ASSUME NEW k \in 1 .. Len(w)
            PROVE  /\ w[k] # m
                   /\ Sender[w[k]] = n /\ on'[w[k]] = i
                   /\ send'[w[k]] = Result(b) /\ ~ GoneOut(w[k], sent')
        <4>1. w[k] \in Messages
          BY <1>2
        <4>2. Sender[w[k]] = n /\ on[w[k]] = i /\ send[w[k]] = Result(att[n][i]) /\ ~ GoneOut(w[k], sent)
          BY <1>2, <2>2 DEF Awaited
        <4>3. w[k] # m
          BY <1>2a, <2>2, <4>2
        <4>. QED  BY <1>1, <1>2a, <3>1, <4>1, <4>2, <4>3
      <3>3. /\ Len(b.waiting) = Len(w) + 1 /\ b.waiting[Len(w) + 1] = m
            /\ \A k \in 1 .. Len(w) : b.waiting[k] = w[k]
            /\ Len(w) \in Nat
        BY <1>2, <3>1
      <3>4. Distinct(b.waiting)
        <4>1. Distinct(w)
          BY <1>2, <2>2 DEF Awaited
        <4>. QED  BY <1>2, <3>1, <3>2, <4>1, DistinctAppend
      <3>5. ASSUME NEW k \in 1 .. Len(b.waiting)
            PROVE  /\ Sender[b.waiting[k]] = n /\ on'[b.waiting[k]] = i
                   /\ send'[b.waiting[k]] = Result(b) /\ ~ GoneOut(b.waiting[k], sent')
        <4>1. k \in 1 .. Len(w) \/ k = Len(w) + 1
          BY <3>3
        <4>2. CASE k \in 1 .. Len(w)
          BY <3>2, <3>3, <4>2
        <4>3. CASE k = Len(w) + 1
          BY <1>1, <1>2b, <3>1, <3>3, <4>3
        <4>. QED  BY <4>1, <4>2, <4>3
      <3>. QED  BY <3>4, <3>5
    <2>. QED  BY <1>1, <2>1, <2>2 DEF Awaited
  <1>4. ASSUME NEW l \in Messages, send'[l] = "waiting"
        PROVE  \/ Sender[l] = n /\ on'[l] = i /\ Holds(b, l)
               \/ send[l] = "waiting" /\ on'[l] = on[l] /\ ~ (Sender[l] = n /\ on[l] = i)
    <2>1. CASE l = m
      <3>1. b.waiting = Append(att[n][i].waiting, m) /\ Result(att[n][i]) = "waiting"
        BY <1>1, <1>4, <2>1
      <3>2. b.promise = "pending"
        BY <1>1, <1>2, <3>1 DEF Result
      <3>3. /\ Len(b.waiting) = Len(att[n][i].waiting) + 1 /\ b.waiting[Len(att[n][i].waiting) + 1] = m
            /\ Len(att[n][i].waiting) \in Nat
        BY <1>2, <3>1
      <3>4. Len(b.waiting) \in 1 .. Len(b.waiting) /\ b.waiting[Len(b.waiting)] = m
        BY <3>3
      <3>. QED  BY <1>1, <2>1, <3>2, <3>4 DEF Holds
    <2>2. CASE l # m
      <3>1. send[l] = "waiting" /\ on'[l] = on[l]
        BY <1>1, <1>4, <2>2
      <3>2. Holds(att[Sender[l]][on[l]], l)
        BY <3>1, WaitersPendMeans DEF CallInv
      <3>3. ASSUME Sender[l] = n, on[l] = i PROVE Holds(b, l)
        <4>1. PICK k \in 1 .. Len(att[n][i].waiting) : att[n][i].waiting[k] = l
          BY <3>2, <3>3 DEF Holds
        <4>2. b.promise = "pending"
          BY <1>1, <3>2, <3>3 DEF Holds
        <4>3. k \in 1 .. Len(b.waiting) /\ b.waiting[k] = l
          <5>1. Len(Append(att[n][i].waiting, m)) = Len(att[n][i].waiting) + 1
                /\ Append(att[n][i].waiting, m)[k] = l /\ Len(att[n][i].waiting) \in Nat
            BY <1>2, <4>1
          <5>. QED  BY <1>1, <4>1, <5>1
        <4>. QED  BY <4>2, <4>3 DEF Holds
      <3>. QED  BY <3>1, <3>3
    <2>. QED  BY <2>1, <2>2
  <1>5. PendingWait' /\ WaitersPend'
    <2>1. PendingWait /\ WaitersPend
      BY DEF CallInv
    <2>2. \A l \in Messages : send'[l] # send[l] \/ on'[l] # on[l] =>
              send[l] \notin {"waiting", "resolved"} \/ (Sender[l] = n /\ on[l] = i)
      BY <1>1
    <2>3. ASSUME NEW l \in Messages, GoneOut(l, sent')
          PROVE  GoneOut(l, sent) \/ (Sender[l] = n /\ on'[l] = i)
      <3>1. CASE sent' = sent
        BY <2>3, <3>1
      <3>2. CASE sent' = [sent EXCEPT ![n] = Append(@, m)]
        <4>1. Sender[l] \in Nodes /\ sent[Sender[l]] \in Seq(Messages)
          BY ConnectionAssumption DEF TypeOK
        <4>2. CASE Sender[l] # n
          BY <2>3, <3>2, <4>1, <4>2 DEF GoneOut, TypeOK
        <4>3. CASE Sender[l] = n
          <5>1. PICK k \in 1 .. Len(sent'[n]) : sent'[n][k] = l
            BY <2>3, <4>3 DEF GoneOut
          <5>2. sent'[n] = Append(sent[n], m)
            BY <3>2 DEF TypeOK
          <5>3. (k \in 1 .. Len(sent[n]) /\ sent[n][k] = l) \/ l = m
            BY <4>1, <4>3, <5>1, <5>2
          <5>. QED  BY <1>1, <4>3, <5>3 DEF GoneOut
        <4>. QED  BY <4>2, <4>3
      <3>. QED  BY <1>1, <3>1, <3>2
    <2>. QED  BY <1>1, <1>3, <1>4, <2>1, <2>2, <2>3, OthersKept
  <1>6. SentInv'
    <2>1. \A p \in Nodes : sent[p] \in Seq(Messages)
      BY DEF TypeOK
    <2>2. ASSUME NEW p \in Nodes, NEW k \in 1 .. Len(sent[p])
          PROVE  sent[p][k] \in Messages \ {m} /\ send'[sent[p][k]] = "resolved"
      <3>1. sent[p][k] \in Messages /\ send[sent[p][k]] = "resolved"
        BY <2>1 DEF CallInv, SentInv
      <3>. QED  BY <1>1, <3>1
    <2>3. CASE sent' = sent
      BY <2>2, <2>3 DEF CallInv, SentInv
    <2>4. CASE sent' = [sent EXCEPT ![n] = Append(@, m)] /\ send'[m] = "resolved"
      <3>1. /\ Len(sent'[n]) = Len(sent[n]) + 1 /\ sent'[n][Len(sent[n]) + 1] = m
            /\ \A k \in 1 .. Len(sent[n]) : sent'[n][k] = sent[n][k]
            /\ Len(sent[n]) \in Nat
        <4>1. sent'[n] = Append(sent[n], m)
          BY <2>4 DEF TypeOK
        <4>. QED  BY <2>1, <4>1
      <3>2. Distinct(sent[n])
        BY DEF CallInv, SentInv
      <3>3. Distinct(sent'[n])
        <4>1. \A k \in 1 .. Len(sent[n]) : sent[n][k] # m
          BY <2>2
        <4>2. Distinct(Append(sent[n], m))
          BY <2>1, <3>2, <4>1, DistinctAppend
        <4>3. sent'[n] = Append(sent[n], m)
          BY <2>4 DEF TypeOK
        <4>. QED  BY <4>2, <4>3
      <3>4. \A k \in 1 .. Len(sent'[n]) : send'[sent'[n][k]] = "resolved"
        BY <2>2, <2>4, <3>1
      <3>5. ASSUME NEW p \in Nodes, p # n
            PROVE  Distinct(sent'[p]) /\ \A k \in 1 .. Len(sent'[p]) : send'[sent'[p][k]] = "resolved"
        <4>1. sent'[p] = sent[p]
          BY <2>4, <3>5 DEF TypeOK
        <4>2. Distinct(sent[p])
          BY DEF CallInv, SentInv
        <4>. QED  BY <2>2, <4>1, <4>2
      <3>. QED  BY <3>3, <3>4, <3>5 DEF SentInv
    <2>. QED  BY <1>1, <2>3, <2>4
  <1>7. ResolvedIsSent'
    <2>1. i \in DOMAIN att[n] /\ Over(att[n][i]) => Over(b)
      BY <1>1 DEF Over, Closed
    <2>2. ASSUME NEW l \in Messages, GoneOut(l, sent) PROVE GoneOut(l, sent')
      <3>1. CASE sent' = sent
        BY <2>2, <3>1
      <3>2. CASE sent' = [sent EXCEPT ![n] = Append(@, m)]
        <4>1. Sender[l] \in Nodes /\ \A p \in Nodes : sent[p] \in Seq(Messages)
          BY ConnectionAssumption DEF TypeOK
        <4>2. CASE Sender[l] # n
          BY <2>2, <3>2, <4>1, <4>2 DEF GoneOut, TypeOK
        <4>3. CASE Sender[l] = n
          <5>1. PICK k \in 1 .. Len(sent[n]) : sent[n][k] = l
            BY <2>2, <4>3 DEF GoneOut
          <5>2. sent'[n] = Append(sent[n], m)
            BY <3>2 DEF TypeOK
          <5>3. k \in 1 .. Len(sent'[n]) /\ sent'[n][k] = l
            BY <4>1, <5>1, <5>2
          <5>. QED  BY <4>3, <5>3 DEF GoneOut
        <4>. QED  BY <4>2, <4>3
      <3>. QED  BY <1>1, <3>1, <3>2
    <2>3. ASSUME NEW l \in Messages, send'[l] = "resolved"
          PROVE  \/ send[l] = "resolved" /\ on'[l] = on[l]
                 \/ GoneOut(l, sent')
                 \/ Sender[l] = n /\ on'[l] = i /\ Over(b)
      <3>1. CASE l # m
        BY <1>1, <2>3, <3>1
      <3>2. CASE l = m /\ sent' = [sent EXCEPT ![n] = Append(@, m)]
        <4>1. sent[n] \in Seq(Messages) /\ sent'[n] = Append(sent[n], m)
          BY <3>2 DEF TypeOK
        <4>2. /\ Len(sent'[n]) = Len(sent[n]) + 1 /\ sent'[n][Len(sent[n]) + 1] = m
              /\ Len(sent[n]) \in Nat
          BY <4>1
        <4>3. Len(sent'[n]) \in 1 .. Len(sent'[n]) /\ sent'[n][Len(sent'[n])] = m
          BY <4>2
        <4>. QED  BY <3>2, <4>3 DEF GoneOut
      <3>3. CASE l = m /\ ~ att[n][i].ready /\ send'[m] = Result(att[n][i])
        <4>1. att[n][i].promise = "resolved"
          BY <2>3, <3>3 DEF Result
        <4>2. Closed(att[n][i])
          BY <1>2, <3>3, <4>1 DEF Coherent
        <4>. QED  BY <1>1, <3>3, <4>1, <4>2 DEF Over, Closed
      <3>4. CASE l = m /\ send'[m] = "rejected"
        BY <2>3, <3>4
      <3>. QED  BY <1>1, <3>1, <3>2, <3>3, <3>4
    <2>4. ResolvedIsSent
      BY DEF CallInv
    <2>. QED  BY <1>1, <2>1, <2>2, <2>3, <2>4, ResolvedKept
  <1>. QED  BY <1>5, <1>6, <1>7 DEF CallInv

\* The promise of an attempt settles: the calls that wait for it do, no others.
LEMMA SettleEffect ==
    ASSUME TypeOK, Grounded, PendingWait, WaitersPend, NEW n \in Nodes, NEW i, NEW b,
           Becomes(n, i, b), b.promise = "rejected" \/ (b.promise = "resolved" /\ b.waiting = << >>),
           on' = on, \A m \in Messages : GoneOut(m, sent') => GoneOut(m, sent) \/ (Sender[m] = n /\ on[m] = i),
           NEW r \in {"resolved", "rejected"}, SettleWaiting(n, i, r)
    PROVE  /\ send' \in [Messages -> {"none", "offering", "posted", "waiting", "resolved", "rejected"}]
           /\ \A m \in Messages : send[m] # "waiting" => send'[m] = send[m]
           /\ \A m \in Messages : send'[m] # send[m] =>
                 send[m] = "waiting" /\ Sender[m] = n /\ on[m] = i /\ send'[m] = r
           /\ PendingWait' /\ WaitersPend'
  <1>1. \A m \in Messages :
            send'[m] = IF Sender[m] = n /\ on[m] = i /\ send[m] = "waiting" THEN r ELSE send[m]
    BY DEF SettleWaiting
  <1>2. send' \in [Messages -> {"none", "offering", "posted", "waiting", "resolved", "rejected"}]
    BY DEF SettleWaiting, TypeOK
  <1>3. Awaited(b, n, i, on', send', sent')
    <2>1. Len(<< >>) = 0
      OBVIOUS
    <2>. QED  BY <2>1 DEF Awaited, Distinct
  <1>4. \A m \in Messages : send'[m] = "waiting" =>
            send[m] = "waiting" /\ on'[m] = on[m] /\ ~ (Sender[m] = n /\ on[m] = i)
    BY <1>1
  <1>5. \A m \in Messages : send'[m] # send[m] \/ on'[m] # on[m] =>
            send[m] \notin {"waiting", "resolved"} \/ (Sender[m] = n /\ on[m] = i)
    BY <1>1
  <1>6. PendingWait' /\ WaitersPend'
    BY <1>3, <1>4, <1>5, OthersKept
  <1>. QED  BY <1>1, <1>2, <1>6

\* onopen sends what waits, and all that waits is there to be sent.
LEMMA OnOpenStep ==
    ASSUME TypeOK, Grounded, AttemptsCoherent, CallInv,
           NEW n \in Nodes, NEW i \in DOMAIN att[n], NEW c \in Ends, OnOpen(n, i, c)
    PROVE  \E b \in Attempt :
              /\ Becomes(n, i, b) /\ Coherent(b)
              /\ b.pc = att[n][i].pc /\ b.ready /\ (Closed(b) <=> Closed(att[n][i]))
              /\ TypeOK' /\ CallInv'
  <1>1. att[n][i] \in Attempt /\ att[n][i].waiting \in Seq(Messages) /\ Coherent(att[n][i])
        /\ Awaited(att[n][i], n, i, on, send, sent)
    <2>1. att[n][i] \in Attempt
      BY DEF TypeOK
    <2>. QED  BY <2>1, PendingWaitMeans DEF Attempt, AttemptsCoherent, CallInv
  <1>2. att[n][i].promise \in {"pending", "resolved"}
    BY <1>1 DEF OnOpen, CanOpen, Linked, Coherent, Attempt
  <1>. DEFINE b == [att[n][i] EXCEPT !.chans = [@ EXCEPT ![c] = "open"], !.ready = TRUE, !.timer = FALSE,
                                     !.promise = "resolved", !.waiting = << >>]
              w == att[n][i].waiting
  <1>3. /\ b \in Attempt /\ b.pc = att[n][i].pc /\ b.ready /\ ~ b.timer
        /\ b.promise = "resolved" /\ b.waiting = << >>
        /\ Closed(b) <=> Closed(att[n][i])
    <2>1. << >> \in Seq(Messages)
      OBVIOUS
    <2>2. att[n][i].chans[c] # "closed"
      BY DEF OnOpen, CanOpen
    <2>3. /\ b.chans \in [Ends -> {"none", "connecting", "open", "closed"}]
          /\ b.chans[c] = "open" /\ \A d \in Ends \ {c} : b.chans[d] = att[n][i].chans[d]
      BY <1>1 DEF Attempt
    <2>4. Closed(b) <=> Closed(att[n][i])
      BY <2>2, <2>3 DEF Closed
    <2>. QED  BY <1>1, <2>1, <2>3, <2>4 DEF Attempt
  <1>4. att' = [att EXCEPT ![n] = [@ EXCEPT ![i] = b]]
    <2>1. att[n] \in Seq(Attempt)
      BY DEF TypeOK
    <2>2. [att[n] EXCEPT ![i].chans[c] = "open", ![i].ready = TRUE, ![i].timer = FALSE,
                         ![i].promise = "resolved", ![i].waiting = << >>] = [att[n] EXCEPT ![i] = b]
      BY <1>1, <2>1 DEF Attempt
    <2>3. att' = [att EXCEPT ![n] = [att[n] EXCEPT ![i].chans[c] = "open", ![i].ready = TRUE,
                         ![i].timer = FALSE, ![i].promise = "resolved", ![i].waiting = << >>]]
      BY DEF OnOpen, TypeOK
    <2>. QED  BY <2>2, <2>3
  <1>5. UNCHANGED <<peer, signals, handling, up, on>> /\ Flush(n, i) /\ SettleWaiting(n, i, "resolved")
    BY DEF OnOpen
  <1>. HIDE DEF b
  <1>6. Becomes(n, i, b) /\ Coherent(b)
    BY <1>3, <1>4, AttemptAssigned DEF Coherent
  <1>7. /\ sent[n] \in Seq(Messages) /\ sent'[n] = sent[n] \o w
        /\ \A p \in Nodes \ {n} : sent'[p] = sent[p]
        /\ sent' \in [Nodes -> Seq(Messages)]
    <2>1. sent' = [sent EXCEPT ![n] = sent[n] \o w] /\ sent \in [Nodes -> Seq(Messages)]
      BY <1>5 DEF Flush, TypeOK
    <2>2. sent[n] \o w \in Seq(Messages)
      BY <1>1, <2>1
    <2>. QED  BY <2>1, <2>2
  <1>7a. ASSUME NEW k \in 1 .. Len(w)
         PROVE  /\ w[k] \in Messages /\ Sender[w[k]] = n /\ on[w[k]] = i
                /\ send[w[k]] \in {"waiting", "resolved"} /\ ~ GoneOut(w[k], sent)
    <2>1. w[k] \in Messages
      BY <1>1
    <2>2. Sender[w[k]] = n /\ on[w[k]] = i /\ send[w[k]] = Result(att[n][i]) /\ ~ GoneOut(w[k], sent)
      BY <1>1, <1>2 DEF Awaited
    <2>. QED  BY <1>2, <2>1, <2>2 DEF Result
  <1>11. /\ \A k \in 1 .. Len(sent[n]) : sent'[n][k] = sent[n][k] /\ k \in 1 .. Len(sent'[n])
         /\ \A k \in 1 .. Len(w) : sent'[n][Len(sent[n]) + k] = w[k] /\ Len(sent[n]) + k \in 1 .. Len(sent'[n])
         /\ \A k \in 1 .. Len(sent'[n]) : k \in 1 .. Len(sent[n]) \/ \E j \in 1 .. Len(w) : sent'[n][k] = w[j]
    <2>1. sent'[n] = sent[n] \o w /\ sent[n] \in Seq(Messages) /\ w \in Seq(Messages)
      BY <1>1, <1>7
    <2>. HIDE DEF w
    <2>2. \A k \in 1 .. Len(sent[n]) : (sent[n] \o w)[k] = sent[n][k] /\ k \in 1 .. Len(sent[n] \o w)
      BY <2>1, ConcatElements, Zenon
    <2>3. \A k \in 1 .. Len(w) : /\ (sent[n] \o w)[Len(sent[n]) + k] = w[k]
                               /\ Len(sent[n]) + k \in 1 .. Len(sent[n] \o w)
      BY <2>1, ConcatElements, Zenon
    <2>4. ASSUME NEW k \in 1 .. Len(sent[n] \o w), k \notin 1 .. Len(sent[n])
          PROVE  \E j \in 1 .. Len(w) : (sent[n] \o w)[k] = w[j]
      <3>1. \A s, t \in Seq(Messages) : \A l \in 1 .. Len(s \o t) :
                l \in 1 .. Len(s) \/ \E j \in 1 .. Len(t) : (s \o t)[l] = t[j]
        BY ConcatElements
      <3>2. \A l \in 1 .. Len(sent[n] \o w) :
                l \in 1 .. Len(sent[n]) \/ \E j \in 1 .. Len(w) : (sent[n] \o w)[l] = w[j]
        BY <2>1, <3>1
      <3>. QED  BY <2>4, <3>2, Zenon
    <2>. QED  BY <2>1, <2>2, <2>3, <2>4, Zenon
  <1>8. /\ send' \in [Messages -> {"none", "offering", "posted", "waiting", "resolved", "rejected"}]
        /\ \A m \in Messages : send[m] # "waiting" => send'[m] = send[m]
        /\ \A m \in Messages : send'[m] # send[m] =>
              send[m] = "waiting" /\ Sender[m] = n /\ on[m] = i /\ send'[m] = "resolved"
        /\ PendingWait' /\ WaitersPend'
    <2>1. ASSUME NEW m \in Messages, GoneOut(m, sent')
          PROVE  GoneOut(m, sent) \/ (Sender[m] = n /\ on[m] = i)
      <3>1. CASE Sender[m] # n
        <4>1. sent'[Sender[m]] = sent[Sender[m]]
          BY <1>7, <3>1, ConnectionAssumption
        <4>. QED  BY <2>1, <4>1 DEF GoneOut
      <3>2. CASE Sender[m] = n
        <4>1. PICK k \in 1 .. Len(sent'[n]) : sent'[n][k] = m
          BY <2>1, <3>2 DEF GoneOut
        <4>2. CASE k \in 1 .. Len(sent[n])
          BY <1>11, <3>2, <4>1, <4>2 DEF GoneOut
        <4>3. ASSUME NEW j \in 1 .. Len(w), sent'[n][k] = w[j] PROVE on[m] = i
          BY <1>7a, <4>1, <4>3
        <4>. QED  BY <1>11, <3>2, <4>1, <4>2, <4>3
      <3>. QED  BY <3>1, <3>2
    <2>. QED  BY <1>3, <1>5, <1>6, <2>1, SettleEffect DEF CallInv
  <1>9. TypeOK'
    <2>1. att' \in [Nodes -> Seq(Attempt)]
      BY <1>6 DEF Becomes
    <2>. QED  BY <1>5, <1>7, <1>8, <2>1 DEF TypeOK
  <1>10. \A m \in Messages : Sender[m] = n /\ on[m] = i /\ send[m] = "waiting" => send'[m] = "resolved"
    BY <1>5 DEF SettleWaiting
  <1>12. ASSUME NEW p \in Nodes, NEW k \in 1 .. Len(sent[p])
         PROVE  sent[p][k] \in Messages /\ send[sent[p][k]] = "resolved" /\ send'[sent[p][k]] = "resolved"
    <2>1. sent[p][k] \in Messages
      BY DEF TypeOK
    <2>2. send[sent[p][k]] = "resolved"
      BY DEF CallInv, SentInv
    <2>. QED  BY <1>8, <2>1, <2>2
  <1>13. ASSUME NEW k \in 1 .. Len(w)
         PROVE  w[k] \in Messages /\ send'[w[k]] = "resolved"
    BY <1>7a, <1>8, <1>10
  <1>14. SentInv'
    <2>1. Distinct(sent[n]) /\ Distinct(w)
      BY <1>1, <1>2 DEF CallInv, SentInv, Awaited
    <2>2. \A j \in 1 .. Len(sent[n]), k \in 1 .. Len(w) : sent[n][j] # w[k]
      BY <1>7a DEF GoneOut
    <2>3. Distinct(sent[n] \o w)
      BY <1>1, <1>7, <2>1, <2>2, DistinctConcat
    <2>4. ASSUME NEW k \in 1 .. Len(sent'[n]) PROVE send'[sent'[n][k]] = "resolved"
      <3>1. CASE k \in 1 .. Len(sent[n])
        BY <1>11, <1>12, <3>1
      <3>2. ASSUME NEW j \in 1 .. Len(w), sent'[n][k] = w[j] PROVE send'[sent'[n][k]] = "resolved"
        BY <1>13, <3>2
      <3>. QED  BY <1>11, <3>1, <3>2
    <2>5. ASSUME NEW p \in Nodes, p # n
          PROVE  Distinct(sent'[p]) /\ \A k \in 1 .. Len(sent'[p]) : send'[sent'[p][k]] = "resolved"
      <3>1. sent'[p] = sent[p] /\ Distinct(sent[p])
        BY <1>7, <2>5 DEF CallInv, SentInv
      <3>. QED  BY <1>12, <3>1
    <2>6. Distinct(sent'[n])
      BY <1>7, <2>3
    <2>. QED  BY <2>4, <2>5, <2>6 DEF SentInv
  <1>15. ResolvedIsSent'
    <2>1. ASSUME NEW m \in Messages, GoneOut(m, sent) PROVE GoneOut(m, sent')
      <3>1. CASE Sender[m] = n
        <4>1. PICK k \in 1 .. Len(sent[n]) : sent[n][k] = m
          BY <2>1, <3>1 DEF GoneOut
        <4>2. k \in 1 .. Len(sent'[n]) /\ sent'[n][k] = m
          BY <1>11, <4>1
        <4>. QED  BY <3>1, <4>2 DEF GoneOut
      <3>2. CASE Sender[m] # n
        <4>1. sent'[Sender[m]] = sent[Sender[m]]
          BY <1>7, <3>2, ConnectionAssumption
        <4>. QED  BY <2>1, <4>1 DEF GoneOut
      <3>. QED  BY <3>1, <3>2
    <2>2. ASSUME NEW m \in Messages, send'[m] = "resolved"
          PROVE  (send[m] = "resolved" /\ on'[m] = on[m]) \/ GoneOut(m, sent')
      <3>1. CASE send'[m] = send[m]
        BY <1>5, <2>2, <3>1
      <3>2. CASE send'[m] # send[m]
        <4>1. send[m] = "waiting" /\ Sender[m] = n /\ on[m] = i
          BY <1>8, <3>2
        <4>2. PICK k \in 1 .. Len(w) : w[k] = m
          BY <4>1, WaitersPendMeans DEF CallInv, Holds
        <4>3. Len(sent[n]) + k \in 1 .. Len(sent'[n]) /\ sent'[n][Len(sent[n]) + k] = m
          BY <1>11, <4>2
        <4>. QED  BY <4>1, <4>3 DEF GoneOut
      <3>. QED  BY <3>1, <3>2
    <2>3. i \in DOMAIN att[n] /\ Over(att[n][i]) => Over(b)
      BY <1>3 DEF Over
    <2>4. ResolvedIsSent
      BY DEF CallInv
    <2>. QED  BY <1>6, <1>9, <2>1, <2>2, <2>3, <2>4, ResolvedKept
  <1>16. CallInv'
    BY <1>8, <1>14, <1>15 DEF CallInv
  <1>. QED  BY <1>3, <1>6, <1>9, <1>16

\* The connection timer rejects what waits, and an attempt that is open has none.
LEMMA TimeoutStep ==
    ASSUME TypeOK, Grounded, AttemptsCoherent, CallInv,
           NEW n \in Nodes, NEW i \in DOMAIN att[n], Timeout(n, i)
    PROVE  \E b \in Attempt : Becomes(n, i, b) /\ Coherent(b) /\ TypeOK' /\ CallInv'
  <1>1. att[n][i] \in Attempt /\ att[n][i].timer /\ Coherent(att[n][i])
    BY DEF TypeOK, AttemptsCoherent, Timeout
  <1>2. att[n][i].promise = "pending" /\ ~ att[n][i].ready
    BY <1>1 DEF Coherent
  <1>. DEFINE b == [ClosePc(att[n][i]) EXCEPT !.timer = FALSE, !.promise = "rejected"]
  <1>3. /\ b \in Attempt /\ b.pc = "closed"
        /\ b.chans = att[n][i].chans /\ b.ready = att[n][i].ready /\ ~ b.timer
        /\ b.promise = "rejected"
    BY <1>1 DEF Attempt, ClosePc
  <1>4. att' = [att EXCEPT ![n] = [@ EXCEPT ![i] = b]]
    BY DEF Timeout
  <1>5. UNCHANGED <<signals, handling, up, on, sent>> /\ DropEntry(n) /\ SettleWaiting(n, i, "rejected")
    BY DEF Timeout
  <1>. HIDE DEF b
  <1>6. Becomes(n, i, b) /\ Coherent(b)
    BY <1>2, <1>3, <1>4, AttemptAssigned DEF Coherent, Closed
  <1>8. /\ send' \in [Messages -> {"none", "offering", "posted", "waiting", "resolved", "rejected"}]
        /\ \A m \in Messages : send[m] # "waiting" => send'[m] = send[m]
        /\ \A m \in Messages : send'[m] # send[m] =>
              send[m] = "waiting" /\ Sender[m] = n /\ on[m] = i /\ send'[m] = "rejected"
        /\ PendingWait' /\ WaitersPend'
    BY <1>3, <1>5, <1>6, SettleEffect DEF CallInv
  <1>9. TypeOK'
    <2>1. att' \in [Nodes -> Seq(Attempt)]
      BY <1>6 DEF Becomes
    <2>2. peer' \in [Nodes -> Nat]
      BY <1>5 DEF DropEntry, TypeOK
    <2>. QED  BY <1>5, <1>8, <2>1, <2>2 DEF TypeOK
  <1>10. SentInv'
    <2>1. \A p \in Nodes : \A k \in 1 .. Len(sent[p]) : sent[p][k] \in Messages
      BY DEF TypeOK
    <2>. QED  BY <1>5, <1>8, <2>1 DEF CallInv, SentInv
  <1>11. ResolvedIsSent'
    <2>1. i \in DOMAIN att[n] /\ Over(att[n][i]) => Over(b)
      BY <1>2 DEF Over
    <2>2. ResolvedIsSent
      BY DEF CallInv
    <2>3. \A m \in Messages : send'[m] = "resolved" => send[m] = "resolved" /\ on'[m] = on[m]
      BY <1>5, <1>8
    <2>4. \A m \in Messages : GoneOut(m, sent) => GoneOut(m, sent')
      BY <1>5
    <2>. QED  BY <1>6, <1>9, <2>1, <2>2, <2>3, <2>4, ResolvedKept
  <1>12. CallInv'
    BY <1>8, <1>10, <1>11 DEF CallInv
  <1>. QED  BY <1>3, <1>6, <1>9, <1>12

-----------------------------------------------------------------------------
(* The actions *)

\* A signal is posted, or lost on a peer that polls no more.
LEMMA PostedTyped ==
    ASSUME TypeOK, NEW n \in Nodes, NEW i \in Nat, NEW type \in {"OFFER", "ANSWER", "CANDIDATE"}
    PROVE  Posted(n, type, i) \subseteq Signal
  <1>1. Remote[n] \in Nodes
    BY ConnectionAssumption
  <1>2. SignalTo(n, type, i) \in Signal
    BY <1>1 DEF SignalTo, Signal
  <1>. QED  BY <1>2 DEF Posted, TypeOK

\* The step is made up of the lemmas above.
LEMMA QuietKeeps ==
    ASSUME IInv, TypeOK', NEW n \in Nodes, NEW i, NEW b, Becomes(n, i, b), Coherent(b),
           i \in DOMAIN att[n] => /\ b.promise = att[n][i].promise
                                  /\ b.waiting = att[n][i].waiting
                                  /\ Closed(att[n][i]) => Closed(b),
           i \notin DOMAIN att[n] => b.promise = "pending" /\ b.waiting = << >>,
           sent' = sent,
           \A m \in Messages :
              \/ send'[m] = send[m] /\ on'[m] = on[m]
              \/ /\ send[m] \in {"none", "offering"} /\ send'[m] \in {"offering", "posted", "rejected"}
                 /\ Sender[m] = n /\ on'[m] = i,
           \A p \in Nodes : peer'[p] \in {0, peer[p]} \/ (p = n /\ peer'[p] = i),
           \A p \in Nodes : handling'[p] \in {0, handling[p]} \/ (p = n /\ handling'[p] = i),
           peer'[n] = i => Served(b)
    PROVE  IInv'
  <1>1. AttemptsCoherent'
    BY CoherenceKept DEF IInv
  <1>2. Grounded' /\ EntryIsServed'
    <2>1. \A m \in Messages :
              \/ send'[m] = "none"
              \/ send[m] # "none" /\ on'[m] = on[m]
              \/ Sender[m] = n /\ on'[m] = i
      OBVIOUS
    <2>. QED  BY <2>1, EntriesKept DEF IInv
  <1>3. CallInv'
    <2>1. \A m \in Messages :
              \/ send'[m] = send[m] /\ on'[m] = on[m]
              \/ send[m] \in {"none", "offering"} /\ send'[m] \in {"offering", "posted", "rejected"}
      OBVIOUS
    <2>. QED  BY <2>1, QuietStep DEF IInv
  <1>. QED  BY <1>1, <1>2, <1>3 DEF IInv

\* What an entry of the map says of its attempt.
LEMMA EntryServed ==
    ASSUME IInv, NEW n \in Nodes, peer[n] # 0
    PROVE  peer[n] \in DOMAIN att[n] /\ Served(att[n][peer[n]])
  BY DEF IInv, Grounded, EntryIsServed, Served

\* What the invariant says of one attempt.
LEMMA OneAttempt ==
    ASSUME IInv, NEW n \in Nodes, NEW i \in DOMAIN att[n]
    PROVE  att[n][i] \in Attempt /\ Coherent(att[n][i]) /\ i \in Nat \ {0}
  <1>1. att[n] \in Seq(Attempt)
    BY DEF IInv, TypeOK
  <1>2. att[n][i] \in Attempt /\ i \in Nat \ {0}
    BY <1>1
  <1>. QED  BY <1>2 DEF IInv, AttemptsCoherent

\* send after its awaits keeps the invariant.
LEMMA HandOverKeeps ==
    ASSUME IInv, NEW n \in Nodes, NEW m \in Messages, NEW i \in DOMAIN att[n],
           Sender[m] = n, send[m] \in {"none", "posted"}, HandOver(n, m, i),
           UNCHANGED <<peer, signals, handling, up>>
    PROVE  IInv'
  <1>1. TypeOK /\ Coherent(att[n][i]) /\ i # 0
    BY OneAttempt DEF IInv
  <1>2. PICK b : HandsOver(n, m, i, b)
    BY <1>1, HandOverEffect
  <1>b. /\ b \in Attempt /\ Becomes(n, i, b)
        /\ b.pc = att[n][i].pc /\ b.chans = att[n][i].chans /\ b.ready = att[n][i].ready
        /\ b.timer = att[n][i].timer /\ b.promise = att[n][i].promise
        /\ on'[m] = i
        /\ \A l \in Messages \ {m} : send'[l] = send[l] /\ on'[l] = on[l]
        /\ att[n][i].ready => b.waiting = att[n][i].waiting
        /\ send' \in [Messages -> {"none", "offering", "posted", "waiting", "resolved", "rejected"}]
        /\ on' \in [Messages -> Nat] /\ sent' \in [Nodes -> Seq(Messages)]
    BY <1>2 DEF HandsOver
  <1>3. TypeOK'
    <2>1. att' \in [Nodes -> Seq(Attempt)]
      BY <1>b DEF Becomes
    <2>. QED  BY <1>1, <1>b, <2>1 DEF TypeOK
  <1>4. CallInv'
    BY <1>1, <1>3, HandOverStep DEF IInv
  <1>5. Coherent(b)
    BY <1>1, <1>b DEF Coherent, Closed
  <1>6. AttemptsCoherent'
    BY <1>b, <1>5, CoherenceKept DEF IInv
  <1>7. peer'[n] = i => Served(b)
    BY <1>1, <1>b, EntryServed DEF Served, Closed
  <1>8. \A l \in Messages :
            \/ send'[l] = "none"
            \/ send[l] # "none" /\ on'[l] = on[l]
            \/ Sender[l] = n /\ on'[l] = i
    BY <1>b
  <1>9. Grounded' /\ EntryIsServed'
    BY <1>b, <1>7, <1>8, EntriesKept DEF IInv
  <1>. QED  BY <1>3, <1>4, <1>6, <1>9 DEF IInv

\* The first send makes an attempt, which has a timer and no waiting messages.
LEMMA SendFirstKeeps ==
    ASSUME IInv, NEW n \in Nodes, NEW m \in Messages, SendFirst(n, m)
    PROVE  IInv'
  <1>. DEFINE b == NewAttempt(n, "connecting")
              i == Len(att[n]) + 1
  <1>0. TypeOK /\ Len(att[n]) \in Nat /\ DOMAIN att[n] = 1 .. Len(att[n])
    BY DEF IInv, TypeOK
  <1>1. b \in Attempt /\ Coherent(b) /\ Served(b) /\ b.promise = "pending" /\ b.waiting = << >>
    <2>1. << >> \in Seq(Messages)
      OBVIOUS
    <2>. QED  BY <2>1 DEF NewAttempt, Attempt, Coherent, Served, Closed
  <1>2. i \notin DOMAIN att[n] /\ i \in Nat
    BY <1>0
  <1>3. att' = [att EXCEPT ![n] = Append(@, b)]
    BY DEF SendFirst
  <1>. HIDE DEF b
  <1>4. Becomes(n, i, b)
    BY <1>0, <1>1, <1>3, AttemptAdded
  <1>5. Len(att'[n]) = i
    BY <1>0, <1>3 DEF TypeOK
  <1>6. /\ peer' = [peer EXCEPT ![n] = i] /\ on' = [on EXCEPT ![m] = i]
        /\ send' = [send EXCEPT ![m] = "offering"] /\ UNCHANGED <<signals, handling, up, sent>>
        /\ Sender[m] = n /\ send[m] = "none"
    BY <1>5 DEF SendFirst
  <1>. HIDE DEF i
  <1>7. TypeOK'
    <2>1. att' \in [Nodes -> Seq(Attempt)]
      BY <1>4 DEF Becomes
    <2>. QED  BY <1>0, <1>2, <1>6, <2>1 DEF TypeOK
  <1>8. \A l \in Messages :
              \/ send'[l] = send[l] /\ on'[l] = on[l]
              \/ /\ send[l] \in {"none", "offering"} /\ send'[l] \in {"offering", "posted", "rejected"}
                 /\ Sender[l] = n /\ on'[l] = i
    BY <1>0, <1>6 DEF TypeOK
  <1>9. /\ \A p \in Nodes : peer'[p] \in {0, peer[p]} \/ (p = n /\ peer'[p] = i)
        /\ handling' = handling
    BY <1>0, <1>6 DEF TypeOK
  <1>. QED  BY <1>1, <1>2, <1>4, <1>6, <1>7, <1>8, <1>9, QuietKeeps

\* An offer goes out, or throws and leaves the attempt to its timer.
LEMMA OfferKeeps ==
    ASSUME IInv, NEW n \in Nodes, NEW m \in Messages, Offer(n, m)
    PROVE  IInv'
  <1>. DEFINE i == on[m]
              a == att[n][i]
  <1>0. TypeOK /\ Sender[m] = n /\ send[m] = "offering" /\ i \in DOMAIN att[n]
    BY DEF IInv, Offer, Grounded
  <1>1. a \in Attempt /\ Coherent(a) /\ i \in Nat \ {0}
    BY <1>0, OneAttempt
  <1>2. /\ UNCHANGED <<peer, handling, up, on, sent>>
        /\ send' = [send EXCEPT ![m] = "posted"] \/ send' = [send EXCEPT ![m] = "rejected"]
        /\ signals' = signals \/ signals' = Posted(n, "OFFER", i)
    BY DEF Offer
  <1>3. PICK b \in Attempt : /\ Becomes(n, i, b) /\ Coherent(b) /\ b.promise = a.promise /\ b.waiting = a.waiting
                             /\ b.chans = a.chans /\ b.ready = a.ready
                             /\ b.timer = a.timer /\ (a.pc # "closed" => b.pc # "closed")
    <2>1. CASE a.pc = "new" /\ att' = [att EXCEPT ![n][i].pc = "offered"]
      <3>. DEFINE b == [a EXCEPT !.pc = "offered"]
      <3>1. /\ b \in Attempt /\ b.promise = a.promise /\ b.waiting = a.waiting /\ b.pc = "offered"
            /\ b.chans = a.chans /\ b.ready = a.ready /\ b.timer = a.timer
        BY <1>1 DEF Attempt
      <3>2. att' = [att EXCEPT ![n] = [@ EXCEPT ![i] = b]]
        BY <2>1
      <3>. HIDE DEF b
      <3>3. Coherent(b)
        BY <1>1, <2>1, <3>1 DEF Coherent, Closed
      <3>. QED  BY <1>0, <3>1, <3>2, <3>3, AttemptAssigned
    <2>2. CASE att' = att
      BY <1>0, <1>1, <2>2, AttemptStays
    <2>. QED  BY <2>1, <2>2 DEF Offer
  <1>4. TypeOK'
    <2>1. att' \in [Nodes -> Seq(Attempt)]
      BY <1>3 DEF Becomes
    <2>2. signals' \subseteq Signal
      BY <1>0, <1>1, <1>2, PostedTyped DEF TypeOK
    <2>3. send' \in [Messages -> {"none", "offering", "posted", "waiting", "resolved", "rejected"}]
      BY <1>0, <1>2 DEF TypeOK
    <2>. QED  BY <1>0, <1>2, <2>1, <2>2, <2>3 DEF TypeOK
  <1>5. (peer'[n] = i => Served(b)) /\ (Closed(att[n][i]) => Closed(b))
    BY <1>1, <1>2, <1>3, EntryServed DEF Served, Closed
  <1>6. \A l \in Messages :
              \/ send'[l] = send[l] /\ on'[l] = on[l]
              \/ /\ send[l] \in {"none", "offering"} /\ send'[l] \in {"offering", "posted", "rejected"}
                 /\ Sender[l] = n /\ on'[l] = i
    BY <1>0, <1>2 DEF TypeOK
  <1>. HIDE DEF i
  <1>. QED  BY <1>0, <1>2, <1>3, <1>4, <1>5, <1>6, QuietKeeps

\* A step of an attempt's own that leaves the calls alone, and its promise.
LEMMA EventKeeps ==
    ASSUME IInv, NEW n \in Nodes, NEW i \in DOMAIN att[n], NEW b \in Attempt,
           att' = [att EXCEPT ![n] = [@ EXCEPT ![i] = b]], Coherent(b),
           b.promise = att[n][i].promise, b.waiting = att[n][i].waiting,
           Closed(att[n][i]) => Closed(b),
           UNCHANGED <<up, send, on, sent>>, signals' \subseteq Signal,
           DropEntry(n) \/ (peer' = peer /\ (Served(att[n][i]) => Served(b))),
           handling' = handling \/ handling' = [handling EXCEPT ![n] = 0]
    PROVE  IInv'
  <1>0. TypeOK /\ i # 0
    BY OneAttempt DEF IInv
  <1>1. Becomes(n, i, b)
    BY <1>0, AttemptAssigned
  <1>2. peer' \in [Nodes -> Nat] /\ \A p \in Nodes : peer'[p] \in {0, peer[p]}
    <2>1. peer \in [Nodes -> Nat] /\ (peer' = peer \/ peer' = [peer EXCEPT ![n] = 0])
      BY <1>0 DEF DropEntry, TypeOK
    <2>. QED  BY ONLY <2>1
  <1>3. handling' \in [Nodes -> Nat] /\ \A p \in Nodes : handling'[p] \in {0, handling[p]}
    <2>1. handling \in [Nodes -> Nat] /\ (handling' = handling \/ handling' = [handling EXCEPT ![n] = 0])
      BY <1>0 DEF TypeOK
    <2>. QED  BY ONLY <2>1
  <1>4. TypeOK'
    BY <1>0, <1>1, <1>2, <1>3 DEF TypeOK, Becomes
  <1>5. peer'[n] = i => Served(b)
    <2>1. DropEntry(n) => peer'[n] = 0
      BY <1>0 DEF DropEntry, TypeOK
    <2>. QED  BY <1>0, <2>1, EntryServed
  <1>. QED  BY <1>1, <1>2, <1>3, <1>4, <1>5, QuietKeeps

\* A candidate of the engine changes nothing but what is posted.
LEMMA IceCandidateKeeps ==
    ASSUME IInv, NEW n \in Nodes, NEW i \in DOMAIN att[n], IceCandidate(n, i)
    PROVE  IInv'
  <1>0. TypeOK /\ att[n][i] \in Attempt /\ Coherent(att[n][i]) /\ i \in Nat
    BY OneAttempt DEF IInv
  <1>. DEFINE b == [att[n][i] EXCEPT !.cand = FALSE]
  <1>1. /\ b \in Attempt /\ b.pc = att[n][i].pc
        /\ b.chans = att[n][i].chans /\ b.ready = att[n][i].ready /\ b.timer = att[n][i].timer
        /\ b.promise = att[n][i].promise /\ b.waiting = att[n][i].waiting
    BY <1>0 DEF Attempt
  <1>2. att' = [att EXCEPT ![n] = [@ EXCEPT ![i] = b]]
    BY DEF IceCandidate
  <1>3. UNCHANGED <<peer, handling, up, send, on, sent>> /\ signals' \subseteq Signal
    BY <1>0, PostedTyped DEF IceCandidate
  <1>. HIDE DEF b
  <1>4. Coherent(b) /\ (Served(att[n][i]) => Served(b)) /\ (Closed(att[n][i]) => Closed(b))
    BY <1>0, <1>1 DEF Coherent, Served, Closed
  <1>. QED  BY <1>1, <1>2, <1>3, <1>4, EventKeeps

\* A channel that closes takes the entry of the map with it.
LEMMA OnCloseKeeps ==
    ASSUME IInv, NEW n \in Nodes, NEW i \in DOMAIN att[n], NEW c \in Ends, OnClose(n, i, c)
    PROVE  IInv'
  <1>0. TypeOK /\ att[n][i] \in Attempt /\ Coherent(att[n][i]) /\ i \in Nat \ {0}
    BY OneAttempt DEF IInv
  <1>. DEFINE b == [att[n][i] EXCEPT !.chans = [@ EXCEPT ![c] = "closed"], !.ready = FALSE, !.timer = FALSE]
  <1>1. /\ b \in Attempt /\ b.pc = att[n][i].pc /\ Closed(b) /\ ~ b.ready /\ ~ b.timer
        /\ b.promise = att[n][i].promise /\ b.waiting = att[n][i].waiting
    BY <1>0 DEF Attempt, Closed
  <1>2. att' = [att EXCEPT ![n] = [@ EXCEPT ![i] = b]]
    BY <1>0 DEF OnClose, Attempt, TypeOK
  <1>3. UNCHANGED <<handling, up, send, on, sent>> /\ DropEntry(n) /\ signals' \subseteq Signal
    BY <1>0 DEF OnClose, TypeOK
  <1>. HIDE DEF b
  <1>4. Coherent(b)
    BY <1>0, <1>1 DEF Coherent, Closed
  <1>. QED  BY <1>1, <1>2, <1>3, <1>4, EventKeeps

\* An answer is made for a connection that is not closed, or fails.
LEMMA AnswerKeeps ==
    ASSUME IInv, NEW n \in Nodes, Answer(n)
    PROVE  IInv'
  <1>. DEFINE i == handling[n]
  <1>0. TypeOK /\ i \in DOMAIN att[n]
    BY DEF IInv, Grounded, Answer
  <1>1. att[n][i] \in Attempt /\ Coherent(att[n][i]) /\ i \in Nat \ {0}
    BY <1>0, OneAttempt
  <1>2. UNCHANGED <<peer, up, send, on, sent>> /\ handling' = [handling EXCEPT ![n] = 0]
    BY DEF Answer
  <1>3. signals' \subseteq Signal
    BY <1>0, <1>1, PostedTyped DEF Answer, TypeOK
  <1>4. PICK b \in Attempt : /\ att' = [att EXCEPT ![n] = [@ EXCEPT ![i] = b]]
                             /\ b.chans = att[n][i].chans /\ b.ready = att[n][i].ready
                             /\ b.timer = att[n][i].timer
                             /\ b.promise = att[n][i].promise /\ b.waiting = att[n][i].waiting
                             /\ b.pc = "closed" <=> att[n][i].pc = "closed"
    <2>1. CASE att[n][i].pc = "answering"
      <3>. DEFINE b == [att[n][i] EXCEPT !.pc = "stable"]
      <3>1. /\ b \in Attempt /\ b.pc = "stable"
            /\ b.chans = att[n][i].chans /\ b.ready = att[n][i].ready /\ b.timer = att[n][i].timer
            /\ b.promise = att[n][i].promise /\ b.waiting = att[n][i].waiting
        BY <1>1 DEF Attempt
      <3>2. att' = [att EXCEPT ![n] = [@ EXCEPT ![i] = b]]
        BY <2>1 DEF Answer
      <3>. HIDE DEF b
      <3>. QED  BY <2>1, <3>1, <3>2
    <2>2. CASE att[n][i].pc # "answering"
      <3>1. att' = att
        BY <2>2 DEF Answer
      <3>2. att' = [att EXCEPT ![n] = [@ EXCEPT ![i] = att[n][i]]]
        <4>1. att[n] \in Seq(Attempt) /\ att \in [Nodes -> Seq(Attempt)]
          BY <1>0 DEF TypeOK
        <4>2. att[n] = [att[n] EXCEPT ![i] = att[n][i]]
          BY <1>0, <4>1
        <4>3. att = [att EXCEPT ![n] = att[n]]
          BY <4>1
        <4>. QED  BY <3>1, <4>2, <4>3
      <3>. QED  BY <1>1, <3>2
    <2>. QED  BY <2>1, <2>2
  <1>5. Coherent(b) /\ (Served(att[n][i]) => Served(b)) /\ (Closed(att[n][i]) => Closed(b))
    BY <1>1, <1>4 DEF Coherent, Served, Closed
  <1>. HIDE DEF i
  <1>. QED  BY <1>0, <1>1, <1>2, <1>3, <1>4, <1>5, EventKeeps

\* stop closes the attempt that the map holds, and empties the map.
LEMMA StopKeeps ==
    ASSUME IInv, NEW n \in Nodes, Stop(n)
    PROVE  IInv'
  <1>0. TypeOK /\ att[n] \in Seq(Attempt) /\ att \in [Nodes -> Seq(Attempt)]
    BY DEF IInv, TypeOK
  <1>1. /\ UNCHANGED <<handling, send, on, sent>> /\ DropEntry(n)
        /\ up' \in [Nodes -> BOOLEAN] /\ signals' \subseteq Signal
    BY <1>0 DEF Stop, TypeOK
  <1>2. att' = [att EXCEPT ![n] = [i \in DOMAIN att[n] |->
                   IF i = peer[n] THEN [ClosePc(att[n][i]) EXCEPT !.timer = FALSE] ELSE att[n][i]]]
    BY DEF Stop
  <1>3. /\ peer' \in [Nodes -> Nat] /\ peer'[n] = 0
        /\ \A p \in Nodes : peer'[p] \in {0, peer[p]}
    BY <1>0, <1>1 DEF DropEntry, TypeOK
  <1>4. CASE peer[n] = 0
    <2>1. [i \in DOMAIN att[n] |-> IF i = peer[n] THEN [ClosePc(att[n][i]) EXCEPT !.timer = FALSE]
                                   ELSE att[n][i]] = att[n]
      <3>1. \A i \in DOMAIN att[n] : i # peer[n]
        BY <1>0, <1>4
      <3>2. att[n] = [i \in DOMAIN att[n] |-> att[n][i]]
        BY <1>0
      <3>. QED  BY <3>1, <3>2
    <2>2. att' = att
      BY <1>0, <1>2, <2>1
    <2>3. TypeOK'
      BY <1>0, <1>1, <1>3, <2>2 DEF TypeOK
    <2>4. Grounded'
      BY <1>1, <1>3, <2>2 DEF IInv, Grounded
    <2>5. EntryIsServed'
      BY <1>3, <2>2 DEF IInv, EntryIsServed
    <2>6. AttemptsCoherent'
      BY <2>2 DEF IInv, AttemptsCoherent, Coherent
    <2>7. CallInv'
      BY <1>1, <2>2 DEF IInv, CallInv, PendingWait, WaitersPend, SentInv, ResolvedIsSent, Distinct
    <2>. QED  BY <2>3, <2>4, <2>5, <2>6, <2>7 DEF IInv
  <1>5. CASE peer[n] # 0
    <2>. DEFINE i == peer[n]
                b == [ClosePc(att[n][i]) EXCEPT !.timer = FALSE]
    <2>0. i \in DOMAIN att[n] /\ att[n][i] \in Attempt /\ Coherent(att[n][i]) /\ i \in Nat \ {0}
      BY <1>5, EntryServed, OneAttempt
    <2>1. /\ b \in Attempt /\ b.pc = "closed"
          /\ b.chans = att[n][i].chans /\ b.ready = att[n][i].ready /\ ~ b.timer
          /\ b.promise = att[n][i].promise /\ b.waiting = att[n][i].waiting
      BY <2>0 DEF Attempt, ClosePc
    <2>2. att' = [att EXCEPT ![n] = [@ EXCEPT ![i] = b]]
      <3>1. [j \in DOMAIN att[n] |-> IF j = i THEN b ELSE att[n][j]] = [att[n] EXCEPT ![i] = b]
        BY <1>0, <2>0
      <3>2. att' = [att EXCEPT ![n] = [j \in DOMAIN att[n] |-> IF j = i THEN b ELSE att[n][j]]]
        <4>1. [j \in DOMAIN att[n] |->
                   IF j = peer[n] THEN [ClosePc(att[n][j]) EXCEPT !.timer = FALSE] ELSE att[n][j]]
              = [j \in DOMAIN att[n] |-> IF j = i THEN b ELSE att[n][j]]
          OBVIOUS
        <4>. QED  BY <1>2, <4>1
      <3>. QED  BY <3>1, <3>2
    <2>. HIDE DEF b, i
    <2>3. Becomes(n, i, b)
      BY <1>0, <2>0, <2>1, <2>2, AttemptAssigned
    <2>4. Coherent(b) /\ (Closed(att[n][i]) => Closed(b))
      BY <2>0, <2>1 DEF Coherent, Closed
    <2>5. TypeOK'
      BY <1>0, <1>1, <1>3, <2>3 DEF TypeOK, Becomes
    <2>. QED  BY <1>1, <1>3, <2>0, <2>1, <2>3, <2>4, <2>5, QuietKeeps
  <1>. QED  BY <1>4, <1>5

\* #ensurePeer finds the attempt that the map holds, or makes one.
LEMMA AttemptFound ==
    ASSUME IInv, NEW n \in Nodes, NEW s \in signals, NEW i \in 1 .. MaxAttempts[n], Handling(n, s, i)
    PROVE  /\ Attempts(n, i) \in Seq(Attempt) /\ i \in DOMAIN Attempts(n, i)
           /\ Attempts(n, i)[i] \in Attempt
           /\ Coherent(Attempts(n, i)[i]) /\ Served(Attempts(n, i)[i])
           /\ i \in DOMAIN att[n] => Attempts(n, i) = att[n]
           /\ i \notin DOMAIN att[n] => /\ Attempts(n, i) = Append(att[n], NewAttempt(n, "none"))
                                       /\ i = Len(att[n]) + 1
                                       /\ Attempts(n, i)[i] = NewAttempt(n, "none")
           /\ i \in Nat \ {0}
  <1>0. att[n] \in Seq(Attempt) /\ Len(att[n]) \in Nat /\ DOMAIN att[n] = 1 .. Len(att[n])
    BY DEF IInv, TypeOK
  <1>1. CASE peer[n] # 0
    <2>1. i = peer[n] /\ i \in DOMAIN att[n] /\ Served(att[n][i])
      BY <1>1, EntryServed DEF Handling
    <2>2. att[n][i] \in Attempt /\ Coherent(att[n][i]) /\ i \in Nat \ {0}
      BY <2>1, OneAttempt
    <2>. QED  BY <1>0, <2>1, <2>2 DEF Attempts
  <1>2. CASE peer[n] = 0
    <2>1. i = Len(att[n]) + 1 /\ i \in Nat \ {0} /\ i \notin DOMAIN att[n]
      BY <1>0, <1>2 DEF Handling
    <2>2. NewAttempt(n, "none") \in Attempt /\ Coherent(NewAttempt(n, "none")) /\ Served(NewAttempt(n, "none"))
      <3>1. << >> \in Seq(Messages)
        OBVIOUS
      <3>. QED  BY <3>1 DEF NewAttempt, Attempt, Coherent, Served, Closed
    <2>3. /\ Append(att[n], NewAttempt(n, "none")) \in Seq(Attempt)
          /\ i \in DOMAIN Append(att[n], NewAttempt(n, "none"))
          /\ Append(att[n], NewAttempt(n, "none"))[i] = NewAttempt(n, "none")
      BY <1>0, <2>1, <2>2
    <2>4. Attempts(n, i) = Append(att[n], NewAttempt(n, "none"))
      BY <2>1 DEF Attempts
    <2>. QED  BY <2>1, <2>2, <2>3, <2>4
  <1>. QED  BY <1>1, <1>2

\* A signal moves the connection of the attempt it is for, and nothing else of it.
Moves(n, i, b) ==
    /\ b \in Attempt /\ b.pc # "closed"
    /\ b.chans = Attempts(n, i)[i].chans /\ b.ready = Attempts(n, i)[i].ready
    /\ b.timer = Attempts(n, i)[i].timer
    /\ b.promise = Attempts(n, i)[i].promise /\ b.waiting = Attempts(n, i)[i].waiting
    /\ att' = [att EXCEPT ![n] = [Attempts(n, i) EXCEPT ![i] = b]]
    /\ UNCHANGED <<up, send, on, sent>>
    /\ handling' = handling \/ handling' = [handling EXCEPT ![n] = i]

\* Every signal is handled on such an attempt.
LEMMA HandlingKeeps ==
    ASSUME IInv, NEW n \in Nodes, NEW s \in signals, NEW i \in 1 .. MaxAttempts[n], Handling(n, s, i),
           NEW b, Moves(n, i, b)
    PROVE  IInv'
  <1>. DEFINE q == Attempts(n, i)
              r == [q EXCEPT ![i] = b]
  <1>0. TypeOK /\ att[n] \in Seq(Attempt) /\ Len(att[n]) \in Nat
    BY DEF IInv, TypeOK
  <1>a. /\ b \in Attempt /\ b.pc # "closed"
        /\ b.chans = q[i].chans /\ b.ready = q[i].ready /\ b.timer = q[i].timer
        /\ b.promise = q[i].promise /\ b.waiting = q[i].waiting /\ att' = [att EXCEPT ![n] = r]
        /\ UNCHANGED <<up, send, on, sent>>
        /\ handling' = handling \/ handling' = [handling EXCEPT ![n] = i]
    BY DEF Moves
  <1>1. /\ q \in Seq(Attempt) /\ i \in DOMAIN q /\ q[i] \in Attempt /\ Coherent(q[i]) /\ Served(q[i])
        /\ i \in DOMAIN att[n] => q = att[n]
        /\ i \notin DOMAIN att[n] => /\ q = Append(att[n], NewAttempt(n, "none"))
                                    /\ i = Len(att[n]) + 1
                                    /\ q[i] = NewAttempt(n, "none")
        /\ i \in Nat \ {0}
    BY AttemptFound
  <1>2. /\ DOMAIN q = DOMAIN att[n] \cup {i}
        /\ \A j \in DOMAIN att[n] \ {i} : q[j] = att[n][j]
    <2>1. CASE i \in DOMAIN att[n]
      BY <1>1, <2>1
    <2>2. CASE i \notin DOMAIN att[n]
      <3>1. NewAttempt(n, "none") \in Attempt
        BY <1>1, <2>2
      <3>2. /\ DOMAIN Append(att[n], NewAttempt(n, "none")) = DOMAIN att[n] \cup {Len(att[n]) + 1}
            /\ \A j \in DOMAIN att[n] : Append(att[n], NewAttempt(n, "none"))[j] = att[n][j]
        BY <1>0, <3>1
      <3>. QED  BY <1>1, <2>2, <3>2
    <2>. QED  BY <2>1, <2>2
  <1>3. /\ r \in Seq(Attempt) /\ DOMAIN r = DOMAIN q /\ r[i] = b
        /\ \A j \in DOMAIN q \ {i} : r[j] = q[j]
    <2>. HIDE DEF q
    <2>. QED  BY <1>1, <1>a
  <1>4. att' = [att EXCEPT ![n] = r] /\ att \in [Nodes -> Seq(Attempt)]
    BY <1>0, <1>a DEF TypeOK
  <1>. HIDE DEF r, q
  <1>5. Becomes(n, i, b)
    <2>1. att' \in [Nodes -> Seq(Attempt)] /\ att'[n] = r /\ \A p \in Nodes \ {n} : att'[p] = att[p]
      BY <1>3, <1>4
    <2>2. i \in DOMAIN att[n] \/ i = Len(att[n]) + 1
      BY <1>1
    <2>. QED  BY <1>2, <1>3, <1>a, <2>1, <2>2 DEF Becomes
  <1>6. Coherent(b) /\ Served(b)
    BY <1>1, <1>a DEF Coherent, Served, Closed
  <1>7. /\ peer' = [peer EXCEPT ![n] = i] /\ signals' = signals \ {s}
        /\ peer' \in [Nodes -> Nat] /\ signals' \subseteq Signal
        /\ \A p \in Nodes : peer'[p] \in {0, peer[p]} \/ (p = n /\ peer'[p] = i)
    BY <1>0, <1>1 DEF Handling, TypeOK
  <1>8. /\ handling' \in [Nodes -> Nat]
        /\ \A p \in Nodes : handling'[p] \in {0, handling[p]} \/ (p = n /\ handling'[p] = i)
    BY <1>0, <1>1, <1>a DEF TypeOK
  <1>9. TypeOK'
    BY <1>0, <1>5, <1>7, <1>8, <1>a DEF TypeOK, Becomes
  <1>10. i \in DOMAIN att[n] =>
            /\ b.promise = att[n][i].promise /\ b.waiting = att[n][i].waiting
            /\ Closed(att[n][i]) => Closed(b)
    BY <1>1, <1>a DEF Closed
  <1>11. i \notin DOMAIN att[n] => b.promise = "pending" /\ b.waiting = << >>
    BY <1>1, <1>a DEF NewAttempt
  <1>. QED  BY <1>5, <1>6, <1>7, <1>8, <1>9, <1>10, <1>11, <1>a, QuietKeeps

\* An offer is taken by an attempt that is not closed.
LEMMA HandleOfferKeeps ==
    ASSUME IInv, NEW n \in Nodes, NEW s \in signals, NEW i \in 1 .. MaxAttempts[n], HandleOffer(n, s, i)
    PROVE  IInv'
  <1>. DEFINE a == Attempts(n, i)[i]
              b == [a EXCEPT !.pc = "answering", !.with = s.att]
  <1>0. Handling(n, s, i) /\ UNCHANGED <<up, send, on, sent>> /\ handling' = [handling EXCEPT ![n] = i]
    BY DEF HandleOffer
  <1>1. a \in Attempt /\ Attempts(n, i) \in Seq(Attempt) /\ i \in DOMAIN Attempts(n, i)
    BY <1>0, AttemptFound
  <1>2. s.att \in Nat
    BY DEF IInv, TypeOK, Signal
  <1>3. /\ b \in Attempt /\ b.pc = "answering"
        /\ b.chans = a.chans /\ b.ready = a.ready /\ b.timer = a.timer
        /\ b.promise = a.promise /\ b.waiting = a.waiting
    BY <1>1, <1>2 DEF Attempt
  <1>4. att' = [att EXCEPT ![n] = [Attempts(n, i) EXCEPT ![i] = b]]
    <2>1. [Attempts(n, i) EXCEPT ![i].pc = "answering", ![i].with = s.att] = [Attempts(n, i) EXCEPT ![i] = b]
      BY <1>1
    <2>. QED  BY <2>1 DEF HandleOffer
  <1>5. Moves(n, i, b)
    BY <1>0, <1>3, <1>4 DEF Moves
  <1>. QED  BY <1>0, <1>5, HandlingKeeps

\* An answer is taken by an attempt that has an offer out, so not by a new one.
LEMMA HandleAnswerKeeps ==
    ASSUME IInv, NEW n \in Nodes, NEW s \in signals, NEW i \in 1 .. MaxAttempts[n], HandleAnswer(n, s, i)
    PROVE  IInv'
  <1>. DEFINE a == Attempts(n, i)[i]
              b == [a EXCEPT !.pc = "stable", !.with = s.att]
  <1>0. Handling(n, s, i) /\ UNCHANGED <<handling, up, send, on, sent>> /\ a.pc = "offered"
    BY DEF HandleAnswer
  <1>1. /\ a \in Attempt /\ Attempts(n, i) \in Seq(Attempt) /\ i \in DOMAIN Attempts(n, i)
        /\ i \in DOMAIN att[n] => Attempts(n, i) = att[n]
        /\ i \notin DOMAIN att[n] => a = NewAttempt(n, "none")
    BY <1>0, AttemptFound
  <1>2. s.att \in Nat
    BY DEF IInv, TypeOK, Signal
  <1>3. /\ b \in Attempt /\ b.pc = "stable" /\ b.chans = a.chans /\ b.ready = a.ready /\ b.timer = a.timer
        /\ b.promise = a.promise /\ b.waiting = a.waiting
    BY <1>1, <1>2 DEF Attempt
  <1>4. Attempts(n, i) = att[n]
    BY <1>0, <1>1 DEF NewAttempt
  <1>5. att' = [att EXCEPT ![n] = [Attempts(n, i) EXCEPT ![i] = b]]
    <2>1. att' = [att EXCEPT ![n] = [att[n] EXCEPT ![i].pc = "stable", ![i].with = s.att]]
      BY DEF HandleAnswer, IInv, TypeOK
    <2>2. [Attempts(n, i) EXCEPT ![i].pc = "stable", ![i].with = s.att] = [Attempts(n, i) EXCEPT ![i] = b]
      BY <1>1
    <2>. QED  BY <1>4, <2>1, <2>2
  <1>6. Moves(n, i, b)
    BY <1>0, <1>3, <1>5 DEF Moves
  <1>. HIDE DEF b
  <1>. QED  BY <1>0, <1>6, HandlingKeeps

\* A signal that the engine refuses leaves the attempt that #ensurePeer made.
LEMMA HandleWithoutEffectKeeps ==
    ASSUME IInv, NEW n \in Nodes, NEW s \in signals, NEW i \in 1 .. MaxAttempts[n],
           HandleWithoutEffect(n, s, i)
    PROVE  IInv'
  <1>. DEFINE b == Attempts(n, i)[i]
  <1>0. Handling(n, s, i) /\ UNCHANGED <<handling, up, send, on, sent>>
        /\ att' = [att EXCEPT ![n] = Attempts(n, i)]
    BY DEF HandleWithoutEffect
  <1>1. b \in Attempt /\ Attempts(n, i) \in Seq(Attempt) /\ i \in DOMAIN Attempts(n, i) /\ b.pc # "closed"
    BY <1>0, AttemptFound DEF Served
  <1>2. Attempts(n, i) = [Attempts(n, i) EXCEPT ![i] = b]
    BY <1>1
  <1>3. att' = [att EXCEPT ![n] = [Attempts(n, i) EXCEPT ![i] = b]]
    BY <1>0, <1>2
  <1>4. Moves(n, i, b)
    BY <1>0, <1>1, <1>3 DEF Moves
  <1>. HIDE DEF b
  <1>. QED  BY <1>0, <1>4, HandlingKeeps

-----------------------------------------------------------------------------
(* Theorems *)

\* Nothing refers to an attempt and nothing has been sent at first.
LEMMA InvariantInit == Init => IInv
  <1>. SUFFICES ASSUME Init PROVE IInv
    OBVIOUS
  <1>0. << >> \in Seq(Messages) /\ << >> \in Seq(Attempt) /\ Len(<< >>) = 0 /\ DOMAIN << >> = {}
    OBVIOUS
  <1>1. TypeOK
    BY <1>0 DEF Init, TypeOK
  <1>2. Grounded /\ EntryIsServed
    BY DEF Init, Grounded, EntryIsServed
  <1>3. \A n \in Nodes : att[n] = << >> /\ sent[n] = << >>
    BY DEF Init
  <1>4. AttemptsCoherent /\ PendingWait
    BY <1>0, <1>3 DEF AttemptsCoherent, PendingWait
  <1>5. WaitersPend /\ ResolvedIsSent
    BY DEF Init, WaitersPend, ResolvedIsSent
  <1>6. SentInv
    <2>1. Distinct(<< >>)
      BY <1>0 DEF Distinct
    <2>2. ASSUME NEW n \in Nodes
          PROVE  Distinct(sent[n]) /\ \A k \in 1 .. Len(sent[n]) : send[sent[n][k]] = "resolved"
      <3>1. sent[n] = << >>
        BY <1>3
      <3>2. Distinct(sent[n]) /\ Len(sent[n]) = 0
        BY <1>0, <2>1, <3>1, Zenon
      <3>. QED  BY <3>2
    <2>. QED  BY <2>2 DEF SentInv
  <1>. QED  BY <1>1, <1>2, <1>4, <1>5, <1>6 DEF IInv, CallInv

\* A step that changes nothing keeps everything.
LEMMA StutteringKeeps == ASSUME IInv, UNCHANGED vars PROVE IInv'
  BY DEF vars, IInv, TypeOK, Grounded, EntryIsServed, AttemptsCoherent, Coherent, CallInv,
         PendingWait, WaitersPend, SentInv, ResolvedIsSent, Distinct

\* Every action keeps the invariant.
LEMMA InvariantStep == ASSUME IInv, [Next]_vars PROVE IInv'
  <1>1. ASSUME NEW n \in Nodes, NEW m \in Messages, SendOnExisting(n, m) PROVE IInv'
    BY <1>1, EntryServed, HandOverKeeps DEF SendOnExisting
  <1>2. ASSUME NEW n \in Nodes, NEW m \in Messages, OfferPosted(n, m) PROVE IInv'
    <2>1. on[m] \in DOMAIN att[n]
      BY <1>2 DEF OfferPosted, IInv, Grounded
    <2>. QED  BY <1>2, <2>1, HandOverKeeps DEF OfferPosted
  <1>3. ASSUME NEW n \in Nodes, NEW i \in DOMAIN att[n], NEW c \in Ends, OnOpen(n, i, c) PROVE IInv'
    <2>1. PICK b \in Attempt :
              /\ Becomes(n, i, b) /\ Coherent(b) /\ b.pc = att[n][i].pc /\ b.ready
              /\ Closed(b) <=> Closed(att[n][i])
              /\ TypeOK' /\ CallInv'
      BY <1>3, OnOpenStep DEF IInv
    <2>2. UNCHANGED <<peer, handling, on>>
      BY <1>3 DEF OnOpen
    <2>3. peer'[n] = i => Served(b)
      <3>1. i # 0
        BY OneAttempt
      <3>. QED  BY <2>1, <2>2, <3>1, EntryServed DEF Served
    <2>4. \A m \in Messages : send'[m] = "none" \/ (send[m] # "none" /\ on'[m] = on[m])
      BY <1>3, <2>2 DEF OnOpen, SettleWaiting
    <2>5. Grounded' /\ EntryIsServed'
      BY <2>1, <2>2, <2>3, <2>4, EntriesKept DEF IInv
    <2>6. AttemptsCoherent'
      BY <2>1, CoherenceKept DEF IInv
    <2>. QED  BY <2>1, <2>5, <2>6 DEF IInv
  <1>4. ASSUME NEW n \in Nodes, NEW i \in DOMAIN att[n], Timeout(n, i) PROVE IInv'
    <2>1. PICK b \in Attempt : Becomes(n, i, b) /\ Coherent(b) /\ TypeOK' /\ CallInv'
      BY <1>4, TimeoutStep DEF IInv
    <2>2. UNCHANGED <<handling, on>> /\ \A p \in Nodes : peer'[p] \in {0, peer[p]}
      BY <1>4 DEF Timeout, DropEntry, IInv, TypeOK
    <2>3. peer'[n] = i => Served(b)
      <3>1. i # 0 /\ peer'[n] = 0
        BY <1>4, OneAttempt DEF Timeout, DropEntry, IInv, TypeOK
      <3>. QED  BY <3>1
    <2>4. \A m \in Messages : send'[m] = "none" \/ (send[m] # "none" /\ on'[m] = on[m])
      BY <1>4, <2>2 DEF Timeout, SettleWaiting
    <2>5. Grounded' /\ EntryIsServed'
      BY <2>1, <2>2, <2>3, <2>4, EntriesKept DEF IInv
    <2>6. AttemptsCoherent'
      BY <2>1, CoherenceKept DEF IInv
    <2>. QED  BY <2>1, <2>5, <2>6 DEF IInv
  <1>5. CASE UNCHANGED vars
    BY <1>5, StutteringKeeps
  <1>. QED
    BY <1>1, <1>2, <1>3, <1>4, <1>5, SendFirstKeeps, OfferKeeps, IceCandidateKeeps, HandleOfferKeeps,
       HandleAnswerKeeps, HandleWithoutEffectKeeps, AnswerKeeps, OnCloseKeeps, StopKeeps
    DEF Next

\* The invariant holds whatever the engine, the network and the other peer do.
THEOREM Invariance == Spec => []IInv
  BY InvariantInit, InvariantStep, PTL DEF Spec

\* The variables keep their types.
THEOREM TypeCorrect == Spec => []TypeOK
  BY Invariance, PTL DEF IInv

\* pendingMessages of a connection that is ready is empty: what came before
\* onopen has been flushed, what comes later is sent at once.
THEOREM NoneStranded == Spec => []NothingStranded
  <1>1. IInv => NothingStranded
    BY DEF IInv, AttemptsCoherent, Coherent, NothingStranded
  <1>. QED  BY <1>1, Invariance, PTL

\* An entry that send finds in #peerStates is of a connection that is ready or that
\* its timer will end.
THEOREM EntriesAreServed == Spec => []EntryIsServed
  BY Invariance, PTL DEF IInv

\* A message that was reported as failed is never sent, and none is sent twice.
THEOREM SentOnce == Spec => []SentOnceUnlessRejected
  <1>1. ASSUME IInv PROVE SentOnceUnlessRejected
    <2>1. \A n \in Nodes : DOMAIN sent[n] = 1 .. Len(sent[n])
      BY <1>1 DEF IInv, TypeOK
    <2>. QED  BY <1>1, <2>1 DEF IInv, CallInv, SentInv, Distinct, SentOnceUnlessRejected
  <1>. QED  BY <1>1, Invariance, PTL

\* A send that resolved has gone out, unless its connection had been ready and
\* lost a channel before it came to it.
THEOREM ResolvedSends == Spec => []ResolvedIsSent
  BY Invariance, PTL DEF IInv, CallInv
=============================================================================

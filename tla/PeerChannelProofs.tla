------------------------- MODULE PeerChannelProofs -------------------------
(* Theorems about PeerChannel, for every set of peers and sessions. *)
EXTENDS PeerChannel, TLAPS

-----------------------------------------------------------------------------
(* Type correctness *)

\* Every message the handlers build is a Message.
LEMMA MsgType ==
    ASSUME NEW t \in Types, NEW s \in Sessions
    PROVE  Msg(t, s) \in Message /\ SignedMsgs(t, s) \subseteq Message
  <1>1. \A g \in BOOLEAN : [type |-> t, sid |-> s, good |-> g] \in Message
    BY DEF Message
  <1>2. Msg(t, s) \in Message
    BY <1>1 DEF Msg
  <1>3. SignedMsgs(t, s) \subseteq Message
    BY <1>1 DEF SignedMsgs
  <1>. QED  BY <1>2, <1>3

\* Taking a message leaves inboxes of messages.
LEMMA ConsumeType ==
    ASSUME TypeOK, NEW n \in Nodes, net[n] # << >>, Consume(n)
    PROVE  net' \in [Nodes -> Seq(Message)]
  <1>1. Tail(net[n]) \in Seq(Message)
    BY DEF TypeOK
  <1>. QED  BY <1>1 DEF Consume, TypeOK

\* An inbox stays one when a message is sent to it.
LEMMA ArrivalType ==
    ASSUME TypeOK, NEW p \in Nodes, NEW m \in Message
    PROVE  Arrival(p, m) \in Seq(Message)
  BY DEF Arrival, TypeOK

\* Sending keeps the type of net.
LEMMA SendType ==
    ASSUME TypeOK, NEW n \in Nodes, NEW m \in Message, Send(n, m)
    PROVE  net' \in [Nodes -> Seq(Message)]
  <1>1. Remote[n] \in Nodes
    BY RemoteAssumption
  <1>. QED  BY <1>1, ArrivalType DEF Send, TypeOK

\* Taking a message and answering it keeps the type of net.
LEMMA AnswerType ==
    ASSUME TypeOK, NEW n \in Nodes, NEW m \in Message, net[n] # << >>, Answer(n, m)
    PROVE  net' \in [Nodes -> Seq(Message)]
  <1>1. Tail(net[n]) \in Seq(Message)
    BY DEF TypeOK
  <1>2. Remote[n] \in Nodes
    BY RemoteAssumption
  <1>3. Arrival(Remote[n], m) \in Seq(Message)
    BY <1>2, ArrivalType
  <1>. QED  BY <1>1, <1>2, <1>3 DEF Answer, TypeOK

Frames == {"openSession", "authResponse", "onChannelReady", "disconnect"}

\* Suspending and resuming handlers keep the type of frames.
LEMMA FramesType ==
    ASSUME TypeOK, NEW n \in Nodes, NEW s \in Sessions, NEW f \in Frames
    PROVE  /\ Suspend(n, s, f) => frames' \in [Nodes -> [Sessions -> SUBSET Frames]]
           /\ Resume(n, s, f) => frames' \in [Nodes -> [Sessions -> SUBSET Frames]]
  <1>1. frames \in [Nodes -> [Sessions -> SUBSET Frames]]
    BY DEF TypeOK, Frames
  <1>2. \A x \in SUBSET Frames :
           [frames EXCEPT ![n][s] = x] \in [Nodes -> [Sessions -> SUBSET Frames]]
    BY <1>1
  <1>3. frames[n][s] \cup {f} \in SUBSET Frames /\ frames[n][s] \ {f} \in SUBSET Frames
    BY <1>1
  <1>. QED  BY <1>2, <1>3 DEF Suspend, Resume

\* Counting a call of the application keeps the type of calls.
LEMMA CallsType ==
    ASSUME TypeOK, NEW n \in Nodes, NEW s \in Sessions, MayCall(n, s)
    PROVE  calls' \in [Nodes -> [Sessions -> Nat]]
  <1>1. calls[n][s] + 1 \in Nat
    BY DEF TypeOK
  <1>. QED  BY <1>1 DEF MayCall, TypeOK

\* The variables keep their types, with either transport and with every bound:
\* no handler, continuation or application call leaves a value no other expects.
THEOREM TypeCorrect == Spec => []TypeOK
<1>1. Init => TypeOK
  BY DEF Init, TypeOK, ChannelStatus
<1>2. TypeOK /\ [Next]_vars => TypeOK'
  <2>. SUFFICES ASSUME TypeOK, [Next]_vars PROVE TypeOK'
    OBVIOUS
  <2>. USE DEF TypeOK, ChannelStatus, SetStatus, Settle, DropPending, ForgetKey, Tell,
               TouchSession, ConnectSession, Suspend, Resume, MayCall, Receiving
  <2>a. \A n \in Nodes, s \in Sessions : Deliver(n, s) => TypeOK'
    <3>. SUFFICES ASSUME NEW n \in Nodes, NEW s \in Sessions, Deliver(n, s) PROVE TypeOK'
      OBVIOUS
    <3>1. CASE HandleHello(n, s)
      <4>1. net' \in [Nodes -> Seq(Message)]
        BY <3>1, MsgType, AnswerType, ConsumeType DEF HandleHello, Types
      <4>. QED  BY <3>1, <4>1 DEF HandleHello, OnSessionOpened
    <3>2. CASE HandleHelloAck(n, s)
      <4>1. net' \in [Nodes -> Seq(Message)]
        BY <3>2, ConsumeType DEF HandleHelloAck
      <4>. QED  BY <3>2, <4>1 DEF HandleHelloAck, OnSessionOpened
    <3>3. CASE HandleKeyExchange(n, s)
      <4>1. net' \in [Nodes -> Seq(Message)]
        BY <3>3, MsgType, AnswerType, ConsumeType DEF HandleKeyExchange, Types
      <4>. QED  BY <3>3, <4>1 DEF HandleKeyExchange
    <3>4. CASE HandleAuthResponse(n, s)
      <4>1. net' \in [Nodes -> Seq(Message)]
        BY <3>4, MsgType, AnswerType, ConsumeType DEF HandleAuthResponse, Types
      <4>2. frames' \in [Nodes -> [Sessions -> SUBSET Frames]]
        BY <3>4, FramesType DEF HandleAuthResponse, Frames
      <4>. QED  BY <3>4, <4>1, <4>2 DEF HandleAuthResponse, Frames
    <3>5. CASE ResponderReady(n, s)
      <4>1. net' \in [Nodes -> Seq(Message)]
        BY <3>5, ConsumeType DEF ResponderReady
      <4>. QED  BY <3>5, <4>1 DEF ResponderReady
    <3>6. CASE AuthFails(n, s)
      <4>1. net' \in [Nodes -> Seq(Message)]
        BY <3>6, ConsumeType DEF AuthFails
      <4>. QED  BY <3>6, <4>1 DEF AuthFails, FailChannel
    <3>7. CASE HandleAppMessage(n, s)
      <4>1. net' \in [Nodes -> Seq(Message)]
        BY <3>7, ConsumeType DEF HandleAppMessage
      <4>. QED  BY <3>7, <4>1 DEF HandleAppMessage
    <3>8. CASE IgnoreData(n, s)
      <4>1. net' \in [Nodes -> Seq(Message)]
        BY <3>8, ConsumeType DEF IgnoreData
      <4>. QED  BY <3>8, <4>1 DEF IgnoreData
    <3>9. CASE HandleGoodbye(n, s)
      <4>1. net' \in [Nodes -> Seq(Message)]
        BY <3>9, ConsumeType DEF HandleGoodbye
      <4>. QED  BY <3>9, <4>1 DEF HandleGoodbye, OnSessionClosed
    <3>. QED
      BY <3>1, <3>2, <3>3, <3>4, <3>5, <3>6, <3>7, <3>8, <3>9 DEF Deliver
  <2>b. \A n \in Nodes, s \in Sessions : Continue(n, s) => TypeOK'
    <3>. SUFFICES ASSUME NEW n \in Nodes, NEW s \in Sessions, Continue(n, s) PROVE TypeOK'
      OBVIOUS
    <3>1. CASE SendKeyExchange(n, s)
      <4>1. net' \in [Nodes -> Seq(Message)]
        BY <3>1, MsgType, SendType DEF SendKeyExchange, Types
      <4>2. frames' \in [Nodes -> [Sessions -> SUBSET Frames]]
        BY <3>1, FramesType DEF SendKeyExchange, Frames
      <4>3. promise' \in [Nodes -> [Sessions -> {"none", "pending", "resolved", "rejected"}]]
        <5>1. UNCHANGED promise \/ Settle(n, s, "rejected")
          BY <3>1 DEF SendKeyExchange
        <5>2. \A x \in {"none", "pending", "resolved", "rejected"} :
                 [promise EXCEPT ![n][s] = x]
                   \in [Nodes -> [Sessions -> {"none", "pending", "resolved", "rejected"}]]
          OBVIOUS
        <5>3. CASE Settle(n, s, "rejected")
          BY <5>2, <5>3
        <5>. QED  BY <5>1, <5>3
      <4>4. session' \in [Nodes -> [Sessions -> {"absent", "known", "connected"}]]
        BY <3>1 DEF SendKeyExchange
      <4>5. /\ channel' \in [Nodes -> [Sessions -> ChannelStatus \cup {"none"}]]
            /\ pending' \in [Nodes -> [Sessions -> {"none", "initiator", "responder"}]]
        BY <3>1 DEF SendKeyExchange
      <4>6. UNCHANGED <<up, key, told, calls>>
        BY <3>1 DEF SendKeyExchange
      <4>. QED  BY <4>1, <4>2, <4>3, <4>4, <4>5, <4>6 DEF Frames
    <3>2. CASE InitiatorReady(n, s)
      <4>1. frames' \in [Nodes -> [Sessions -> SUBSET Frames]]
        BY <3>2, FramesType DEF InitiatorReady, Frames
      <4>. QED  BY <3>2, <4>1 DEF InitiatorReady, Frames
    <3>3. CASE InitiatorResolves(n, s)
      <4>1. frames' \in [Nodes -> [Sessions -> SUBSET Frames]]
        BY <3>3 DEF InitiatorResolves, Frames
      <4>. QED  BY <3>3, <4>1 DEF InitiatorResolves, Frames
    <3>4. CASE Disconnected(n, s)
      BY <3>4 DEF Disconnected, OnSessionClosed
    <3>. QED  BY <3>1, <3>2, <3>3, <3>4 DEF Continue
  <2>c. \A n \in Nodes, s \in Sessions : Application(n, s) => TypeOK'
    <3>. SUFFICES ASSUME NEW n \in Nodes, NEW s \in Sessions, Application(n, s) PROVE TypeOK'
      OBVIOUS
    <3>1. CASE OpenChannel(n, s)
      <4>1. net' \in [Nodes -> Seq(Message)]
        BY <3>1, MsgType, SendType DEF OpenChannel, Types
      <4>2. frames' \in [Nodes -> [Sessions -> SUBSET Frames]]
        BY <3>1, FramesType DEF OpenChannel, Frames
      <4>3. promise' \in [Nodes -> [Sessions -> {"none", "pending", "resolved", "rejected"}]]
        <5>1. \E p \in {"pending", "rejected"} : promise' = [promise EXCEPT ![n][s] = p]
          BY <3>1 DEF OpenChannel
        <5>. QED  BY <5>1
      <4>4. session' \in [Nodes -> [Sessions -> {"absent", "known", "connected"}]]
        BY <3>1 DEF OpenChannel
      <4>5. /\ channel' \in [Nodes -> [Sessions -> ChannelStatus \cup {"none"}]]
            /\ pending' \in [Nodes -> [Sessions -> {"none", "initiator", "responder"}]]
        BY <3>1 DEF OpenChannel
      <4>6. UNCHANGED <<up, key, told, calls>>
        BY <3>1 DEF OpenChannel
      <4>. QED  BY <4>1, <4>2, <4>3, <4>4, <4>5, <4>6 DEF Frames
    <3>2. CASE SendMessage(n, s)
      <4>1. net' \in [Nodes -> Seq(Message)]
        BY <3>2, MsgType, SendType DEF SendMessage, Types
      <4>2. calls' \in [Nodes -> [Sessions -> Nat]]
        BY <3>2, CallsType DEF SendMessage
      <4>. QED  BY <3>2, <4>1, <4>2 DEF SendMessage, Frames
    <3>3. CASE CloseChannel(n, s)
      <4>1. net' \in [Nodes -> Seq(Message)]
        BY <3>3, MsgType, SendType DEF CloseChannel, Types
      <4>2. frames' \in [Nodes -> [Sessions -> SUBSET Frames]]
        BY <3>3, FramesType DEF CloseChannel, Frames
      <4>3. calls' \in [Nodes -> [Sessions -> Nat]]
        BY <3>3, CallsType DEF CloseChannel
      <4>. QED  BY <3>3, <4>1, <4>2, <4>3 DEF CloseChannel, Frames
    <3>. QED  BY <3>1, <3>2, <3>3 DEF Application
  <2>d. \A n \in Nodes : Stop(n) => TypeOK'
    <3>. SUFFICES ASSUME NEW n \in Nodes, Stop(n) PROVE TypeOK'
      OBVIOUS
    <3>1. net' \in [Nodes -> Seq(Message)]
      <4>1. Remote[n] \in Nodes
        BY RemoteAssumption
      <4>2. \A k \in Nat : k <= Len(net[Remote[n]]) =>
               SubSeq(net[Remote[n]], 1, k) \in Seq(Message)
        BY <4>1
      <4>3. PICK k \in IF Inline THEN {0} ELSE 0 .. Len(net[Remote[n]]) :
               net' = [net EXCEPT ![n] = << >>, ![Remote[n]] = SubSeq(@, 1, k)]
        BY DEF Stop
      <4>4. k \in Nat /\ k <= Len(net[Remote[n]])
        BY <4>1, <4>3
      <4>5. SubSeq(net[Remote[n]], 1, k) \in Seq(Message)
        BY <4>1, <4>2, <4>4
      <4>6. Remote[n] # n
        BY RemoteAssumption
      <4>. DEFINE cleared == [net EXCEPT ![n] = << >>]
      <4>7. cleared \in [Nodes -> Seq(Message)] /\ cleared[Remote[n]] = net[Remote[n]]
        BY <4>1, <4>6
      <4>8. net' = [cleared EXCEPT ![Remote[n]] = SubSeq(net[Remote[n]], 1, k)]
        BY <4>3, <4>1, <4>6
      <4>. HIDE DEF cleared
      <4>. QED  BY <4>1, <4>5, <4>7, <4>8
    <3>2. /\ up' \in [Nodes -> BOOLEAN]
          /\ session' \in [Nodes -> [Sessions -> {"absent", "known", "connected"}]]
      BY DEF Stop
    <3>3. /\ channel' \in [Nodes -> [Sessions -> ChannelStatus \cup {"none"}]]
          /\ pending' \in [Nodes -> [Sessions -> {"none", "initiator", "responder"}]]
      BY DEF Stop
    <3>4. UNCHANGED <<key, promise, frames, told, calls>>
      BY DEF Stop
    <3>. QED  BY <3>1, <3>2, <3>3, <3>4
  <2>e. CASE UNCHANGED vars
    BY <2>e DEF vars
  <2>. QED  BY <2>a, <2>b, <2>c, <2>d, <2>e DEF Next
<1>. QED  BY <1>1, <1>2, PTL DEF Spec

-----------------------------------------------------------------------------
(* A READY channel is backed by a key and a session: the inductive invariant *)

\* No message on its way is about session s.
Unmentioned(s) ==
    \A n \in Nodes : \A i \in 1 .. Len(net[n]) : net[n][i].sid # s

\* A session id that anything at all refers to was opened by some node, so the
\* id openSession draws refers to nothing.
FreshIsUnused ==
    \A s \in Sessions : ~Opened(s) =>
        /\ Unmentioned(s)
        /\ \A n \in Nodes : ~told[n][s] /\ frames[n][s] = {}

\* A node whose openChannel waits for HELLO to be sent does nothing else with
\* the session; the application does not know it yet.
OpeningBacked(n, s) ==
    "openSession" \in frames[n][s] => ~told[n][s] /\ frames[n][s] = {"openSession"}

\* While the confirmation is being sent the channel still waits for it; while
\* onChannelReady runs it is READY, or the application is closing it.
ConfirmingBacked(n, s) ==
    "authResponse" \in frames[n][s] =>
        /\ key[n][s]
        /\ "openSession" \notin frames[n][s]
        /\ up[n] => session[n][s] # "absent"
        /\ ~up[n] => channel[n][s] = "none"
        /\ "onChannelReady" \notin frames[n][s] =>
              /\ ~told[n][s]
              /\ frames[n][s] = {"authResponse"}
              /\ up[n] => channel[n][s] = "AUTHENTICATING"

CallbackBacked(n, s) ==
    "onChannelReady" \in frames[n][s] =>
        /\ "authResponse" \in frames[n][s]
        /\ up[n] => channel[n][s] \in {"READY", "CLOSING"}

\* A pending responder holds the key; a pending initiator is still in the
\* handshake, and until onChannelReady the application does not know the session.
PendingBacked(n, s) ==
    /\ pending[n][s] = "responder" => key[n][s]
    /\ pending[n][s] = "initiator" /\ "onChannelReady" \notin frames[n][s] =>
          ~told[n][s] /\ (up[n] => channel[n][s] = "AUTHENTICATING")

ReadyBacked(n, s) ==
    channel[n][s] = "READY" => key[n][s] /\ session[n][s] # "absent"

Backed(n, s) ==
    /\ OpeningBacked(n, s)
    /\ ConfirmingBacked(n, s)
    /\ CallbackBacked(n, s)
    /\ PendingBacked(n, s)
    /\ ReadyBacked(n, s)

IInv ==
    /\ TypeOK
    /\ FreshIsUnused
    /\ \A n \in Nodes, s \in Sessions : Backed(n, s)

\* A step of one node about one session.
Step(n, s) == Deliver(n, s) \/ Continue(n, s) \/ Application(n, s)

\* A step of n about s leaves every other node, and every other session of n,
\* as it was; messages are the only way between them.
LEMMA StepIsLocal ==
    ASSUME TypeOK, NEW n \in Nodes, NEW s \in Sessions, Step(n, s),
           NEW p \in Nodes, NEW r \in Sessions, p # n \/ r # s
    PROVE  /\ up' = up
           /\ session'[p][r] = session[p][r] /\ channel'[p][r] = channel[p][r]
           /\ pending'[p][r] = pending[p][r] /\ key'[p][r] = key[p][r]
           /\ promise'[p][r] = promise[p][r] /\ frames'[p][r] = frames[p][r]
           /\ told'[p][r] = told[p][r]
  <1>. USE DEF TypeOK, SetStatus, Settle, DropPending, ForgetKey, Tell, TouchSession,
               ConnectSession, Suspend, Resume, OnSessionOpened, OnSessionClosed, FailChannel
  <1>1. CASE HandleHello(n, s)
    BY <1>1 DEF HandleHello
  <1>2. CASE HandleHelloAck(n, s)
    BY <1>2 DEF HandleHelloAck
  <1>3. CASE HandleKeyExchange(n, s)
    BY <1>3 DEF HandleKeyExchange
  <1>4. CASE HandleAuthResponse(n, s)
    <2>1. frames'[p][r] = frames[p][r]
      BY <1>4 DEF HandleAuthResponse
    <2>2. /\ session'[p][r] = session[p][r] /\ key'[p][r] = key[p][r]
          /\ UNCHANGED <<up, channel, pending, promise, told>>
      BY <1>4 DEF HandleAuthResponse
    <2>. QED  BY <2>1, <2>2
  <1>5. CASE ResponderReady(n, s)
    BY <1>5 DEF ResponderReady
  <1>6. CASE AuthFails(n, s)
    BY <1>6 DEF AuthFails
  <1>7. CASE HandleAppMessage(n, s)
    BY <1>7 DEF HandleAppMessage
  <1>8. CASE IgnoreData(n, s)
    BY <1>8 DEF IgnoreData
  <1>9. CASE HandleGoodbye(n, s)
    BY <1>9 DEF HandleGoodbye
  <1>10. CASE SendKeyExchange(n, s)
    BY <1>10 DEF SendKeyExchange
  <1>11. CASE InitiatorReady(n, s)
    BY <1>11 DEF InitiatorReady
  <1>12. CASE Disconnected(n, s)
    BY <1>12 DEF Disconnected
  <1>16. CASE InitiatorResolves(n, s)
    BY <1>16 DEF InitiatorResolves
  <1>13. CASE OpenChannel(n, s)
    <2>1. PICK x \in {"pending", "rejected"} : promise' = [promise EXCEPT ![n][s] = x]
      BY <1>13 DEF OpenChannel
    <2>2. promise'[p][r] = promise[p][r]
      BY <2>1
    <2>3. frames'[p][r] = frames[p][r]
      BY <1>13 DEF OpenChannel
    <2>4. session'[p][r] = session[p][r] /\ UNCHANGED <<up, channel, pending, key, told>>
      BY <1>13 DEF OpenChannel
    <2>. QED  BY <2>2, <2>3, <2>4
  <1>14. CASE SendMessage(n, s)
    BY <1>14 DEF SendMessage
  <1>15. CASE CloseChannel(n, s)
    BY <1>15 DEF CloseChannel
  <1>. QED
    BY <1>1, <1>2, <1>3, <1>4, <1>5, <1>6, <1>7, <1>8, <1>9, <1>10, <1>11, <1>12, <1>13,
       <1>14, <1>15, <1>16 DEF Step, Deliver, Continue, Application

\* Taking and sending messages about s puts no message about another session on
\* its way.
LEMMA NetKeepsUnmentioned ==
    ASSUME TypeOK, NEW n \in Nodes, NEW r \in Sessions, Unmentioned(r),
           NEW m \in Message, m.sid # r
    PROVE  /\ Send(n, m) => Unmentioned(r)'
           /\ net[n] # << >> /\ Consume(n) => Unmentioned(r)'
           /\ net[n] # << >> /\ Answer(n, m) => Unmentioned(r)'
  <1>. DEFINE Clear(q) == \A i \in 1 .. Len(q) : q[i].sid # r
  <1>1. \A p \in Nodes : net[p] \in Seq(Message) /\ Clear(net[p])
    BY DEF TypeOK, Unmentioned
  <1>2. \A q \in Seq(Message) : Clear(q) => Clear(Append(q, m))
    OBVIOUS
  <1>3. \A q \in Seq(Message) : Clear(q) /\ q # << >> => Clear(Tail(q))
    OBVIOUS
  <1>4. Remote[n] \in Nodes
    BY RemoteAssumption
  <1>5. Clear(Arrival(Remote[n], m))
    BY <1>1, <1>2, <1>4 DEF Arrival
  <1>6. net[n] # << >> => Clear(Tail(net[n]))
    BY <1>1, <1>3
  <1>7. SUFFICES ASSUME \/ Send(n, m)
                        \/ net[n] # << >> /\ (Consume(n) \/ Answer(n, m)),
                        NEW p \in Nodes
                 PROVE  Clear(net'[p])
    BY DEF Unmentioned
  <1>8. net'[p] \in {net[p], Arrival(Remote[n], m)}
           \/ (net[n] # << >> /\ net'[p] = Tail(net[n]))
    BY <1>4, <1>7 DEF Send, Consume, Answer, TypeOK
  <1>. HIDE DEF Clear
  <1>. QED  BY <1>1, <1>5, <1>6, <1>8

\* A step about s puts only messages about s on their way.
LEMMA StepKeepsUnmentioned ==
    ASSUME TypeOK, NEW n \in Nodes, NEW s \in Sessions, Step(n, s),
           NEW r \in Sessions, r # s, Unmentioned(r)
    PROVE  Unmentioned(r)'
  <1>1. \A m \in Message : m.sid = s =>
           /\ Send(n, m) => Unmentioned(r)'
           /\ net[n] # << >> /\ Consume(n) => Unmentioned(r)'
           /\ net[n] # << >> /\ Answer(n, m) => Unmentioned(r)'
    BY NetKeepsUnmentioned
  <1>2. \A t \in Types : /\ Msg(t, s) \in Message /\ Msg(t, s).sid = s
                         /\ \A m \in SignedMsgs(t, s) : m \in Message /\ m.sid = s
    <2>. SUFFICES ASSUME NEW t \in Types
                  PROVE  /\ Msg(t, s) \in Message /\ Msg(t, s).sid = s
                         /\ \A m \in SignedMsgs(t, s) : m \in Message /\ m.sid = s
      OBVIOUS
    <2>1. Msg(t, s) \in Message /\ SignedMsgs(t, s) \subseteq Message
      BY MsgType
    <2>2. Msg(t, s).sid = s
      BY DEF Msg
    <2>3. ASSUME NEW m \in SignedMsgs(t, s) PROVE m.sid = s
      <3>1. PICK g \in BOOLEAN : m = [type |-> t, sid |-> s, good |-> g]
        BY <2>3, Zenon DEF SignedMsgs
      <3>. QED  BY <3>1
    <2>. QED  BY <2>1, <2>2, <2>3
  <1>3. CASE UNCHANGED net
    BY <1>3 DEF Unmentioned
  <1>4. CASE net[n] # << >> /\ Consume(n)
    BY <1>1, <1>2, <1>4 DEF Types
  <1>5. CASE \E t \in Types : Send(n, Msg(t, s))
    BY <1>1, <1>2, <1>5
  <1>6. CASE \E t \in Types : net[n] # << >> /\ Answer(n, Msg(t, s))
    BY <1>1, <1>2, <1>6
  <1>7. CASE \E t \in Types : net[n] # << >> /\ \E m \in SignedMsgs(t, s) : Answer(n, m)
    BY <1>1, <1>2, <1>7
  <1>8. \/ UNCHANGED net
        \/ net[n] # << >> /\ Consume(n)
        \/ \E t \in Types : Send(n, Msg(t, s))
        \/ \E t \in Types : net[n] # << >> /\ Answer(n, Msg(t, s))
        \/ \E t \in Types : net[n] # << >> /\ \E m \in SignedMsgs(t, s) : Answer(n, m)
    <2>1. CASE Deliver(n, s)
      BY <2>1 DEF Deliver, HandleHello, HandleHelloAck, HandleKeyExchange, HandleAuthResponse,
         ResponderReady, AuthFails, HandleAppMessage, IgnoreData, HandleGoodbye, Receiving, Types
    <2>2. CASE Continue(n, s)
      BY <2>2 DEF Continue, SendKeyExchange, InitiatorReady, InitiatorResolves, Disconnected, Types
    <2>3. CASE Application(n, s)
      BY <2>3 DEF Application, OpenChannel, SendMessage, CloseChannel, Types
    <2>. QED  BY <2>1, <2>2, <2>3 DEF Step
  <1>. QED  BY <1>3, <1>4, <1>5, <1>6, <1>7, <1>8

\* A session that a step is about has been opened, then or before.
LEMMA StepIsOpened ==
    ASSUME TypeOK, FreshIsUnused, NEW n \in Nodes, NEW s \in Sessions, Step(n, s)
    PROVE  Opened(s)'
  <1>1. CASE OpenChannel(n, s)
    <2>1. PICK x \in {"pending", "rejected"} : promise' = [promise EXCEPT ![n][s] = x]
      BY <1>1 DEF OpenChannel
    <2>. QED  BY <2>1 DEF Opened, TypeOK
  <1>2. CASE Opened(s)
    <2>1. PICK p \in Nodes : promise[p][s] # "none"
      BY <1>2 DEF Opened
    <2>2. promise'[p][s] # "none"
      <3>1. CASE OpenChannel(n, s)
        BY <3>1, <2>1 DEF OpenChannel
      <3>2. CASE promise' = promise \/ \E o \in {"resolved", "rejected"} : Settle(n, s, o)
        BY <2>1, <3>2 DEF Settle, TypeOK
      <3>3. Step(n, s) /\ ~OpenChannel(n, s) =>
               promise' = promise \/ \E o \in {"resolved", "rejected"} : Settle(n, s, o)
        BY DEF Step, Deliver, Continue, Application, HandleHello, HandleHelloAck,
           HandleKeyExchange, HandleAuthResponse, ResponderReady, AuthFails, HandleAppMessage,
           IgnoreData, HandleGoodbye, SendKeyExchange, InitiatorReady, InitiatorResolves, Disconnected,
           SendMessage, CloseChannel, FailChannel
      <3>. QED  BY <3>1, <3>2, <3>3
    <2>. QED  BY <2>2 DEF Opened
  <1>3. CASE Deliver(n, s)
    <2>1. \E t \in Types : Receiving(n, s, t)
      BY <1>3 DEF Deliver, HandleHello, HandleHelloAck, HandleKeyExchange, HandleAuthResponse,
         ResponderReady, AuthFails, HandleAppMessage, IgnoreData, HandleGoodbye, Types
    <2>2. net[n] \in Seq(Message) /\ net[n] # << >> /\ Head(net[n]).sid = s
      BY <2>1 DEF Receiving, TypeOK
    <2>3. Head(net[n]) = net[n][1] /\ 1 \in 1 .. Len(net[n])
      BY <2>2
    <2>4. ~Unmentioned(s)
      BY <2>2, <2>3 DEF Unmentioned
    <2>. QED  BY <2>4, <1>2 DEF FreshIsUnused
  <1>4. CASE Continue(n, s)
    BY <1>4, <1>2 DEF Continue, SendKeyExchange, InitiatorReady, InitiatorResolves, Disconnected, Resume,
       FreshIsUnused
  <1>5. CASE SendMessage(n, s) \/ CloseChannel(n, s)
    BY <1>5, <1>2 DEF SendMessage, CloseChannel, MayCall, FreshIsUnused
  <1>. QED  BY <1>1, <1>3, <1>4, <1>5 DEF Step, Application

\* Sessions nobody has opened stay unused, whatever happens in another one.
LEMMA StepKeepsFresh ==
    ASSUME TypeOK, FreshIsUnused, NEW n \in Nodes, NEW s \in Sessions, Step(n, s)
    PROVE  FreshIsUnused'
  <1>1. SUFFICES ASSUME NEW r \in Sessions, ~Opened(r)'
                 PROVE  Unmentioned(r)' /\ \A p \in Nodes : ~told'[p][r] /\ frames'[p][r] = {}
    BY DEF FreshIsUnused
  <1>2. r # s
    BY <1>1, StepIsOpened
  <1>3. \A p \in Nodes : /\ promise'[p][r] = promise[p][r]
                         /\ told'[p][r] = told[p][r] /\ frames'[p][r] = frames[p][r]
    BY <1>2, StepIsLocal
  <1>4. ~Opened(r)
    BY <1>1, <1>3 DEF Opened
  <1>5. Unmentioned(r) /\ \A p \in Nodes : ~told[p][r] /\ frames[p][r] = {}
    BY <1>4 DEF FreshIsUnused
  <1>. QED  BY <1>2, <1>3, <1>5, StepKeepsUnmentioned

\* Each handler keeps the session it is about backed.
LEMMA DeliverKeepsBacked ==
    ASSUME IInv, ~Inline, NEW n \in Nodes, NEW s \in Sessions, Deliver(n, s)
    PROVE  Backed(n, s)'
  <1>. USE DEF TypeOK, SetStatus, Settle, DropPending, ForgetKey, Tell, TouchSession,
               ConnectSession, Suspend, OnSessionOpened, OnSessionClosed, FailChannel
  <1>. USE DEF Backed, OpeningBacked, ConfirmingBacked, CallbackBacked, PendingBacked, ReadyBacked
  <1>1. TypeOK /\ Backed(n, s)
    BY DEF IInv
  <1>2. up[n] /\ frames[n][s] = {}
    BY DEF Deliver, HandleHello, HandleHelloAck, HandleKeyExchange, HandleAuthResponse,
       ResponderReady, AuthFails, HandleAppMessage, IgnoreData, HandleGoodbye, Receiving
  <1>3. CASE HandleHello(n, s)
    BY <1>1, <1>2, <1>3 DEF HandleHello
  <1>4. CASE HandleHelloAck(n, s)
    BY <1>1, <1>2, <1>4 DEF HandleHelloAck
  <1>5. CASE HandleKeyExchange(n, s)
    BY <1>1, <1>2, <1>5 DEF HandleKeyExchange
  <1>6. CASE HandleAuthResponse(n, s)
    <2>1. /\ channel' = channel /\ told' = told /\ pending' = pending /\ up' = up
          /\ key'[n][s] /\ session'[n][s] # "absent"
          /\ frames'[n][s] \in {{}, {"authResponse"}}
      BY <1>1, <1>2, <1>6 DEF HandleAuthResponse
    <2>2. pending[n][s] = "initiator"
      BY <1>6 DEF HandleAuthResponse
    <2>. QED  BY <1>1, <1>2, <2>1, <2>2
  <1>7. CASE ResponderReady(n, s)
    BY <1>1, <1>2, <1>7 DEF ResponderReady
  <1>8. CASE AuthFails(n, s)
    BY <1>1, <1>2, <1>8 DEF AuthFails
  <1>9. CASE HandleAppMessage(n, s)
    BY <1>1, <1>2, <1>9 DEF HandleAppMessage
  <1>10. CASE IgnoreData(n, s)
    BY <1>1, <1>2, <1>10 DEF IgnoreData
  <1>11. CASE HandleGoodbye(n, s)
    BY <1>1, <1>2, <1>11 DEF HandleGoodbye
  <1>. QED
    BY <1>3, <1>4, <1>5, <1>6, <1>7, <1>8, <1>9, <1>10, <1>11 DEF Deliver

\* So does each continuation, although anything may have happened since it was
\* suspended.
LEMMA ContinueKeepsBacked ==
    ASSUME IInv, NEW n \in Nodes, NEW s \in Sessions, Continue(n, s)
    PROVE  Backed(n, s)'
  <1>. USE DEF TypeOK, SetStatus, DropPending, ForgetKey, Tell, TouchSession, Resume,
               OnSessionClosed
  <1>. USE DEF Backed, OpeningBacked, ConfirmingBacked, CallbackBacked, PendingBacked, ReadyBacked
  <1>1. TypeOK /\ Backed(n, s)
    BY DEF IInv
  <1>2. CASE SendKeyExchange(n, s)
    <2>1. ~told[n][s] /\ frames[n][s] = {"openSession"}
      BY <1>1, <1>2 DEF SendKeyExchange
    <2>2. /\ frames'[n][s] = {} /\ channel'[n][s] = "AUTHENTICATING"
          /\ pending'[n][s] = "initiator" /\ told' = told
      BY <2>1, <1>1, <1>2 DEF SendKeyExchange
    <2>. QED  BY <2>1, <2>2
  <1>3. CASE InitiatorReady(n, s)
    <2>0. "authResponse" \in frames[n][s] /\ "onChannelReady" \notin frames[n][s]
      BY <1>3 DEF InitiatorReady, CallingBack
    <2>1. /\ frames[n][s] = {"authResponse"}
          /\ key[n][s]
          /\ up[n] => session[n][s] # "absent" /\ channel[n][s] # "none"
          /\ ~up[n] => channel[n][s] = "none"
      BY <1>1, <2>0
    <2>2. /\ frames'[n][s] = {"authResponse", "onChannelReady"}
          /\ key' = key /\ session' = session /\ up' = up /\ pending' = pending
          /\ channel'[n][s] = IF channel[n][s] = "none" THEN "none" ELSE "READY"
      BY <2>1, <1>1, <1>3 DEF InitiatorReady, Suspend
    <2>. QED  BY <1>1, <2>1, <2>2
  <1>5. CASE InitiatorResolves(n, s)
    <2>1. /\ "authResponse" \in frames[n][s] /\ "openSession" \notin frames[n][s]
          /\ frames'[n][s] = frames[n][s] \ {"authResponse", "onChannelReady"}
          /\ pending'[n][s] = "none"
          /\ UNCHANGED <<up, session, channel, key, told>>
      BY <1>1, <1>5 DEF InitiatorResolves
    <2>. QED  BY <1>1, <2>1
  <1>4. CASE Disconnected(n, s)
    <2>0. "onChannelReady" \notin frames[n][s]
      BY <1>4 DEF Disconnected, CallingBack
    <2>1. frames'[n][s] \cap {"openSession", "authResponse", "onChannelReady"} = {}
      BY <1>1, <1>4, <2>0 DEF Disconnected
    <2>2. channel'[n][s] # "READY" /\ pending'[n][s] = "none"
      BY <1>1, <1>4 DEF Disconnected
    <2>. QED  BY <2>1, <2>2
  <1>. QED  BY <1>2, <1>3, <1>4, <1>5 DEF Continue

\* So do the calls of the application: a close ends a READY channel before it
\* gives anything up.
LEMMA ApplicationKeepsBacked ==
    ASSUME IInv, NEW n \in Nodes, NEW s \in Sessions, Application(n, s)
    PROVE  Backed(n, s)'
  <1>. USE DEF TypeOK, SetStatus, TouchSession, Suspend
  <1>. USE DEF Backed, OpeningBacked, ConfirmingBacked, CallbackBacked, PendingBacked, ReadyBacked
  <1>1. TypeOK /\ Backed(n, s)
    BY DEF IInv
  <1>2. CASE OpenChannel(n, s)
    <2>1. ~told[n][s] /\ frames[n][s] = {}
      BY <1>2 DEF OpenChannel, IInv, FreshIsUnused, Opened
    <2>2. /\ frames'[n][s] \in {{}, {"openSession"}}
          /\ UNCHANGED <<up, channel, pending, key, told>>
          /\ session'[n][s] = "known"
      BY <2>1, <1>1, <1>2 DEF OpenChannel
    <2>. QED  BY <1>1, <2>1, <2>2
  <1>3. CASE SendMessage(n, s)
    BY <1>1, <1>3 DEF SendMessage, MayCall
  <1>4. CASE CloseChannel(n, s)
    <2>1. /\ told[n][s] /\ up[n] /\ "openSession" \notin frames[n][s]
          /\ "authResponse" \in frames[n][s] => "onChannelReady" \in frames[n][s]
      BY <1>1, <1>4 DEF CloseChannel, MayCall
    <2>2. /\ frames'[n][s] \in {frames[n][s], frames[n][s] \cup {"disconnect"}}
          /\ channel'[n][s] = "CLOSING" /\ session'[n][s] # "absent"
          /\ UNCHANGED <<up, pending, key, told>>
      BY <2>1, <1>1, <1>4 DEF CloseChannel
    <2>. QED  BY <1>1, <2>1, <2>2
  <1>. QED  BY <1>2, <1>3, <1>4 DEF Application

\* stop clears the maps, loses the inbox and the end of what was sent, and
\* leaves suspended handlers behind.
LEMMA StopKeepsIInv ==
    ASSUME IInv, TypeOK', NEW n \in Nodes, Stop(n)
    PROVE  IInv'
  <1>. USE DEF TypeOK
  <1>1. FreshIsUnused'
    <2>1. SUFFICES ASSUME NEW r \in Sessions, ~Opened(r)'
                   PROVE  Unmentioned(r)' /\ \A p \in Nodes : ~told'[p][r] /\ frames'[p][r] = {}
      BY DEF FreshIsUnused
    <2>2. /\ Unmentioned(r)
          /\ \A p \in Nodes : ~told[p][r] /\ frames[p][r] = {}
      BY <2>1 DEF IInv, FreshIsUnused, Stop, Opened
    <2>3. ASSUME NEW p \in Nodes, NEW i \in 1 .. Len(net'[p]) PROVE net'[p][i].sid # r
      <3>1. PICK k \in IF Inline THEN {0} ELSE 0 .. Len(net[Remote[n]]) :
               net' = [net EXCEPT ![n] = << >>, ![Remote[n]] = SubSeq(@, 1, k)]
        BY DEF Stop
      <3>2. Remote[n] \in Nodes /\ Remote[n] # n
        BY RemoteAssumption
      <3>3. k \in Nat /\ k <= Len(net[Remote[n]])
        BY <3>1, <3>2 DEF IInv
      <3>4. CASE p = n
        BY <2>3, <3>1, <3>2, <3>4 DEF IInv
      <3>5. CASE p = Remote[n]
        <4>1. net'[p] = SubSeq(net[p], 1, k)
          BY <3>1, <3>2, <3>5 DEF IInv
        <4>2. net[p] \in Seq(Message)
          BY DEF IInv
        <4>3. i \in 1 .. Len(net[p]) /\ net'[p][i] = net[p][i]
          BY <2>3, <3>3, <3>5, <4>1, <4>2
        <4>. QED  BY <4>3, <2>2 DEF Unmentioned
      <3>6. CASE p # n /\ p # Remote[n]
        BY <2>2, <3>1, <3>2, <3>6 DEF IInv, Unmentioned
      <3>. QED  BY <3>4, <3>5, <3>6
    <2>4. UNCHANGED <<told, frames>>
      BY DEF Stop
    <2>. QED  BY <2>2, <2>3, <2>4 DEF Unmentioned
  <1>2. ASSUME NEW p \in Nodes, NEW r \in Sessions PROVE Backed(p, r)'
    <2>. USE DEF Backed, OpeningBacked, ConfirmingBacked, CallbackBacked, PendingBacked, ReadyBacked
    <2>1. Backed(p, r) /\ TypeOK
      BY DEF IInv
    <2>2. UNCHANGED <<key, promise, frames, told>>
      BY DEF Stop
    <2>3. CASE p = n
      <3>1. channel'[p][r] = "none" /\ pending'[p][r] = "none" /\ ~up'[p]
        BY <2>1, <2>3 DEF Stop
      <3>. QED  BY <2>1, <2>2, <3>1
    <2>4. CASE p # n
      <3>1. /\ channel'[p][r] = channel[p][r] /\ pending'[p][r] = pending[p][r]
            /\ session'[p][r] = session[p][r] /\ up'[p] = up[p]
        BY <2>1, <2>4 DEF Stop
      <3>. QED  BY <2>1, <2>2, <3>1
    <2>. QED  BY <2>3, <2>4
  <1>. QED  BY <1>1, <1>2 DEF IInv

\* Over an open data channel (Inline = FALSE) the invariant holds of every
\* behaviour, with stops, rejected sends and signatures that do not verify.
THEOREM Invariance == ASSUME ~Inline PROVE Spec => []IInv
<1>1. Init => IInv
  <2>. SUFFICES ASSUME Init PROVE IInv
    OBVIOUS
  <2>1. TypeOK
    BY DEF Init, TypeOK, ChannelStatus
  <2>2. FreshIsUnused
    BY DEF Init, FreshIsUnused, Unmentioned
  <2>3. \A n \in Nodes, s \in Sessions : Backed(n, s)
    BY DEF Init, Backed, OpeningBacked, ConfirmingBacked, CallbackBacked, PendingBacked, ReadyBacked
  <2>. QED  BY <2>1, <2>2, <2>3 DEF IInv
<1>2. IInv /\ TypeOK' /\ [Next]_vars => IInv'
  <2>. SUFFICES ASSUME IInv, TypeOK', [Next]_vars PROVE IInv'
    OBVIOUS
  <2>1. ASSUME NEW n \in Nodes, NEW s \in Sessions, Step(n, s) PROVE IInv'
    <3>1. Backed(n, s)'
      BY <2>1, DeliverKeepsBacked, ContinueKeepsBacked, ApplicationKeepsBacked DEF Step
    <3>2. ASSUME NEW p \in Nodes, NEW r \in Sessions, p # n \/ r # s PROVE Backed(p, r)'
      <4>1. Backed(p, r) /\ TypeOK
        BY DEF IInv
      <4>2. /\ up' = up
            /\ session'[p][r] = session[p][r] /\ channel'[p][r] = channel[p][r]
            /\ pending'[p][r] = pending[p][r] /\ key'[p][r] = key[p][r]
            /\ frames'[p][r] = frames[p][r] /\ told'[p][r] = told[p][r]
        BY <2>1, <3>2, <4>1, StepIsLocal
      <4>. QED
        BY <4>1, <4>2 DEF Backed, OpeningBacked, ConfirmingBacked, CallbackBacked, PendingBacked, ReadyBacked
    <3>3. FreshIsUnused'
      BY <2>1, StepKeepsFresh DEF IInv
    <3>. QED  BY <3>1, <3>2, <3>3 DEF IInv
  <2>2. ASSUME NEW n \in Nodes, Stop(n) PROVE IInv'
    BY <2>2, StopKeepsIInv
  <2>3. CASE UNCHANGED vars
    <3>1. FreshIsUnused'
      BY <2>3 DEF vars, IInv, FreshIsUnused, Unmentioned, Opened
    <3>2. ASSUME NEW p \in Nodes, NEW r \in Sessions PROVE Backed(p, r)'
      BY <2>3 DEF vars, IInv, Backed, OpeningBacked, ConfirmingBacked, CallbackBacked, PendingBacked, ReadyBacked
    <3>. QED  BY <3>1, <3>2 DEF IInv
  <2>. QED  BY <2>1, <2>2, <2>3 DEF Next, Step
<1>. QED  BY <1>1, <1>2, TypeCorrect, PTL DEF Spec

\* A READY channel can always be used: no order of handlers, continuations,
\* closes and stops leaves it without its key or its session entry.
THEOREM ReadyChannelsAreBacked == ASSUME ~Inline PROVE Spec => []ReadyIsBacked
<1>1. IInv => ReadyIsBacked
  BY DEF IInv, Backed, ReadyBacked, ReadyIsBacked
<1>. QED  BY <1>1, Invariance, PTL

\* openChannel resolves only with a session that has its key and is READY, or
\* that the caller's own onChannelReady has begun to close.
THEOREM ResolvedChannelsAreUsable == ASSUME ~Inline PROVE Spec => ResolvesUsable
<1>1. ASSUME IInv, [Next]_vars, NEW n \in Nodes, NEW s \in Sessions, up[n],
             promise[n][s] = "pending", promise'[n][s] = "resolved"
      PROVE  channel'[n][s] \in {"READY", "CLOSING"} /\ key'[n][s]
  <2>. USE DEF TypeOK, Settle
  <2>1. TypeOK /\ Backed(n, s)
    BY <1>1 DEF IInv
  <2>2. ASSUME NEW p \in Nodes, NEW r \in Sessions, Step(p, r)
        PROVE  InitiatorResolves(n, s)
    <3>1. p = n /\ r = s
      BY <1>1, <2>1, <2>2, StepIsLocal
    <3>2. ~OpenChannel(n, s)
      BY <1>1 DEF OpenChannel
    <3>3. SendKeyExchange(n, s) \/ AuthFails(n, s) =>
             promise' = promise \/ Settle(n, s, "rejected")
      BY DEF SendKeyExchange, AuthFails, FailChannel
    <3>4. ~SendKeyExchange(n, s) /\ ~AuthFails(n, s)
      BY <1>1, <2>1, <3>3
    <3>. QED
      BY <1>1, <2>2, <3>1, <3>2, <3>4 DEF Step, Deliver, Continue, Application, HandleHello,
         HandleHelloAck, HandleKeyExchange, HandleAuthResponse, ResponderReady, InitiatorReady,
         HandleAppMessage, IgnoreData, HandleGoodbye, Disconnected, SendMessage, CloseChannel
  <2>3. InitiatorResolves(n, s)
    <3>1. promise' # promise
      BY <1>1
    <3>. QED  BY <1>1, <2>2, <3>1 DEF Next, Step, Stop, vars
  <2>4. channel[n][s] \in {"READY", "CLOSING"} /\ key[n][s]
    BY <1>1, <2>1, <2>3 DEF InitiatorResolves, Backed, ConfirmingBacked, CallbackBacked
  <2>. QED  BY <2>3, <2>4 DEF InitiatorResolves
<1>2. IInv /\ [Next]_vars =>
         [\A n \in Nodes, s \in Sessions :
             up[n] /\ promise[n][s] = "pending" /\ promise'[n][s] = "resolved" =>
                channel'[n][s] \in {"READY", "CLOSING"} /\ key'[n][s]]_vars
  BY <1>1
<1>. QED  BY <1>2, Invariance, PTL DEF Spec, ResolvesUsable
=============================================================================

--------------------------- MODULE HandshakeProofs ---------------------------
(***************************************************************************)
(* How the two ends of a session depend on each other, for every set of    *)
(* peers and sessions: theorems about PeerChannel over an open data        *)
(* channel (Inline = FALSE).                                               *)
(*                                                                         *)
(* PeerChannelProofs relates the variables of one node.  Here they are     *)
(* related to the other node's and to the messages between them: a         *)
(* handshake is a token that is, in turn, a suspended openSession, a       *)
(* KEY_EXCHANGE, an AUTH_RESPONSE and an AUTH_CONFIRM.                     *)
(***************************************************************************)
EXTENDS PeerChannelProofs

-----------------------------------------------------------------------------
(* Inboxes *)

\* At most one message of type t about session s is in the inbox q.
Single(q, s, t) ==
    \A i, j \in 1 .. Len(q) :
        q[i].sid = s /\ q[i].type = t /\ q[j].sid = s /\ q[j].type = t => i = j

AfterHandshake == {"APP", "GOODBYE"}

\* Before every message about s with a type in T there is one of type t.
Preceded(q, s, t, T) ==
    \A j \in 1 .. Len(q) : q[j].sid = s /\ q[j].type \in T =>
        \E i \in 1 .. j - 1 : q[i].sid = s /\ q[i].type = t

\* What the initiator says once it is READY comes after its confirmation.
ConfirmFirst(q, s) == Preceded(q, s, "AUTH_CONFIRM", AfterHandshake)

\* A session is announced before its handshake begins.
HelloFirst(q, s) == Preceded(q, s, "HELLO", {"KEY_EXCHANGE"})

\* The inbox q becomes w: its head, of type t about s, is taken.
Took(q, w, s, t) ==
    /\ \A u \in Types : Holds(w, s, u) => Holds(q, s, u)
    /\ \A u \in Types \ {t} : Holds(q, s, u) => Holds(w, s, u)
    /\ \A u \in Types : Single(q, s, u) => Single(w, s, u)
    /\ Holds(q, s, t) /\ (Single(q, s, t) => ~Holds(w, s, t))
    /\ ConfirmFirst(q, s) =>
          t \notin AfterHandshake /\ (t # "AUTH_CONFIRM" => ConfirmFirst(w, s))
    /\ HelloFirst(q, s) => t # "KEY_EXCHANGE" /\ (t # "HELLO" => HelloFirst(w, s))

\* A message of type t about s is added at its end.
Gained(q, w, s, t) ==
    /\ \A u \in Types : Holds(w, s, u) <=> Holds(q, s, u) \/ u = t
    /\ \A u \in Types : Single(q, s, u) /\ (u = t => ~Holds(q, s, t)) => Single(w, s, u)
    /\ ConfirmFirst(q, s) /\ (t \in AfterHandshake => Holds(q, s, "AUTH_CONFIRM")) =>
          ConfirmFirst(w, s)
    /\ HelloFirst(q, s) /\ (t = "KEY_EXCHANGE" => Holds(q, s, "HELLO")) => HelloFirst(w, s)

\* For session s the two inboxes are the same.
Kept(q, w, s) ==
    /\ \A u \in Types : Holds(w, s, u) <=> Holds(q, s, u)
    /\ \A u \in Types : Single(q, s, u) => Single(w, s, u)
    /\ ConfirmFirst(q, s) => ConfirmFirst(w, s)
    /\ HelloFirst(q, s) => HelloFirst(w, s)

\* The end of q is cut off.
Shortened(q, w, s) ==
    /\ \A u \in Types : Holds(w, s, u) => Holds(q, s, u)
    /\ \A u \in Types : Single(q, s, u) => Single(w, s, u)
    /\ ConfirmFirst(q, s) => ConfirmFirst(w, s)
    /\ HelloFirst(q, s) => HelloFirst(w, s)

\* Taking the head takes one message of its session and none of another.
LEMMA TailTakes ==
    ASSUME NEW q \in Seq(Message), q # << >>, NEW s \in Sessions
    PROVE  /\ Head(q).sid = s => Took(q, Tail(q), s, Head(q).type)
           /\ Head(q).sid # s => Kept(q, Tail(q), s)
  <1>. DEFINE w == Tail(q)
  <1>1. /\ Len(q) \in Nat \ {0} /\ Len(w) = Len(q) - 1 /\ Head(q) = q[1]
        /\ \A i \in 1 .. Len(w) : w[i] = q[i + 1] /\ i + 1 \in 1 .. Len(q)
    OBVIOUS
  <1>2. \A i \in 1 .. Len(q) : i = 1 \/ (i - 1 \in 1 .. Len(w) /\ w[i - 1] = q[i])
    BY <1>1
  <1>. HIDE DEF w
  <1>3. ASSUME NEW u PROVE Holds(w, s, u) => Holds(q, s, u)
    BY <1>1 DEF Holds
  <1>4. ASSUME NEW u, ~(Head(q).sid = s /\ Head(q).type = u)
        PROVE  Holds(q, s, u) => Holds(w, s, u)
    BY <1>1, <1>2, <1>4 DEF Holds
  <1>5. ASSUME NEW u PROVE Single(q, s, u) => Single(w, s, u)
    <2>. SUFFICES ASSUME Single(q, s, u), NEW i \in 1 .. Len(w), NEW j \in 1 .. Len(w),
                         w[i].sid = s, w[i].type = u, w[j].sid = s, w[j].type = u
                  PROVE  i = j
      BY DEF Single
    <2>1. /\ i + 1 \in 1 .. Len(q) /\ q[i + 1] = w[i]
          /\ j + 1 \in 1 .. Len(q) /\ q[j + 1] = w[j]
      BY <1>1
    <2>2. i + 1 = j + 1
      BY <2>1 DEF Single
    <2>. QED  BY <2>2
  <1>6. ASSUME Head(q).sid = s
        PROVE  /\ Holds(q, s, Head(q).type)
               /\ Single(q, s, Head(q).type) => ~Holds(w, s, Head(q).type)
    <2>1. Holds(q, s, Head(q).type)
      BY <1>1, <1>6 DEF Holds
    <2>2. ASSUME Single(q, s, Head(q).type), Holds(w, s, Head(q).type) PROVE FALSE
      <3>1. PICK i \in 1 .. Len(w) : w[i].sid = s /\ w[i].type = Head(q).type
        BY <2>2 DEF Holds
      <3>2. i + 1 = 1
        BY <1>1, <1>6, <2>2, <3>1 DEF Single
      <3>. QED  BY <3>2
    <2>. QED  BY <2>1, <2>2
  <1>7. ASSUME NEW t, NEW T, Preceded(q, s, t, T), Head(q).sid = s
        PROVE  Head(q).type \notin T
    BY <1>1, <1>7 DEF Preceded
  <1>8. ASSUME NEW t, NEW T, Preceded(q, s, t, T), ~(Head(q).sid = s /\ Head(q).type = t)
        PROVE  Preceded(w, s, t, T)
    <2>. SUFFICES ASSUME NEW j \in 1 .. Len(w), w[j].sid = s, w[j].type \in T
                  PROVE  \E i \in 1 .. j - 1 : w[i].sid = s /\ w[i].type = t
      BY DEF Preceded
    <2>1. PICK k \in 1 .. (j + 1) - 1 : q[k].sid = s /\ q[k].type = t
      BY <1>1, <1>8 DEF Preceded
    <2>2. k # 1
      BY <1>1, <1>8, <2>1
    <2>3. k - 1 \in 1 .. j - 1 /\ k \in 1 .. Len(q) /\ w[k - 1] = q[k]
      BY <1>1, <1>2, <2>1, <2>2
    <2>. QED  BY <2>1, <2>3
  <1>9. Head(q).sid = s => Took(q, w, s, Head(q).type)
    BY <1>3, <1>4, <1>5, <1>6, <1>7, <1>8 DEF Took, ConfirmFirst, HelloFirst
  <1>10. Head(q).sid # s => Kept(q, w, s)
    BY <1>3, <1>4, <1>5, <1>8 DEF Kept, ConfirmFirst, HelloFirst
  <1>. QED  BY <1>9, <1>10 DEF w

\* Adding a message adds it to its session and nothing to another.
LEMMA AppendGains ==
    ASSUME NEW q \in Seq(Message), NEW m \in Message, NEW s \in Sessions
    PROVE  /\ m.sid = s => Gained(q, Append(q, m), s, m.type)
           /\ m.sid # s => Kept(q, Append(q, m), s)
  <1>. DEFINE w == Append(q, m)
  <1>1. /\ Len(q) \in Nat /\ Len(w) = Len(q) + 1 /\ w[Len(q) + 1] = m
        /\ \A i \in 1 .. Len(q) : w[i] = q[i]
    OBVIOUS
  <1>. HIDE DEF w
  <1>2. \A i \in 1 .. Len(w) : i \in 1 .. Len(q) \/ (i = Len(q) + 1 /\ w[i] = m)
    BY <1>1
  <1>3. ASSUME NEW u PROVE Holds(w, s, u) <=> Holds(q, s, u) \/ (m.sid = s /\ m.type = u)
    BY <1>1, <1>2 DEF Holds
  <1>4. ASSUME NEW u, Single(q, s, u), m.sid = s /\ m.type = u => ~Holds(q, s, u)
        PROVE  Single(w, s, u)
    <2>. SUFFICES ASSUME NEW i \in 1 .. Len(w), NEW j \in 1 .. Len(w),
                         w[i].sid = s, w[i].type = u, w[j].sid = s, w[j].type = u
                  PROVE  i = j
      BY DEF Single
    <2>1. CASE i \in 1 .. Len(q) /\ j \in 1 .. Len(q)
      BY <1>1, <1>4, <2>1 DEF Single
    <2>2. CASE i = Len(q) + 1 /\ j \in 1 .. Len(q)
      BY <1>1, <1>4, <2>2 DEF Holds
    <2>3. CASE j = Len(q) + 1 /\ i \in 1 .. Len(q)
      BY <1>1, <1>4, <2>3 DEF Holds
    <2>. QED  BY <1>2, <2>1, <2>2, <2>3
  <1>5. ASSUME NEW t, NEW T, Preceded(q, s, t, T),
               m.sid = s /\ m.type \in T => Holds(q, s, t)
        PROVE  Preceded(w, s, t, T)
    <2>. SUFFICES ASSUME NEW j \in 1 .. Len(w), w[j].sid = s, w[j].type \in T
                  PROVE  \E i \in 1 .. j - 1 : w[i].sid = s /\ w[i].type = t
      BY DEF Preceded
    <2>1. CASE j \in 1 .. Len(q)
      <3>1. PICK i \in 1 .. j - 1 : q[i].sid = s /\ q[i].type = t
        BY <1>1, <1>5, <2>1 DEF Preceded
      <3>2. i \in 1 .. Len(q)
        BY <1>1, <2>1
      <3>. QED  BY <1>1, <3>1, <3>2
    <2>2. CASE j = Len(q) + 1
      <3>1. PICK i \in 1 .. Len(q) : q[i].sid = s /\ q[i].type = t
        BY <1>1, <1>5, <2>2 DEF Holds
      <3>2. i \in 1 .. j - 1
        BY <1>1, <2>2
      <3>. QED  BY <1>1, <3>1, <3>2
    <2>. QED  BY <1>2, <2>1, <2>2
  <1>6. m.sid = s => Gained(q, w, s, m.type)
    BY <1>3, <1>4, <1>5 DEF Gained, ConfirmFirst, HelloFirst
  <1>7. m.sid # s => Kept(q, w, s)
    BY <1>3, <1>4, <1>5 DEF Kept, ConfirmFirst, HelloFirst
  <1>. QED  BY <1>6, <1>7 DEF w

\* A prefix of an inbox holds no more than the inbox, in the same order.
LEMMA PrefixShortens ==
    ASSUME NEW q \in Seq(Message), NEW k \in 0 .. Len(q), NEW s \in Sessions
    PROVE  Shortened(q, SubSeq(q, 1, k), s)
  <1>. DEFINE w == SubSeq(q, 1, k)
  <1>1. /\ Len(q) \in Nat /\ Len(w) = k /\ k \in Nat /\ k <= Len(q)
        /\ \A i \in 1 .. k : w[i] = q[i] /\ i \in 1 .. Len(q)
    OBVIOUS
  <1>. HIDE DEF w
  <1>2. ASSUME NEW u PROVE Holds(w, s, u) => Holds(q, s, u)
    BY <1>1 DEF Holds
  <1>3. ASSUME NEW u PROVE Single(q, s, u) => Single(w, s, u)
    BY <1>1 DEF Single
  <1>4. ASSUME NEW t, NEW T, Preceded(q, s, t, T) PROVE Preceded(w, s, t, T)
    <2>. SUFFICES ASSUME NEW j \in 1 .. Len(w), w[j].sid = s, w[j].type \in T
                  PROVE  \E i \in 1 .. j - 1 : w[i].sid = s /\ w[i].type = t
      BY DEF Preceded
    <2>1. PICK i \in 1 .. j - 1 : q[i].sid = s /\ q[i].type = t
      BY <1>1, <1>4 DEF Preceded
    <2>2. i \in 1 .. k
      BY <1>1
    <2>. QED  BY <1>1, <2>1, <2>2
  <1>5. Shortened(q, w, s)
    BY <1>2, <1>3, <1>4 DEF Shortened, ConfirmFirst, HelloFirst
  <1>. QED  BY <1>5 DEF w

\* An empty inbox holds nothing.
LEMMA EmptyShortens ==
    ASSUME NEW q \in Seq(Message), NEW s \in Sessions
    PROVE  Shortened(q, << >>, s) /\ \A u \in Types : ~Holds(<< >>, s, u)
  BY DEF Shortened, Holds, Single, ConfirmFirst, HelloFirst, Preceded

-----------------------------------------------------------------------------
(* The inductive invariant *)

\* n has verified its peer's signature and confirmed, or is about to be READY.
HasConfirmed(n, s) == promise[n][s] = "resolved" \/ "authResponse" \in frames[n][s]

Decided(n, s) == HasConfirmed(n, s) \/ HasConfirmed(Remote[n], s)

\* A session id is drawn once.
OneOpener ==
    \A m, n \in Nodes, s \in Sessions :
        promise[m][s] # "none" /\ promise[n][s] # "none" => m = n

FreshIsEmpty ==
    \A s \in Sessions : ~Opened(s) =>
        \A n \in Nodes : channel[n][s] = "none" /\ pending[n][s] = "none"

\* Only the opener's promise is at stake in an initiator's handlers, and only the
\* other end is a responder.
Roles(n, s) ==
    /\ frames[n][s] \cap {"openSession", "authResponse"} # {} => promise[n][s] = "pending"
    /\ pending[n][s] = "initiator" => promise[n][s] \in {"pending", "rejected"}
    /\ pending[n][s] = "responder" => promise[n][s] = "none"
    /\ "disconnect" \in frames[n][s] => told[n][s]

\* Nothing beyond the handshake happens before the initiator has confirmed.
DecisionFirst(n, s) ==
    /\ told[n][s] => Decided(n, s)
    /\ channel[n][s] \in {"READY", "CLOSING", "CLOSED"} => Decided(n, s)
    /\ \A t \in AfterHandshake : InFlight(n, s, t) => Decided(n, s)

\* The token is n's suspended openSession.
OpeningStage(n, s) ==
    "openSession" \in frames[n][s] =>
        /\ pending[n][s] = "none" /\ channel[n][s] = "none"
        /\ pending[Remote[n]][s] # "responder" /\ channel[Remote[n]][s] # "ERROR"
        /\ ~InFlight(Remote[n], s, "KEY_EXCHANGE")
        /\ ~InFlight(n, s, "AUTH_RESPONSE")

\* The token is a KEY_EXCHANGE on its way to n.
ExchangeStage(n, s) ==
    /\ Single(net[n], s, "KEY_EXCHANGE")
    /\ InFlight(n, s, "KEY_EXCHANGE") =>
        /\ promise[Remote[n]][s] = "pending" /\ frames[Remote[n]][s] = {}
        /\ pending[n][s] # "responder" /\ channel[n][s] # "ERROR"
        /\ ~InFlight(Remote[n], s, "AUTH_RESPONSE")

\* The token is an AUTH_RESPONSE on its way to n.
ResponseStage(n, s) ==
    /\ Single(net[n], s, "AUTH_RESPONSE")
    /\ InFlight(n, s, "AUTH_RESPONSE") =>
        /\ promise[n][s] = "pending" /\ frames[n][s] = {}
        /\ up[Remote[n]] => pending[Remote[n]][s] = "responder"

\* The token is an AUTH_CONFIRM on its way to n: n waits for it, and as long as
\* n is in the handshake it comes before anything its peer has said since.
ConfirmStage(n, s) ==
    /\ Single(net[n], s, "AUTH_CONFIRM")
    /\ InFlight(n, s, "AUTH_CONFIRM") =>
          HasConfirmed(Remote[n], s) /\ pending[n][s] = "responder"
    /\ HasConfirmed(Remote[n], s) /\ up[n] =>
          /\ channel[n][s] # "none"
          /\ up[Remote[n]] /\ channel[n][s] = "AUTHENTICATING" =>
                InFlight(n, s, "AUTH_CONFIRM")
    /\ channel[n][s] = "AUTHENTICATING" /\ promise[n][s] = "none" =>
          ConfirmFirst(net[n], s)

\* What n itself has settled, and what is left to settle it.
Settled(n, s) ==
    /\ pending[n][s] = "responder" => channel[n][s] = "AUTHENTICATING" /\ ~told[n][s]
    /\ promise[n][s] = "resolved" =>
          channel[n][s] # "AUTHENTICATING" /\ (up[n] => channel[n][s] # "none")
    /\ up[n] /\ promise[n][s] = "pending" =>
          \/ pending[n][s] = "initiator"
          \/ frames[n][s] \cap {"openSession", "authResponse"} # {}
    /\ channel[n][s] \in {"CLOSED", "ERROR"} => ~key[n][s]

Staged(n, s) ==
    /\ Roles(n, s)
    /\ DecisionFirst(n, s)
    /\ OpeningStage(n, s)
    /\ ExchangeStage(n, s)
    /\ ResponseStage(n, s)
    /\ ConfirmStage(n, s)
    /\ Settled(n, s)

HInv ==
    /\ IInv
    /\ OneOpener
    /\ FreshIsEmpty
    /\ \A n \in Nodes, s \in Sessions : Staged(n, s)

-----------------------------------------------------------------------------
(* What a step does to the inboxes *)

\* p runs, and its inbox has gained a message of type t about s.
Reaches(p, s, t) == up[p] /\ Gained(net[p], net'[p], s, t)

\* Sending takes a connection, and adds a message at the peer.
LEMMA SendReaches ==
    ASSUME TypeOK, ~Inline, NEW n \in Nodes, NEW s \in Sessions, NEW m \in Message,
           m.sid = s, Send(n, m)
    PROVE  net'[n] = net[n] /\ up[n] /\ Reaches(Remote[n], s, m.type)
  <1>1. Remote[n] \in Nodes /\ Remote[n] # n
    BY RemoteAssumption
  <1>2. net'[n] = net[n] /\ net'[Remote[n]] = Arrival(Remote[n], m)
    BY <1>1 DEF Send, TypeOK
  <1>3. up[n] /\ up[Remote[n]]
    BY DEF Send, Connected
  <1>4. net[Remote[n]] \in Seq(Message)
    BY <1>1 DEF TypeOK
  <1>. QED  BY <1>2, <1>3, <1>4, AppendGains DEF Arrival, Reaches

\* Taking a message takes it from n's inbox only.
LEMMA ConsumeTakes ==
    ASSUME TypeOK, NEW n \in Nodes, NEW s \in Sessions, NEW t,
           Receiving(n, s, t), Consume(n)
    PROVE  Took(net[n], net'[n], s, t) /\ net'[Remote[n]] = net[Remote[n]]
  <1>1. Remote[n] \in Nodes /\ Remote[n] # n
    BY RemoteAssumption
  <1>2. net'[n] = Tail(net[n]) /\ net'[Remote[n]] = net[Remote[n]]
    BY <1>1 DEF Consume, TypeOK
  <1>3. /\ net[n] \in Seq(Message) /\ net[n] # << >>
        /\ Head(net[n]).sid = s /\ Head(net[n]).type = t
    BY DEF TypeOK, Receiving
  <1>. QED  BY <1>2, <1>3, TailTakes

\* Answering does both.
LEMMA AnswerReaches ==
    ASSUME TypeOK, ~Inline, NEW n \in Nodes, NEW s \in Sessions, NEW t,
           Receiving(n, s, t), NEW m \in Message, m.sid = s, Answer(n, m)
    PROVE  Took(net[n], net'[n], s, t) /\ Reaches(Remote[n], s, m.type)
  <1>1. Remote[n] \in Nodes /\ Remote[n] # n
    BY RemoteAssumption
  <1>2. net'[n] = Tail(net[n]) /\ net'[Remote[n]] = Arrival(Remote[n], m)
    BY <1>1 DEF Answer, TypeOK
  <1>3. /\ net[n] \in Seq(Message) /\ net[n] # << >>
        /\ Head(net[n]).sid = s /\ Head(net[n]).type = t
    BY DEF TypeOK, Receiving
  <1>4. Took(net[n], net'[n], s, t)
    BY <1>2, <1>3, TailTakes
  <1>5. net[Remote[n]] \in Seq(Message) /\ up[Remote[n]]
    BY <1>1 DEF TypeOK, Answer, Connected
  <1>. QED  BY <1>2, <1>4, <1>5, AppendGains DEF Arrival, Reaches

\* The messages the handlers build.
LEMMA Built ==
    ASSUME NEW s \in Sessions, NEW t \in Types
    PROVE  /\ Msg(t, s) \in Message /\ Msg(t, s).sid = s /\ Msg(t, s).type = t
           /\ \A m \in SignedMsgs(t, s) : m \in Message /\ m.sid = s /\ m.type = t
  <1>1. Msg(t, s) \in Message /\ SignedMsgs(t, s) \subseteq Message
    BY MsgType
  <1>2. Msg(t, s).sid = s /\ Msg(t, s).type = t
    BY DEF Msg
  <1>3. ASSUME NEW m \in SignedMsgs(t, s) PROVE m.sid = s /\ m.type = t
    <2>1. PICK g \in BOOLEAN : m = [type |-> t, sid |-> s, good |-> g]
      BY <1>3, Zenon DEF SignedMsgs
    <2>. QED  BY <2>1
  <1>. QED  BY <1>1, <1>2, <1>3

\* A step that touches inboxes sends a message, takes one, or answers the one it
\* takes.
LEMMA NetEffect ==
    ASSUME TypeOK, ~Inline, NEW n \in Nodes, NEW s \in Sessions, NEW u \in Types
    PROVE  /\ Send(n, Msg(u, s)) => net'[n] = net[n] /\ up[n] /\ Reaches(Remote[n], s, u)
           /\ \A t \in Types : Receiving(n, s, t) =>
                 /\ Consume(n) =>
                       Took(net[n], net'[n], s, t) /\ net'[Remote[n]] = net[Remote[n]]
                 /\ Answer(n, Msg(u, s)) =>
                       Took(net[n], net'[n], s, t) /\ Reaches(Remote[n], s, u)
                 /\ (\E m \in SignedMsgs(u, s) : Answer(n, m)) =>
                       Took(net[n], net'[n], s, t) /\ Reaches(Remote[n], s, u)
  <1>1. Send(n, Msg(u, s)) => net'[n] = net[n] /\ up[n] /\ Reaches(Remote[n], s, u)
    BY Built, SendReaches
  <1>2. ASSUME NEW t \in Types, Receiving(n, s, t)
        PROVE  /\ Consume(n) =>
                     Took(net[n], net'[n], s, t) /\ net'[Remote[n]] = net[Remote[n]]
               /\ Answer(n, Msg(u, s)) =>
                     Took(net[n], net'[n], s, t) /\ Reaches(Remote[n], s, u)
    BY <1>2, Built, ConsumeTakes, AnswerReaches
  <1>3. ASSUME NEW t \in Types, Receiving(n, s, t), NEW m \in SignedMsgs(u, s), Answer(n, m)
        PROVE  Took(net[n], net'[n], s, t) /\ Reaches(Remote[n], s, u)
    BY <1>3, Built, AnswerReaches
  <1>. QED  BY <1>1, <1>2, <1>3

-----------------------------------------------------------------------------
(* What each action changes at the node that takes it *)

\* n before and after HandleKeyExchange.
HandleKeyExchangeChanges(n, s) ==
    /\ channel'[n][s] = channel[n][s] /\ pending'[n][s] = "responder"
    /\ promise'[n][s] = promise[n][s] /\ frames'[n][s] = frames[n][s]
    /\ told'[n][s] = told[n][s]
    /\ channel[n][s] \in ChannelStatus /\ up[n] /\ frames[n][s] = {}

\* That is what HandleKeyExchange does at n.
LEMMA HandleKeyExchangeEffect ==
    ASSUME TypeOK, ~Inline, NEW n \in Nodes, NEW s \in Sessions, HandleKeyExchange(n, s)
    PROVE  HandleKeyExchangeChanges(n, s)
  BY DEF HandleKeyExchange, HandleKeyExchangeChanges, TypeOK, Receiving

\* n before and after HandleHello.
HandleHelloChanges(n, s) ==
    /\ channel'[n][s] = IF channel[n][s] = "none" THEN "AUTHENTICATING" ELSE channel[n][s]
    /\ pending'[n][s] = pending[n][s] /\ promise'[n][s] = promise[n][s]
    /\ frames'[n][s] = frames[n][s] /\ told'[n][s] = told[n][s] /\ key'[n][s] = key[n][s]
    /\ up[n] /\ frames[n][s] = {}

\* That is what HandleHello does at n.
LEMMA HandleHelloEffect ==
    ASSUME TypeOK, ~Inline, NEW n \in Nodes, NEW s \in Sessions, HandleHello(n, s)
    PROVE  HandleHelloChanges(n, s)
  BY DEF HandleHello, HandleHelloChanges, TypeOK, Receiving, OnSessionOpened

\* n before and after HandleHelloAck.
HandleHelloAckChanges(n, s) ==
    /\ channel'[n][s] = IF channel[n][s] = "none" THEN "AUTHENTICATING" ELSE channel[n][s]
    /\ pending'[n][s] = pending[n][s] /\ promise'[n][s] = promise[n][s]
    /\ frames'[n][s] = frames[n][s] /\ told'[n][s] = told[n][s] /\ key'[n][s] = key[n][s]
    /\ up[n] /\ frames[n][s] = {}

\* That is what HandleHelloAck does at n.
LEMMA HandleHelloAckEffect ==
    ASSUME TypeOK, ~Inline, NEW n \in Nodes, NEW s \in Sessions, HandleHelloAck(n, s)
    PROVE  HandleHelloAckChanges(n, s)
  BY DEF HandleHelloAck, HandleHelloAckChanges, TypeOK, Receiving, OnSessionOpened

\* n before and after HandleAuthResponse.
HandleAuthResponseChanges(n, s) ==
    /\ channel'[n][s] = channel[n][s] /\ pending'[n][s] = pending[n][s]
    /\ promise'[n][s] = promise[n][s] /\ told'[n][s] = told[n][s]
    /\ pending[n][s] = "initiator" /\ up[n] /\ frames[n][s] = {}
    /\ frames'[n][s] \in {{}, {"authResponse"}}

\* That is what HandleAuthResponse does at n.
LEMMA HandleAuthResponseEffect ==
    ASSUME TypeOK, ~Inline, NEW n \in Nodes, NEW s \in Sessions, HandleAuthResponse(n, s)
    PROVE  HandleAuthResponseChanges(n, s)
  BY DEF HandleAuthResponse, HandleAuthResponseChanges, TypeOK, Receiving, Suspend

\* n before and after ResponderReady.
ResponderReadyChanges(n, s) ==
    /\ channel'[n][s] = IF channel[n][s] = "none" THEN "none" ELSE "READY"
    /\ pending[n][s] = "responder" /\ pending'[n][s] = "none"
    /\ promise'[n][s] = promise[n][s] /\ frames'[n][s] = frames[n][s]
    /\ told'[n][s] /\ key'[n][s] = key[n][s] /\ up[n] /\ frames[n][s] = {}

\* That is what ResponderReady does at n.
LEMMA ResponderReadyEffect ==
    ASSUME TypeOK, ~Inline, NEW n \in Nodes, NEW s \in Sessions, ResponderReady(n, s)
    PROVE  ResponderReadyChanges(n, s)
  BY DEF ResponderReady, ResponderReadyChanges, TypeOK, Receiving, SetStatus, DropPending, Tell

\* n before and after AuthFails.
AuthFailsChanges(n, s) ==
    /\ channel'[n][s] = IF channel[n][s] = "none" THEN "none" ELSE "ERROR"
    /\ pending'[n][s] = "none" /\ frames'[n][s] = frames[n][s]
    /\ promise'[n][s] = IF promise[n][s] = "pending" THEN "rejected" ELSE promise[n][s]
    /\ told'[n][s] = told[n][s] /\ ~key'[n][s] /\ up[n] /\ frames[n][s] = {}

\* That is what AuthFails does at n.
LEMMA AuthFailsEffect ==
    ASSUME TypeOK, ~Inline, NEW n \in Nodes, NEW s \in Sessions, AuthFails(n, s)
    PROVE  AuthFailsChanges(n, s)
  BY DEF AuthFails, AuthFailsChanges, TypeOK, Receiving, FailChannel, SetStatus, Settle,
         DropPending, ForgetKey

\* n before and after HandleAppMessage.
HandleAppMessageChanges(n, s) ==
    /\ channel'[n][s] = channel[n][s] /\ pending'[n][s] = pending[n][s]
    /\ promise'[n][s] = promise[n][s] /\ frames'[n][s] = frames[n][s]
    /\ told'[n][s] = told[n][s] /\ key'[n][s] = key[n][s]

\* That is what HandleAppMessage does at n.
LEMMA HandleAppMessageEffect ==
    ASSUME TypeOK, ~Inline, NEW n \in Nodes, NEW s \in Sessions, HandleAppMessage(n, s)
    PROVE  HandleAppMessageChanges(n, s)
  BY DEF HandleAppMessage, HandleAppMessageChanges, TypeOK, Receiving

\* n before and after IgnoreData.
IgnoreDataChanges(n, s) ==
    /\ channel'[n][s] = channel[n][s] /\ pending'[n][s] = pending[n][s]
    /\ promise'[n][s] = promise[n][s] /\ frames'[n][s] = frames[n][s]
    /\ told'[n][s] = told[n][s] /\ key'[n][s] = key[n][s]

\* That is what IgnoreData does at n.
LEMMA IgnoreDataEffect ==
    ASSUME TypeOK, ~Inline, NEW n \in Nodes, NEW s \in Sessions, IgnoreData(n, s)
    PROVE  IgnoreDataChanges(n, s)
  BY DEF IgnoreData, IgnoreDataChanges, TypeOK, Receiving

\* n before and after HandleGoodbye.
HandleGoodbyeChanges(n, s) ==
    /\ channel'[n][s] = IF channel[n][s] = "none" THEN "none" ELSE "CLOSED"
    /\ pending'[n][s] = "none" /\ promise'[n][s] = promise[n][s]
    /\ frames'[n][s] = frames[n][s] /\ told'[n][s] /\ ~key'[n][s]
    /\ up[n] /\ frames[n][s] = {}

\* That is what HandleGoodbye does at n.
LEMMA HandleGoodbyeEffect ==
    ASSUME TypeOK, ~Inline, NEW n \in Nodes, NEW s \in Sessions, HandleGoodbye(n, s)
    PROVE  HandleGoodbyeChanges(n, s)
  BY DEF HandleGoodbye, HandleGoodbyeChanges, TypeOK, Receiving, OnSessionClosed, SetStatus,
         ForgetKey, DropPending, Tell

\* n before and after SendKeyExchange.
SendKeyExchangeChanges(n, s) ==
    /\ channel'[n][s] = "AUTHENTICATING" /\ pending'[n][s] = "initiator"
    /\ "openSession" \in frames[n][s] /\ frames'[n][s] = frames[n][s] \ {"openSession"}
    /\ told'[n][s] = told[n][s] /\ key'[n][s] = key[n][s]
    /\ promise'[n][s] \in {promise[n][s], "rejected"}

\* That is what SendKeyExchange does at n.
LEMMA SendKeyExchangeEffect ==
    ASSUME TypeOK, ~Inline, NEW n \in Nodes, NEW s \in Sessions, SendKeyExchange(n, s)
    PROVE  SendKeyExchangeChanges(n, s)
  BY DEF SendKeyExchange, SendKeyExchangeChanges, TypeOK, Resume, Settle

\* n before and after InitiatorReady.
InitiatorReadyChanges(n, s) ==
    /\ channel'[n][s] = IF channel[n][s] = "none" THEN "none" ELSE "READY"
    /\ pending'[n][s] = pending[n][s] /\ promise'[n][s] = promise[n][s]
    /\ told'[n][s] /\ key'[n][s] = key[n][s]
    /\ "authResponse" \in frames[n][s] /\ "onChannelReady" \notin frames[n][s]
    /\ frames'[n][s] = frames[n][s] \cup {"onChannelReady"}

\* That is what InitiatorReady does at n.
LEMMA InitiatorReadyEffect ==
    ASSUME TypeOK, ~Inline, NEW n \in Nodes, NEW s \in Sessions, InitiatorReady(n, s)
    PROVE  InitiatorReadyChanges(n, s)
  BY DEF InitiatorReady, InitiatorReadyChanges, TypeOK, CallingBack, Suspend, SetStatus, Tell

\* n before and after InitiatorResolves.
InitiatorResolvesChanges(n, s) ==
    /\ channel'[n][s] = channel[n][s] /\ pending'[n][s] = "none"
    /\ told'[n][s] = told[n][s] /\ key'[n][s] = key[n][s]
    /\ promise'[n][s] = IF promise[n][s] = "pending" THEN "resolved" ELSE promise[n][s]
    /\ "onChannelReady" \in frames[n][s]
    /\ frames'[n][s] = frames[n][s] \ {"authResponse", "onChannelReady"}

\* That is what InitiatorResolves does at n.
LEMMA InitiatorResolvesEffect ==
    ASSUME TypeOK, ~Inline, NEW n \in Nodes, NEW s \in Sessions, InitiatorResolves(n, s)
    PROVE  InitiatorResolvesChanges(n, s)
  BY DEF InitiatorResolves, InitiatorResolvesChanges, TypeOK, Settle, DropPending

\* n before and after Disconnected.
DisconnectedChanges(n, s) ==
    /\ channel'[n][s] = IF channel[n][s] = "none" THEN "none" ELSE "CLOSED"
    /\ pending'[n][s] = "none" /\ promise'[n][s] = promise[n][s]
    /\ "disconnect" \in frames[n][s] /\ frames'[n][s] = frames[n][s] \ {"disconnect"}
    /\ told'[n][s] /\ ~key'[n][s]

\* That is what Disconnected does at n.
LEMMA DisconnectedEffect ==
    ASSUME TypeOK, ~Inline, NEW n \in Nodes, NEW s \in Sessions, Disconnected(n, s)
    PROVE  DisconnectedChanges(n, s)
  BY DEF Disconnected, DisconnectedChanges, TypeOK, Resume, OnSessionClosed, SetStatus,
         ForgetKey, DropPending, Tell

\* n before and after SendMessage.
SendMessageChanges(n, s) ==
    /\ channel'[n][s] = channel[n][s] /\ pending'[n][s] = pending[n][s]
    /\ promise'[n][s] = promise[n][s] /\ frames'[n][s] = frames[n][s]
    /\ told'[n][s] = told[n][s] /\ key'[n][s] = key[n][s] /\ told[n][s] /\ up[n]

\* That is what SendMessage does at n.
LEMMA SendMessageEffect ==
    ASSUME TypeOK, ~Inline, NEW n \in Nodes, NEW s \in Sessions, SendMessage(n, s)
    PROVE  SendMessageChanges(n, s)
  BY DEF SendMessage, SendMessageChanges, TypeOK, MayCall

\* n before and after CloseChannel.
CloseChannelChanges(n, s) ==
    /\ channel'[n][s] = "CLOSING" /\ pending'[n][s] = pending[n][s]
    /\ promise'[n][s] = promise[n][s] /\ told'[n][s] = told[n][s] /\ key'[n][s] = key[n][s]
    /\ frames'[n][s] \in {frames[n][s], frames[n][s] \cup {"disconnect"}}
    /\ told[n][s] /\ up[n]

\* That is what CloseChannel does at n.
LEMMA CloseChannelEffect ==
    ASSUME TypeOK, ~Inline, NEW n \in Nodes, NEW s \in Sessions, CloseChannel(n, s)
    PROVE  CloseChannelChanges(n, s)
  <1>1. frames'[n][s] \in {frames[n][s], frames[n][s] \cup {"disconnect"}}
    BY DEF CloseChannel, TypeOK, Suspend
  <1>2. channel'[n][s] = "CLOSING"
    BY DEF CloseChannel, TypeOK, SetStatus
  <1>. QED  BY <1>1, <1>2 DEF CloseChannel, CloseChannelChanges, MayCall

-----------------------------------------------------------------------------
(* Each action keeps both ends of its session staged *)

\* What the invariant says of the two ends of a session.
LEMMA Ends ==
    ASSUME HInv, NEW n \in Nodes, NEW s \in Sessions
    PROVE  /\ TypeOK /\ Remote[n] \in Nodes /\ Remote[n] # n /\ Remote[Remote[n]] = n
           /\ promise[n][s] # "none" => promise[Remote[n]][s] = "none"
           /\ Backed(n, s) /\ Backed(Remote[n], s)
           /\ Staged(n, s) /\ Staged(Remote[n], s)
  <1>1. Remote[n] \in Nodes /\ Remote[n] # n /\ Remote[Remote[n]] = n
    BY RemoteAssumption
  <1>. QED  BY <1>1 DEF HInv, IInv, OneOpener

\* KEY_EXCHANGE: the token is consumed, and the responder that could not have
\* been waiting before waits now.
LEMMA HandleKeyExchangeKeeps ==
    ASSUME HInv, ~Inline, NEW n \in Nodes, NEW s \in Sessions, HandleKeyExchange(n, s),
           NEW p \in Nodes, p = Remote[n]
    PROVE  Staged(n, s)' /\ Staged(p, s)'
  <1>. USE DEF Roles, DecisionFirst, OpeningStage, ExchangeStage, ResponseStage,
               ConfirmStage, Settled, InFlight, Decided, HasConfirmed, AfterHandshake, Types
  <1>1. /\ TypeOK /\ p # n /\ Remote[p] = n /\ Remote[n] = p
        /\ promise[n][s] # "none" => promise[p][s] = "none"
        /\ Backed(n, s) /\ Backed(p, s) /\ Staged(n, s) /\ Staged(p, s)
    BY Ends
  <1>2. /\ up' = up /\ channel'[p][s] = channel[p][s] /\ pending'[p][s] = pending[p][s]
        /\ promise'[p][s] = promise[p][s] /\ frames'[p][s] = frames[p][s]
        /\ told'[p][s] = told[p][s] /\ key'[p][s] = key[p][s]
    BY <1>1, StepIsLocal DEF Step, Deliver
  <1>3. /\ Took(net[n], net'[n], s, "KEY_EXCHANGE")
        /\ net'[p] = net[p] \/ Reaches(p, s, "AUTH_RESPONSE")
    BY <1>1, NetEffect DEF HandleKeyExchange
  <1>4. HandleKeyExchangeChanges(n, s)
    BY <1>1, HandleKeyExchangeEffect
  <1>5. Staged(n, s)'
    BY <1>1, <1>2, <1>3, <1>4, SMTT(30)
       DEF HandleKeyExchangeChanges, Staged, Took, Reaches, Gained, ChannelStatus
  <1>6. Staged(p, s)'
    BY <1>1, <1>2, <1>3, <1>4, SMTT(30)
       DEF HandleKeyExchangeChanges, Staged, Took, Reaches, Gained, ChannelStatus
  <1>. QED  BY <1>5, <1>6

\* An inbox without messages that follow a handshake has none out of order.
LEMMA NothingToOrder ==
    ASSUME NEW q, NEW s, \A t \in AfterHandshake : ~Holds(q, s, t)
    PROVE  ConfirmFirst(q, s)
  BY DEF ConfirmFirst, Preceded, Holds

\* HELLO can only make an entry that is waiting for its handshake.
LEMMA HandleHelloKeeps ==
    ASSUME HInv, ~Inline, NEW n \in Nodes, NEW s \in Sessions, HandleHello(n, s),
           NEW p \in Nodes, p = Remote[n]
    PROVE  Staged(n, s)' /\ Staged(p, s)'
  <1>. USE DEF Roles, DecisionFirst, OpeningStage, ExchangeStage, ResponseStage,
               ConfirmStage, Settled, InFlight, Decided, HasConfirmed, AfterHandshake, Types
  <1>1. /\ TypeOK /\ p # n /\ Remote[p] = n /\ Remote[n] = p
        /\ promise[n][s] # "none" => promise[p][s] = "none"
        /\ Backed(n, s) /\ Backed(p, s) /\ Staged(n, s) /\ Staged(p, s)
    BY Ends
  <1>2. /\ up' = up /\ channel'[p][s] = channel[p][s] /\ pending'[p][s] = pending[p][s]
        /\ promise'[p][s] = promise[p][s] /\ frames'[p][s] = frames[p][s]
        /\ told'[p][s] = told[p][s] /\ key'[p][s] = key[p][s]
    BY <1>1, StepIsLocal DEF Step, Deliver
  <1>3. /\ Took(net[n], net'[n], s, "HELLO")
        /\ net'[p] = net[p] \/ Reaches(p, s, "HELLO_ACK")
    BY <1>1, NetEffect DEF HandleHello
  <1>4. HandleHelloChanges(n, s)
    BY <1>1, HandleHelloEffect
  <1>5. Staged(n, s)'
    BY <1>1, <1>2, <1>3, <1>4, NothingToOrder, SMTT(30)
       DEF HandleHelloChanges, Staged, Took, Reaches, Gained
  <1>6. Staged(p, s)'
    BY <1>1, <1>2, <1>3, <1>4, SMTT(30)
       DEF HandleHelloChanges, Staged, Took, Reaches, Gained
  <1>. QED  BY <1>5, <1>6

\* So does HELLO_ACK.
LEMMA HandleHelloAckKeeps ==
    ASSUME HInv, ~Inline, NEW n \in Nodes, NEW s \in Sessions, HandleHelloAck(n, s),
           NEW p \in Nodes, p = Remote[n]
    PROVE  Staged(n, s)' /\ Staged(p, s)'
  <1>. USE DEF Roles, DecisionFirst, OpeningStage, ExchangeStage, ResponseStage,
               ConfirmStage, Settled, InFlight, Decided, HasConfirmed, AfterHandshake, Types
  <1>1. /\ TypeOK /\ p # n /\ Remote[p] = n /\ Remote[n] = p
        /\ promise[n][s] # "none" => promise[p][s] = "none"
        /\ Backed(n, s) /\ Backed(p, s) /\ Staged(n, s) /\ Staged(p, s)
    BY Ends
  <1>2. /\ up' = up /\ channel'[p][s] = channel[p][s] /\ pending'[p][s] = pending[p][s]
        /\ promise'[p][s] = promise[p][s] /\ frames'[p][s] = frames[p][s]
        /\ told'[p][s] = told[p][s] /\ key'[p][s] = key[p][s]
    BY <1>1, StepIsLocal DEF Step, Deliver
  <1>3. Took(net[n], net'[n], s, "HELLO_ACK") /\ net'[p] = net[p]
    BY <1>1, NetEffect DEF HandleHelloAck
  <1>4. HandleHelloAckChanges(n, s)
    BY <1>1, HandleHelloAckEffect
  <1>5. Staged(n, s)'
    BY <1>1, <1>2, <1>3, <1>4, NothingToOrder, SMTT(30)
       DEF HandleHelloAckChanges, Staged, Took, Reaches, Gained
  <1>6. Staged(p, s)'
    BY <1>1, <1>2, <1>3, <1>4, SMTT(30)
       DEF HandleHelloAckChanges, Staged, Took, Reaches, Gained
  <1>. QED  BY <1>5, <1>6

\* AUTH_RESPONSE: the initiator is still in the handshake, and the responder
\* waits for the confirmation it is sent.
LEMMA HandleAuthResponseKeeps ==
    ASSUME HInv, ~Inline, NEW n \in Nodes, NEW s \in Sessions, HandleAuthResponse(n, s),
           NEW p \in Nodes, p = Remote[n]
    PROVE  Staged(n, s)' /\ Staged(p, s)'
  <1>. USE DEF Roles, DecisionFirst, OpeningStage, ExchangeStage, ResponseStage,
               ConfirmStage, Settled, InFlight, Decided, HasConfirmed, AfterHandshake, Types
  <1>1. /\ TypeOK /\ p # n /\ Remote[p] = n /\ Remote[n] = p
        /\ promise[n][s] # "none" => promise[p][s] = "none"
        /\ Backed(n, s) /\ Backed(p, s) /\ Staged(n, s) /\ Staged(p, s)
    BY Ends
  <1>2. /\ up' = up /\ channel'[p][s] = channel[p][s] /\ pending'[p][s] = pending[p][s]
        /\ promise'[p][s] = promise[p][s] /\ frames'[p][s] = frames[p][s]
        /\ told'[p][s] = told[p][s] /\ key'[p][s] = key[p][s]
    BY <1>1, StepIsLocal DEF Step, Deliver
  <1>3. /\ Took(net[n], net'[n], s, "AUTH_RESPONSE")
        /\ \/ net'[p] = net[p] /\ frames'[n][s] = {}
           \/ Reaches(p, s, "AUTH_CONFIRM") /\ frames'[n][s] = {"authResponse"}
    <2>1. CASE Suspend(n, s, "authResponse") /\ \E m \in SignedMsgs("AUTH_CONFIRM", s) : Answer(n, m)
      <3>1. frames'[n][s] = {"authResponse"}
        BY <1>1, <2>1, HandleAuthResponseEffect DEF HandleAuthResponseChanges, Suspend, TypeOK
      <3>. QED  BY <1>1, <2>1, <3>1, NetEffect DEF HandleAuthResponse
    <2>2. CASE Consume(n) /\ UNCHANGED frames
      <3>1. frames'[n][s] = {}
        BY <1>1, <2>2, HandleAuthResponseEffect DEF HandleAuthResponseChanges
      <3>. QED  BY <1>1, <2>2, <3>1, NetEffect DEF HandleAuthResponse
    <2>. QED  BY <2>1, <2>2 DEF HandleAuthResponse
  <1>4. HandleAuthResponseChanges(n, s)
    BY <1>1, HandleAuthResponseEffect
  <1>5. Staged(n, s)'
    BY <1>1, <1>2, <1>3, <1>4, SMTT(30)
       DEF HandleAuthResponseChanges, Staged, Took, Reaches, Gained, Backed, OpeningBacked,
           ConfirmingBacked, CallbackBacked, PendingBacked
  <1>6. Staged(p, s)'
    BY <1>1, <1>2, <1>3, <1>4, SMTT(30)
       DEF HandleAuthResponseChanges, Staged, Took, Reaches, Gained, Backed, OpeningBacked,
           ConfirmingBacked, CallbackBacked, PendingBacked
  <1>. QED  BY <1>5, <1>6

\* AUTH_CONFIRM: the last token is consumed by the responder that waits for it.
LEMMA ResponderReadyKeeps ==
    ASSUME HInv, ~Inline, NEW n \in Nodes, NEW s \in Sessions, ResponderReady(n, s),
           NEW p \in Nodes, p = Remote[n]
    PROVE  Staged(n, s)' /\ Staged(p, s)'
  <1>. USE DEF Roles, DecisionFirst, OpeningStage, ExchangeStage, ResponseStage,
               ConfirmStage, Settled, InFlight, Decided, HasConfirmed, AfterHandshake, Types
  <1>1. /\ TypeOK /\ p # n /\ Remote[p] = n /\ Remote[n] = p
        /\ promise[n][s] # "none" => promise[p][s] = "none"
        /\ Backed(n, s) /\ Backed(p, s) /\ Staged(n, s) /\ Staged(p, s)
    BY Ends
  <1>2. /\ up' = up /\ channel'[p][s] = channel[p][s] /\ pending'[p][s] = pending[p][s]
        /\ promise'[p][s] = promise[p][s] /\ frames'[p][s] = frames[p][s]
        /\ told'[p][s] = told[p][s] /\ key'[p][s] = key[p][s]
    BY <1>1, StepIsLocal DEF Step, Deliver
  <1>3. Took(net[n], net'[n], s, "AUTH_CONFIRM") /\ net'[p] = net[p]
    BY <1>1, NetEffect DEF ResponderReady
  <1>4. ResponderReadyChanges(n, s)
    BY <1>1, ResponderReadyEffect
  <1>5. Staged(n, s)'
    BY <1>1, <1>2, <1>3, <1>4, SMTT(30)
       DEF ResponderReadyChanges, Staged, Took, Reaches, Gained
  <1>6. Staged(p, s)'
    BY <1>1, <1>2, <1>3, <1>4, SMTT(30)
       DEF ResponderReadyChanges, Staged, Took, Reaches, Gained
  <1>. QED  BY <1>5, <1>6

\* A signature that does not verify ends the session at this end; the token is
\* gone, so the other end cannot get further.
LEMMA AuthFailsKeeps ==
    ASSUME HInv, ~Inline, NEW n \in Nodes, NEW s \in Sessions, AuthFails(n, s),
           NEW p \in Nodes, p = Remote[n]
    PROVE  Staged(n, s)' /\ Staged(p, s)'
  <1>. USE DEF Roles, DecisionFirst, OpeningStage, ExchangeStage, ResponseStage,
               ConfirmStage, Settled, InFlight, Decided, HasConfirmed, AfterHandshake, Types
  <1>1. /\ TypeOK /\ p # n /\ Remote[p] = n /\ Remote[n] = p
        /\ promise[n][s] # "none" => promise[p][s] = "none"
        /\ Backed(n, s) /\ Backed(p, s) /\ Staged(n, s) /\ Staged(p, s)
    BY Ends
  <1>2. /\ up' = up /\ channel'[p][s] = channel[p][s] /\ pending'[p][s] = pending[p][s]
        /\ promise'[p][s] = promise[p][s] /\ frames'[p][s] = frames[p][s]
        /\ told'[p][s] = told[p][s] /\ key'[p][s] = key[p][s]
    BY <1>1, StepIsLocal DEF Step, Deliver
  <1>3. /\ net'[p] = net[p]
        /\ \/ pending[n][s] = "initiator" /\ Took(net[n], net'[n], s, "AUTH_RESPONSE")
           \/ pending[n][s] = "responder" /\ Took(net[n], net'[n], s, "AUTH_CONFIRM")
    BY <1>1, NetEffect DEF AuthFails
  <1>4. AuthFailsChanges(n, s)
    BY <1>1, AuthFailsEffect
  <1>5. Staged(n, s)'
    BY <1>1, <1>2, <1>3, <1>4, SMTT(30)
       DEF AuthFailsChanges, Staged, Took, Reaches, Gained
  <1>6. Staged(p, s)'
    BY <1>1, <1>2, <1>3, <1>4, SMTT(30)
       DEF AuthFailsChanges, Staged, Took, Reaches, Gained
  <1>. QED  BY <1>5, <1>6

\* An application message changes no end.
LEMMA HandleAppMessageKeeps ==
    ASSUME HInv, ~Inline, NEW n \in Nodes, NEW s \in Sessions, HandleAppMessage(n, s),
           NEW p \in Nodes, p = Remote[n]
    PROVE  Staged(n, s)' /\ Staged(p, s)'
  <1>. USE DEF Roles, DecisionFirst, OpeningStage, ExchangeStage, ResponseStage,
               ConfirmStage, Settled, InFlight, Decided, HasConfirmed, AfterHandshake, Types
  <1>1. /\ TypeOK /\ p # n /\ Remote[p] = n /\ Remote[n] = p
        /\ promise[n][s] # "none" => promise[p][s] = "none"
        /\ Backed(n, s) /\ Backed(p, s) /\ Staged(n, s) /\ Staged(p, s)
    BY Ends
  <1>2. /\ up' = up /\ channel'[p][s] = channel[p][s] /\ pending'[p][s] = pending[p][s]
        /\ promise'[p][s] = promise[p][s] /\ frames'[p][s] = frames[p][s]
        /\ told'[p][s] = told[p][s] /\ key'[p][s] = key[p][s]
    BY <1>1, StepIsLocal DEF Step, Deliver
  <1>3. Took(net[n], net'[n], s, "APP") /\ net'[p] = net[p]
    BY <1>1, NetEffect DEF HandleAppMessage
  <1>4. HandleAppMessageChanges(n, s)
    BY <1>1, HandleAppMessageEffect
  <1>5. Staged(n, s)'
    BY <1>1, <1>2, <1>3, <1>4, SMTT(30)
       DEF HandleAppMessageChanges, Staged, Took, Reaches, Gained
  <1>6. Staged(p, s)'
    BY <1>1, <1>2, <1>3, <1>4, SMTT(30)
       DEF HandleAppMessageChanges, Staged, Took, Reaches, Gained
  <1>. QED  BY <1>5, <1>6

\* No AUTH_CONFIRM is ever ignored: who is sent one waits for it.
LEMMA IgnoreDataKeeps ==
    ASSUME HInv, ~Inline, NEW n \in Nodes, NEW s \in Sessions, IgnoreData(n, s),
           NEW p \in Nodes, p = Remote[n]
    PROVE  Staged(n, s)' /\ Staged(p, s)'
  <1>. USE DEF Roles, DecisionFirst, OpeningStage, ExchangeStage, ResponseStage,
               ConfirmStage, Settled, InFlight, Decided, HasConfirmed, AfterHandshake, Types
  <1>1. /\ TypeOK /\ p # n /\ Remote[p] = n /\ Remote[n] = p
        /\ promise[n][s] # "none" => promise[p][s] = "none"
        /\ Backed(n, s) /\ Backed(p, s) /\ Staged(n, s) /\ Staged(p, s)
    BY Ends
  <1>2. /\ up' = up /\ channel'[p][s] = channel[p][s] /\ pending'[p][s] = pending[p][s]
        /\ promise'[p][s] = promise[p][s] /\ frames'[p][s] = frames[p][s]
        /\ told'[p][s] = told[p][s] /\ key'[p][s] = key[p][s]
    BY <1>1, StepIsLocal DEF Step, Deliver
  <1>3. /\ net'[p] = net[p]
        /\ \/ Took(net[n], net'[n], s, "KEY_EXCHANGE")
           \/ Took(net[n], net'[n], s, "AUTH_RESPONSE")
           \/ pending[n][s] # "responder" /\ Took(net[n], net'[n], s, "AUTH_CONFIRM")
    BY <1>1, NetEffect DEF IgnoreData
  <1>4. IgnoreDataChanges(n, s)
    BY <1>1, IgnoreDataEffect
  <1>5. Staged(n, s)'
    BY <1>1, <1>2, <1>3, <1>4, SMTT(30)
       DEF IgnoreDataChanges, Staged, Took, Reaches, Gained
  <1>6. Staged(p, s)'
    BY <1>1, <1>2, <1>3, <1>4, SMTT(30)
       DEF IgnoreDataChanges, Staged, Took, Reaches, Gained
  <1>. QED  BY <1>5, <1>6

\* GOODBYE comes after the handshake: n is neither waiting for a confirmation
\* nor for an answer.
LEMMA HandleGoodbyeKeeps ==
    ASSUME HInv, ~Inline, NEW n \in Nodes, NEW s \in Sessions, HandleGoodbye(n, s),
           NEW p \in Nodes, p = Remote[n]
    PROVE  Staged(n, s)' /\ Staged(p, s)'
  <1>. USE DEF Roles, DecisionFirst, OpeningStage, ExchangeStage, ResponseStage,
               ConfirmStage, Settled, InFlight, Decided, HasConfirmed, AfterHandshake, Types
  <1>1. /\ TypeOK /\ p # n /\ Remote[p] = n /\ Remote[n] = p
        /\ promise[n][s] # "none" => promise[p][s] = "none"
        /\ Backed(n, s) /\ Backed(p, s) /\ Staged(n, s) /\ Staged(p, s)
    BY Ends
  <1>2. /\ up' = up /\ channel'[p][s] = channel[p][s] /\ pending'[p][s] = pending[p][s]
        /\ promise'[p][s] = promise[p][s] /\ frames'[p][s] = frames[p][s]
        /\ told'[p][s] = told[p][s] /\ key'[p][s] = key[p][s]
    BY <1>1, StepIsLocal DEF Step, Deliver
  <1>3. Took(net[n], net'[n], s, "GOODBYE") /\ net'[p] = net[p]
    BY <1>1, NetEffect DEF HandleGoodbye
  <1>4. HandleGoodbyeChanges(n, s)
    BY <1>1, HandleGoodbyeEffect
  <1>5. Staged(n, s)'
    BY <1>1, <1>2, <1>3, <1>4, SMTT(30)
       DEF HandleGoodbyeChanges, Staged, Took, Reaches, Gained
  <1>6. Staged(p, s)'
    BY <1>1, <1>2, <1>3, <1>4, SMTT(30)
       DEF HandleGoodbyeChanges, Staged, Took, Reaches, Gained
  <1>. QED  BY <1>5, <1>6

\* openSession's token becomes a KEY_EXCHANGE, the first and only one.
LEMMA SendKeyExchangeKeeps ==
    ASSUME HInv, ~Inline, NEW n \in Nodes, NEW s \in Sessions, SendKeyExchange(n, s),
           NEW p \in Nodes, p = Remote[n]
    PROVE  Staged(n, s)' /\ Staged(p, s)'
  <1>. USE DEF Roles, DecisionFirst, OpeningStage, ExchangeStage, ResponseStage,
               ConfirmStage, Settled, InFlight, Decided, HasConfirmed, AfterHandshake, Types
  <1>1. /\ TypeOK /\ p # n /\ Remote[p] = n /\ Remote[n] = p
        /\ promise[n][s] # "none" => promise[p][s] = "none"
        /\ Backed(n, s) /\ Backed(p, s) /\ Staged(n, s) /\ Staged(p, s)
    BY Ends
  <1>2. /\ up' = up /\ channel'[p][s] = channel[p][s] /\ pending'[p][s] = pending[p][s]
        /\ promise'[p][s] = promise[p][s] /\ frames'[p][s] = frames[p][s]
        /\ told'[p][s] = told[p][s] /\ key'[p][s] = key[p][s]
    BY <1>1, StepIsLocal DEF Step, Continue
  <1>3. /\ net'[n] = net[n]
        /\ \/ Reaches(p, s, "KEY_EXCHANGE") /\ up[n] /\ promise'[n][s] = promise[n][s]
           \/ net'[p] = net[p]
    BY <1>1, NetEffect DEF SendKeyExchange
  <1>4. SendKeyExchangeChanges(n, s)
    BY <1>1, SendKeyExchangeEffect
  <1>5. Staged(n, s)'
    BY <1>1, <1>2, <1>3, <1>4, SMTT(30)
       DEF SendKeyExchangeChanges, Staged, Took, Reaches, Gained, Backed, OpeningBacked,
           ConfirmingBacked, CallbackBacked, PendingBacked
  <1>6. Staged(p, s)'
    BY <1>1, <1>2, <1>3, <1>4, SMTT(30)
       DEF SendKeyExchangeChanges, Staged, Took, Reaches, Gained, Backed, OpeningBacked,
           ConfirmingBacked, CallbackBacked, PendingBacked
  <1>. QED  BY <1>5, <1>6

\* The initiator was in the handshake when it confirmed and still is.
LEMMA InitiatorReadyKeeps ==
    ASSUME HInv, ~Inline, NEW n \in Nodes, NEW s \in Sessions, InitiatorReady(n, s),
           NEW p \in Nodes, p = Remote[n]
    PROVE  Staged(n, s)' /\ Staged(p, s)'
  <1>. USE DEF Roles, DecisionFirst, OpeningStage, ExchangeStage, ResponseStage,
               ConfirmStage, Settled, InFlight, Decided, HasConfirmed, AfterHandshake, Types
  <1>1. /\ TypeOK /\ p # n /\ Remote[p] = n /\ Remote[n] = p
        /\ promise[n][s] # "none" => promise[p][s] = "none"
        /\ Backed(n, s) /\ Backed(p, s) /\ Staged(n, s) /\ Staged(p, s)
    BY Ends
  <1>2. /\ up' = up /\ channel'[p][s] = channel[p][s] /\ pending'[p][s] = pending[p][s]
        /\ promise'[p][s] = promise[p][s] /\ frames'[p][s] = frames[p][s]
        /\ told'[p][s] = told[p][s] /\ key'[p][s] = key[p][s]
    BY <1>1, StepIsLocal DEF Step, Continue
  <1>3. net'[n] = net[n] /\ net'[p] = net[p]
    BY <1>1, NetEffect DEF InitiatorReady
  <1>4. InitiatorReadyChanges(n, s)
    BY <1>1, InitiatorReadyEffect
  <1>5. Staged(n, s)'
    BY <1>1, <1>2, <1>3, <1>4, SMTT(30)
       DEF InitiatorReadyChanges, Staged, Took, Reaches, Gained, Backed, OpeningBacked,
           ConfirmingBacked, CallbackBacked, PendingBacked
  <1>6. Staged(p, s)'
    BY <1>1, <1>2, <1>3, <1>4, SMTT(30)
       DEF InitiatorReadyChanges, Staged, Took, Reaches, Gained, Backed, OpeningBacked,
           ConfirmingBacked, CallbackBacked, PendingBacked
  <1>. QED  BY <1>5, <1>6

\* What the application did in onChannelReady has only brought the end nearer.
LEMMA InitiatorResolvesKeeps ==
    ASSUME HInv, ~Inline, NEW n \in Nodes, NEW s \in Sessions, InitiatorResolves(n, s),
           NEW p \in Nodes, p = Remote[n]
    PROVE  Staged(n, s)' /\ Staged(p, s)'
  <1>. USE DEF Roles, DecisionFirst, OpeningStage, ExchangeStage, ResponseStage,
               ConfirmStage, Settled, InFlight, Decided, HasConfirmed, AfterHandshake, Types
  <1>1. /\ TypeOK /\ p # n /\ Remote[p] = n /\ Remote[n] = p
        /\ promise[n][s] # "none" => promise[p][s] = "none"
        /\ Backed(n, s) /\ Backed(p, s) /\ Staged(n, s) /\ Staged(p, s)
    BY Ends
  <1>2. /\ up' = up /\ channel'[p][s] = channel[p][s] /\ pending'[p][s] = pending[p][s]
        /\ promise'[p][s] = promise[p][s] /\ frames'[p][s] = frames[p][s]
        /\ told'[p][s] = told[p][s] /\ key'[p][s] = key[p][s]
    BY <1>1, StepIsLocal DEF Step, Continue
  <1>3. net'[n] = net[n] /\ net'[p] = net[p]
    BY <1>1, NetEffect DEF InitiatorResolves
  <1>4. InitiatorResolvesChanges(n, s)
    BY <1>1, InitiatorResolvesEffect
  <1>5. Staged(n, s)'
    BY <1>1, <1>2, <1>3, <1>4, SMTT(30)
       DEF InitiatorResolvesChanges, Staged, Took, Reaches, Gained, Backed, OpeningBacked,
           ConfirmingBacked, CallbackBacked, PendingBacked
  <1>6. Staged(p, s)'
    BY <1>1, <1>2, <1>3, <1>4, SMTT(30)
       DEF InitiatorResolvesChanges, Staged, Took, Reaches, Gained, Backed, OpeningBacked,
           ConfirmingBacked, CallbackBacked, PendingBacked
  <1>. QED  BY <1>5, <1>6

\* A close that ends has no handshake left to disturb.
LEMMA DisconnectedKeeps ==
    ASSUME HInv, ~Inline, NEW n \in Nodes, NEW s \in Sessions, Disconnected(n, s),
           NEW p \in Nodes, p = Remote[n]
    PROVE  Staged(n, s)' /\ Staged(p, s)'
  <1>. USE DEF Roles, DecisionFirst, OpeningStage, ExchangeStage, ResponseStage,
               ConfirmStage, Settled, InFlight, Decided, HasConfirmed, AfterHandshake, Types
  <1>1. /\ TypeOK /\ p # n /\ Remote[p] = n /\ Remote[n] = p
        /\ promise[n][s] # "none" => promise[p][s] = "none"
        /\ Backed(n, s) /\ Backed(p, s) /\ Staged(n, s) /\ Staged(p, s)
    BY Ends
  <1>2. /\ up' = up /\ channel'[p][s] = channel[p][s] /\ pending'[p][s] = pending[p][s]
        /\ promise'[p][s] = promise[p][s] /\ frames'[p][s] = frames[p][s]
        /\ told'[p][s] = told[p][s] /\ key'[p][s] = key[p][s]
    BY <1>1, StepIsLocal DEF Step, Continue
  <1>3. net'[n] = net[n] /\ net'[p] = net[p]
    BY <1>1, NetEffect DEF Disconnected
  <1>4. DisconnectedChanges(n, s)
    BY <1>1, DisconnectedEffect
  <1>5. Staged(n, s)'
    BY <1>1, <1>2, <1>3, <1>4, SMTT(30)
       DEF DisconnectedChanges, Staged, Took, Reaches, Gained, Backed, OpeningBacked,
           ConfirmingBacked, CallbackBacked, PendingBacked
  <1>6. Staged(p, s)'
    BY <1>1, <1>2, <1>3, <1>4, SMTT(30)
       DEF DisconnectedChanges, Staged, Took, Reaches, Gained, Backed, OpeningBacked,
           ConfirmingBacked, CallbackBacked, PendingBacked
  <1>. QED  BY <1>5, <1>6

\* The application can send only after the decision, and behind it.
LEMMA SendMessageKeeps ==
    ASSUME HInv, ~Inline, NEW n \in Nodes, NEW s \in Sessions, SendMessage(n, s),
           NEW p \in Nodes, p = Remote[n]
    PROVE  Staged(n, s)' /\ Staged(p, s)'
  <1>. USE DEF Roles, DecisionFirst, OpeningStage, ExchangeStage, ResponseStage,
               ConfirmStage, Settled, InFlight, Decided, HasConfirmed, AfterHandshake, Types
  <1>1. /\ TypeOK /\ p # n /\ Remote[p] = n /\ Remote[n] = p
        /\ promise[n][s] # "none" => promise[p][s] = "none"
        /\ Backed(n, s) /\ Backed(p, s) /\ Staged(n, s) /\ Staged(p, s)
    BY Ends
  <1>2. /\ up' = up /\ channel'[p][s] = channel[p][s] /\ pending'[p][s] = pending[p][s]
        /\ promise'[p][s] = promise[p][s] /\ frames'[p][s] = frames[p][s]
        /\ told'[p][s] = told[p][s] /\ key'[p][s] = key[p][s]
    BY <1>1, StepIsLocal DEF Step, Application
  <1>3. net'[n] = net[n] /\ (net'[p] = net[p] \/ Reaches(p, s, "APP"))
    BY <1>1, NetEffect DEF SendMessage
  <1>4. SendMessageChanges(n, s)
    BY <1>1, SendMessageEffect
  <1>5. Staged(n, s)'
    BY <1>1, <1>2, <1>3, <1>4, SMTT(30)
       DEF SendMessageChanges, Staged, Took, Reaches, Gained
  <1>6. Staged(p, s)'
    BY <1>1, <1>2, <1>3, <1>4, SMTT(30)
       DEF SendMessageChanges, Staged, Took, Reaches, Gained
  <1>. QED  BY <1>5, <1>6

\* It can close only then, too.
LEMMA CloseChannelKeeps ==
    ASSUME HInv, ~Inline, NEW n \in Nodes, NEW s \in Sessions, CloseChannel(n, s),
           NEW p \in Nodes, p = Remote[n]
    PROVE  Staged(n, s)' /\ Staged(p, s)'
  <1>. USE DEF Roles, DecisionFirst, OpeningStage, ExchangeStage, ResponseStage,
               ConfirmStage, Settled, InFlight, Decided, HasConfirmed, AfterHandshake, Types
  <1>1. /\ TypeOK /\ p # n /\ Remote[p] = n /\ Remote[n] = p
        /\ promise[n][s] # "none" => promise[p][s] = "none"
        /\ Backed(n, s) /\ Backed(p, s) /\ Staged(n, s) /\ Staged(p, s)
    BY Ends
  <1>2. /\ up' = up /\ channel'[p][s] = channel[p][s] /\ pending'[p][s] = pending[p][s]
        /\ promise'[p][s] = promise[p][s] /\ frames'[p][s] = frames[p][s]
        /\ told'[p][s] = told[p][s] /\ key'[p][s] = key[p][s]
    BY <1>1, StepIsLocal DEF Step, Application
  <1>3. net'[n] = net[n] /\ (net'[p] = net[p] \/ Reaches(p, s, "GOODBYE"))
    BY <1>1, NetEffect DEF CloseChannel
  <1>4. CloseChannelChanges(n, s)
    BY <1>1, CloseChannelEffect
  <1>5. Staged(n, s)'
    BY <1>1, <1>2, <1>3, <1>4, SMTT(30)
       DEF CloseChannelChanges, Staged, Took, Reaches, Gained, Backed, OpeningBacked,
           ConfirmingBacked, CallbackBacked, PendingBacked
  <1>6. Staged(p, s)'
    BY <1>1, <1>2, <1>3, <1>4, SMTT(30)
       DEF CloseChannelChanges, Staged, Took, Reaches, Gained, Backed, OpeningBacked,
           ConfirmingBacked, CallbackBacked, PendingBacked
  <1>. QED  BY <1>5, <1>6

\* A session is opened with an id nothing refers to.
LEMMA OpenChannelKeeps ==
    ASSUME HInv, ~Inline, NEW n \in Nodes, NEW s \in Sessions, OpenChannel(n, s),
           NEW p \in Nodes, p = Remote[n]
    PROVE  Staged(n, s)' /\ Staged(p, s)'
  <1>. USE DEF Roles, DecisionFirst, OpeningStage, ExchangeStage, ResponseStage,
               ConfirmStage, Settled, InFlight, Decided, HasConfirmed, AfterHandshake, Types
  <1>1. /\ TypeOK /\ p # n /\ Remote[p] = n /\ Remote[n] = p
        /\ Staged(n, s) /\ Staged(p, s)
    BY Ends
  <1>2. /\ up' = up /\ channel'[p][s] = channel[p][s] /\ pending'[p][s] = pending[p][s]
        /\ promise'[p][s] = promise[p][s] /\ frames'[p][s] = frames[p][s]
        /\ told'[p][s] = told[p][s] /\ key'[p][s] = key[p][s]
    BY <1>1, StepIsLocal DEF Step, Application
  <1>3. /\ ~Opened(s) /\ promise[n][s] = "none" /\ promise[p][s] = "none"
    BY DEF OpenChannel, Opened
  <1>4. \A q \in {n, p} : /\ ~told[q][s] /\ frames[q][s] = {}
                          /\ channel[q][s] = "none" /\ pending[q][s] = "none"
                          /\ \A t \in Types : ~Holds(net[q], s, t)
    BY <1>3 DEF HInv, IInv, FreshIsUnused, FreshIsEmpty, Unmentioned, Holds
  <1>5. /\ channel' = channel /\ pending' = pending /\ told' = told /\ key' = key
        /\ net'[n] = net[n]
        /\ \/ /\ frames'[n][s] = {"openSession"} /\ promise'[n][s] = "pending"
              /\ Reaches(p, s, "HELLO")
           \/ frames'[n][s] = {} /\ promise'[n][s] = "rejected" /\ net'[p] = net[p]
    <2>1. CASE Send(n, Msg("HELLO", s)) /\ Suspend(n, s, "openSession")
               /\ promise' = [promise EXCEPT ![n][s] = "pending"]
      <3>1. frames'[n][s] = {"openSession"} /\ promise'[n][s] = "pending"
        BY <1>1, <1>4, <2>1 DEF Suspend, TypeOK
      <3>. QED  BY <1>1, <2>1, <3>1, NetEffect DEF OpenChannel
    <2>2. CASE promise' = [promise EXCEPT ![n][s] = "rejected"] /\ UNCHANGED <<net, frames>>
      BY <1>1, <1>4, <2>2 DEF OpenChannel, TypeOK
    <2>. QED  BY <2>1, <2>2 DEF OpenChannel
  <1>6. Staged(n, s)'
    BY <1>1, <1>2, <1>3, <1>4, <1>5 DEF Staged, Reaches, Gained
  <1>7. Staged(p, s)'
    BY <1>1, <1>2, <1>3, <1>4, <1>5 DEF Staged, Reaches, Gained
  <1>. QED  BY <1>6, <1>7

\* So every step keeps the session it is about staged, at both ends.
LEMMA StepKeepsEnds ==
    ASSUME HInv, ~Inline, NEW n \in Nodes, NEW s \in Sessions, Step(n, s)
    PROVE  Staged(n, s)' /\ Staged(Remote[n], s)'
  <1>1. PICK p \in Nodes : p = Remote[n]
    BY RemoteAssumption
  <1>2. CASE Deliver(n, s)
    BY <1>1, <1>2, HandleHelloKeeps, HandleHelloAckKeeps, HandleKeyExchangeKeeps,
       HandleAuthResponseKeeps, ResponderReadyKeeps, AuthFailsKeeps, HandleAppMessageKeeps,
       IgnoreDataKeeps, HandleGoodbyeKeeps DEF Deliver
  <1>3. CASE Continue(n, s)
    BY <1>1, <1>3, SendKeyExchangeKeeps, InitiatorReadyKeeps, InitiatorResolvesKeeps,
       DisconnectedKeeps DEF Continue
  <1>4. CASE Application(n, s)
    BY <1>1, <1>4, OpenChannelKeeps, SendMessageKeeps, CloseChannelKeeps DEF Application
  <1>. QED  BY <1>2, <1>3, <1>4 DEF Step

-----------------------------------------------------------------------------
(* Other nodes and other sessions *)

\* All a step does to inboxes: one message of s may leave n's, and one of s may
\* be added to the peer's.
LEMMA StepNet ==
    ASSUME TypeOK, ~Inline, NEW n \in Nodes, NEW s \in Sessions, Step(n, s), NEW q \in Nodes
    PROVE  \/ net'[q] = net[q]
           \/ /\ q = n /\ net[n] # << >> /\ Head(net[n]).sid = s
              /\ net'[n] = Tail(net[n])
           \/ /\ q = Remote[n]
              /\ \E m \in Message : m.sid = s /\ net'[q] = Append(net[q], m)
  <1>1. Remote[n] \in Nodes /\ Remote[n] # n
    BY RemoteAssumption
  <1>2. CASE UNCHANGED net
    BY <1>2
  <1>3. CASE \E t \in Types : Receiving(n, s, t) /\ Consume(n)
    BY <1>3 DEF Receiving, Consume, TypeOK
  <1>4. ASSUME NEW m \in Message, m.sid = s, Send(n, m)
        PROVE  \/ net'[q] = net[q]
               \/ q = Remote[n] /\ net'[q] = Append(net[q], m)
    BY <1>1, <1>4 DEF Send, Arrival, TypeOK
  <1>5. ASSUME NEW m \in Message, m.sid = s, Answer(n, m), NEW t \in Types, Receiving(n, s, t)
        PROVE  \/ net'[q] = net[q]
               \/ /\ q = n /\ net[n] # << >> /\ Head(net[n]).sid = s
                  /\ net'[n] = Tail(net[n])
               \/ q = Remote[n] /\ net'[q] = Append(net[q], m)
    <2>1. net[n] # << >> /\ Head(net[n]).sid = s
      BY <1>5 DEF Receiving
    <2>. QED  BY <1>1, <1>5, <2>1 DEF Answer, Arrival, TypeOK
  <1>6. \/ UNCHANGED net
        \/ \E t \in Types : Receiving(n, s, t) /\ Consume(n)
        \/ \E t \in Types : Send(n, Msg(t, s))
        \/ \E t, u \in Types : Receiving(n, s, t) /\ Answer(n, Msg(u, s))
        \/ \E t, u \in Types : Receiving(n, s, t) /\ \E m \in SignedMsgs(u, s) : Answer(n, m)
    <2>1. CASE Deliver(n, s)
      BY <2>1 DEF Deliver, HandleHello, HandleHelloAck, HandleKeyExchange, HandleAuthResponse,
         ResponderReady, AuthFails, HandleAppMessage, IgnoreData, HandleGoodbye, Types
    <2>2. CASE Continue(n, s)
      BY <2>2 DEF Continue, SendKeyExchange, InitiatorReady, InitiatorResolves, Disconnected,
         Types
    <2>3. CASE Application(n, s)
      BY <2>3 DEF Application, OpenChannel, SendMessage, CloseChannel, Types
    <2>. QED  BY <2>1, <2>2, <2>3 DEF Step
  <1>7. CASE \E t \in Types : Send(n, Msg(t, s))
    BY <1>4, <1>7, Built
  <1>8. CASE \E t, u \in Types : Receiving(n, s, t) /\ Answer(n, Msg(u, s))
    BY <1>5, <1>8, Built
  <1>9. CASE \E t, u \in Types : Receiving(n, s, t) /\ \E m \in SignedMsgs(u, s) : Answer(n, m)
    BY <1>5, <1>9, Built
  <1>. QED  BY <1>2, <1>3, <1>6, <1>7, <1>8, <1>9

\* For every other session the inboxes stay the same.
LEMMA StepKeepsInboxes ==
    ASSUME TypeOK, ~Inline, NEW n \in Nodes, NEW s \in Sessions, Step(n, s),
           NEW q \in Nodes, NEW r \in Sessions, r # s \/ (q # n /\ q # Remote[n])
    PROVE  Kept(net[q], net'[q], r)
  <1>1. net[q] \in Seq(Message)
    BY DEF TypeOK
  <1>2. CASE net'[q] = net[q]
    BY <1>2 DEF Kept
  <1>3. CASE r # s /\ q = n /\ net[n] # << >> /\ Head(net[n]).sid = s /\ net'[n] = Tail(net[n])
    BY <1>1, <1>3, TailTakes
  <1>4. ASSUME r # s, NEW m \in Message, m.sid = s, net'[q] = Append(net[q], m)
        PROVE  Kept(net[q], net'[q], r)
    BY <1>1, <1>4, AppendGains
  <1>. QED  BY <1>2, <1>3, <1>4, StepNet

\* A step about s at n and its peer leaves everything else staged.
LEMMA StepKeepsElsewhere ==
    ASSUME HInv, ~Inline, NEW n \in Nodes, NEW s \in Sessions, Step(n, s),
           NEW x \in Nodes, NEW r \in Sessions, r # s \/ (x # n /\ x # Remote[n])
    PROVE  Staged(x, r)'
  <1>. USE DEF Roles, DecisionFirst, OpeningStage, ExchangeStage, ResponseStage,
               ConfirmStage, Settled, InFlight, Decided, HasConfirmed, AfterHandshake, Types
  <1>1. PICK y \in Nodes : y = Remote[x] /\ Remote[y] = x
    BY RemoteAssumption
  <1>2. TypeOK /\ Staged(x, r)
    BY DEF HInv, IInv
  <1>3. r # s \/ (y # n /\ y # Remote[n])
    BY <1>1, RemoteAssumption
  <1>4. \A q \in {x, y} :
           /\ channel'[q][r] = channel[q][r] /\ pending'[q][r] = pending[q][r]
           /\ promise'[q][r] = promise[q][r] /\ frames'[q][r] = frames[q][r]
           /\ told'[q][r] = told[q][r] /\ key'[q][r] = key[q][r] /\ up' = up
    BY <1>2, <1>3, StepIsLocal
  <1>5. Kept(net[x], net'[x], r) /\ Kept(net[y], net'[y], r)
    BY <1>2, <1>3, StepKeepsInboxes
  <1>. QED  BY <1>1, <1>2, <1>4, <1>5 DEF Staged, Kept

\* Only openChannel makes a promise.
LEMMA StepKeepsPromises ==
    ASSUME TypeOK, NEW n \in Nodes, NEW s \in Sessions, Step(n, s), ~OpenChannel(n, s),
           NEW q \in Nodes, NEW r \in Sessions
    PROVE  promise'[q][r] = "none" <=> promise[q][r] = "none"
  <1>1. promise' = promise \/ \E o \in {"resolved", "rejected"} : Settle(n, s, o)
    BY DEF Step, Deliver, Continue, Application, HandleHello, HandleHelloAck,
       HandleKeyExchange, HandleAuthResponse, ResponderReady, AuthFails, HandleAppMessage,
       IgnoreData, HandleGoodbye, SendKeyExchange, InitiatorReady, InitiatorResolves,
       Disconnected, SendMessage, CloseChannel, FailChannel
  <1>. QED  BY <1>1 DEF Settle, TypeOK

\* No session gets a second opener, and no unopened session an entry.
LEMMA StepKeepsOpeners ==
    ASSUME HInv, NEW n \in Nodes, NEW s \in Sessions, Step(n, s)
    PROVE  OneOpener' /\ FreshIsEmpty'
  <1>0. TypeOK /\ FreshIsUnused
    BY DEF HInv, IInv
  <1>1. OneOpener'
    <2>1. CASE OpenChannel(n, s)
      <3>1. ASSUME NEW q \in Nodes, NEW r \in Sessions, q # n \/ r # s
            PROVE  promise'[q][r] = promise[q][r]
        BY <1>0, <2>1, <3>1, StepIsLocal DEF Step, Application
      <3>2. \A m \in Nodes : promise[m][s] = "none"
        BY <2>1 DEF OpenChannel
      <3>. QED  BY <3>1, <3>2 DEF HInv, OneOpener
    <2>2. CASE ~OpenChannel(n, s)
      BY <1>0, <2>2, StepKeepsPromises DEF HInv, OneOpener
    <2>. QED  BY <2>1, <2>2
  <1>2. ASSUME NEW r \in Sessions, ~Opened(r)', NEW q \in Nodes
        PROVE  channel'[q][r] = "none" /\ pending'[q][r] = "none"
    <2>1. r # s
      BY <1>0, <1>2, StepIsOpened
    <2>2. \A m \in Nodes : promise'[m][r] = promise[m][r]
      BY <1>0, <2>1, StepIsLocal
    <2>3. ~Opened(r)
      BY <1>2, <2>2 DEF Opened
    <2>4. channel[q][r] = "none" /\ pending[q][r] = "none"
      BY <2>3 DEF HInv, FreshIsEmpty
    <2>. QED  BY <1>0, <2>1, <2>4, StepIsLocal
  <1>. QED  BY <1>1, <1>2 DEF FreshIsEmpty

\* stop takes n's own entries and inbox, and perhaps the end of what it had
\* sent: what is left still comes in the order of the handshake.
LEMMA StopKeepsStaged ==
    ASSUME HInv, ~Inline, NEW n \in Nodes, Stop(n), NEW x \in Nodes, NEW r \in Sessions
    PROVE  Staged(x, r)'
  <1>. USE DEF Roles, DecisionFirst, OpeningStage, ExchangeStage, ResponseStage,
               ConfirmStage, Settled, InFlight, Decided, HasConfirmed, AfterHandshake, Types
  <1>1. PICK y \in Nodes : y = Remote[x] /\ Remote[y] = x /\ x # y
    BY RemoteAssumption
  <1>2. TypeOK /\ Staged(x, r)
    BY DEF HInv, IInv
  <1>3. UNCHANGED <<key, promise, frames, told>>
    BY DEF Stop
  <1>4. /\ ~up'[n] /\ channel'[n][r] = "none" /\ pending'[n][r] = "none"
        /\ \A q \in Nodes \ {n} : /\ up'[q] = up[q] /\ channel'[q][r] = channel[q][r]
                                  /\ pending'[q][r] = pending[q][r]
    BY <1>2 DEF Stop, TypeOK
  <1>5. PICK k \in 0 .. Len(net[Remote[n]]) :
           net' = [net EXCEPT ![n] = << >>, ![Remote[n]] = SubSeq(@, 1, k)]
    BY DEF Stop
  <1>6. Remote[n] \in Nodes /\ Remote[n] # n
    BY RemoteAssumption
  <1>7. /\ net'[n] = << >> /\ net'[Remote[n]] = SubSeq(net[Remote[n]], 1, k)
        /\ \A q \in Nodes \ {n, Remote[n]} : net'[q] = net[q]
    BY <1>2, <1>5, <1>6 DEF TypeOK
  <1>8. \A t \in Types : ~Holds(net'[n], r, t)
    BY <1>2, <1>7, EmptyShortens DEF TypeOK
  <1>9. \A q \in Nodes : Shortened(net[q], net'[q], r) /\ (q # n /\ q # Remote[n] => net'[q] = net[q])
    <2>1. \A q \in Nodes : net[q] \in Seq(Message)
      BY <1>2 DEF TypeOK
    <2>2. Shortened(net[n], net'[n], r)
      BY <1>7, <2>1, EmptyShortens
    <2>3. Shortened(net[Remote[n]], net'[Remote[n]], r)
      BY <1>6, <1>7, <2>1, PrefixShortens
    <2>4. \A q \in Nodes : net'[q] = net[q] => Shortened(net[q], net'[q], r)
      BY DEF Shortened
    <2>. QED  BY <1>7, <2>2, <2>3, <2>4
  <1>10. CASE x = n
    BY <1>1, <1>2, <1>3, <1>4, <1>8, <1>9, <1>10 DEF Staged, Shortened
  <1>11. CASE y = n
    BY <1>1, <1>2, <1>3, <1>4, <1>8, <1>9, <1>11 DEF Staged, Shortened
  <1>12. CASE x # n /\ y # n
    <2>1. net'[x] = net[x] /\ net'[y] = net[y]
      BY <1>1, <1>9, <1>12, RemoteAssumption
    <2>. QED  BY <1>1, <1>2, <1>3, <1>4, <1>12, <2>1 DEF Staged
  <1>. QED  BY <1>10, <1>11, <1>12

\* The stages hold of every behaviour over an open data channel, with stops,
\* rejected sends and signatures that do not verify.
THEOREM HandshakeInvariance == ASSUME ~Inline PROVE Spec => []HInv
<1>1. Init => HInv
  <2>. SUFFICES ASSUME Init PROVE HInv
    OBVIOUS
  <2>1. IInv
    <3>1. TypeOK
      BY DEF Init, TypeOK, ChannelStatus
    <3>2. FreshIsUnused
      BY DEF Init, FreshIsUnused, Unmentioned
    <3>3. \A n \in Nodes, s \in Sessions : Backed(n, s)
      BY DEF Init, Backed, OpeningBacked, ConfirmingBacked, CallbackBacked, PendingBacked,
             ReadyBacked
    <3>. QED  BY <3>1, <3>2, <3>3 DEF IInv
  <2>2. OneOpener /\ FreshIsEmpty
    BY DEF Init, OneOpener, FreshIsEmpty
  <2>3. ASSUME NEW n \in Nodes, NEW s \in Sessions PROVE Staged(n, s)
    <3>1. Remote[n] \in Nodes
      BY RemoteAssumption
    <3>. QED
      BY <3>1 DEF Init, Staged, Roles, DecisionFirst, OpeningStage, ExchangeStage,
                  ResponseStage,
         ConfirmStage, Settled, InFlight, Holds, Single, ConfirmFirst, Preceded, HasConfirmed
  <2>. QED  BY <2>1, <2>2, <2>3 DEF HInv
<1>2. HInv /\ IInv' /\ [Next]_vars => HInv'
  <2>. SUFFICES ASSUME HInv, IInv', [Next]_vars PROVE HInv'
    OBVIOUS
  <2>1. ASSUME NEW n \in Nodes, NEW s \in Sessions, Step(n, s) PROVE HInv'
    <3>1. \A x \in Nodes, r \in Sessions : Staged(x, r)'
      BY <2>1, StepKeepsEnds, StepKeepsElsewhere
    <3>. QED  BY <2>1, <3>1, StepKeepsOpeners DEF HInv
  <2>2. ASSUME NEW n \in Nodes, Stop(n) PROVE HInv'
    <3>1. \A x \in Nodes, r \in Sessions : Staged(x, r)'
      BY <2>2, StopKeepsStaged
    <3>2. promise' = promise
      BY <2>2 DEF Stop
    <3>3. OneOpener'
      BY <3>2 DEF HInv, OneOpener
    <3>4. FreshIsEmpty'
      <4>1. \A q \in Nodes, r \in Sessions :
               /\ channel'[q][r] \in {"none", channel[q][r]}
               /\ pending'[q][r] \in {"none", pending[q][r]}
        BY <2>2 DEF Stop, HInv, IInv, TypeOK
      <4>. QED  BY <3>2, <4>1 DEF HInv, FreshIsEmpty, Opened
    <3>. QED  BY <3>1, <3>3, <3>4 DEF HInv
  <2>3. CASE UNCHANGED vars
    <3>1. OneOpener' /\ FreshIsEmpty'
      BY <2>3 DEF vars, HInv, OneOpener, FreshIsEmpty, Opened
    <3>2. ASSUME NEW x \in Nodes, NEW r \in Sessions PROVE Staged(x, r)'
      BY <2>3 DEF vars, HInv, Staged, Roles, DecisionFirst, OpeningStage, ExchangeStage,
         ResponseStage, ConfirmStage, Settled, InFlight, Decided, HasConfirmed
    <3>. QED  BY <3>1, <3>2 DEF HInv
  <2>. QED  BY <2>1, <2>2, <2>3 DEF Next, Step
<1>. QED  BY <1>1, <1>2, Invariance, PTL DEF Spec

-----------------------------------------------------------------------------
(* What follows for the application *)

\* No session key outlives its channel: a KEY_EXCHANGE or an AUTH_RESPONSE that
\* would bring it back cannot still be on its way when the channel is over.
THEOREM KeysAreErased == ASSUME ~Inline PROVE Spec => []KeyErased
<1>1. HInv => KeyErased
  BY DEF HInv, Staged, Settled, KeyErased
<1>. QED  BY <1>1, HandshakeInvariance, PTL

\* While an openChannel waits on a running node, its #pending entry or the handler
\* that is about to make or use it is there: no early return, GOODBYE, late close or
\* failed signature takes the entry away and leaves the promise.  The message that
\* uses the entry need not come: after a rejected AUTH_CONFIRM none does.  That it
\* does come where no send is rejected is NothingGetsStuck.
THEOREM OpensAreServed == ASSUME ~Inline PROVE Spec => []OpenIsServed
<1>1. HInv => OpenIsServed
  BY DEF HInv, Staged, Settled, OpenIsServed
<1>. QED  BY <1>1, HandshakeInvariance, PTL

\* The responder is never READY in a session its initiator has not confirmed.
THEOREM ResponderFollows == ASSUME ~Inline PROVE Spec => []ResponderReadyAfterInitiator
<1>1. ASSUME HInv, NEW n \in Nodes, NEW s \in Sessions,
             channel[n][s] = "READY", promise[n][s] = "none"
      PROVE  HasConfirmed(Remote[n], s)
  <2>1. Staged(n, s)
    BY <1>1 DEF HInv
  <2>2. ~HasConfirmed(n, s)
    BY <1>1, <2>1 DEF Staged, Roles, HasConfirmed
  <2>. QED  BY <1>1, <2>1, <2>2 DEF Staged, DecisionFirst, Decided
<1>2. HInv => ResponderReadyAfterInitiator
  BY <1>1 DEF ResponderReadyAfterInitiator, HasConfirmed
<1>. QED  BY <1>2, HandshakeInvariance, PTL

\* handleAppMessage never drops a message for being early: what it receives has
\* been sent behind the confirmation, which has been handled by then.
THEOREM MessagesFollowHandshake == ASSUME ~Inline PROVE Spec => []AppAfterHandshake
<1>1. ASSUME HInv, ~Inline, NEW n \in Nodes, NEW s \in Sessions, Receiving(n, s, "APP"),
             channel[n][s] = "AUTHENTICATING"
      PROVE  FALSE
  <2>1. /\ promise[n][s] # "none" => promise[Remote[n]][s] = "none"
        /\ Staged(n, s) /\ Staged(Remote[n], s) /\ TypeOK
    BY <1>1, Ends
  <2>2. /\ net[n] \in Seq(Message) /\ net[n] # << >> /\ frames[n][s] = {}
        /\ Head(net[n]).sid = s /\ Head(net[n]).type = "APP"
    BY <1>1, <2>1 DEF Receiving, TypeOK
  <2>3. Took(net[n], Tail(net[n]), s, "APP")
    BY <2>2, TailTakes
  <2>4. Decided(n, s)
    BY <2>1, <2>3 DEF Took, Staged, DecisionFirst, InFlight, AfterHandshake
  <2>5. CASE HasConfirmed(n, s)
    BY <1>1, <2>1, <2>2, <2>5 DEF HasConfirmed, Staged, Settled
  <2>6. CASE HasConfirmed(Remote[n], s)
    <3>1. promise[Remote[n]][s] # "none"
      BY <2>1, <2>6 DEF HasConfirmed, Staged, Roles
    <3>2. ConfirmFirst(net[n], s)
      BY <1>1, <2>1, <3>1 DEF Staged, ConfirmStage
    <3>. QED  BY <2>3, <3>2 DEF Took, AfterHandshake
  <2>. QED  BY <2>4, <2>5, <2>6 DEF Decided
<1>2. ~Inline => (HInv => AppAfterHandshake)
  BY <1>1 DEF AppAfterHandshake
<1>. QED  BY <1>2, HandshakeInvariance, PTL

\* A channel that was closed, is being closed or has failed is never revived.
THEOREM NothingRevives == ASSUME ~Inline PROVE Spec => NoRevival
<1>1. ASSUME HInv, ~Inline, [Next]_vars, NEW n \in Nodes, NEW s \in Sessions,
             channel[n][s] \in {"CLOSING", "CLOSED", "ERROR"}
      PROVE  channel'[n][s] \notin {"AUTHENTICATING", "READY"}
  <2>1. TypeOK /\ Backed(n, s) /\ Staged(n, s)
    BY <1>1, Ends
  <2>2. ASSUME Step(n, s) PROVE channel'[n][s] \notin {"AUTHENTICATING", "READY"}
    <3>1. CASE Deliver(n, s)
      <4>1. CASE HandleHello(n, s) \/ HandleHelloAck(n, s)
        BY <1>1, <2>1, <4>1, HandleHelloEffect, HandleHelloAckEffect
       DEF HandleHelloChanges, HandleHelloAckChanges
      <4>2. CASE HandleKeyExchange(n, s) \/ HandleAuthResponse(n, s)
        BY <1>1, <2>1, <4>2, HandleKeyExchangeEffect, HandleAuthResponseEffect
       DEF HandleKeyExchangeChanges, HandleAuthResponseChanges
      <4>3. CASE ResponderReady(n, s)
        BY <1>1, <2>1, <4>3, ResponderReadyEffect DEF ResponderReadyChanges, Staged, Settled
      <4>4. CASE AuthFails(n, s) \/ HandleGoodbye(n, s)
        BY <1>1, <2>1, <4>4, AuthFailsEffect, HandleGoodbyeEffect
       DEF AuthFailsChanges, HandleGoodbyeChanges
      <4>5. CASE HandleAppMessage(n, s) \/ IgnoreData(n, s)
        BY <1>1, <2>1, <4>5, HandleAppMessageEffect, IgnoreDataEffect
       DEF HandleAppMessageChanges, IgnoreDataChanges
      <4>. QED  BY <3>1, <4>1, <4>2, <4>3, <4>4, <4>5 DEF Deliver
    <3>2. CASE Continue(n, s)
      <4>1. CASE SendKeyExchange(n, s)
        BY <1>1, <2>1, <4>1, SendKeyExchangeEffect
       DEF SendKeyExchangeChanges, Staged, OpeningStage
      <4>2. CASE InitiatorReady(n, s)
        BY <1>1, <2>1, <4>2, InitiatorReadyEffect
       DEF InitiatorReadyChanges, Backed, ConfirmingBacked, TypeOK
      <4>3. CASE Disconnected(n, s)
        BY <1>1, <2>1, <4>3, DisconnectedEffect
       DEF DisconnectedChanges
      <4>4. CASE InitiatorResolves(n, s)
        BY <1>1, <2>1, <4>4, InitiatorResolvesEffect DEF InitiatorResolvesChanges
      <4>. QED  BY <3>2, <4>1, <4>2, <4>3, <4>4 DEF Continue
    <3>3. CASE Application(n, s)
      <4>1. CASE OpenChannel(n, s)
        BY <1>1, <4>1 DEF OpenChannel
      <4>2. CASE SendMessage(n, s) \/ CloseChannel(n, s)
        BY <1>1, <2>1, <4>2, SendMessageEffect, CloseChannelEffect
       DEF SendMessageChanges, CloseChannelChanges
      <4>. QED  BY <3>3, <4>1, <4>2 DEF Application
    <3>. QED  BY <2>2, <3>1, <3>2, <3>3 DEF Step
  <2>3. ASSUME NEW p \in Nodes, NEW r \in Sessions, Step(p, r), p # n \/ r # s
        PROVE  channel'[n][s] = channel[n][s]
    BY <2>1, <2>3, StepIsLocal
  <2>4. ASSUME NEW p \in Nodes, Stop(p) PROVE channel'[n][s] \in {"none", channel[n][s]}
    BY <2>1, <2>4 DEF Stop, TypeOK
  <2>5. CASE UNCHANGED vars
    BY <1>1, <2>5 DEF vars
  <2>. QED  BY <1>1, <2>2, <2>3, <2>4, <2>5 DEF Next, Step
<1>2. ~Inline => (HInv /\ [Next]_vars =>
         [\A n \in Nodes, s \in Sessions :
             channel[n][s] \in {"CLOSING", "CLOSED", "ERROR"} =>
                channel'[n][s] \notin {"AUTHENTICATING", "READY"}]_vars)
  BY <1>1
<1>. QED  BY <1>2, HandshakeInvariance, PTL DEF Spec, NoRevival

-----------------------------------------------------------------------------
(* The two managers implement ChannelAgreement *)

Over == {"CLOSING", "CLOSED", "ERROR"}

\* The phases of a session that n opened, and of its peer p, without CHOOSE.
OpenerPhase(n, s) ==
    IF ~up[n] \/ promise[n][s] = "rejected" \/ channel[n][s] \in Over THEN "over"
    ELSE IF HasConfirmed(n, s) THEN "ready" ELSE "opening"

PeerPhase(p, s) ==
    IF ~up[p] \/ channel[p][s] \in Over THEN "over"
    ELSE IF channel[p][s] = "none" THEN "idle"
    ELSE IF channel[p][s] = "READY" THEN "ready" ELSE "opening"

\* The refinement mapping, in terms of the opener.
MappingKnown ==
    /\ \A n \in Nodes, s \in Sessions : promise[n][s] # "none" =>
          /\ InitiatorPhase(s) = OpenerPhase(n, s)
          /\ ResponderPhase(s) = PeerPhase(Remote[n], s)
          /\ Confirmed(s) <=> HasConfirmed(n, s)
    /\ \A s \in Sessions : ~Opened(s) =>
          InitiatorPhase(s) = "idle" /\ ResponderPhase(s) = "idle" /\ ~Confirmed(s)

\* There is one opener, so CHOOSE finds it.
LEMMA Mapping == HInv => MappingKnown
  <1>. SUFFICES ASSUME HInv PROVE MappingKnown
    OBVIOUS
  <1>0. ASSUME NEW n \in Nodes, NEW s \in Sessions, HasConfirmed(n, s)
        PROVE  promise[n][s] # "none"
    BY <1>0 DEF HInv, Staged, Roles, HasConfirmed
  <1>1. ASSUME NEW n \in Nodes, NEW s \in Sessions, promise[n][s] # "none"
        PROVE  /\ InitiatorPhase(s) = OpenerPhase(n, s)
               /\ ResponderPhase(s) = PeerPhase(Remote[n], s)
               /\ Confirmed(s) <=> HasConfirmed(n, s)
    <2>1. Opened(s) /\ Opener(s) = n
      <3>1. \A m \in Nodes : promise[m][s] # "none" <=> m = n
        BY <1>1 DEF HInv, OneOpener
      <3>. QED  BY <3>1 DEF Opened, Opener
    <2>2. Confirmed(s) <=> HasConfirmed(n, s)
      <3>1. \A m \in Nodes : HasConfirmed(m, s) => m = n
        BY <1>0, <1>1 DEF HInv, OneOpener
      <3>. QED  BY <3>1 DEF Confirmed, HasConfirmed
    <2>3. InitiatorPhase(s) = OpenerPhase(n, s)
      BY <2>1, <2>2 DEF InitiatorPhase, OpenerPhase, Over
    <2>4. channel[Remote[n]][s] \in ChannelStatus \cup {"none"}
      BY RemoteAssumption DEF HInv, IInv, TypeOK
    <2>5. ResponderPhase(s) = PeerPhase(Remote[n], s)
      BY <2>1, <2>4 DEF ResponderPhase, PeerPhase, Over, ChannelStatus
    <2>. QED  BY <2>2, <2>3, <2>5
  <1>2. ASSUME NEW s \in Sessions, ~Opened(s)
        PROVE  InitiatorPhase(s) = "idle" /\ ResponderPhase(s) = "idle" /\ ~Confirmed(s)
    <2>1. ~Confirmed(s)
      BY <1>0, <1>2 DEF Opened, Confirmed, HasConfirmed
    <2>. QED  BY <1>2, <2>1 DEF InitiatorPhase, ResponderPhase
  <1>. QED  BY <1>1, <1>2 DEF MappingKnown

\* The same of the next state.
LEMMA MappingNext == HInv' => MappingKnown'
  BY Mapping, PTL

\* Nothing of session s changes.
SameSession(s) ==
    /\ InitiatorPhase(s)' = InitiatorPhase(s)
    /\ ResponderPhase(s)' = ResponderPhase(s)
    /\ Confirmed(s)' <=> Confirmed(s)

\* What a step of the managers may do to the session it is about: nothing, or
\* what one action of ChannelAgreement does.
Allowed(s) ==
    \/ SameSession(s)
    \/ /\ InitiatorPhase(s) = "idle" /\ InitiatorPhase(s)' \in {"opening", "over"}
       /\ ResponderPhase(s)' \in {"idle", "over"} /\ (Confirmed(s)' <=> Confirmed(s))
    \/ /\ InitiatorPhase(s) # "idle" /\ InitiatorPhase(s)' = InitiatorPhase(s)
       /\ ResponderPhase(s) = "idle" /\ ResponderPhase(s)' = "opening"
       /\ Confirmed(s)' <=> Confirmed(s)
    \/ /\ InitiatorPhase(s) = "opening" /\ InitiatorPhase(s)' = "ready"
       /\ ResponderPhase(s) # "idle" /\ ResponderPhase(s)' = ResponderPhase(s)
       /\ Confirmed(s)'
    \/ /\ InitiatorPhase(s)' = InitiatorPhase(s) /\ Confirmed(s) /\ Confirmed(s)'
       /\ ResponderPhase(s) = "opening" /\ ResponderPhase(s)' = "ready"
    \/ /\ InitiatorPhase(s) # "idle" /\ InitiatorPhase(s)' \in {InitiatorPhase(s), "over"}
       /\ ResponderPhase(s)' \in {ResponderPhase(s), "over"}
       /\ Confirmed(s)' <=> Confirmed(s)

\* Sessions that have been opened may end, any number at a time.
LEMMA EndIsAgreement ==
    ASSUME \A r \in Sessions :
              /\ InitiatorPhase(r)' \in {InitiatorPhase(r), "over"}
              /\ ResponderPhase(r)' \in {ResponderPhase(r), "over"}
              /\ Confirmed(r)' <=> Confirmed(r)
              /\ InitiatorPhase(r) = "idle" => SameSession(r)
    PROVE  [Agreement!Next]_Agreement!vars
  <1>. DEFINE ini == [r \in Sessions |-> InitiatorPhase(r)]
              res == [r \in Sessions |-> ResponderPhase(r)]
              con == {r \in Sessions : Confirmed(r)}
              Opn == {r \in Sessions : ini[r] # "idle"}
              I == {r \in Opn : ini'[r] = "over"}
              R == {r \in Opn : res'[r] = "over"}
  <1>1. \A r \in Sessions : /\ ini[r] = InitiatorPhase(r) /\ ini'[r] = InitiatorPhase(r)'
                            /\ res[r] = ResponderPhase(r) /\ res'[r] = ResponderPhase(r)'
                            /\ r \in I <=> ini[r] # "idle" /\ ini'[r] = "over"
                            /\ r \in R <=> ini[r] # "idle" /\ res'[r] = "over"
    OBVIOUS
  <1>2. con' = con
    OBVIOUS
  <1>3. I \in SUBSET Opn /\ R \in SUBSET Opn
    OBVIOUS
  <1>4. \A r \in Sessions : /\ ini'[r] = IF r \in I THEN "over" ELSE ini[r]
                            /\ res'[r] = IF r \in R THEN "over" ELSE res[r]
    <2>. SUFFICES ASSUME NEW r \in Sessions
                  PROVE  /\ ini'[r] = IF r \in I THEN "over" ELSE ini[r]
                         /\ res'[r] = IF r \in R THEN "over" ELSE res[r]
      OBVIOUS
    <2>. HIDE DEF ini, res, con, Opn, I, R
    <2>1. CASE InitiatorPhase(r) = "idle"
      BY <1>1, <2>1 DEF SameSession
    <2>2. CASE InitiatorPhase(r) # "idle"
      BY <1>1, <2>2
    <2>. QED  BY <2>1, <2>2
  <1>5. /\ ini' = [r \in Sessions |-> IF r \in I THEN "over" ELSE ini[r]]
        /\ res' = [r \in Sessions |-> IF r \in R THEN "over" ELSE res[r]]
    <2>1. ini' = [r \in Sessions |-> ini'[r]] /\ res' = [r \in Sessions |-> res'[r]]
      OBVIOUS
    <2>. HIDE DEF ini, res, con, Opn, I, R
    <2>. QED  BY <1>4, <2>1
  <1>. HIDE DEF I, R, ini, res, con
  <1>6. \E J, S \in SUBSET Opn :
           /\ ini' = [r \in Sessions |-> IF r \in J THEN "over" ELSE ini[r]]
           /\ res' = [r \in Sessions |-> IF r \in S THEN "over" ELSE res[r]]
    BY <1>3, <1>5
  <1>7. Agreement!End
    BY <1>2, <1>6 DEF Agreement!End, ini, res, con
  <1>. QED  BY <1>7 DEF Agreement!Next

\* Such a change in one session, and none in the others, is a step of
\* ChannelAgreement.
LEMMA AllowedIsAgreement ==
    ASSUME NEW s \in Sessions, Allowed(s), \A r \in Sessions \ {s} : SameSession(r)
    PROVE  [Agreement!Next]_Agreement!vars
  <1>. DEFINE ini == [r \in Sessions |-> InitiatorPhase(r)]
              res == [r \in Sessions |-> ResponderPhase(r)]
              con == {r \in Sessions : Confirmed(r)}
  <1>1. \A r \in Sessions : /\ ini[r] = InitiatorPhase(r) /\ ini'[r] = InitiatorPhase(r)'
                            /\ res[r] = ResponderPhase(r) /\ res'[r] = ResponderPhase(r)'
                            /\ r \in con <=> Confirmed(r)
                            /\ r \in con' <=> Confirmed(r)'
    OBVIOUS
  <1>2. \A r \in Sessions \ {s} : /\ ini'[r] = ini[r] /\ res'[r] = res[r]
                                  /\ r \in con' <=> r \in con
    BY <1>1 DEF SameSession
  <1>3. /\ ini' = [ini EXCEPT ![s] = InitiatorPhase(s)']
        /\ res' = [res EXCEPT ![s] = ResponderPhase(s)']
    BY <1>1, <1>2
  <1>4. con' = IF Confirmed(s)' THEN con \cup {s} ELSE con \ {s}
    <2>1. con \subseteq Sessions /\ con' \subseteq Sessions
      OBVIOUS
    <2>. HIDE DEF con
    <2>. QED  BY <1>1, <1>2, <2>1
  <1>5. (Confirmed(s)' <=> Confirmed(s)) => con' = con
    BY <1>1, <1>4
  <1>. HIDE DEF ini, res, con
  <1>6. CASE SameSession(s)
    <2>1. ini' = ini /\ res' = res /\ con' = con
      BY <1>1, <1>3, <1>5, <1>6 DEF SameSession, ini, res
    <2>. QED  BY <2>1 DEF Agreement!vars, ini, res, con
  <1>7. CASE /\ InitiatorPhase(s) = "idle" /\ InitiatorPhase(s)' \in {"opening", "over"}
             /\ ResponderPhase(s)' \in {"idle", "over"} /\ (Confirmed(s)' <=> Confirmed(s))
    <2>1. /\ ini[s] = "idle" /\ con' = con
          /\ \E i \in {"opening", "over"}, r \in {"idle", "over"} :
                ini' = [ini EXCEPT ![s] = i] /\ res' = [res EXCEPT ![s] = r]
      BY <1>1, <1>3, <1>5, <1>7
    <2>2. Agreement!Open(s)
      BY <2>1 DEF Agreement!Open, ini, res, con
    <2>. QED  BY <2>2 DEF Agreement!Next
  <1>8. CASE /\ InitiatorPhase(s) # "idle" /\ InitiatorPhase(s)' = InitiatorPhase(s)
             /\ ResponderPhase(s) = "idle" /\ ResponderPhase(s)' = "opening"
             /\ Confirmed(s)' <=> Confirmed(s)
    <2>1. /\ ini[s] # "idle" /\ res[s] = "idle" /\ con' = con
          /\ ini' = ini /\ res' = [res EXCEPT ![s] = "opening"]
      BY <1>1, <1>3, <1>5, <1>8 DEF ini
    <2>2. Agreement!Accept(s)
      BY <2>1 DEF Agreement!Accept, ini, res, con
    <2>. QED  BY <2>2 DEF Agreement!Next
  <1>9. CASE /\ InitiatorPhase(s) = "opening" /\ InitiatorPhase(s)' = "ready"
             /\ ResponderPhase(s) # "idle" /\ ResponderPhase(s)' = ResponderPhase(s)
             /\ Confirmed(s)'
    <2>1. /\ ini[s] = "opening" /\ res[s] # "idle" /\ con' = con \cup {s}
          /\ ini' = [ini EXCEPT ![s] = "ready"] /\ res' = res
      BY <1>1, <1>3, <1>4, <1>9 DEF res
    <2>2. Agreement!Confirm(s)
      BY <2>1 DEF Agreement!Confirm, ini, res, con
    <2>. QED  BY <2>2 DEF Agreement!Next
  <1>10. CASE /\ InitiatorPhase(s)' = InitiatorPhase(s) /\ Confirmed(s) /\ Confirmed(s)'
              /\ ResponderPhase(s) = "opening" /\ ResponderPhase(s)' = "ready"
    <2>1. /\ s \in con /\ res[s] = "opening" /\ con' = con
          /\ ini' = ini /\ res' = [res EXCEPT ![s] = "ready"]
      BY <1>1, <1>3, <1>5, <1>10 DEF ini
    <2>2. Agreement!Complete(s)
      BY <2>1 DEF Agreement!Complete, ini, res, con
    <2>. QED  BY <2>2 DEF Agreement!Next
  <1>11. CASE /\ InitiatorPhase(s) # "idle" /\ InitiatorPhase(s)' \in {InitiatorPhase(s), "over"}
              /\ ResponderPhase(s)' \in {ResponderPhase(s), "over"}
              /\ Confirmed(s)' <=> Confirmed(s)
    <2>1. \A r \in Sessions :
             /\ InitiatorPhase(r)' \in {InitiatorPhase(r), "over"}
             /\ ResponderPhase(r)' \in {ResponderPhase(r), "over"}
             /\ Confirmed(r)' <=> Confirmed(r)
             /\ InitiatorPhase(r) = "idle" => SameSession(r)
      BY <1>11 DEF SameSession
    <2>. QED  BY <2>1, EndIsAgreement
  <1>. QED  BY <1>6, <1>7, <1>8, <1>9, <1>10, <1>11 DEF Allowed

\* A step about s changes no other session's phases.
LEMMA StepKeepsPhases ==
    ASSUME HInv, MappingKnown, MappingKnown', NEW n \in Nodes, NEW s \in Sessions, Step(n, s),
           NEW r \in Sessions, r # s
    PROVE  SameSession(r)
  <1>1. \A x \in Nodes : /\ up' = up /\ channel'[x][r] = channel[x][r]
                         /\ promise'[x][r] = promise[x][r] /\ frames'[x][r] = frames[x][r]
    BY StepIsLocal DEF HInv, IInv
  <1>2. CASE Opened(r)
    <2>1. PICK o \in Nodes : promise[o][r] # "none" /\ promise'[o][r] # "none"
      BY <1>1, <1>2 DEF Opened
    <2>2. /\ InitiatorPhase(r) = OpenerPhase(o, r) /\ InitiatorPhase(r)' = OpenerPhase(o, r)'
          /\ ResponderPhase(r) = PeerPhase(Remote[o], r)
          /\ ResponderPhase(r)' = PeerPhase(Remote[o], r)'
          /\ Confirmed(r) <=> HasConfirmed(o, r)
          /\ Confirmed(r)' <=> HasConfirmed(o, r)'
      BY <2>1 DEF MappingKnown
    <2>3. Remote[o] \in Nodes
      BY RemoteAssumption
    <2>. QED
      BY <1>1, <2>2, <2>3 DEF SameSession, OpenerPhase, PeerPhase, HasConfirmed
  <1>3. CASE ~Opened(r)
    <2>1. ~Opened(r)'
      BY <1>1, <1>3 DEF Opened
    <2>. QED  BY <1>3, <2>1 DEF MappingKnown, SameSession
  <1>. QED  BY <1>2, <1>3

\* Opening a session is ChannelAgreement's Open.
LEMMA OpenChannelAllowed ==
    ASSUME HInv, MappingKnown, MappingKnown',
           NEW n \in Nodes, NEW s \in Sessions, OpenChannel(n, s)
    PROVE  Allowed(s)
  <1>1. TypeOK /\ ~Opened(s) /\ Remote[n] \in Nodes
    BY RemoteAssumption DEF HInv, IInv, OpenChannel, Opened
  <1>2. /\ InitiatorPhase(s) = "idle" /\ ResponderPhase(s) = "idle" /\ ~Confirmed(s)
        /\ channel[n][s] = "none" /\ channel[Remote[n]][s] = "none" /\ frames[n][s] = {}
    BY <1>1 DEF MappingKnown, HInv, FreshIsEmpty, IInv, FreshIsUnused
  <1>3. /\ promise'[n][s] \in {"pending", "rejected"} /\ frames'[n][s] \in {{}, {"openSession"}}
        /\ channel' = channel /\ up' = up /\ up[n]
    BY <1>1, <1>2 DEF OpenChannel, Suspend, TypeOK
  <1>4. /\ InitiatorPhase(s)' = OpenerPhase(n, s)' /\ ResponderPhase(s)' = PeerPhase(Remote[n], s)'
        /\ Confirmed(s)' <=> HasConfirmed(n, s)'
    BY <1>3 DEF MappingKnown
  <1>. QED
    BY <1>2, <1>3, <1>4 DEF Allowed, OpenerPhase, PeerPhase, HasConfirmed, Over

\* What a handler receives was on its way.
LEMMA ReceivedWasInFlight ==
    ASSUME TypeOK, NEW n \in Nodes, NEW s \in Sessions, NEW t, Receiving(n, s, t)
    PROVE  InFlight(n, s, t)
  <1>1. /\ net[n] \in Seq(Message) /\ net[n] # << >>
        /\ Head(net[n]).sid = s /\ Head(net[n]).type = t
    BY DEF TypeOK, Receiving
  <1>2. Head(net[n]) = net[n][1] /\ 1 \in 1 .. Len(net[n])
    BY <1>1
  <1>. QED  BY <1>1, <1>2 DEF InFlight, Holds

\* The opener's phase stays, is over, or becomes "ready" when its peer is in the
\* handshake or gone.
LEMMA OpenerSteps ==
    ASSUME HInv, ~Inline, NEW n \in Nodes, NEW s \in Sessions, Step(n, s), ~OpenChannel(n, s),
           promise[n][s] # "none"
    PROVE  \/ /\ OpenerPhase(n, s)' \in {OpenerPhase(n, s), "over"}
              /\ HasConfirmed(n, s)' <=> HasConfirmed(n, s)
           \/ /\ OpenerPhase(n, s) = "opening" /\ OpenerPhase(n, s)' = "ready"
              /\ PeerPhase(Remote[n], s) # "idle" /\ HasConfirmed(n, s)'
  <1>. USE DEF OpenerPhase, PeerPhase, HasConfirmed, Over
  <1>1. /\ TypeOK /\ Remote[n] \in Nodes /\ Remote[n] # n /\ promise[Remote[n]][s] = "none"
        /\ Backed(n, s) /\ Staged(n, s) /\ Staged(Remote[n], s)
    BY Ends
  <1>2. up' = up
    BY <1>1, StepIsLocal
  <1>3. CASE HandleHello(n, s) \/ HandleHelloAck(n, s)
    BY <1>1, <1>2, <1>3, HandleHelloEffect, HandleHelloAckEffect
       DEF HandleHelloChanges, HandleHelloAckChanges
  <1>4. CASE HandleKeyExchange(n, s)
    BY <1>1, <1>2, <1>4, HandleKeyExchangeEffect
       DEF HandleKeyExchangeChanges
  <1>5. CASE HandleAuthResponse(n, s)
    <2>1. InFlight(n, s, "AUTH_RESPONSE")
      BY <1>1, <1>5, ReceivedWasInFlight DEF HandleAuthResponse
    <2>2. /\ promise[n][s] = "pending" /\ frames[n][s] = {}
          /\ up[Remote[n]] => channel[Remote[n]][s] = "AUTHENTICATING"
      BY <1>1, <2>1 DEF Staged, ResponseStage, Settled
    <2>3. up[n] /\ channel[n][s] = "AUTHENTICATING"
      BY <1>1, <1>5, HandleAuthResponseEffect
       DEF HandleAuthResponseChanges, Backed, PendingBacked
    <2>. QED  BY <1>1, <1>2, <1>5, <2>2, <2>3, HandleAuthResponseEffect
       DEF HandleAuthResponseChanges
  <1>6. CASE ResponderReady(n, s)
    <2>1. InFlight(n, s, "AUTH_CONFIRM")
      BY <1>1, <1>6, ReceivedWasInFlight DEF ResponderReady
    <2>2. HasConfirmed(Remote[n], s)
      BY <1>1, <2>1 DEF Staged, ConfirmStage
    <2>. QED  BY <1>1, <2>2 DEF Staged, Roles
  <1>7. CASE AuthFails(n, s)
    BY <1>1, <1>2, <1>7, AuthFailsEffect
       DEF AuthFailsChanges
  <1>8. CASE HandleAppMessage(n, s) \/ IgnoreData(n, s)
    BY <1>1, <1>2, <1>8, HandleAppMessageEffect, IgnoreDataEffect
       DEF HandleAppMessageChanges, IgnoreDataChanges
  <1>9. CASE HandleGoodbye(n, s)
    BY <1>1, <1>2, <1>9, HandleGoodbyeEffect
       DEF HandleGoodbyeChanges
  <1>10. CASE SendKeyExchange(n, s)
    BY <1>1, <1>2, <1>10, SendKeyExchangeEffect
       DEF SendKeyExchangeChanges, Staged, OpeningStage, Roles, Backed, OpeningBacked
  <1>11. CASE InitiatorReady(n, s)
    BY <1>1, <1>2, <1>11, InitiatorReadyEffect
       DEF InitiatorReadyChanges, Staged, Roles, Backed, ConfirmingBacked
  <1>14. CASE InitiatorResolves(n, s)
    BY <1>1, <1>2, <1>14, InitiatorResolvesEffect
       DEF InitiatorResolvesChanges, Staged, Roles, Backed, CallbackBacked
  <1>12. CASE Disconnected(n, s)
    BY <1>1, <1>2, <1>12, DisconnectedEffect
       DEF DisconnectedChanges
  <1>13. CASE SendMessage(n, s) \/ CloseChannel(n, s)
    BY <1>1, <1>2, <1>13, SendMessageEffect, CloseChannelEffect
       DEF SendMessageChanges, CloseChannelChanges
  <1>. QED
    BY <1>3, <1>4, <1>5, <1>6, <1>7, <1>8, <1>9, <1>10, <1>11, <1>12, <1>13,
       <1>14
       DEF Step, Deliver, Continue, Application

\* The peer's phase stays, is over, or gets one further: to "ready" only when
\* the opener has confirmed.
LEMMA PeerSteps ==
    ASSUME HInv, ~Inline, NEW n \in Nodes, NEW s \in Sessions, Step(n, s), ~OpenChannel(n, s),
           promise[Remote[n]][s] # "none"
    PROVE  \/ PeerPhase(n, s)' \in {PeerPhase(n, s), "over"}
           \/ PeerPhase(n, s) = "idle" /\ PeerPhase(n, s)' = "opening"
           \/ /\ PeerPhase(n, s) = "opening" /\ PeerPhase(n, s)' = "ready"
              /\ HasConfirmed(Remote[n], s)
  <1>. USE DEF PeerPhase, Over
  <1>1. /\ TypeOK /\ promise[n][s] = "none" /\ Remote[n] \in Nodes /\ Remote[n] # n
        /\ Staged(n, s)
    BY Ends
  <1>2. up' = up
    BY <1>1, StepIsLocal
  <1>3. CASE HandleHello(n, s) \/ HandleHelloAck(n, s)
    BY <1>1, <1>2, <1>3, HandleHelloEffect, HandleHelloAckEffect
       DEF HandleHelloChanges, HandleHelloAckChanges
  <1>4. CASE HandleKeyExchange(n, s) \/ HandleAuthResponse(n, s)
    BY <1>1, <1>2, <1>4, HandleKeyExchangeEffect, HandleAuthResponseEffect
       DEF HandleKeyExchangeChanges, HandleAuthResponseChanges
  <1>5. CASE ResponderReady(n, s)
    <2>1. InFlight(n, s, "AUTH_CONFIRM")
      BY <1>1, <1>5, ReceivedWasInFlight DEF ResponderReady
    <2>2. HasConfirmed(Remote[n], s) /\ channel[n][s] = "AUTHENTICATING"
      BY <1>1, <2>1 DEF Staged, ConfirmStage, Settled
    <2>. QED  BY <1>1, <1>2, <1>5, <2>2, ResponderReadyEffect
       DEF ResponderReadyChanges
  <1>6. CASE AuthFails(n, s) \/ HandleGoodbye(n, s)
    BY <1>1, <1>2, <1>6, AuthFailsEffect, HandleGoodbyeEffect
       DEF AuthFailsChanges, HandleGoodbyeChanges
  <1>7. CASE HandleAppMessage(n, s) \/ IgnoreData(n, s)
    BY <1>1, <1>2, <1>7, HandleAppMessageEffect, IgnoreDataEffect
       DEF HandleAppMessageChanges, IgnoreDataChanges
  <1>8. CASE SendKeyExchange(n, s) \/ InitiatorReady(n, s)
    BY <1>1, <1>8, SendKeyExchangeEffect, InitiatorReadyEffect
       DEF SendKeyExchangeChanges, InitiatorReadyChanges, Staged, Roles
  <1>11. CASE InitiatorResolves(n, s)
    BY <1>1, <1>2, <1>11, InitiatorResolvesEffect DEF InitiatorResolvesChanges
  <1>9. CASE Disconnected(n, s)
    BY <1>1, <1>2, <1>9, DisconnectedEffect
       DEF DisconnectedChanges
  <1>10. CASE SendMessage(n, s) \/ CloseChannel(n, s)
    BY <1>1, <1>2, <1>10, SendMessageEffect, CloseChannelEffect
       DEF SendMessageChanges, CloseChannelChanges
  <1>. QED
    BY <1>3, <1>4, <1>5, <1>6, <1>7, <1>8, <1>9, <1>10, <1>11
       DEF Step, Deliver, Continue, Application

\* Every other step about s is one of its opener, of the opener's peer, or of a
\* node that has no part in s.
LEMMA StepAllowed ==
    ASSUME HInv, ~Inline, MappingKnown, MappingKnown',
           NEW n \in Nodes, NEW s \in Sessions, Step(n, s), ~OpenChannel(n, s)
    PROVE  Allowed(s)
  <1>0. TypeOK /\ FreshIsUnused
    BY DEF HInv, IInv
  <1>1. PICK o \in Nodes : promise'[o][s] # "none"
    BY <1>0, StepIsOpened DEF Opened
  <1>2. PICK q \in Nodes : q = Remote[o] /\ Remote[q] = o /\ q # o
    BY RemoteAssumption
  <1>3. promise[o][s] # "none"
    BY <1>0, <1>1, StepKeepsPromises
  <1>4. /\ InitiatorPhase(s) = OpenerPhase(o, s) /\ InitiatorPhase(s)' = OpenerPhase(o, s)'
        /\ ResponderPhase(s) = PeerPhase(q, s) /\ ResponderPhase(s)' = PeerPhase(q, s)'
        /\ Confirmed(s) <=> HasConfirmed(o, s)
        /\ Confirmed(s)' <=> HasConfirmed(o, s)'
    BY <1>1, <1>2, <1>3 DEF MappingKnown
  <1>5. /\ promise[q][s] = "none"
        /\ Backed(o, s) /\ Staged(o, s) /\ Backed(q, s) /\ Staged(q, s)
    BY <1>2, <1>3, Ends
  <1>6. \A x \in Nodes \ {n} : /\ up' = up /\ channel'[x][s] = channel[x][s]
                               /\ promise'[x][s] = promise[x][s] /\ frames'[x][s] = frames[x][s]
    BY <1>0, StepIsLocal
  <1>7. up' = up
    BY <1>2, <1>6
  <1>8. OpenerPhase(o, s) # "idle"
    BY DEF OpenerPhase
  <1>9. CASE n = o
    <2>1. PeerPhase(q, s)' = PeerPhase(q, s)
      BY <1>2, <1>6, <1>9 DEF PeerPhase
    <2>2. \/ /\ OpenerPhase(o, s)' \in {OpenerPhase(o, s), "over"}
             /\ HasConfirmed(o, s)' <=> HasConfirmed(o, s)
          \/ /\ OpenerPhase(o, s) = "opening" /\ OpenerPhase(o, s)' = "ready"
             /\ PeerPhase(q, s) # "idle" /\ HasConfirmed(o, s)'
      BY <1>2, <1>3, <1>9, OpenerSteps
    <2>. QED  BY <1>4, <1>8, <2>1, <2>2 DEF Allowed
  <1>10. CASE n = q
    <2>1. OpenerPhase(o, s)' = OpenerPhase(o, s) /\ (HasConfirmed(o, s)' <=> HasConfirmed(o, s))
      BY <1>2, <1>6, <1>10 DEF OpenerPhase, HasConfirmed
    <2>2. \/ PeerPhase(q, s)' \in {PeerPhase(q, s), "over"}
          \/ PeerPhase(q, s) = "idle" /\ PeerPhase(q, s)' = "opening"
          \/ /\ PeerPhase(q, s) = "opening" /\ PeerPhase(q, s)' = "ready"
             /\ HasConfirmed(o, s)
      BY <1>2, <1>3, <1>10, PeerSteps
    <2>. QED  BY <1>4, <1>8, <2>1, <2>2 DEF Allowed
  <1>11. CASE n # o /\ n # q
    <2>1. SameSession(s)
      BY <1>2, <1>4, <1>6, <1>11 DEF SameSession, OpenerPhase, PeerPhase, HasConfirmed
    <2>. QED  BY <2>1 DEF Allowed
  <1>. QED  BY <1>9, <1>10, <1>11

\* A node that stops ends its own part of every session that has been opened.
LEMMA StopEnds ==
    ASSUME HInv, MappingKnown, MappingKnown', NEW n \in Nodes, Stop(n), NEW s \in Sessions
    PROVE  /\ InitiatorPhase(s)' \in {InitiatorPhase(s), "over"}
           /\ ResponderPhase(s)' \in {ResponderPhase(s), "over"}
           /\ Confirmed(s)' <=> Confirmed(s)
           /\ InitiatorPhase(s) = "idle" => SameSession(s)
  <1>1. /\ promise' = promise /\ frames' = frames /\ ~up'[n]
        /\ \A x \in Nodes \ {n} : up'[x] = up[x] /\ channel'[x][s] = channel[x][s]
    BY DEF Stop, HInv, IInv, TypeOK
  <1>2. CASE Opened(s)
    <2>1. PICK o \in Nodes : promise[o][s] # "none" /\ promise'[o][s] # "none"
      BY <1>1, <1>2 DEF Opened
    <2>2. /\ InitiatorPhase(s) = OpenerPhase(o, s) /\ InitiatorPhase(s)' = OpenerPhase(o, s)'
          /\ ResponderPhase(s) = PeerPhase(Remote[o], s)
          /\ ResponderPhase(s)' = PeerPhase(Remote[o], s)'
          /\ Confirmed(s) <=> HasConfirmed(o, s)
          /\ Confirmed(s)' <=> HasConfirmed(o, s)'
      BY <2>1 DEF MappingKnown
    <2>3. Remote[o] \in Nodes
      BY RemoteAssumption
    <2>4. OpenerPhase(o, s) # "idle"
      BY DEF OpenerPhase
    <2>. QED
      BY <1>1, <2>2, <2>3, <2>4 DEF OpenerPhase, PeerPhase, HasConfirmed
  <1>3. CASE ~Opened(s)
    <2>1. ~Opened(s)'
      BY <1>1, <1>3 DEF Opened
    <2>. QED  BY <1>3, <2>1 DEF MappingKnown, SameSession
  <1>. QED  BY <1>2, <1>3

\* Over an open data channel the managers implement ChannelAgreement: whatever
\* runs, is lost, fails or is stopped, the responder is ready only in a session
\* its initiator has confirmed, and no end gets ready twice or after it is over.
THEOREM ManagersAgree == ASSUME ~Inline PROVE Spec => ImplementsAgreement
<1>1. Init => Agreement!Init
  <2>. SUFFICES ASSUME Init PROVE Agreement!Init
    OBVIOUS
  <2>1. \A s \in Sessions : ~Opened(s) /\ ~Confirmed(s)
    BY DEF Init, Opened, Confirmed
  <2>2. \A s \in Sessions : InitiatorPhase(s) = "idle" /\ ResponderPhase(s) = "idle"
    BY <2>1 DEF InitiatorPhase, ResponderPhase
  <2>. QED  BY <2>1, <2>2 DEF Agreement!Init
<1>2. ~Inline => (HInv /\ MappingKnown /\ MappingKnown' /\ [Next]_vars =>
         [Agreement!Next]_Agreement!vars)
  <2>. SUFFICES ASSUME HInv, ~Inline, MappingKnown, MappingKnown', [Next]_vars
                PROVE  [Agreement!Next]_Agreement!vars
    OBVIOUS
  <2>1. ASSUME NEW n \in Nodes, NEW s \in Sessions, Step(n, s)
        PROVE  [Agreement!Next]_Agreement!vars
    <3>1. \A r \in Sessions \ {s} : SameSession(r)
      BY <2>1, StepKeepsPhases
    <3>2. Allowed(s)
      BY <2>1, OpenChannelAllowed, StepAllowed
    <3>. QED  BY <3>1, <3>2, AllowedIsAgreement
  <2>2. ASSUME NEW n \in Nodes, Stop(n) PROVE [Agreement!Next]_Agreement!vars
    BY <2>2, StopEnds, EndIsAgreement
  <2>3. CASE UNCHANGED vars
    <3>1. \A s \in Sessions : SameSession(s)
      BY <2>3 DEF vars, SameSession, InitiatorPhase, ResponderPhase, Confirmed, Opened, Opener
    <3>. QED  BY <3>1 DEF SameSession, Agreement!vars
  <2>. QED  BY <2>1, <2>2, <2>3 DEF Next, Step
<1>3. HInv => MappingKnown
  BY Mapping
<1>. QED  BY <1>1, <1>2, <1>3, HandshakeInvariance, PTL DEF Spec, ImplementsAgreement,
   Agreement!Spec

-----------------------------------------------------------------------------
(* Where no node stops and no send is rejected, what is to come is on its way *)

\* A waiting openChannel has its token at one of its four places.
OpenMoves(n, s) ==
    promise[n][s] = "pending" =>
        \/ frames[n][s] \cap {"openSession", "authResponse"} # {}
        \/ InFlight(Remote[n], s, "KEY_EXCHANGE")
        \/ InFlight(n, s, "AUTH_RESPONSE")

\* A node that does not know a session yet hears of it before its handshake.
Announced(n, s) ==
    channel[n][s] = "none" =>
        /\ HelloFirst(net[n], s)
        /\ "openSession" \in frames[Remote[n]][s] => InFlight(n, s, "HELLO")

\* n has closed the session, is closing it or is about to be told to.
Ending(n, s) ==
    \/ "disconnect" \in frames[n][s]
    \/ channel[n][s] = "CLOSED"
    \/ InFlight(n, s, "GOODBYE")

\* One end of a session: what it waits for comes, and ends come in pairs.
Going(n, s) ==
    /\ OpenMoves(n, s)
    /\ Announced(n, s)
    /\ Ending(n, s) => Ending(Remote[n], s)

\* The inductive invariant behind liveness: nothing that somebody waits for is lost.
GInv ==
    /\ HInv
    /\ \A n \in Nodes : up[n]
    /\ \A n \in Nodes, s \in Sessions : Going(n, s)

\* What the invariant says of the two ends of a session.
LEMMA GoingEnds ==
    ASSUME GInv, NEW n \in Nodes, NEW s \in Sessions, NEW p \in Nodes, p = Remote[n]
    PROVE  /\ HInv /\ TypeOK /\ p # n /\ Remote[p] = n /\ Remote[n] = p
           /\ up[n] /\ up[p]
           /\ promise[n][s] # "none" => promise[p][s] = "none"
           /\ Backed(n, s) /\ Backed(p, s) /\ Staged(n, s) /\ Staged(p, s)
           /\ Going(n, s) /\ Going(p, s)
  BY Ends DEF GInv

\* An end that takes part in a close knows the session.
LEMMA KnownWhenDecided ==
    ASSUME GInv, NEW n \in Nodes, NEW s \in Sessions, Decided(n, s)
    PROVE  channel[n][s] # "none"
  <1>1. PICK p \in Nodes : p = Remote[n]
    BY RemoteAssumption
  <1>2. up[n] /\ Backed(n, s) /\ Staged(n, s)
    BY <1>1, GoingEnds
  <1>. QED
    BY <1>2 DEF Decided, HasConfirmed, Staged, Settled, ConfirmStage, Backed, ConfirmingBacked,
           CallbackBacked

\* HELLO: the session is known, whatever follows.
LEMMA HandleHelloMoves ==
    ASSUME GInv, ~Inline, ~SendMayFail, NEW n \in Nodes, NEW s \in Sessions, HandleHello(n, s),
           NEW p \in Nodes, p = Remote[n]
    PROVE  Going(n, s)' /\ Going(p, s)'
  <1>. USE DEF OpenMoves, Announced, Ending, InFlight, Types
  <1>1. /\ HInv /\ TypeOK /\ p # n /\ Remote[p] = n /\ Remote[n] = p
        /\ up[n] /\ up[p]
        /\ promise[n][s] # "none" => promise[p][s] = "none"
        /\ Backed(n, s) /\ Backed(p, s) /\ Staged(n, s) /\ Staged(p, s)
        /\ Going(n, s) /\ Going(p, s)
    BY GoingEnds
  <1>2. /\ channel'[p][s] = channel[p][s] /\ promise'[p][s] = promise[p][s]
        /\ frames'[p][s] = frames[p][s]
    BY <1>1, StepIsLocal DEF Step, Deliver
  <1>3. Took(net[n], net'[n], s, "HELLO") /\ Gained(net[p], net'[p], s, "HELLO_ACK")
    BY <1>1, NetEffect DEF HandleHello, Reaches, MayReject, Connected
  <1>4. HandleHelloChanges(n, s)
    BY <1>1, HandleHelloEffect
  <1>. QED
    BY <1>1, <1>2, <1>3, <1>4, SMTT(30)
       DEF HandleHelloChanges, Going, Took, Gained

\* HELLO_ACK carries nothing on.
LEMMA HandleHelloAckMoves ==
    ASSUME GInv, ~Inline, ~SendMayFail, NEW n \in Nodes, NEW s \in Sessions, HandleHelloAck(n, s),
           NEW p \in Nodes, p = Remote[n]
    PROVE  Going(n, s)' /\ Going(p, s)'
  <1>. USE DEF OpenMoves, Announced, Ending, InFlight, Types
  <1>1. /\ HInv /\ TypeOK /\ p # n /\ Remote[p] = n /\ Remote[n] = p
        /\ up[n] /\ up[p]
        /\ promise[n][s] # "none" => promise[p][s] = "none"
        /\ Backed(n, s) /\ Backed(p, s) /\ Staged(n, s) /\ Staged(p, s)
        /\ Going(n, s) /\ Going(p, s)
    BY GoingEnds
  <1>2. /\ channel'[p][s] = channel[p][s] /\ promise'[p][s] = promise[p][s]
        /\ frames'[p][s] = frames[p][s]
    BY <1>1, StepIsLocal DEF Step, Deliver
  <1>3. Took(net[n], net'[n], s, "HELLO_ACK") /\ net'[p] = net[p]
    BY <1>1, NetEffect DEF HandleHelloAck, Reaches
  <1>4. HandleHelloAckChanges(n, s)
    BY <1>1, HandleHelloAckEffect
  <1>. QED
    BY <1>1, <1>2, <1>3, <1>4, SMTT(30)
       DEF HandleHelloAckChanges, Going, Took, Gained

\* KEY_EXCHANGE: the token goes back as an AUTH_RESPONSE.
LEMMA HandleKeyExchangeMoves ==
    ASSUME GInv, ~Inline, ~SendMayFail, NEW n \in Nodes, NEW s \in Sessions, HandleKeyExchange(n, s),
           NEW p \in Nodes, p = Remote[n]
    PROVE  Going(n, s)' /\ Going(p, s)'
  <1>. USE DEF OpenMoves, Announced, Ending, InFlight, Types
  <1>1. /\ HInv /\ TypeOK /\ p # n /\ Remote[p] = n /\ Remote[n] = p
        /\ up[n] /\ up[p]
        /\ promise[n][s] # "none" => promise[p][s] = "none"
        /\ Backed(n, s) /\ Backed(p, s) /\ Staged(n, s) /\ Staged(p, s)
        /\ Going(n, s) /\ Going(p, s)
    BY GoingEnds
  <1>2. /\ channel'[p][s] = channel[p][s] /\ promise'[p][s] = promise[p][s]
        /\ frames'[p][s] = frames[p][s]
    BY <1>1, StepIsLocal DEF Step, Deliver
  <1>3. Took(net[n], net'[n], s, "KEY_EXCHANGE") /\ Gained(net[p], net'[p], s, "AUTH_RESPONSE")
    BY <1>1, NetEffect DEF HandleKeyExchange, Reaches, MayReject, Connected
  <1>4. HandleKeyExchangeChanges(n, s)
    BY <1>1, HandleKeyExchangeEffect
  <1>. QED
    BY <1>1, <1>2, <1>3, <1>4, SMTT(30)
       DEF HandleKeyExchangeChanges, Going, Took, Gained, Staged, ExchangeStage

\* AUTH_RESPONSE: the token is the suspended handler.
LEMMA HandleAuthResponseMoves ==
    ASSUME GInv, ~Inline, ~SendMayFail, NEW n \in Nodes, NEW s \in Sessions, HandleAuthResponse(n, s),
           NEW p \in Nodes, p = Remote[n]
    PROVE  Going(n, s)' /\ Going(p, s)'
  <1>. USE DEF OpenMoves, Announced, Ending, InFlight, Types
  <1>1. /\ HInv /\ TypeOK /\ p # n /\ Remote[p] = n /\ Remote[n] = p
        /\ up[n] /\ up[p]
        /\ promise[n][s] # "none" => promise[p][s] = "none"
        /\ Backed(n, s) /\ Backed(p, s) /\ Staged(n, s) /\ Staged(p, s)
        /\ Going(n, s) /\ Going(p, s)
    BY GoingEnds
  <1>2. /\ channel'[p][s] = channel[p][s] /\ promise'[p][s] = promise[p][s]
        /\ frames'[p][s] = frames[p][s]
    BY <1>1, StepIsLocal DEF Step, Deliver
  <1>3. /\ Took(net[n], net'[n], s, "AUTH_RESPONSE") /\ Gained(net[p], net'[p], s, "AUTH_CONFIRM")
        /\ frames'[n][s] = {"authResponse"}
    <2>1. Suspend(n, s, "authResponse") /\ \E m \in SignedMsgs("AUTH_CONFIRM", s) : Answer(n, m)
      BY <1>1 DEF HandleAuthResponse, MayReject, Connected
    <2>2. frames[n][s] = {}
      BY <1>1, HandleAuthResponseEffect DEF HandleAuthResponseChanges
    <2>. QED  BY <1>1, <2>1, <2>2, NetEffect DEF HandleAuthResponse, Reaches, Suspend, TypeOK
  <1>4. HandleAuthResponseChanges(n, s)
    BY <1>1, HandleAuthResponseEffect
  <1>. QED
    BY <1>1, <1>2, <1>3, <1>4, SMTT(30)
       DEF HandleAuthResponseChanges, Going, Took, Gained

\* AUTH_CONFIRM: the responder has not closed yet.
LEMMA ResponderReadyMoves ==
    ASSUME GInv, ~Inline, ~SendMayFail, NEW n \in Nodes, NEW s \in Sessions, ResponderReady(n, s),
           NEW p \in Nodes, p = Remote[n]
    PROVE  Going(n, s)' /\ Going(p, s)'
  <1>. USE DEF OpenMoves, Announced, Ending, InFlight, Types
  <1>1. /\ HInv /\ TypeOK /\ p # n /\ Remote[p] = n /\ Remote[n] = p
        /\ up[n] /\ up[p]
        /\ promise[n][s] # "none" => promise[p][s] = "none"
        /\ Backed(n, s) /\ Backed(p, s) /\ Staged(n, s) /\ Staged(p, s)
        /\ Going(n, s) /\ Going(p, s)
    BY GoingEnds
  <1>2. /\ channel'[p][s] = channel[p][s] /\ promise'[p][s] = promise[p][s]
        /\ frames'[p][s] = frames[p][s]
    BY <1>1, StepIsLocal DEF Step, Deliver
  <1>3. Took(net[n], net'[n], s, "AUTH_CONFIRM") /\ net'[p] = net[p]
    BY <1>1, NetEffect DEF ResponderReady, Reaches
  <1>4. ResponderReadyChanges(n, s)
    BY <1>1, ResponderReadyEffect
  <1>. QED
    BY <1>1, <1>2, <1>3, <1>4, SMTT(30)
       DEF ResponderReadyChanges, Going, Took, Gained, Staged, Settled

\* A signature that does not verify: openChannel is rejected.
LEMMA AuthFailsMoves ==
    ASSUME GInv, ~Inline, ~SendMayFail, NEW n \in Nodes, NEW s \in Sessions, AuthFails(n, s),
           NEW p \in Nodes, p = Remote[n]
    PROVE  Going(n, s)' /\ Going(p, s)'
  <1>. USE DEF OpenMoves, Announced, Ending, InFlight, Types
  <1>1. /\ HInv /\ TypeOK /\ p # n /\ Remote[p] = n /\ Remote[n] = p
        /\ up[n] /\ up[p]
        /\ promise[n][s] # "none" => promise[p][s] = "none"
        /\ Backed(n, s) /\ Backed(p, s) /\ Staged(n, s) /\ Staged(p, s)
        /\ Going(n, s) /\ Going(p, s)
    BY GoingEnds
  <1>2. /\ channel'[p][s] = channel[p][s] /\ promise'[p][s] = promise[p][s]
        /\ frames'[p][s] = frames[p][s]
    BY <1>1, StepIsLocal DEF Step, Deliver
  <1>3. /\ net'[p] = net[p]
        /\ \/ pending[n][s] = "initiator" /\ Took(net[n], net'[n], s, "AUTH_RESPONSE")
           \/ pending[n][s] = "responder" /\ Took(net[n], net'[n], s, "AUTH_CONFIRM")
    BY <1>1, NetEffect DEF AuthFails
  <1>4. AuthFailsChanges(n, s)
    BY <1>1, AuthFailsEffect
  <1>. QED
    BY <1>1, <1>2, <1>3, <1>4, SMTT(30)
       DEF AuthFailsChanges, Going, Took, Gained, Staged, Settled, Roles, Backed,
           PendingBacked

\* Application messages carry no token.
LEMMA HandleAppMessageMoves ==
    ASSUME GInv, ~Inline, ~SendMayFail, NEW n \in Nodes, NEW s \in Sessions, HandleAppMessage(n, s),
           NEW p \in Nodes, p = Remote[n]
    PROVE  Going(n, s)' /\ Going(p, s)'
  <1>. USE DEF OpenMoves, Announced, Ending, InFlight, Types
  <1>1. /\ HInv /\ TypeOK /\ p # n /\ Remote[p] = n /\ Remote[n] = p
        /\ up[n] /\ up[p]
        /\ promise[n][s] # "none" => promise[p][s] = "none"
        /\ Backed(n, s) /\ Backed(p, s) /\ Staged(n, s) /\ Staged(p, s)
        /\ Going(n, s) /\ Going(p, s)
    BY GoingEnds
  <1>2. /\ channel'[p][s] = channel[p][s] /\ promise'[p][s] = promise[p][s]
        /\ frames'[p][s] = frames[p][s]
    BY <1>1, StepIsLocal DEF Step, Deliver
  <1>3. Took(net[n], net'[n], s, "APP") /\ net'[p] = net[p]
    BY <1>1, NetEffect DEF HandleAppMessage, Reaches
  <1>4. HandleAppMessageChanges(n, s)
    BY <1>1, HandleAppMessageEffect
  <1>. QED
    BY <1>1, <1>2, <1>3, <1>4, SMTT(30)
       DEF HandleAppMessageChanges, Going, Took, Gained

\* No message that carries the token is ignored.
LEMMA IgnoreDataMoves ==
    ASSUME GInv, ~Inline, ~SendMayFail, NEW n \in Nodes, NEW s \in Sessions, IgnoreData(n, s),
           NEW p \in Nodes, p = Remote[n]
    PROVE  Going(n, s)' /\ Going(p, s)'
  <1>. USE DEF OpenMoves, Announced, Ending, InFlight, Types
  <1>1. /\ HInv /\ TypeOK /\ p # n /\ Remote[p] = n /\ Remote[n] = p
        /\ up[n] /\ up[p]
        /\ promise[n][s] # "none" => promise[p][s] = "none"
        /\ Backed(n, s) /\ Backed(p, s) /\ Staged(n, s) /\ Staged(p, s)
        /\ Going(n, s) /\ Going(p, s)
    BY GoingEnds
  <1>2. /\ channel'[p][s] = channel[p][s] /\ promise'[p][s] = promise[p][s]
        /\ frames'[p][s] = frames[p][s]
    BY <1>1, StepIsLocal DEF Step, Deliver
  <1>3. /\ net'[p] = net[p]
        /\ \/ channel[n][s] = "none" /\ Took(net[n], net'[n], s, "KEY_EXCHANGE")
           \/ pending[n][s] # "initiator" /\ Took(net[n], net'[n], s, "AUTH_RESPONSE")
           \/ Took(net[n], net'[n], s, "AUTH_CONFIRM")
    BY <1>1, NetEffect DEF IgnoreData
  <1>4. IgnoreDataChanges(n, s)
    BY <1>1, IgnoreDataEffect
  <1>. QED
    BY <1>1, <1>2, <1>3, <1>4, SMTT(30)
       DEF IgnoreDataChanges, Going, Took, Gained, Staged, ResponseStage, Settled

\* GOODBYE: the receiver is CLOSED from then on.
LEMMA HandleGoodbyeMoves ==
    ASSUME GInv, ~Inline, ~SendMayFail, NEW n \in Nodes, NEW s \in Sessions, HandleGoodbye(n, s),
           NEW p \in Nodes, p = Remote[n]
    PROVE  Going(n, s)' /\ Going(p, s)'
  <1>. USE DEF OpenMoves, Announced, Ending, InFlight, Types
  <1>1. /\ HInv /\ TypeOK /\ p # n /\ Remote[p] = n /\ Remote[n] = p
        /\ up[n] /\ up[p]
        /\ promise[n][s] # "none" => promise[p][s] = "none"
        /\ Backed(n, s) /\ Backed(p, s) /\ Staged(n, s) /\ Staged(p, s)
        /\ Going(n, s) /\ Going(p, s)
    BY GoingEnds
  <1>2. /\ channel'[p][s] = channel[p][s] /\ promise'[p][s] = promise[p][s]
        /\ frames'[p][s] = frames[p][s]
    BY <1>1, StepIsLocal DEF Step, Deliver
  <1>3. Took(net[n], net'[n], s, "GOODBYE") /\ net'[p] = net[p]
    BY <1>1, NetEffect DEF HandleGoodbye, Reaches
  <1>4. HandleGoodbyeChanges(n, s)
    BY <1>1, HandleGoodbyeEffect
  <1>5. channel[n][s] # "none"
    BY <1>1, <1>3, KnownWhenDecided DEF Took, Staged, DecisionFirst, AfterHandshake
  <1>. QED
    BY <1>1, <1>2, <1>3, <1>4, <1>5, SMTT(30)
       DEF HandleGoodbyeChanges, Going, Took, Gained

\* openChannel after openSession: the KEY_EXCHANGE follows the HELLO.
LEMMA SendKeyExchangeMoves ==
    ASSUME GInv, ~Inline, ~SendMayFail, NEW n \in Nodes, NEW s \in Sessions, SendKeyExchange(n, s),
           NEW p \in Nodes, p = Remote[n]
    PROVE  Going(n, s)' /\ Going(p, s)'
  <1>. USE DEF OpenMoves, Announced, Ending, InFlight, Types
  <1>1. /\ HInv /\ TypeOK /\ p # n /\ Remote[p] = n /\ Remote[n] = p
        /\ up[n] /\ up[p]
        /\ promise[n][s] # "none" => promise[p][s] = "none"
        /\ Backed(n, s) /\ Backed(p, s) /\ Staged(n, s) /\ Staged(p, s)
        /\ Going(n, s) /\ Going(p, s)
    BY GoingEnds
  <1>2. /\ channel'[p][s] = channel[p][s] /\ promise'[p][s] = promise[p][s]
        /\ frames'[p][s] = frames[p][s]
    BY <1>1, StepIsLocal DEF Step, Continue
  <1>3. net'[n] = net[n] /\ Gained(net[p], net'[p], s, "KEY_EXCHANGE")
    BY <1>1, NetEffect DEF SendKeyExchange, Reaches, MayReject, Connected
  <1>4. SendKeyExchangeChanges(n, s)
    BY <1>1, SendKeyExchangeEffect
  <1>. QED
    BY <1>1, <1>2, <1>3, <1>4, SMTT(30)
       DEF SendKeyExchangeChanges, Going, Took, Gained, Staged, OpeningStage

\* The initiator is READY, and its handler still suspended.
LEMMA InitiatorReadyMoves ==
    ASSUME GInv, ~Inline, ~SendMayFail, NEW n \in Nodes, NEW s \in Sessions, InitiatorReady(n, s),
           NEW p \in Nodes, p = Remote[n]
    PROVE  Going(n, s)' /\ Going(p, s)'
  <1>. USE DEF OpenMoves, Announced, Ending, InFlight, Types
  <1>1. /\ HInv /\ TypeOK /\ p # n /\ Remote[p] = n /\ Remote[n] = p
        /\ up[n] /\ up[p]
        /\ promise[n][s] # "none" => promise[p][s] = "none"
        /\ Backed(n, s) /\ Backed(p, s) /\ Staged(n, s) /\ Staged(p, s)
        /\ Going(n, s) /\ Going(p, s)
    BY GoingEnds
  <1>2. /\ channel'[p][s] = channel[p][s] /\ promise'[p][s] = promise[p][s]
        /\ frames'[p][s] = frames[p][s]
    BY <1>1, StepIsLocal DEF Step, Continue
  <1>3. net'[n] = net[n] /\ net'[p] = net[p]
    BY DEF InitiatorReady
  <1>4. InitiatorReadyChanges(n, s)
    BY <1>1, InitiatorReadyEffect
  <1>. QED
    BY <1>1, <1>2, <1>3, <1>4, SMTT(30)
       DEF InitiatorReadyChanges, Going, Took, Gained, Staged, Roles, Backed,
           ConfirmingBacked

\* The promise is resolved; a close begun in onChannelReady goes on.
LEMMA InitiatorResolvesMoves ==
    ASSUME GInv, ~Inline, ~SendMayFail, NEW n \in Nodes, NEW s \in Sessions, InitiatorResolves(n, s),
           NEW p \in Nodes, p = Remote[n]
    PROVE  Going(n, s)' /\ Going(p, s)'
  <1>. USE DEF OpenMoves, Announced, Ending, InFlight, Types
  <1>1. /\ HInv /\ TypeOK /\ p # n /\ Remote[p] = n /\ Remote[n] = p
        /\ up[n] /\ up[p]
        /\ promise[n][s] # "none" => promise[p][s] = "none"
        /\ Backed(n, s) /\ Backed(p, s) /\ Staged(n, s) /\ Staged(p, s)
        /\ Going(n, s) /\ Going(p, s)
    BY GoingEnds
  <1>2. /\ channel'[p][s] = channel[p][s] /\ promise'[p][s] = promise[p][s]
        /\ frames'[p][s] = frames[p][s]
    BY <1>1, StepIsLocal DEF Step, Continue
  <1>3. net'[n] = net[n] /\ net'[p] = net[p]
    BY DEF InitiatorResolves
  <1>4. InitiatorResolvesChanges(n, s)
    BY <1>1, InitiatorResolvesEffect
  <1>. QED
    BY <1>1, <1>2, <1>3, <1>4, SMTT(30)
       DEF InitiatorResolvesChanges, Going, Took, Gained, Staged, Roles, Backed,
           ConfirmingBacked

\* The end that said GOODBYE is CLOSED.
LEMMA DisconnectedMoves ==
    ASSUME GInv, ~Inline, ~SendMayFail, NEW n \in Nodes, NEW s \in Sessions, Disconnected(n, s),
           NEW p \in Nodes, p = Remote[n]
    PROVE  Going(n, s)' /\ Going(p, s)'
  <1>. USE DEF OpenMoves, Announced, Ending, InFlight, Types
  <1>1. /\ HInv /\ TypeOK /\ p # n /\ Remote[p] = n /\ Remote[n] = p
        /\ up[n] /\ up[p]
        /\ promise[n][s] # "none" => promise[p][s] = "none"
        /\ Backed(n, s) /\ Backed(p, s) /\ Staged(n, s) /\ Staged(p, s)
        /\ Going(n, s) /\ Going(p, s)
    BY GoingEnds
  <1>2. /\ channel'[p][s] = channel[p][s] /\ promise'[p][s] = promise[p][s]
        /\ frames'[p][s] = frames[p][s]
    BY <1>1, StepIsLocal DEF Step, Continue
  <1>3. net'[n] = net[n] /\ net'[p] = net[p]
    BY DEF Disconnected
  <1>4. DisconnectedChanges(n, s)
    BY <1>1, DisconnectedEffect
  <1>5. channel[n][s] # "none"
    BY <1>1, <1>4, KnownWhenDecided DEF DisconnectedChanges, Staged, Roles, DecisionFirst
  <1>. QED
    BY <1>1, <1>2, <1>3, <1>4, <1>5, SMTT(30)
       DEF DisconnectedChanges, Going, Took, Gained

\* A message to the other end carries no token.
LEMMA SendMessageMoves ==
    ASSUME GInv, ~Inline, ~SendMayFail, NEW n \in Nodes, NEW s \in Sessions, SendMessage(n, s),
           NEW p \in Nodes, p = Remote[n]
    PROVE  Going(n, s)' /\ Going(p, s)'
  <1>. USE DEF OpenMoves, Announced, Ending, InFlight, Types
  <1>1. /\ HInv /\ TypeOK /\ p # n /\ Remote[p] = n /\ Remote[n] = p
        /\ up[n] /\ up[p]
        /\ promise[n][s] # "none" => promise[p][s] = "none"
        /\ Backed(n, s) /\ Backed(p, s) /\ Staged(n, s) /\ Staged(p, s)
        /\ Going(n, s) /\ Going(p, s)
    BY GoingEnds
  <1>2. /\ channel'[p][s] = channel[p][s] /\ promise'[p][s] = promise[p][s]
        /\ frames'[p][s] = frames[p][s]
    BY <1>1, StepIsLocal DEF Step, Application
  <1>3. net'[n] = net[n] /\ Gained(net[p], net'[p], s, "APP")
    BY <1>1, NetEffect DEF SendMessage, Reaches, MayReject, Connected
  <1>4. SendMessageChanges(n, s)
    BY <1>1, SendMessageEffect
  <1>. QED
    BY <1>1, <1>2, <1>3, <1>4, SMTT(30)
       DEF SendMessageChanges, Going, Took, Gained

\* A close: both ends are about to be CLOSED.
LEMMA CloseChannelMoves ==
    ASSUME GInv, ~Inline, ~SendMayFail, NEW n \in Nodes, NEW s \in Sessions, CloseChannel(n, s),
           NEW p \in Nodes, p = Remote[n]
    PROVE  Going(n, s)' /\ Going(p, s)'
  <1>. USE DEF OpenMoves, Announced, Ending, InFlight, Types
  <1>1. /\ HInv /\ TypeOK /\ p # n /\ Remote[p] = n /\ Remote[n] = p
        /\ up[n] /\ up[p]
        /\ promise[n][s] # "none" => promise[p][s] = "none"
        /\ Backed(n, s) /\ Backed(p, s) /\ Staged(n, s) /\ Staged(p, s)
        /\ Going(n, s) /\ Going(p, s)
    BY GoingEnds
  <1>2. /\ channel'[p][s] = channel[p][s] /\ promise'[p][s] = promise[p][s]
        /\ frames'[p][s] = frames[p][s]
    BY <1>1, StepIsLocal DEF Step, Application
  <1>3. /\ net'[n] = net[n] /\ Gained(net[p], net'[p], s, "GOODBYE")
        /\ "disconnect" \in frames'[n][s]
    <2>1. Send(n, Msg("GOODBYE", s)) /\ Suspend(n, s, "disconnect")
      BY <1>1 DEF CloseChannel, MayReject, Connected
    <2>2. "disconnect" \in frames'[n][s]
      BY <1>1, <2>1 DEF Suspend, TypeOK
    <2>. QED  BY <1>1, <2>1, <2>2, NetEffect DEF Reaches
  <1>4. CloseChannelChanges(n, s)
    BY <1>1, CloseChannelEffect
  <1>. QED
    BY <1>1, <1>2, <1>3, <1>4, SMTT(30)
       DEF CloseChannelChanges, Going, Took, Gained

\* openChannel: the HELLO is on its way when its handler is suspended.
LEMMA OpenChannelMoves ==
    ASSUME GInv, ~Inline, ~SendMayFail, NEW n \in Nodes, NEW s \in Sessions, OpenChannel(n, s),
           NEW p \in Nodes, p = Remote[n]
    PROVE  Going(n, s)' /\ Going(p, s)'
  <1>. USE DEF OpenMoves, Announced, Ending, InFlight, Types
  <1>1. /\ TypeOK /\ p # n /\ Remote[p] = n /\ Remote[n] = p
        /\ up[n] /\ up[p] /\ Going(n, s) /\ Going(p, s)
    BY GoingEnds
  <1>2. /\ promise'[p][s] = promise[p][s] /\ frames'[p][s] = frames[p][s]
    BY <1>1, StepIsLocal DEF Step, Application
  <1>3. net'[n] = net[n] /\ Gained(net[p], net'[p], s, "HELLO") /\ channel' = channel
    BY <1>1, NetEffect DEF OpenChannel, Reaches, MayReject, Connected
  <1>4. frames'[n][s] = frames[n][s] \cup {"openSession"}
    BY <1>1 DEF OpenChannel, Suspend, TypeOK, MayReject, Connected
  <1>5. promise[p][s] = "none"
    BY DEF OpenChannel
  <1>6. "openSession" \notin frames[p][s]
    BY <1>5, Ends DEF GInv, Staged, Roles
  <1>. QED
    BY <1>1, <1>2, <1>3, <1>4, <1>5, <1>6, SMTT(30) DEF Going, Gained

\* A step about s at n and its peer leaves everything else going.
LEMMA StepMovesElsewhere ==
    ASSUME GInv, ~Inline, NEW n \in Nodes, NEW s \in Sessions, Step(n, s),
           NEW x \in Nodes, NEW r \in Sessions, r # s \/ (x # n /\ x # Remote[n])
    PROVE  Going(x, r)'
  <1>. USE DEF OpenMoves, Announced, Ending, InFlight, Types
  <1>1. PICK y \in Nodes : y = Remote[x] /\ Remote[y] = x
    BY RemoteAssumption
  <1>2. TypeOK /\ Going(x, r)
    BY DEF GInv, HInv, IInv
  <1>3. r # s \/ (y # n /\ y # Remote[n])
    BY <1>1, RemoteAssumption
  <1>4. \A q \in {x, y} :
           /\ channel'[q][r] = channel[q][r] /\ promise'[q][r] = promise[q][r]
           /\ frames'[q][r] = frames[q][r]
    BY <1>2, <1>3, StepIsLocal
  <1>5. Kept(net[x], net'[x], r) /\ Kept(net[y], net'[y], r)
    BY <1>2, <1>3, StepKeepsInboxes
  <1>. QED  BY <1>1, <1>2, <1>4, <1>5 DEF Going, Kept

\* What is to come stays on its way, whatever signatures do not verify and
\* whenever the application closes.
THEOREM ProgressInvariance ==
    ASSUME ~Inline, ~StopAllowed, ~SendMayFail PROVE Spec => []GInv
<1>1. HInv /\ Init => GInv
  <2>. SUFFICES ASSUME HInv, Init PROVE GInv
    OBVIOUS
  <2>1. ASSUME NEW n \in Nodes, NEW s \in Sessions PROVE Going(n, s)
    <3>1. Remote[n] \in Nodes
      BY RemoteAssumption
    <3>. QED
      BY <3>1 DEF Init, Going, OpenMoves, Announced, Ending, InFlight, Holds, HelloFirst, Preceded
  <2>. QED  BY <2>1 DEF GInv, Init
<1>2. GInv /\ HInv' /\ [Next]_vars => GInv'
  <2>. SUFFICES ASSUME GInv, HInv', [Next]_vars PROVE GInv'
    OBVIOUS
  <2>1. ASSUME NEW n \in Nodes, NEW s \in Sessions, Step(n, s) PROVE GInv'
    <3>1. PICK p \in Nodes : p = Remote[n]
      BY RemoteAssumption
    <3>2. Going(n, s)' /\ Going(p, s)'
      <4>1. CASE Deliver(n, s)
        BY <3>1, <4>1, HandleHelloMoves, HandleHelloAckMoves, HandleKeyExchangeMoves,
           HandleAuthResponseMoves, ResponderReadyMoves, AuthFailsMoves, HandleAppMessageMoves,
           IgnoreDataMoves, HandleGoodbyeMoves DEF Deliver
      <4>2. CASE Continue(n, s)
        BY <3>1, <4>2, SendKeyExchangeMoves, InitiatorReadyMoves,
           InitiatorResolvesMoves, DisconnectedMoves DEF Continue
      <4>3. CASE Application(n, s)
        BY <3>1, <4>3, OpenChannelMoves, SendMessageMoves, CloseChannelMoves DEF Application
      <4>. QED  BY <2>1, <4>1, <4>2, <4>3 DEF Step
    <3>3. \A x \in Nodes, r \in Sessions : Going(x, r)'
      BY <2>1, <3>1, <3>2, StepMovesElsewhere
    <3>4. up' = up
      <4>1. TypeOK
        BY DEF GInv, HInv, IInv
      <4>. QED  BY <2>1, <3>1, <4>1, StepIsLocal, RemoteAssumption
    <3>. QED  BY <3>3, <3>4 DEF GInv
  <2>2. ~ \E n \in Nodes : Stop(n)
    BY DEF Stop
  <2>3. CASE UNCHANGED vars
    <3>1. ASSUME NEW x \in Nodes, NEW r \in Sessions PROVE Going(x, r)'
      BY <2>3 DEF vars, GInv, Going, OpenMoves, Announced, Ending, InFlight
    <3>. QED  BY <2>3, <3>1 DEF vars, GInv
  <2>. QED  BY <2>1, <2>2, <2>3 DEF Next, Step
<1>. QED  BY <1>1, <1>2, HandshakeInvariance, PTL DEF Spec

\* No openChannel is ever stuck, so that it can only fail to settle if an event
\* loop stops running.
THEOREM OpensAreUnderWay ==
    ASSUME ~Inline, ~StopAllowed, ~SendMayFail PROVE Spec => []OpenIsUnderWay
<1>1. GInv => OpenIsUnderWay
  <2>. SUFFICES ASSUME GInv, NEW n \in Nodes, NEW s \in Sessions, promise[n][s] = "pending"
                PROVE  \/ frames[n][s] \cap {"openSession", "authResponse"} # {}
                       \/ InFlight(Remote[n], s, "KEY_EXCHANGE")
                       \/ InFlight(n, s, "AUTH_RESPONSE") /\ pending[n][s] = "initiator"
    BY DEF OpenIsUnderWay
  <2>1. Going(n, s) /\ Staged(n, s) /\ up[n]
    BY DEF GInv, HInv
  <2>. QED  BY <2>1 DEF Going, OpenMoves, Staged, Settled
<1>. QED  BY <1>1, ProgressInvariance, PTL

\* The responder of a READY initiator has decided or has the confirmation
\* coming, and waits for it.
THEOREM DecisionsAreUnderWay ==
    ASSUME ~Inline, ~StopAllowed, ~SendMayFail PROVE Spec => []DecisionIsUnderWay
<1>1. GInv => DecisionIsUnderWay
  <2>. SUFFICES ASSUME GInv, NEW n \in Nodes, NEW s \in Sessions, promise[n][s] = "resolved",
                       channel[Remote[n]][s] \in {"none", "AUTHENTICATING"}
                PROVE  /\ InFlight(Remote[n], s, "AUTH_CONFIRM")
                       /\ pending[Remote[n]][s] = "responder"
    BY DEF DecisionIsUnderWay
  <2>1. PICK p \in Nodes : p = Remote[n]
    BY RemoteAssumption
  <2>2. /\ up[n] /\ up[p] /\ Staged(p, s) /\ Remote[p] = n
    BY <2>1, GoingEnds
  <2>. QED  BY <2>1, <2>2 DEF Staged, ConfirmStage, HasConfirmed
<1>. QED  BY <1>1, ProgressInvariance, PTL

\* No close is one-sided: what the other end needs to follow is on its way.
THEOREM ClosesAreUnderWay ==
    ASSUME ~Inline, ~StopAllowed, ~SendMayFail PROVE Spec => []CloseIsUnderWay
<1>1. GInv => CloseIsUnderWay
  BY DEF GInv, Going, Ending, CloseIsUnderWay
<1>. QED  BY <1>1, ProgressInvariance, PTL

\* The safety half of liveness over an open data channel: nobody waits for what
\* does not come.
THEOREM NothingGetsStuck ==
    ASSUME ~Inline, ~StopAllowed, ~SendMayFail PROVE Spec => []NothingIsStuck
BY OpensAreUnderWay, DecisionsAreUnderWay, ClosesAreUnderWay, PTL DEF NothingIsStuck

=============================================================================

--------------------------- MODULE BrowserProofs ----------------------------
(***************************************************************************)
(* Theorems about BrowserChannel, for any bound on the calls and whoever's *)
(* signatures may not verify: what the page shows, and which messages and  *)
(* statuses Web Crypto's delays can cost.                                  *)
(***************************************************************************)
EXTENDS BrowserChannel, SequenceLemmas

Messages == {"HELLO", "KEY_EXCHANGE", "AUTH_RESPONSE", "AUTH_CONFIRM", "APP", "GOODBYE"}

Slots == (Ends \cup {"null"}) \X (Ends \cup {"null"})

TypeOK ==
    /\ net     \in [Ends -> Seq(Messages)]
    /\ session \in [Ends -> BOOLEAN]
    /\ channel \in [Ends -> {"none", "AUTHENTICATING", "READY", "CLOSED", "ERROR"}]
    /\ pending \in [Ends -> {"none", "initiator", "responder"}]
    /\ key     \in [Ends -> BOOLEAN]
    /\ jobs    \in [Ends -> SUBSET {"derive", "sign", "verify"}]
    /\ encrypting \in [Ends -> Nat]
    /\ promise \in {"none", "pending", "resolved", "rejected"}
    /\ told    \in [Ends -> BOOLEAN]
    /\ calls   \in [Ends -> Nat]
    /\ card    \in [status : {"none", "READY", "CLOSED"}, slots : Slots]

-----------------------------------------------------------------------------
(* The inductive invariant *)

Runs(n, j) == IF j \in jobs[n] THEN 1 ELSE 0

\* The handshake is in one place at a time: a KEY_EXCHANGE, ...
Requests == Count(net["B"], "KEY_EXCHANGE")

\* ... the responder's handler of it, ...
AtResponder == Runs("B", "derive") + Runs("B", "sign")

\* ... the AUTH_RESPONSE, ...
Responses == Count(net["A"], "AUTH_RESPONSE")

\* ... the initiator's handler of that, ...
AtInitiator == Responses + Runs("A", "verify") + Runs("A", "derive") + Runs("A", "sign")

\* ... the AUTH_CONFIRM ...
Confirmations == Count(net["B"], "AUTH_CONFIRM")

\* ... or the responder's handler of that.
Confirming == Confirmations + Runs("B", "verify")

\* Until the initiator's handler is through, no end has decided.
Undecided == Requests + AtResponder + AtInitiator

Over == {"READY"} \cup Ended

\* The responder has decided, or is about to.
Decided == channel["B"] \in Over \/ Verifying

\* Before every message of T in q there is an m.
Preceded(q, m, T) ==
    \A j \in 1 .. Len(q) : q[j] \in T => \E i \in 1 .. j - 1 : q[i] = m

\* What the initiator sends after it has decided is behind its confirmation.
ConfirmFirst(q) == Preceded(q, "AUTH_CONFIRM", {"APP", "GOODBYE"})

\* The session is announced before its handshake begins.
HelloFirst(q) == Preceded(q, "HELLO", {"KEY_EXCHANGE"})

OneToken == Undecided + Confirming <= 1

Unopened ==
    promise = "none" => Undecided + Confirming = 0 /\ channel["A"] = "none" /\ ~told["A"]

InitiatorWaits ==
    Undecided > 0 => session["A"] /\ channel["A"] = "AUTHENTICATING" /\ ~told["A"]

ResponderWaits ==
    Confirming > 0 =>
        /\ told["A"] /\ ~told["B"] /\ channel["B"] # "READY"
        /\ card.status # "none" /\ card.slots = <<"A", "B">>

NoneIsBefore ==
    channel["B"] = "none" => AtResponder + AtInitiator + Confirming = 0 /\ ~told["A"]

Token == OneToken /\ Unopened /\ InitiatorWaits /\ ResponderWaits /\ NoneIsBefore

\* The application has a channel only when its end has decided, A's first.
ToldInOrder ==
    /\ told["B"] \/ channel["B"] \in Over => told["A"]
    /\ \A n \in Ends : told[n] => channel[n] \in Over

\* An end whose application has no channel sends none of its messages.
SilentUntilTold ==
    \A n \in Ends : ~told[n] =>
        /\ encrypting[n] = 0
        /\ Count(net[Other(n)], "APP") = 0 /\ Count(net[Other(n)], "GOODBYE") = 0

\* The confirmation reaches the responder before anything else does.
ConfirmArrives ==
    /\ told["A"] => Confirmations > 0 \/ Decided
    /\ Decided \/ ConfirmFirst(net["B"])

IInv ==
    TypeOK /\ Token /\ ToldInOrder /\ SilentUntilTold /\ ConfirmArrives /\ CardReadyIsBacked

\* What openChannel's promise and the early returns depend on: the caller waits
\* just while the handshake is undecided, who acts next can send and is expected,
\* and nobody asks for a key in a session the responder has not heard of.
PInv ==
    /\ promise = "pending" <=> Undecided > 0
    /\ Undecided > 0 => pending["A"] = "initiator"
    /\ AtResponder > 0 => session["B"]
    /\ AtInitiator > 0 \/ Confirmations > 0 =>
          pending["B"] = "responder" /\ channel["B"] = "AUTHENTICATING"
    /\ channel["B"] = "none" => HelloFirst(net["B"])
    /\ pending["B"] # "initiator"

-----------------------------------------------------------------------------
(* Inboxes *)

AB == Ends = {"A", "B"} /\ Other("A") = "B" /\ Other("B") = "A"

\* The inbox of n loses the message m and nothing else.
Takes(n, m) ==
    /\ net' \in [Ends -> Seq(Messages)]
    /\ net'[Other(n)] = net[Other(n)]
    /\ Count(net[n], m) = Count(net'[n], m) + 1
    /\ \A x \in Messages \ {m} : Count(net'[n], x) = Count(net[n], x)
    /\ n = "B" /\ ConfirmFirst(net["B"]) =>
          /\ m \notin {"APP", "GOODBYE"}
          /\ m # "AUTH_CONFIRM" => ConfirmFirst(net'["B"])
    /\ n = "B" /\ HelloFirst(net["B"]) =>
          /\ m # "KEY_EXCHANGE"
          /\ m # "HELLO" => HelloFirst(net'["B"])

\* The inbox of n gets the message m and nothing else.
Gets(n, m) ==
    /\ net' \in [Ends -> Seq(Messages)]
    /\ net'[Other(n)] = net[Other(n)]
    /\ Count(net'[n], m) = Count(net[n], m) + 1
    /\ \A x \in Messages \ {m} : Count(net'[n], x) = Count(net[n], x)
    /\ /\ n = "B" /\ ConfirmFirst(net["B"])
       /\ m \in {"APP", "GOODBYE"} => Count(net["B"], "AUTH_CONFIRM") > 0
       => ConfirmFirst(net'["B"])
    /\ n = "B" /\ HelloFirst(net["B"]) /\ m # "KEY_EXCHANGE" => HelloFirst(net'["B"])

\* The ends are A and B.
LEMMA BothEnds == AB
  BY DEF AB, Ends, Other

\* How many of a message are in an inbox is a number.
LEMMA CountsAreNat ==
    ASSUME TypeOK, NEW n \in Ends, NEW m
    PROVE  Count(net[n], m) \in Nat
  BY CountType DEF TypeOK

\* Taking a message from its inbox.
LEMMA HeadTaken ==
    ASSUME TypeOK, NEW n \in Ends, NEW m \in Messages,
           net[n] # << >>, Head(net[n]) = m, net' = [net EXCEPT ![n] = Tail(@)]
    PROVE  Takes(n, m)
  <1>. DEFINE q == net[n]  w == Tail(q)
  <1>1. q \in Seq(Messages) /\ q # << >> /\ Head(q) = m
    BY DEF TypeOK
  <1>2. /\ w \in Seq(Messages) /\ Len(q) \in Nat \ {0} /\ Len(w) = Len(q) - 1 /\ q[1] = m
        /\ \A i \in 1 .. Len(w) : w[i] = q[i + 1] /\ i + 1 \in 1 .. Len(q)
        /\ \A i \in 1 .. Len(q) : i # 1 => i - 1 \in 1 .. Len(w) /\ w[i - 1] = q[i]
    BY <1>1
  <1>3. Count(q, m) = Count(w, m) + 1 /\ \A x \in Messages \ {m} : Count(q, x) = Count(w, x)
    BY <1>1, CountTail
  <1>4. net' \in [Ends -> Seq(Messages)] /\ net'[n] = w /\ net'[Other(n)] = net[Other(n)]
    BY <1>2, BothEnds DEF TypeOK, AB
  <1>. HIDE DEF q, w
  <1>5. ASSUME NEW x, NEW T, Preceded(q, x, T)
        PROVE  /\ m \notin T
               /\ m # x => Preceded(w, x, T)
    <2>1. m \notin T
      BY <1>2, <1>5 DEF Preceded
    <2>2. ASSUME m # x, NEW j \in 1 .. Len(w), w[j] \in T
          PROVE  \E i \in 1 .. j - 1 : w[i] = x
      <3>1. PICK i \in 1 .. (j + 1) - 1 : q[i] = x
        BY <1>2, <1>5, <2>2 DEF Preceded
      <3>2. i # 1 /\ i \in 1 .. Len(q)
        BY <1>2, <2>2, <3>1
      <3>. QED  BY <1>2, <3>1, <3>2
    <2>. QED  BY <2>1, <2>2 DEF Preceded
  <1>6. ConfirmFirst(q) =>
           m \notin {"APP", "GOODBYE"} /\ (m # "AUTH_CONFIRM" => ConfirmFirst(w))
    BY <1>5 DEF ConfirmFirst
  <1>7. HelloFirst(q) => m # "KEY_EXCHANGE" /\ (m # "HELLO" => HelloFirst(w))
    BY <1>5 DEF HelloFirst
  <1>. QED  BY <1>3, <1>4, <1>6, <1>7 DEF Takes, q

\* Adding a message to an inbox.
LEMMA TailAdded ==
    ASSUME TypeOK, NEW n \in Ends, NEW m \in Messages,
           net' = [net EXCEPT ![n] = Append(@, m)]
    PROVE  Gets(n, m)
  <1>. DEFINE q == net[n]  w == Append(q, m)
  <1>1. q \in Seq(Messages)
    BY DEF TypeOK
  <1>2. /\ w \in Seq(Messages) /\ Len(q) \in Nat /\ Len(w) = Len(q) + 1 /\ w[Len(q) + 1] = m
        /\ \A i \in 1 .. Len(q) : w[i] = q[i]
    BY <1>1
  <1>3. Count(w, m) = Count(q, m) + 1 /\ \A x \in Messages \ {m} : Count(w, x) = Count(q, x)
    BY <1>1, CountAppend
  <1>4. net' \in [Ends -> Seq(Messages)] /\ net'[n] = w /\ net'[Other(n)] = net[Other(n)]
    BY <1>2, BothEnds DEF TypeOK, AB
  <1>5. \A x : Count(q, x) > 0 => \E i \in 1 .. Len(q) : q[i] = x
    BY <1>1, CountAbsent
  <1>. HIDE DEF q, w
  <1>6. ASSUME NEW x, NEW T, Preceded(q, x, T), m \in T => Count(q, x) > 0,
               NEW j \in 1 .. Len(w), w[j] \in T
        PROVE  \E i \in 1 .. j - 1 : w[i] = x
    <2>1. CASE j \in 1 .. Len(q)
      <3>1. PICK i \in 1 .. j - 1 : q[i] = x
        BY <1>2, <1>6, <2>1 DEF Preceded
      <3>. QED  BY <1>2, <2>1, <3>1
    <2>2. CASE j = Len(q) + 1
      <3>1. PICK i \in 1 .. Len(q) : q[i] = x
        BY <1>2, <1>5, <1>6, <2>2
      <3>. QED  BY <1>2, <2>2, <3>1
    <2>. QED  BY <1>2, <2>1, <2>2
  <1>7. /\ ConfirmFirst(q) /\ (m \in {"APP", "GOODBYE"} => Count(q, "AUTH_CONFIRM") > 0)
        => ConfirmFirst(w)
    BY <1>6 DEF ConfirmFirst, Preceded
  <1>8. HelloFirst(q) /\ m # "KEY_EXCHANGE" => HelloFirst(w)
    BY <1>6 DEF HelloFirst, Preceded
  <1>. QED  BY <1>3, <1>4, <1>7, <1>8 DEF Gets, q

\* Sending: the message arrives or there is nobody to send it to.
LEMMA SendEffect ==
    ASSUME TypeOK, NEW n \in Ends, NEW m \in Messages, Send(n, m)
    PROVE  IF session[n] THEN Gets(Other(n), m) ELSE net' = net
  <1>1. session[n] => Gets(Other(n), m)
    BY TailAdded, BothEnds DEF Send, AB
  <1>. QED  BY <1>1 DEF Send

\* Receiving.
LEMMA ReceiveEffect ==
    ASSUME TypeOK, NEW n \in Ends, NEW m \in Messages, Receive(n, m)
    PROVE  Takes(n, m) /\ session' = [session EXCEPT ![n] = TRUE]
  BY HeadTaken DEF Receive

\* What the proofs below know of every state.
Known ==
    /\ AB /\ TypeOK
    /\ Requests \in Nat /\ Responses \in Nat /\ Confirmations \in Nat
    /\ \A n \in Ends : \A j : Runs(n, j) \in {0, 1}
    /\ AtResponder \in Nat /\ AtInitiator \in Nat /\ Confirming \in Nat
    /\ Undecided \in Nat /\ Undecided >= AtResponder + AtInitiator

\* A state of the invariant is known.
LEMMA StateFacts == IInv => Known
  <1>. SUFFICES ASSUME IInv PROVE Known
    OBVIOUS
  <1>1. /\ AB /\ TypeOK /\ Requests \in Nat /\ Responses \in Nat /\ Confirmations \in Nat
        /\ \A n \in Ends : \A j : Runs(n, j) \in {0, 1}
    BY CountsAreNat, BothEnds DEF IInv, AB, Requests, Responses, Confirmations, Runs
  <1>2. /\ Runs("A", "derive") \in Nat /\ Runs("A", "sign") \in Nat
        /\ Runs("B", "derive") \in Nat /\ Runs("B", "sign") \in Nat
        /\ Runs("A", "verify") \in Nat /\ Runs("B", "verify") \in Nat
    BY <1>1 DEF AB
  <1>. QED  BY <1>1, <1>2 DEF Known, AtResponder, AtInitiator, Confirming, Undecided

-----------------------------------------------------------------------------
(* Every action keeps the invariant *)

\* HandleHello keeps the invariant:
\* the HELLO of the initiator.
LEMMA HelloKeeps ==
    ASSUME IInv, HandleHello
    PROVE  IInv'
  <1>1. Known
    BY StateFacts
  <1>2. /\ UNCHANGED <<Runs("B", "derive"), Runs("B", "sign"), Runs("A", "verify")>>
        /\ UNCHANGED <<Runs("A", "derive"), Runs("A", "sign"), Runs("B", "verify")>>
    BY <1>1 DEF Known, AB, TypeOK, Runs, HandleHello
  <1>3. Takes("B", "HELLO")
    BY ReceiveEffect, BothEnds, <1>1 DEF Known, HandleHello, AB, Messages
  <1>4. TypeOK'
    BY <1>1, <1>3 DEF Known, AB, Takes, TypeOK, HandleHello, Receive
  <1>5. \A p \in Ends : \A m : Count(net'[p], m) \in Nat
    BY CountType, <1>4 DEF TypeOK
  <1>6. UNCHANGED <<Requests, Responses, Confirmations>>
    BY <1>1, <1>3, <1>5 DEF Known, AB, Takes, Messages, Requests, Responses,
         Confirmations, HandleHello
  <1>7. UNCHANGED <<Undecided, AtResponder, AtInitiator, Confirming>>
    BY <1>1, <1>2, <1>6 DEF Known, AB, IInv, Token, OneToken, Undecided, AtResponder,
         AtInitiator, Confirming
  <1>8. session["A"] => session'["A"]
    BY <1>1 DEF Known, AB, TypeOK, Receive, HandleHello
  <1>9. Token'
    BY <1>1, <1>7, <1>8 DEF Known, AB, IInv, TypeOK, Token, OneToken, Unopened,
         InitiatorWaits, ResponderWaits, NoneIsBefore, ToldInOrder, Over, Ended,
         HandleHello
  <1>10. ToldInOrder'
    BY <1>1, <1>7, <1>8 DEF Known, AB, IInv, TypeOK, Token, ResponderWaits,
         InitiatorWaits, NoneIsBefore, ToldInOrder, Over, Ended, HandleHello
  <1>11. SilentUntilTold'
    <2>. SUFFICES ASSUME NEW p \in Ends, ~told'[p]
         PROVE  /\ encrypting'[p] = 0
                /\ Count(net'[Other(p)], "APP") = 0 /\ Count(net'[Other(p)], "GOODBYE") = 0
      BY DEF SilentUntilTold
    <2>1. ~told[p]
      BY <1>1 DEF Known, AB, TypeOK, HandleHello
    <2>2. encrypting'[p] = 0
      BY <1>1, <2>1 DEF Known, AB, TypeOK, IInv, SilentUntilTold, HandleHello, Receive
    <2>3. Count(net'[Other(p)], "APP") = 0 /\ Count(net'[Other(p)], "GOODBYE") = 0
      BY <1>1, <1>3, <1>5, <2>1 DEF Known, AB, Takes, TypeOK, IInv, SilentUntilTold,
           Messages, HandleHello, Receive
    <2>. QED  BY <2>2, <2>3
  <1>12. ConfirmArrives'
    <2>1. Decided => Decided'
      BY <1>1, <1>3, <1>7 DEF Known, AB, TypeOK, IInv, Token, ResponderWaits,
           NoneIsBefore, Decided, Verifying, Over, Ended, HandleHello, Receive
    <2>2. told'["A"] => Confirmations' > 0 \/ Decided'
      BY <1>1, <1>6, <2>1 DEF Known, AB, TypeOK, IInv, ConfirmArrives, Decided,
           Verifying, Runs, HandleHello
    <2>3. Decided' \/ ConfirmFirst(net'["B"])
      BY <1>1, <1>3, <2>1 DEF Known, AB, Takes, TypeOK, IInv, ConfirmArrives,
           Confirmations, SilentUntilTold, ToldInOrder, Messages, HandleHello, Receive
    <2>. QED  BY <2>2, <2>3 DEF ConfirmArrives
  <1>13. CardReadyIsBacked'
    BY <1>1, <1>7 DEF Known, AB, IInv, TypeOK, Token, InitiatorWaits, ResponderWaits,
         NoneIsBefore, CardReadyIsBacked, HandleHello
  <1>. QED  BY <1>4, <1>9, <1>10, <1>11, <1>12, <1>13 DEF IInv

\* HandleKeyExchange keeps the invariant:
\* the token reaches the responder.
LEMMA KeyExchangeKeeps ==
    ASSUME IInv, HandleKeyExchange
    PROVE  IInv'
  <1>1. Known
    BY StateFacts
  <1>2. /\ Runs("B", "derive")' = 1
        /\ UNCHANGED <<Runs("B", "sign"), Runs("A", "verify"), Runs("A", "derive")>>
        /\ UNCHANGED <<Runs("A", "sign"), Runs("B", "verify")>>
    BY <1>1 DEF Known, AB, TypeOK, Runs, HandleKeyExchange, StartJob
  <1>3. Takes("B", "KEY_EXCHANGE")
    BY ReceiveEffect, BothEnds, <1>1 DEF Known, HandleKeyExchange, AB, Messages
  <1>4. TypeOK'
    BY <1>1, <1>3 DEF Known, AB, Takes, TypeOK, HandleKeyExchange, Receive, StartJob
  <1>5. \A p \in Ends : \A m : Count(net'[p], m) \in Nat
    BY CountType, <1>4 DEF TypeOK
  <1>6. /\ Requests = Requests' + 1 /\ Requests' \in Nat
        /\ UNCHANGED <<Responses, Confirmations>>
    BY <1>1, <1>3, <1>5 DEF Known, AB, Takes, Messages, Requests, Responses,
         Confirmations, HandleKeyExchange
  <1>7. Runs("B", "derive") = 0
    BY <1>1, <1>6 DEF Known, AB, IInv, Token, OneToken, Undecided, AtResponder
  <1>8. /\ AtResponder' = AtResponder + 1
        /\ Undecided > 0
        /\ UNCHANGED <<Undecided, AtInitiator, Confirming>>
    BY <1>1, <1>2, <1>6, <1>7 DEF Known, AB, IInv, Token, OneToken, Undecided,
         AtResponder, AtInitiator, Confirming
  <1>9. session["A"] => session'["A"]
    BY <1>1 DEF Known, AB, TypeOK, Receive, HandleKeyExchange
  <1>10. Token'
    BY <1>1, <1>8, <1>9 DEF Known, AB, IInv, TypeOK, Token, OneToken, Unopened,
         InitiatorWaits, ResponderWaits, NoneIsBefore, ToldInOrder, Over, Ended,
         HandleKeyExchange
  <1>11. ToldInOrder'
    BY <1>1, <1>8, <1>9 DEF Known, AB, IInv, TypeOK, Token, ResponderWaits,
         InitiatorWaits, NoneIsBefore, ToldInOrder, Over, Ended, HandleKeyExchange
  <1>12. SilentUntilTold'
    <2>. SUFFICES ASSUME NEW p \in Ends, ~told'[p]
         PROVE  /\ encrypting'[p] = 0
                /\ Count(net'[Other(p)], "APP") = 0 /\ Count(net'[Other(p)], "GOODBYE") = 0
      BY DEF SilentUntilTold
    <2>1. ~told[p]
      BY <1>1 DEF Known, AB, TypeOK, HandleKeyExchange
    <2>2. encrypting'[p] = 0
      BY <1>1, <2>1 DEF Known, AB, TypeOK, IInv, SilentUntilTold, HandleKeyExchange,
           Receive, StartJob
    <2>3. Count(net'[Other(p)], "APP") = 0 /\ Count(net'[Other(p)], "GOODBYE") = 0
      BY <1>1, <1>3, <1>5, <2>1 DEF Known, AB, Takes, TypeOK, IInv, SilentUntilTold,
           Messages, HandleKeyExchange, Receive, StartJob
    <2>. QED  BY <2>2, <2>3
  <1>13. ConfirmArrives'
    <2>1. Decided => Decided'
      BY <1>1, <1>3, <1>8 DEF Known, AB, TypeOK, IInv, Token, ResponderWaits,
           NoneIsBefore, Decided, Verifying, Over, Ended, HandleKeyExchange, Receive,
           StartJob
    <2>2. told'["A"] => Confirmations' > 0 \/ Decided'
      BY <1>1, <1>6, <2>1 DEF Known, AB, TypeOK, IInv, ConfirmArrives, Decided,
           Verifying, Runs, HandleKeyExchange
    <2>3. Decided' \/ ConfirmFirst(net'["B"])
      BY <1>1, <1>3, <2>1 DEF Known, AB, Takes, TypeOK, IInv, ConfirmArrives,
           Confirmations, SilentUntilTold, ToldInOrder, Messages, HandleKeyExchange,
           Receive, StartJob
    <2>. QED  BY <2>2, <2>3 DEF ConfirmArrives
  <1>14. CardReadyIsBacked'
    BY <1>1, <1>8 DEF Known, AB, IInv, TypeOK, Token, InitiatorWaits, ResponderWaits,
         NoneIsBefore, CardReadyIsBacked, HandleKeyExchange
  <1>. QED  BY <1>4, <1>10, <1>11, <1>12, <1>13, <1>14 DEF IInv

\* Derived keeps the invariant:
\* a session key is derived.
LEMMA DerivedKeeps ==
    ASSUME IInv, NEW n \in Ends, Derived(n)
    PROVE  IInv'
  <1>1. Known
    BY StateFacts
  <1>2. /\ Runs(n, "derive") = 1 /\ Runs(n, "derive")' = 0 /\ Runs(n, "sign")' = 1
        /\ UNCHANGED <<Runs(Other(n), "derive"), Runs(Other(n), "sign")>>
        /\ UNCHANGED <<Runs("A", "verify"), Runs("B", "verify")>>
    BY <1>1 DEF Known, AB, TypeOK, Runs, Derived, NextJob
  <1>3. TypeOK'
    BY <1>1 DEF Known, AB, TypeOK, Derived, NextJob
  <1>4. \A p \in Ends : \A m : Count(net'[p], m) \in Nat
    BY CountType, <1>3 DEF TypeOK
  <1>5. UNCHANGED <<Requests, Responses, Confirmations>>
    BY <1>1, <1>4 DEF Known, AB, Messages, Requests, Responses, Confirmations, Derived
  <1>6. /\ UNCHANGED <<Undecided, AtResponder, AtInitiator, Confirming>>
        /\ Undecided > 0
    <2>1. CASE n = "A"
      BY <2>1, <1>1, <1>2, <1>5 DEF Known, AB, IInv, Token, OneToken, Undecided,
           AtResponder, AtInitiator, Confirming
    <2>2. CASE n = "B"
      BY <2>2, <1>1, <1>2, <1>5 DEF Known, AB, IInv, Token, OneToken, Undecided,
           AtResponder, AtInitiator, Confirming
    <2>. QED  BY <2>1, <2>2, <1>1 DEF Known, AB
  <1>7. Token'
    BY <1>1, <1>6 DEF Known, AB, IInv, TypeOK, Token, OneToken, Unopened,
         InitiatorWaits, ResponderWaits, NoneIsBefore, ToldInOrder, Over, Ended, Derived
  <1>8. ToldInOrder'
    BY <1>1, <1>6 DEF Known, AB, IInv, TypeOK, Token, ResponderWaits, InitiatorWaits,
         NoneIsBefore, ToldInOrder, Over, Ended, Derived
  <1>9. SilentUntilTold'
    <2>. SUFFICES ASSUME NEW p \in Ends, ~told'[p]
         PROVE  /\ encrypting'[p] = 0
                /\ Count(net'[Other(p)], "APP") = 0 /\ Count(net'[Other(p)], "GOODBYE") = 0
      BY DEF SilentUntilTold
    <2>1. ~told[p]
      BY <1>1 DEF Known, AB, TypeOK, Derived
    <2>2. encrypting'[p] = 0
      BY <1>1, <2>1 DEF Known, AB, TypeOK, IInv, SilentUntilTold, Derived, NextJob
    <2>3. Count(net'[Other(p)], "APP") = 0 /\ Count(net'[Other(p)], "GOODBYE") = 0
      BY <1>1, <1>4, <2>1 DEF Known, AB, TypeOK, IInv, SilentUntilTold, Messages,
           Derived, NextJob
    <2>. QED  BY <2>2, <2>3
  <1>10. ConfirmArrives'
    <2>1. Decided => Decided'
      BY <1>1, <1>6 DEF Known, AB, TypeOK, IInv, Token, ResponderWaits, NoneIsBefore,
           Decided, Verifying, Over, Ended, Derived, NextJob
    <2>2. told'["A"] => Confirmations' > 0 \/ Decided'
      BY <1>1, <1>5, <2>1 DEF Known, AB, TypeOK, IInv, ConfirmArrives, Decided,
           Verifying, Runs, Derived
    <2>3. Decided' \/ ConfirmFirst(net'["B"])
      BY <1>1, <2>1 DEF Known, AB, TypeOK, IInv, ConfirmArrives, Confirmations,
           SilentUntilTold, ToldInOrder, Messages, Derived, NextJob
    <2>. QED  BY <2>2, <2>3 DEF ConfirmArrives
  <1>11. CardReadyIsBacked'
    BY <1>1, <1>6 DEF Known, AB, IInv, TypeOK, Token, InitiatorWaits, ResponderWaits,
         NoneIsBefore, CardReadyIsBacked, Derived
  <1>. QED  BY <1>3, <1>7, <1>8, <1>9, <1>10, <1>11 DEF IInv

\* SendAuthResponse keeps the invariant:
\* the token goes back to the initiator, if the client still has its session.
LEMMA AuthResponseKeeps ==
    ASSUME IInv, SendAuthResponse
    PROVE  IInv'
  <1>1. Known
    BY StateFacts
  <1>2. /\ Runs("B", "sign") = 1 /\ Runs("B", "sign")' = 0
        /\ UNCHANGED <<Runs("B", "derive"), Runs("A", "verify"), Runs("A", "derive")>>
        /\ UNCHANGED <<Runs("A", "sign"), Runs("B", "verify")>>
    BY <1>1 DEF Known, AB, TypeOK, Runs, SendAuthResponse, EndJob
  <1>3. IF session["B"] THEN Gets("A", "AUTH_RESPONSE") ELSE net' = net
    BY SendEffect, BothEnds, <1>1 DEF Known, SendAuthResponse, AB, Messages
  <1>4. net' \in [Ends -> Seq(Messages)]
    BY <1>1, <1>3 DEF Known, Gets, TypeOK
  <1>5. TypeOK'
    BY <1>1, <1>4 DEF Known, AB, TypeOK, SendAuthResponse, EndJob
  <1>6. \A p \in Ends : \A m : Count(net'[p], m) \in Nat
    BY CountType, <1>5 DEF TypeOK
  <1>7. /\ Responses' = Responses \/ Responses' = Responses + 1
        /\ UNCHANGED <<Requests, Confirmations>>
    BY <1>1, <1>3, <1>6 DEF Known, AB, Gets, Messages, Requests, Responses,
         Confirmations, SendAuthResponse
  <1>8. /\ AtResponder' = AtResponder - 1 /\ AtResponder > 0 /\ Undecided > 0
        /\ \/ AtInitiator' = AtInitiator + 1 /\ Undecided' = Undecided
           \/ AtInitiator' = AtInitiator /\ Undecided' = Undecided - 1
        /\ Confirming' = Confirming
    BY <1>1, <1>2, <1>7 DEF Known, AB, IInv, Token, OneToken, Undecided, AtResponder,
         AtInitiator, Confirming
  <1>9. Token'
    <2>1. OneToken'
      BY <1>1, <1>8 DEF Known, AB, IInv, TypeOK, Token, OneToken, Unopened,
           InitiatorWaits, ResponderWaits, NoneIsBefore, ToldInOrder, Over, Ended,
           SendAuthResponse
    <2>2. Unopened'
      BY <1>1, <1>8 DEF Known, AB, IInv, TypeOK, Token, OneToken, Unopened,
           InitiatorWaits, ResponderWaits, NoneIsBefore, ToldInOrder, Over, Ended,
           SendAuthResponse
    <2>3. InitiatorWaits'
      BY <1>1, <1>8 DEF Known, AB, IInv, TypeOK, Token, OneToken, Unopened,
           InitiatorWaits, ResponderWaits, NoneIsBefore, ToldInOrder, Over, Ended,
           SendAuthResponse
    <2>4. ResponderWaits'
      BY <1>1, <1>8 DEF Known, AB, IInv, TypeOK, Token, OneToken, Unopened,
           InitiatorWaits, ResponderWaits, NoneIsBefore, ToldInOrder, Over, Ended,
           SendAuthResponse
    <2>5. NoneIsBefore'
      BY <1>1, <1>8 DEF Known, AB, IInv, TypeOK, Token, OneToken, Unopened,
           InitiatorWaits, ResponderWaits, NoneIsBefore, ToldInOrder, Over, Ended,
           SendAuthResponse
    <2>. QED  BY <2>1, <2>2, <2>3, <2>4, <2>5 DEF Token
  <1>10. ToldInOrder'
    BY <1>1, <1>8 DEF Known, AB, IInv, TypeOK, Token, ResponderWaits, InitiatorWaits,
         NoneIsBefore, ToldInOrder, Over, Ended, SendAuthResponse
  <1>11. SilentUntilTold'
    <2>. SUFFICES ASSUME NEW p \in Ends, ~told'[p]
         PROVE  /\ encrypting'[p] = 0
                /\ Count(net'[Other(p)], "APP") = 0 /\ Count(net'[Other(p)], "GOODBYE") = 0
      BY DEF SilentUntilTold
    <2>1. ~told[p]
      BY <1>1 DEF Known, AB, TypeOK, SendAuthResponse
    <2>2. encrypting'[p] = 0
      BY <1>1, <2>1 DEF Known, AB, TypeOK, IInv, SilentUntilTold, SendAuthResponse,
           EndJob
    <2>3. Count(net'[Other(p)], "APP") = 0 /\ Count(net'[Other(p)], "GOODBYE") = 0
      BY <1>1, <1>3, <1>6, <2>1 DEF Known, AB, Gets, TypeOK, IInv, SilentUntilTold,
           Messages, SendAuthResponse, EndJob
    <2>. QED  BY <2>2, <2>3
  <1>12. ConfirmArrives'
    <2>1. Decided => Decided'
      BY <1>1, <1>3, <1>8 DEF Known, AB, TypeOK, IInv, Token, ResponderWaits,
           NoneIsBefore, Decided, Verifying, Over, Ended, SendAuthResponse, EndJob
    <2>2. told'["A"] => Confirmations' > 0 \/ Decided'
      BY <1>1, <1>7, <2>1 DEF Known, AB, TypeOK, IInv, ConfirmArrives, Decided,
           Verifying, Runs, SendAuthResponse
    <2>3. Decided' \/ ConfirmFirst(net'["B"])
      BY <1>1, <1>3, <2>1 DEF Known, AB, Gets, TypeOK, IInv, ConfirmArrives,
           Confirmations, SilentUntilTold, ToldInOrder, Messages, SendAuthResponse,
           EndJob
    <2>. QED  BY <2>2, <2>3 DEF ConfirmArrives
  <1>13. CardReadyIsBacked'
    BY <1>1, <1>8 DEF Known, AB, IInv, TypeOK, Token, InitiatorWaits, ResponderWaits,
         NoneIsBefore, CardReadyIsBacked, SendAuthResponse
  <1>. QED  BY <1>5, <1>9, <1>10, <1>11, <1>12, <1>13 DEF IInv

\* HandleAuth keeps the invariant:
\* the initiator begins to verify.
LEMMA ResponseKeeps ==
    ASSUME IInv, HandleAuth("A", "AUTH_RESPONSE", "initiator")
    PROVE  IInv'
  <1>1. Known
    BY StateFacts
  <1>2. /\ Runs("A", "verify")' = 1
        /\ UNCHANGED <<Runs("B", "derive"), Runs("B", "sign"), Runs("A", "derive")>>
        /\ UNCHANGED <<Runs("A", "sign"), Runs("B", "verify")>>
    BY <1>1 DEF Known, AB, TypeOK, Runs, HandleAuth, StartJob
  <1>3. Takes("A", "AUTH_RESPONSE")
    BY ReceiveEffect, BothEnds, <1>1 DEF Known, HandleAuth, AB, Messages
  <1>4. TypeOK'
    BY <1>1, <1>3 DEF Known, AB, Takes, TypeOK, HandleAuth, Receive, StartJob
  <1>5. \A p \in Ends : \A m : Count(net'[p], m) \in Nat
    BY CountType, <1>4 DEF TypeOK
  <1>6. /\ Responses = Responses' + 1 /\ Responses' \in Nat
        /\ UNCHANGED <<Requests, Confirmations>>
    BY <1>1, <1>3, <1>5 DEF Known, AB, Takes, Messages, Requests, Responses,
         Confirmations, HandleAuth
  <1>7. /\ UNCHANGED <<Undecided, AtResponder, AtInitiator, Confirming>>
        /\ Undecided > 0 /\ AtInitiator > 0
    BY <1>1, <1>2, <1>6 DEF Known, AB, IInv, Token, OneToken, Undecided, AtResponder,
         AtInitiator, Confirming
  <1>8. session["A"] => session'["A"]
    BY <1>1 DEF Known, AB, TypeOK, Receive, HandleAuth
  <1>9. Token'
    BY <1>1, <1>7, <1>8 DEF Known, AB, IInv, TypeOK, Token, OneToken, Unopened,
         InitiatorWaits, ResponderWaits, NoneIsBefore, ToldInOrder, Over, Ended,
         HandleAuth
  <1>10. ToldInOrder'
    BY <1>1, <1>7, <1>8 DEF Known, AB, IInv, TypeOK, Token, ResponderWaits,
         InitiatorWaits, NoneIsBefore, ToldInOrder, Over, Ended, HandleAuth
  <1>11. SilentUntilTold'
    <2>. SUFFICES ASSUME NEW p \in Ends, ~told'[p]
         PROVE  /\ encrypting'[p] = 0
                /\ Count(net'[Other(p)], "APP") = 0 /\ Count(net'[Other(p)], "GOODBYE") = 0
      BY DEF SilentUntilTold
    <2>1. ~told[p]
      BY <1>1 DEF Known, AB, TypeOK, HandleAuth
    <2>2. encrypting'[p] = 0
      BY <1>1, <2>1 DEF Known, AB, TypeOK, IInv, SilentUntilTold, HandleAuth, Receive,
           StartJob
    <2>3. Count(net'[Other(p)], "APP") = 0 /\ Count(net'[Other(p)], "GOODBYE") = 0
      BY <1>1, <1>3, <1>5, <2>1 DEF Known, AB, Takes, TypeOK, IInv, SilentUntilTold,
           Messages, HandleAuth, Receive, StartJob
    <2>. QED  BY <2>2, <2>3
  <1>12. ConfirmArrives'
    <2>1. Decided => Decided'
      BY <1>1, <1>3, <1>7 DEF Known, AB, TypeOK, IInv, Token, ResponderWaits,
           NoneIsBefore, Decided, Verifying, Over, Ended, HandleAuth, Receive, StartJob
    <2>2. told'["A"] => Confirmations' > 0 \/ Decided'
      BY <1>1, <1>6, <2>1 DEF Known, AB, TypeOK, IInv, ConfirmArrives, Decided,
           Verifying, Runs, HandleAuth
    <2>3. Decided' \/ ConfirmFirst(net'["B"])
      BY <1>1, <1>3, <2>1 DEF Known, AB, Takes, TypeOK, IInv, ConfirmArrives,
           Confirmations, SilentUntilTold, ToldInOrder, Messages, HandleAuth, Receive,
           StartJob
    <2>. QED  BY <2>2, <2>3 DEF ConfirmArrives
  <1>13. CardReadyIsBacked'
    BY <1>1, <1>7 DEF Known, AB, IInv, TypeOK, Token, InitiatorWaits, ResponderWaits,
         NoneIsBefore, CardReadyIsBacked, HandleAuth
  <1>. QED  BY <1>4, <1>9, <1>10, <1>11, <1>12, <1>13 DEF IInv

\* ResponseVerified keeps the invariant:
\* the initiator derives its key.
LEMMA ResponseVerifiedKeeps ==
    ASSUME IInv, ResponseVerified
    PROVE  IInv'
  <1>1. Known
    BY StateFacts
  <1>2. /\ Runs("A", "verify") = 1 /\ Runs("A", "verify")' = 0 /\ Runs("A", "derive")' = 1
        /\ UNCHANGED <<Runs("B", "derive"), Runs("B", "sign"), Runs("A", "sign")>>
        /\ UNCHANGED <<Runs("B", "verify")>>
    BY <1>1 DEF Known, AB, TypeOK, Runs, ResponseVerified, NextJob
  <1>3. TypeOK'
    BY <1>1 DEF Known, AB, TypeOK, ResponseVerified, NextJob
  <1>4. \A p \in Ends : \A m : Count(net'[p], m) \in Nat
    BY CountType, <1>3 DEF TypeOK
  <1>5. UNCHANGED <<Requests, Responses, Confirmations>>
    BY <1>1, <1>4 DEF Known, AB, Messages, Requests, Responses, Confirmations,
         ResponseVerified
  <1>6. /\ UNCHANGED <<Undecided, AtResponder, AtInitiator, Confirming>>
        /\ Undecided > 0 /\ AtInitiator > 0
    BY <1>1, <1>2, <1>5 DEF Known, AB, IInv, Token, OneToken, Undecided, AtResponder,
         AtInitiator, Confirming
  <1>7. Token'
    BY <1>1, <1>6 DEF Known, AB, IInv, TypeOK, Token, OneToken, Unopened,
         InitiatorWaits, ResponderWaits, NoneIsBefore, ToldInOrder, Over, Ended,
         ResponseVerified
  <1>8. ToldInOrder'
    BY <1>1, <1>6 DEF Known, AB, IInv, TypeOK, Token, ResponderWaits, InitiatorWaits,
         NoneIsBefore, ToldInOrder, Over, Ended, ResponseVerified
  <1>9. SilentUntilTold'
    <2>. SUFFICES ASSUME NEW p \in Ends, ~told'[p]
         PROVE  /\ encrypting'[p] = 0
                /\ Count(net'[Other(p)], "APP") = 0 /\ Count(net'[Other(p)], "GOODBYE") = 0
      BY DEF SilentUntilTold
    <2>1. ~told[p]
      BY <1>1 DEF Known, AB, TypeOK, ResponseVerified
    <2>2. encrypting'[p] = 0
      BY <1>1, <2>1 DEF Known, AB, TypeOK, IInv, SilentUntilTold, ResponseVerified,
           NextJob
    <2>3. Count(net'[Other(p)], "APP") = 0 /\ Count(net'[Other(p)], "GOODBYE") = 0
      BY <1>1, <1>4, <2>1 DEF Known, AB, TypeOK, IInv, SilentUntilTold, Messages,
           ResponseVerified, NextJob
    <2>. QED  BY <2>2, <2>3
  <1>10. ConfirmArrives'
    <2>1. Decided => Decided'
      BY <1>1, <1>6 DEF Known, AB, TypeOK, IInv, Token, ResponderWaits, NoneIsBefore,
           Decided, Verifying, Over, Ended, ResponseVerified, NextJob
    <2>2. told'["A"] => Confirmations' > 0 \/ Decided'
      BY <1>1, <1>5, <2>1 DEF Known, AB, TypeOK, IInv, ConfirmArrives, Decided,
           Verifying, Runs, ResponseVerified
    <2>3. Decided' \/ ConfirmFirst(net'["B"])
      BY <1>1, <2>1 DEF Known, AB, TypeOK, IInv, ConfirmArrives, Confirmations,
           SilentUntilTold, ToldInOrder, Messages, ResponseVerified, NextJob
    <2>. QED  BY <2>2, <2>3 DEF ConfirmArrives
  <1>11. CardReadyIsBacked'
    BY <1>1, <1>6 DEF Known, AB, IInv, TypeOK, Token, InitiatorWaits, ResponderWaits,
         NoneIsBefore, CardReadyIsBacked, ResponseVerified
  <1>. QED  BY <1>3, <1>7, <1>8, <1>9, <1>10, <1>11 DEF IInv

\* SendAuthConfirm keeps the invariant:
\* the initiator decides: its client has had the session since openSession.
LEMMA AuthConfirmKeeps ==
    ASSUME IInv, SendAuthConfirm
    PROVE  IInv'
  <1>1. Known
    BY StateFacts
  <1>2. /\ Runs("A", "sign") = 1 /\ Runs("A", "sign")' = 0
        /\ UNCHANGED <<Runs("B", "derive"), Runs("B", "sign"), Runs("A", "verify")>>
        /\ UNCHANGED <<Runs("A", "derive"), Runs("B", "verify")>>
    BY <1>1 DEF Known, AB, TypeOK, Runs, SendAuthConfirm, EndJob
  <1>3. session["A"]
    BY <1>1, <1>2 DEF Known, AB, IInv, Token, InitiatorWaits, Undecided, AtInitiator
  <1>4. Gets("B", "AUTH_CONFIRM")
    BY SendEffect, BothEnds, <1>3, <1>1 DEF Known, SendAuthConfirm, AB, Messages
  <1>5. card' = [status |-> "READY", slots |-> <<"A", "B">>]
    <2>1. PICK s \in Slots : /\ CardReady("A", card) = [status |-> "READY", slots |-> s]
                            /\ s[1] = "A"
      <3>1. card.slots \in Slots /\ (card.status # "none" => card.slots[1] = "A")
        BY <1>1 DEF Known, TypeOK, IInv, CardReadyIsBacked
      <3>2. <<"A", "null">> \in Slots /\ <<"A", "null">>[1] = "A"
        BY <1>1 DEF Known, AB, Slots
      <3>. QED  BY <3>1, <3>2 DEF CardReady, Shows
    <2>2. s = <<"A", s[2]>>
      BY <2>1 DEF Slots
    <2>3. card' = CardOpened([status |-> "READY", slots |-> s])
      BY <2>1 DEF SendAuthConfirm
    <2>4. s[2] \in {"A", "B", "null"}
      BY <1>1 DEF Known, AB, Slots
    <2>. QED  BY <2>1, <2>2, <2>3, <2>4 DEF CardOpened, Shows
  <1>6. card' \in [status : {"none", "READY", "CLOSED"}, slots : Slots]
    <2>1. <<"A", "B">> \in Slots
      BY <1>1 DEF Known, AB, Slots
    <2>. QED  BY <2>1, <1>5
  <1>7. net' \in [Ends -> Seq(Messages)]
    BY <1>1, <1>3, <1>4 DEF Known, Gets, TypeOK
  <1>8. TypeOK'
    BY <1>1, <1>7, <1>5, <1>6 DEF Known, AB, TypeOK, SendAuthConfirm, EndJob, SetStatus
  <1>9. \A p \in Ends : \A m : Count(net'[p], m) \in Nat
    BY CountType, <1>8 DEF TypeOK
  <1>10. /\ Confirmations' = Confirmations + 1
        /\ UNCHANGED <<Requests, Responses>>
    BY <1>1, <1>3, <1>4, <1>9 DEF Known, AB, Gets, Messages, Requests, Responses,
         Confirmations, SendAuthConfirm
  <1>11. /\ Undecided' = Undecided - 1 /\ Undecided > 0
        /\ AtInitiator' = AtInitiator - 1 /\ AtInitiator > 0
        /\ Confirming' = Confirming + 1
        /\ UNCHANGED AtResponder
    BY <1>1, <1>2, <1>10 DEF Known, AB, IInv, Token, OneToken, Undecided, AtResponder,
         AtInitiator, Confirming
  <1>12. Token'
    <2>1. OneToken'
      BY <1>1, <1>11, <1>5, <1>6 DEF Known, AB, IInv, TypeOK, Token, OneToken, Unopened,
           InitiatorWaits, ResponderWaits, NoneIsBefore, ToldInOrder, Over, Ended,
           SendAuthConfirm, SetStatus
    <2>2. Unopened'
      BY <1>1, <1>11, <1>5, <1>6 DEF Known, AB, IInv, TypeOK, Token, OneToken, Unopened,
           InitiatorWaits, ResponderWaits, NoneIsBefore, ToldInOrder, Over, Ended,
           SendAuthConfirm, SetStatus
    <2>3. InitiatorWaits'
      BY <1>1, <1>11, <1>5, <1>6 DEF Known, AB, IInv, TypeOK, Token, OneToken, Unopened,
           InitiatorWaits, ResponderWaits, NoneIsBefore, ToldInOrder, Over, Ended,
           SendAuthConfirm, SetStatus
    <2>4. ResponderWaits'
      BY <1>1, <1>11, <1>5, <1>6 DEF Known, AB, IInv, TypeOK, Token, OneToken, Unopened,
           InitiatorWaits, ResponderWaits, NoneIsBefore, ToldInOrder, Over, Ended,
           SendAuthConfirm, SetStatus
    <2>5. NoneIsBefore'
      BY <1>1, <1>11, <1>5, <1>6 DEF Known, AB, IInv, TypeOK, Token, OneToken, Unopened,
           InitiatorWaits, ResponderWaits, NoneIsBefore, ToldInOrder, Over, Ended,
           SendAuthConfirm, SetStatus
    <2>. QED  BY <2>1, <2>2, <2>3, <2>4, <2>5 DEF Token
  <1>13. ToldInOrder'
    BY <1>1, <1>11, <1>5, <1>6 DEF Known, AB, IInv, TypeOK, Token, ResponderWaits,
         InitiatorWaits, NoneIsBefore, ToldInOrder, Over, Ended, SendAuthConfirm,
         SetStatus
  <1>14. SilentUntilTold'
    <2>. SUFFICES ASSUME NEW p \in Ends, ~told'[p]
         PROVE  /\ encrypting'[p] = 0
                /\ Count(net'[Other(p)], "APP") = 0 /\ Count(net'[Other(p)], "GOODBYE") = 0
      BY DEF SilentUntilTold
    <2>1. ~told[p]
      BY <1>1 DEF Known, AB, TypeOK, SendAuthConfirm, SetStatus
    <2>2. encrypting'[p] = 0
      BY <1>1, <2>1 DEF Known, AB, TypeOK, IInv, SilentUntilTold, SendAuthConfirm,
           EndJob, SetStatus
    <2>3. Count(net'[Other(p)], "APP") = 0 /\ Count(net'[Other(p)], "GOODBYE") = 0
      BY <1>1, <1>3, <1>4, <1>9, <2>1 DEF Known, AB, Gets, TypeOK, IInv,
           SilentUntilTold, Messages, SendAuthConfirm, EndJob, SetStatus
    <2>. QED  BY <2>2, <2>3
  <1>15. ConfirmArrives'
    <2>1. Decided => Decided'
      BY <1>1, <1>3, <1>4, <1>11 DEF Known, AB, TypeOK, IInv, Token, ResponderWaits,
           NoneIsBefore, Decided, Verifying, Over, Ended, SendAuthConfirm, EndJob,
           SetStatus
    <2>2. told'["A"] => Confirmations' > 0 \/ Decided'
      BY <1>1, <1>10, <2>1 DEF Known, AB, TypeOK, IInv, ConfirmArrives, Decided,
           Verifying, Runs, SendAuthConfirm, SetStatus
    <2>3. Decided' \/ ConfirmFirst(net'["B"])
      BY <1>1, <1>3, <1>4, <2>1 DEF Known, AB, Gets, TypeOK, IInv, ConfirmArrives,
           Confirmations, SilentUntilTold, ToldInOrder, Messages, SendAuthConfirm,
           EndJob, SetStatus
    <2>. QED  BY <2>2, <2>3 DEF ConfirmArrives
  <1>16. CardReadyIsBacked'
    BY <1>1, <1>11, <1>5, <1>6 DEF Known, AB, IInv, TypeOK, Token, InitiatorWaits,
         ResponderWaits, NoneIsBefore, CardReadyIsBacked, SendAuthConfirm, SetStatus
  <1>. QED  BY <1>8, <1>12, <1>13, <1>14, <1>15, <1>16 DEF IInv

\* HandleAuth keeps the invariant:
\* the responder begins to verify.
LEMMA ConfirmKeeps ==
    ASSUME IInv, HandleAuth("B", "AUTH_CONFIRM", "responder")
    PROVE  IInv'
  <1>1. Known
    BY StateFacts
  <1>2. /\ Runs("B", "verify")' = 1
        /\ UNCHANGED <<Runs("B", "derive"), Runs("B", "sign"), Runs("A", "verify")>>
        /\ UNCHANGED <<Runs("A", "derive"), Runs("A", "sign")>>
    BY <1>1 DEF Known, AB, TypeOK, Runs, HandleAuth, StartJob
  <1>3. Takes("B", "AUTH_CONFIRM")
    BY ReceiveEffect, BothEnds, <1>1 DEF Known, HandleAuth, AB, Messages
  <1>4. TypeOK'
    BY <1>1, <1>3 DEF Known, AB, Takes, TypeOK, HandleAuth, Receive, StartJob
  <1>5. \A p \in Ends : \A m : Count(net'[p], m) \in Nat
    BY CountType, <1>4 DEF TypeOK
  <1>6. /\ Confirmations = Confirmations' + 1 /\ Confirmations' \in Nat
        /\ UNCHANGED <<Requests, Responses>>
    BY <1>1, <1>3, <1>5 DEF Known, AB, Takes, Messages, Requests, Responses,
         Confirmations, HandleAuth
  <1>7. /\ UNCHANGED <<Undecided, AtResponder, AtInitiator, Confirming>>
        /\ Confirming > 0
    BY <1>1, <1>2, <1>6 DEF Known, AB, IInv, Token, OneToken, Undecided, AtResponder,
         AtInitiator, Confirming
  <1>8. session["A"] => session'["A"]
    BY <1>1 DEF Known, AB, TypeOK, Receive, HandleAuth
  <1>9. Token'
    BY <1>1, <1>7, <1>8 DEF Known, AB, IInv, TypeOK, Token, OneToken, Unopened,
         InitiatorWaits, ResponderWaits, NoneIsBefore, ToldInOrder, Over, Ended,
         HandleAuth
  <1>10. ToldInOrder'
    BY <1>1, <1>7, <1>8 DEF Known, AB, IInv, TypeOK, Token, ResponderWaits,
         InitiatorWaits, NoneIsBefore, ToldInOrder, Over, Ended, HandleAuth
  <1>11. SilentUntilTold'
    <2>. SUFFICES ASSUME NEW p \in Ends, ~told'[p]
         PROVE  /\ encrypting'[p] = 0
                /\ Count(net'[Other(p)], "APP") = 0 /\ Count(net'[Other(p)], "GOODBYE") = 0
      BY DEF SilentUntilTold
    <2>1. ~told[p]
      BY <1>1 DEF Known, AB, TypeOK, HandleAuth
    <2>2. encrypting'[p] = 0
      BY <1>1, <2>1 DEF Known, AB, TypeOK, IInv, SilentUntilTold, HandleAuth, Receive,
           StartJob
    <2>3. Count(net'[Other(p)], "APP") = 0 /\ Count(net'[Other(p)], "GOODBYE") = 0
      BY <1>1, <1>3, <1>5, <2>1 DEF Known, AB, Takes, TypeOK, IInv, SilentUntilTold,
           Messages, HandleAuth, Receive, StartJob
    <2>. QED  BY <2>2, <2>3
  <1>12. ConfirmArrives'
    <2>1. Decided => Decided'
      BY <1>1, <1>3, <1>7 DEF Known, AB, TypeOK, IInv, Token, ResponderWaits,
           NoneIsBefore, Decided, Verifying, Over, Ended, HandleAuth, Receive, StartJob
    <2>2. told'["A"] => Confirmations' > 0 \/ Decided'
      BY <1>1, <1>6, <2>1, <1>2 DEF Known, AB, TypeOK, IInv, ConfirmArrives, Decided,
           Verifying, Runs, HandleAuth
    <2>3. Decided' \/ ConfirmFirst(net'["B"])
      BY <1>1, <1>3, <2>1, <1>2 DEF Known, AB, Takes, TypeOK, IInv, ConfirmArrives,
           Confirmations, SilentUntilTold, ToldInOrder, Messages, Decided, Verifying,
           Runs, HandleAuth, Receive, StartJob
    <2>. QED  BY <2>2, <2>3 DEF ConfirmArrives
  <1>13. CardReadyIsBacked'
    BY <1>1, <1>7 DEF Known, AB, IInv, TypeOK, Token, InitiatorWaits, ResponderWaits,
         NoneIsBefore, CardReadyIsBacked, HandleAuth
  <1>. QED  BY <1>4, <1>9, <1>10, <1>11, <1>12, <1>13 DEF IInv

\* ConfirmVerified keeps the invariant:
\* the responder decides, also after a GOODBYE.
LEMMA ConfirmVerifiedKeeps ==
    ASSUME IInv, ConfirmVerified
    PROVE  IInv'
  <1>1. Known
    BY StateFacts
  <1>2. /\ Runs("B", "verify") = 1 /\ Runs("B", "verify")' = 0
        /\ UNCHANGED <<Runs("B", "derive"), Runs("B", "sign"), Runs("A", "verify")>>
        /\ UNCHANGED <<Runs("A", "derive"), Runs("A", "sign")>>
    BY <1>1 DEF Known, AB, TypeOK, Runs, ConfirmVerified, EndJob
  <1>12. card' = [status |-> "READY", slots |-> <<"A", "B">>]
    <2>1. Confirming > 0
      BY <1>1, <1>2 DEF Known, AB, Confirming
    <2>2. card.status # "none" /\ card.slots = <<"A", "B">>
      BY <2>1 DEF IInv, Token, ResponderWaits
    <2>. QED  BY <1>1, <2>2 DEF ConfirmVerified, CardReady, Shows
  <1>3. TypeOK'
    <2>1. <<"A", "B">> \in Slots
      BY <1>1 DEF Known, AB, Slots
    <2>2. card' \in [status : {"none", "READY", "CLOSED"}, slots : Slots]
      BY <1>12, <2>1
    <2>. QED  BY <1>1, <2>2 DEF Known, AB, TypeOK, ConfirmVerified, EndJob, SetStatus
  <1>4. \A p \in Ends : \A m : Count(net'[p], m) \in Nat
    BY CountType, <1>3 DEF TypeOK
  <1>5. UNCHANGED <<Requests, Responses, Confirmations>>
    BY <1>1, <1>4 DEF Known, AB, Messages, Requests, Responses, Confirmations,
         ConfirmVerified
  <1>6. /\ Confirming' = Confirming - 1 /\ Confirming > 0
        /\ UNCHANGED <<Undecided, AtResponder, AtInitiator>>
    BY <1>1, <1>2, <1>5 DEF Known, AB, IInv, Token, OneToken, Undecided, AtResponder,
         AtInitiator, Confirming
  <1>7. Token'
    BY <1>1, <1>6 DEF Known, AB, IInv, TypeOK, Token, OneToken, Unopened,
         InitiatorWaits, ResponderWaits, NoneIsBefore, ToldInOrder, Over, Ended,
         ConfirmVerified, SetStatus, CardReady
  <1>8. ToldInOrder'
    BY <1>1, <1>6 DEF Known, AB, IInv, TypeOK, Token, ResponderWaits, InitiatorWaits,
         NoneIsBefore, ToldInOrder, Over, Ended, ConfirmVerified, SetStatus, CardReady
  <1>9. SilentUntilTold'
    <2>. SUFFICES ASSUME NEW p \in Ends, ~told'[p]
         PROVE  /\ encrypting'[p] = 0
                /\ Count(net'[Other(p)], "APP") = 0 /\ Count(net'[Other(p)], "GOODBYE") = 0
      BY DEF SilentUntilTold
    <2>1. ~told[p]
      BY <1>1 DEF Known, AB, TypeOK, ConfirmVerified, SetStatus, CardReady
    <2>2. encrypting'[p] = 0
      BY <1>1, <2>1 DEF Known, AB, TypeOK, IInv, SilentUntilTold, ConfirmVerified,
           EndJob, SetStatus, CardReady
    <2>3. Count(net'[Other(p)], "APP") = 0 /\ Count(net'[Other(p)], "GOODBYE") = 0
      BY <1>1, <1>4, <2>1 DEF Known, AB, TypeOK, IInv, SilentUntilTold, Messages,
           ConfirmVerified, EndJob, SetStatus, CardReady
    <2>. QED  BY <2>2, <2>3
  <1>10. ConfirmArrives'
    <2>1. Decided => Decided'
      BY <1>1, <1>6 DEF Known, AB, TypeOK, IInv, Token, ResponderWaits, NoneIsBefore,
           Decided, Verifying, Over, Ended, ConfirmVerified, EndJob, SetStatus,
           CardReady
    <2>2. told'["A"] => Confirmations' > 0 \/ Decided'
      BY <1>1, <1>5, <2>1 DEF Known, AB, TypeOK, IInv, ConfirmArrives, Decided,
           Verifying, Runs, ConfirmVerified, SetStatus, CardReady
    <2>3. Decided' \/ ConfirmFirst(net'["B"])
      BY <1>1, <2>1 DEF Known, AB, TypeOK, IInv, ConfirmArrives, Confirmations,
           SilentUntilTold, ToldInOrder, Messages, ConfirmVerified, EndJob, SetStatus,
           CardReady
    <2>. QED  BY <2>2, <2>3 DEF ConfirmArrives
  <1>11. CardReadyIsBacked'
    <2>1. channel["B"] # "none"
      BY <1>1, <1>6 DEF Known, AB, IInv, Token, NoneIsBefore
    <2>. QED  BY <1>1, <1>12, <2>1 DEF Known, AB, TypeOK, CardReadyIsBacked, ConfirmVerified, SetStatus
  <1>. QED  BY <1>3, <1>7, <1>8, <1>9, <1>10, <1>11 DEF IInv

\* AuthFails keeps the invariant:
\* a signature does not verify.
LEMMA AuthFailsKeeps ==
    ASSUME IInv, NEW n \in Ends, AuthFails(n)
    PROVE  IInv'
  <1>1. Known
    BY StateFacts
  <1>2. /\ Runs(n, "verify") = 1 /\ Runs(n, "verify")' = 0
        /\ UNCHANGED <<Runs(Other(n), "verify")>>
        /\ UNCHANGED <<Runs("B", "derive"), Runs("B", "sign"), Runs("A", "derive")>>
        /\ UNCHANGED <<Runs("A", "sign")>>
    BY <1>1 DEF Known, AB, TypeOK, Runs, AuthFails, EndJob
  <1>3. TypeOK'
    BY <1>1 DEF Known, AB, TypeOK, AuthFails, EndJob, FailChannel, SetStatus
  <1>4. \A p \in Ends : \A m : Count(net'[p], m) \in Nat
    BY CountType, <1>3 DEF TypeOK
  <1>5. UNCHANGED <<Requests, Responses, Confirmations>>
    BY <1>1, <1>4 DEF Known, AB, Messages, Requests, Responses, Confirmations, AuthFails
  <1>6. /\ n = "A" => /\ AtInitiator > 0 /\ Undecided > 0 /\ Undecided' = Undecided - 1
                     /\ AtInitiator' = AtInitiator - 1
                     /\ UNCHANGED <<AtResponder, Confirming>>
        /\ n = "B" => /\ Confirming > 0 /\ Confirming' = Confirming - 1
                     /\ UNCHANGED <<Undecided, AtResponder, AtInitiator>>
    BY <1>1, <1>2, <1>5 DEF Known, AB, IInv, Token, OneToken, Undecided, AtResponder,
         AtInitiator, Confirming
  <1>7. Token'
    <2>1. OneToken'
      BY <1>1, <1>6 DEF Known, AB, IInv, TypeOK, Token, OneToken, Unopened,
           InitiatorWaits, ResponderWaits, NoneIsBefore, ToldInOrder, Over, Ended,
           AuthFails, FailChannel, SetStatus
    <2>2. Unopened'
      BY <1>1, <1>6 DEF Known, AB, IInv, TypeOK, Token, OneToken, Unopened,
           InitiatorWaits, ResponderWaits, NoneIsBefore, ToldInOrder, Over, Ended,
           AuthFails, FailChannel, SetStatus
    <2>3. InitiatorWaits'
      BY <1>1, <1>6 DEF Known, AB, IInv, TypeOK, Token, OneToken, Unopened,
           InitiatorWaits, ResponderWaits, NoneIsBefore, ToldInOrder, Over, Ended,
           AuthFails, FailChannel, SetStatus
    <2>4. ResponderWaits'
      BY <1>1, <1>6 DEF Known, AB, IInv, TypeOK, Token, OneToken, Unopened,
           InitiatorWaits, ResponderWaits, NoneIsBefore, ToldInOrder, Over, Ended,
           AuthFails, FailChannel, SetStatus
    <2>5. NoneIsBefore'
      BY <1>1, <1>6 DEF Known, AB, IInv, TypeOK, Token, OneToken, Unopened,
           InitiatorWaits, ResponderWaits, NoneIsBefore, ToldInOrder, Over, Ended,
           AuthFails, FailChannel, SetStatus
    <2>. QED  BY <2>1, <2>2, <2>3, <2>4, <2>5 DEF Token
  <1>8. ToldInOrder'
    BY <1>1, <1>6 DEF Known, AB, IInv, TypeOK, Token, ResponderWaits, InitiatorWaits,
         NoneIsBefore, ToldInOrder, Over, Ended, AuthFails, FailChannel, SetStatus
  <1>9. SilentUntilTold'
    <2>. SUFFICES ASSUME NEW p \in Ends, ~told'[p]
         PROVE  /\ encrypting'[p] = 0
                /\ Count(net'[Other(p)], "APP") = 0 /\ Count(net'[Other(p)], "GOODBYE") = 0
      BY DEF SilentUntilTold
    <2>1. ~told[p]
      BY <1>1 DEF Known, AB, TypeOK, AuthFails, FailChannel, SetStatus
    <2>2. encrypting'[p] = 0
      BY <1>1, <2>1 DEF Known, AB, TypeOK, IInv, SilentUntilTold, AuthFails, EndJob,
           FailChannel, SetStatus
    <2>3. Count(net'[Other(p)], "APP") = 0 /\ Count(net'[Other(p)], "GOODBYE") = 0
      BY <1>1, <1>4, <2>1 DEF Known, AB, TypeOK, IInv, SilentUntilTold, Messages,
           AuthFails, EndJob, FailChannel, SetStatus
    <2>. QED  BY <2>2, <2>3
  <1>10. ConfirmArrives'
    <2>1. Decided => Decided'
      BY <1>1, <1>6 DEF Known, AB, TypeOK, IInv, Token, ResponderWaits, NoneIsBefore,
           Decided, Verifying, Over, Ended, AuthFails, EndJob, FailChannel, SetStatus
    <2>2. told'["A"] => Confirmations' > 0 \/ Decided'
      BY <1>1, <1>5, <2>1 DEF Known, AB, TypeOK, IInv, ConfirmArrives, Decided,
           Verifying, Runs, AuthFails, FailChannel, SetStatus
    <2>3. Decided' \/ ConfirmFirst(net'["B"])
      BY <1>1, <2>1 DEF Known, AB, TypeOK, IInv, ConfirmArrives, Confirmations,
           SilentUntilTold, ToldInOrder, Messages, AuthFails, EndJob, FailChannel,
           SetStatus
    <2>. QED  BY <2>2, <2>3 DEF ConfirmArrives
  <1>11. CardReadyIsBacked'
    BY <1>1, <1>6 DEF Known, AB, IInv, TypeOK, Token, InitiatorWaits, ResponderWaits,
         NoneIsBefore, CardReadyIsBacked, AuthFails, FailChannel, SetStatus
  <1>. QED  BY <1>3, <1>7, <1>8, <1>9, <1>10, <1>11 DEF IInv

\* SendMessage keeps the invariant:
\* a message is encrypted.
LEMMA SendMessageKeeps ==
    ASSUME IInv, NEW n \in Ends, SendMessage(n)
    PROVE  IInv'
  <1>1. Known
    BY StateFacts
  <1>2. /\ UNCHANGED <<Runs("B", "derive"), Runs("B", "sign"), Runs("A", "verify")>>
        /\ UNCHANGED <<Runs("A", "derive"), Runs("A", "sign"), Runs("B", "verify")>>
    BY <1>1 DEF Known, AB, TypeOK, Runs, SendMessage, StartJob
  <1>3. TypeOK'
    BY <1>1 DEF Known, AB, TypeOK, SendMessage, StartJob, MayCall
  <1>4. \A p \in Ends : \A m : Count(net'[p], m) \in Nat
    BY CountType, <1>3 DEF TypeOK
  <1>5. UNCHANGED <<Requests, Responses, Confirmations>>
    BY <1>1, <1>4 DEF Known, AB, Messages, Requests, Responses, Confirmations,
         SendMessage
  <1>6. UNCHANGED <<Undecided, AtResponder, AtInitiator, Confirming>>
    BY <1>1, <1>2, <1>5 DEF Known, AB, IInv, Token, OneToken, Undecided, AtResponder,
         AtInitiator, Confirming
  <1>7. Token'
    BY <1>1, <1>6 DEF Known, AB, IInv, TypeOK, Token, OneToken, Unopened,
         InitiatorWaits, ResponderWaits, NoneIsBefore, ToldInOrder, Over, Ended,
         SendMessage, MayCall
  <1>8. ToldInOrder'
    BY <1>1, <1>6 DEF Known, AB, IInv, TypeOK, Token, ResponderWaits, InitiatorWaits,
         NoneIsBefore, ToldInOrder, Over, Ended, SendMessage, MayCall
  <1>9. SilentUntilTold'
    <2>. SUFFICES ASSUME NEW p \in Ends, ~told'[p]
         PROVE  /\ encrypting'[p] = 0
                /\ Count(net'[Other(p)], "APP") = 0 /\ Count(net'[Other(p)], "GOODBYE") = 0
      BY DEF SilentUntilTold
    <2>1. ~told[p]
      BY <1>1 DEF Known, AB, TypeOK, SendMessage, MayCall
    <2>2. encrypting'[p] = 0
      BY <1>1, <2>1 DEF Known, AB, TypeOK, IInv, SilentUntilTold, SendMessage, StartJob,
           MayCall
    <2>3. Count(net'[Other(p)], "APP") = 0 /\ Count(net'[Other(p)], "GOODBYE") = 0
      BY <1>1, <1>4, <2>1 DEF Known, AB, TypeOK, IInv, SilentUntilTold, Messages,
           SendMessage, StartJob, MayCall
    <2>. QED  BY <2>2, <2>3
  <1>10. ConfirmArrives'
    <2>1. Decided => Decided'
      BY <1>1, <1>6 DEF Known, AB, TypeOK, IInv, Token, ResponderWaits, NoneIsBefore,
           Decided, Verifying, Over, Ended, SendMessage, StartJob, MayCall
    <2>2. told'["A"] => Confirmations' > 0 \/ Decided'
      BY <1>1, <1>5, <2>1 DEF Known, AB, TypeOK, IInv, ConfirmArrives, Decided,
           Verifying, Runs, SendMessage, MayCall
    <2>3. Decided' \/ ConfirmFirst(net'["B"])
      BY <1>1, <2>1 DEF Known, AB, TypeOK, IInv, ConfirmArrives, Confirmations,
           SilentUntilTold, ToldInOrder, Messages, SendMessage, StartJob, MayCall
    <2>. QED  BY <2>2, <2>3 DEF ConfirmArrives
  <1>11. CardReadyIsBacked'
    BY <1>1, <1>6 DEF Known, AB, IInv, TypeOK, Token, InitiatorWaits, ResponderWaits,
         NoneIsBefore, CardReadyIsBacked, SendMessage, MayCall
  <1>. QED  BY <1>3, <1>7, <1>8, <1>9, <1>10, <1>11 DEF IInv

\* Encrypted keeps the invariant:
\* an encrypted message is sent.
LEMMA EncryptedKeeps ==
    ASSUME IInv, NEW n \in Ends, Encrypted(n)
    PROVE  IInv'
  <1>1. Known
    BY StateFacts
  <1>2. /\ UNCHANGED <<Runs("B", "derive"), Runs("B", "sign"), Runs("A", "verify")>>
        /\ UNCHANGED <<Runs("A", "derive"), Runs("A", "sign"), Runs("B", "verify")>>
    BY <1>1 DEF Known, AB, TypeOK, Runs, Encrypted, EndJob
  <1>3. IF session[n] THEN Gets(Other(n), "APP") ELSE net' = net
    BY SendEffect, BothEnds, <1>1 DEF Known, Encrypted, AB, Messages
  <1>4. net' \in [Ends -> Seq(Messages)]
    BY <1>1, <1>3 DEF Known, Gets, TypeOK
  <1>5. TypeOK'
    BY <1>1, <1>4 DEF Known, AB, TypeOK, Encrypted, EndJob
  <1>6. \A p \in Ends : \A m : Count(net'[p], m) \in Nat
    BY CountType, <1>5 DEF TypeOK
  <1>7. UNCHANGED <<Requests, Responses, Confirmations>>
    BY <1>1, <1>3, <1>6 DEF Known, AB, Gets, Messages, Requests, Responses,
         Confirmations, Encrypted
  <1>8. UNCHANGED <<Undecided, AtResponder, AtInitiator, Confirming>>
    BY <1>1, <1>2, <1>7 DEF Known, AB, IInv, Token, OneToken, Undecided, AtResponder,
         AtInitiator, Confirming
  <1>9. Token'
    BY <1>1, <1>8 DEF Known, AB, IInv, TypeOK, Token, OneToken, Unopened,
         InitiatorWaits, ResponderWaits, NoneIsBefore, ToldInOrder, Over, Ended,
         Encrypted
  <1>10. ToldInOrder'
    BY <1>1, <1>8 DEF Known, AB, IInv, TypeOK, Token, ResponderWaits, InitiatorWaits,
         NoneIsBefore, ToldInOrder, Over, Ended, Encrypted
  <1>11. SilentUntilTold'
    <2>. SUFFICES ASSUME NEW p \in Ends, ~told'[p]
         PROVE  /\ encrypting'[p] = 0
                /\ Count(net'[Other(p)], "APP") = 0 /\ Count(net'[Other(p)], "GOODBYE") = 0
      BY DEF SilentUntilTold
    <2>1. ~told[p]
      BY <1>1 DEF Known, AB, TypeOK, Encrypted
    <2>2. encrypting'[p] = 0
      BY <1>1, <2>1 DEF Known, AB, TypeOK, IInv, SilentUntilTold, Encrypted, EndJob
    <2>3. Count(net'[Other(p)], "APP") = 0 /\ Count(net'[Other(p)], "GOODBYE") = 0
      BY <1>1, <1>3, <1>6, <2>1 DEF Known, AB, Gets, TypeOK, IInv, SilentUntilTold,
           Messages, Encrypted, EndJob
    <2>. QED  BY <2>2, <2>3
  <1>12. ConfirmArrives'
    <2>1. Decided => Decided'
      BY <1>1, <1>3, <1>8 DEF Known, AB, TypeOK, IInv, Token, ResponderWaits,
           NoneIsBefore, Decided, Verifying, Over, Ended, Encrypted, EndJob
    <2>2. told'["A"] => Confirmations' > 0 \/ Decided'
      BY <1>1, <1>7, <2>1 DEF Known, AB, TypeOK, IInv, ConfirmArrives, Decided,
           Verifying, Runs, Encrypted
    <2>3. Decided' \/ ConfirmFirst(net'["B"])
      BY <1>1, <1>3, <2>1 DEF Known, AB, Gets, TypeOK, IInv, ConfirmArrives,
           Confirmations, SilentUntilTold, ToldInOrder, Messages, Encrypted, EndJob
    <2>. QED  BY <2>2, <2>3 DEF ConfirmArrives
  <1>13. CardReadyIsBacked'
    BY <1>1, <1>8 DEF Known, AB, IInv, TypeOK, Token, InitiatorWaits, ResponderWaits,
         NoneIsBefore, CardReadyIsBacked, Encrypted
  <1>. QED  BY <1>5, <1>9, <1>10, <1>11, <1>12, <1>13 DEF IInv

\* HandleApp keeps the invariant:
\* a message is received.
LEMMA AppKeeps ==
    ASSUME IInv, NEW n \in Ends, HandleApp(n)
    PROVE  IInv'
  <1>1. Known
    BY StateFacts
  <1>2. /\ UNCHANGED <<Runs("B", "derive"), Runs("B", "sign"), Runs("A", "verify")>>
        /\ UNCHANGED <<Runs("A", "derive"), Runs("A", "sign"), Runs("B", "verify")>>
    BY <1>1 DEF Known, AB, TypeOK, Runs, HandleApp
  <1>3. Takes(n, "APP")
    BY ReceiveEffect, BothEnds, <1>1 DEF Known, HandleApp, AB, Messages
  <1>4. TypeOK'
    BY <1>1, <1>3 DEF Known, AB, Takes, TypeOK, HandleApp, Receive
  <1>5. \A p \in Ends : \A m : Count(net'[p], m) \in Nat
    BY CountType, <1>4 DEF TypeOK
  <1>6. UNCHANGED <<Requests, Responses, Confirmations>>
    BY <1>1, <1>3, <1>5 DEF Known, AB, Takes, Messages, Requests, Responses,
         Confirmations, HandleApp
  <1>7. UNCHANGED <<Undecided, AtResponder, AtInitiator, Confirming>>
    BY <1>1, <1>2, <1>6 DEF Known, AB, IInv, Token, OneToken, Undecided, AtResponder,
         AtInitiator, Confirming
  <1>8. session["A"] => session'["A"]
    BY <1>1 DEF Known, AB, TypeOK, Receive, HandleApp
  <1>9. Token'
    BY <1>1, <1>7, <1>8 DEF Known, AB, IInv, TypeOK, Token, OneToken, Unopened,
         InitiatorWaits, ResponderWaits, NoneIsBefore, ToldInOrder, Over, Ended,
         HandleApp
  <1>10. ToldInOrder'
    BY <1>1, <1>7, <1>8 DEF Known, AB, IInv, TypeOK, Token, ResponderWaits,
         InitiatorWaits, NoneIsBefore, ToldInOrder, Over, Ended, HandleApp
  <1>11. SilentUntilTold'
    <2>. SUFFICES ASSUME NEW p \in Ends, ~told'[p]
         PROVE  /\ encrypting'[p] = 0
                /\ Count(net'[Other(p)], "APP") = 0 /\ Count(net'[Other(p)], "GOODBYE") = 0
      BY DEF SilentUntilTold
    <2>1. ~told[p]
      BY <1>1 DEF Known, AB, TypeOK, HandleApp
    <2>2. encrypting'[p] = 0
      BY <1>1, <2>1 DEF Known, AB, TypeOK, IInv, SilentUntilTold, HandleApp, Receive
    <2>3. Count(net'[Other(p)], "APP") = 0 /\ Count(net'[Other(p)], "GOODBYE") = 0
      BY <1>1, <1>3, <1>5, <2>1 DEF Known, AB, Takes, TypeOK, IInv, SilentUntilTold,
           Messages, HandleApp, Receive
    <2>. QED  BY <2>2, <2>3
  <1>12. ConfirmArrives'
    <2>1. Decided => Decided'
      BY <1>1, <1>3, <1>7 DEF Known, AB, TypeOK, IInv, Token, ResponderWaits,
           NoneIsBefore, Decided, Verifying, Over, Ended, HandleApp, Receive
    <2>2. told'["A"] => Confirmations' > 0 \/ Decided'
      BY <1>1, <1>6, <2>1 DEF Known, AB, TypeOK, IInv, ConfirmArrives, Decided,
           Verifying, Runs, HandleApp
    <2>3. Decided' \/ ConfirmFirst(net'["B"])
      BY <1>1, <1>3, <2>1 DEF Known, AB, Takes, TypeOK, IInv, ConfirmArrives,
           Confirmations, SilentUntilTold, ToldInOrder, Messages, HandleApp, Receive
    <2>. QED  BY <2>2, <2>3 DEF ConfirmArrives
  <1>13. CardReadyIsBacked'
    BY <1>1, <1>7 DEF Known, AB, IInv, TypeOK, Token, InitiatorWaits, ResponderWaits,
         NoneIsBefore, CardReadyIsBacked, HandleApp
  <1>. QED  BY <1>4, <1>9, <1>10, <1>11, <1>12, <1>13 DEF IInv

\* CloseChannel keeps the invariant:
\* the application closes the channel.
LEMMA CloseKeeps ==
    ASSUME IInv, NEW n \in Ends, CloseChannel(n)
    PROVE  IInv'
  <1>1. Known
    BY StateFacts
  <1>2. /\ UNCHANGED <<Runs("B", "derive"), Runs("B", "sign"), Runs("A", "verify")>>
        /\ UNCHANGED <<Runs("A", "derive"), Runs("A", "sign"), Runs("B", "verify")>>
    BY <1>1 DEF Known, AB, TypeOK, Runs, CloseChannel
  <1>3. IF session[n] THEN Gets(Other(n), "GOODBYE") ELSE net' = net
    BY SendEffect, BothEnds, <1>1 DEF Known, CloseChannel, AB, Messages
  <1>4. /\ card' \in [status : {"none", "READY", "CLOSED"}, slots : Slots]
        /\ card'.slots = card.slots /\ card'.status # "READY"
        /\ card'.status = "none" <=> card.status = "none"
    BY <1>1 DEF Known, TypeOK, CardClosed, SessionClosed, CloseChannel
  <1>5. net' \in [Ends -> Seq(Messages)]
    BY <1>1, <1>3 DEF Known, Gets, TypeOK
  <1>6. TypeOK'
    BY <1>1, <1>5, <1>4 DEF Known, AB, TypeOK, CloseChannel, MayCall, SessionClosed,
         SetStatus
  <1>7. \A p \in Ends : \A m : Count(net'[p], m) \in Nat
    BY CountType, <1>6 DEF TypeOK
  <1>8. UNCHANGED <<Requests, Responses, Confirmations>>
    BY <1>1, <1>3, <1>7 DEF Known, AB, Gets, Messages, Requests, Responses,
         Confirmations, CloseChannel
  <1>9. UNCHANGED <<Undecided, AtResponder, AtInitiator, Confirming>>
    BY <1>1, <1>2, <1>8 DEF Known, AB, IInv, Token, OneToken, Undecided, AtResponder,
         AtInitiator, Confirming
  <1>10. Token'
    <2>1. OneToken'
      BY <1>1, <1>9, <1>4 DEF Known, AB, IInv, TypeOK, Token, OneToken, Unopened,
           InitiatorWaits, ResponderWaits, NoneIsBefore, ToldInOrder, Over, Ended,
           CloseChannel, MayCall, SessionClosed, SetStatus
    <2>2. Unopened'
      BY <1>1, <1>9, <1>4 DEF Known, AB, IInv, TypeOK, Token, OneToken, Unopened,
           InitiatorWaits, ResponderWaits, NoneIsBefore, ToldInOrder, Over, Ended,
           CloseChannel, MayCall, SessionClosed, SetStatus
    <2>3. InitiatorWaits'
      BY <1>1, <1>9, <1>4 DEF Known, AB, IInv, TypeOK, Token, OneToken, Unopened,
           InitiatorWaits, ResponderWaits, NoneIsBefore, ToldInOrder, Over, Ended,
           CloseChannel, MayCall, SessionClosed, SetStatus
    <2>4. ResponderWaits'
      BY <1>1, <1>9, <1>4 DEF Known, AB, IInv, TypeOK, Token, OneToken, Unopened,
           InitiatorWaits, ResponderWaits, NoneIsBefore, ToldInOrder, Over, Ended,
           CloseChannel, MayCall, SessionClosed, SetStatus
    <2>5. NoneIsBefore'
      BY <1>1, <1>9, <1>4 DEF Known, AB, IInv, TypeOK, Token, OneToken, Unopened,
           InitiatorWaits, ResponderWaits, NoneIsBefore, ToldInOrder, Over, Ended,
           CloseChannel, MayCall, SessionClosed, SetStatus
    <2>. QED  BY <2>1, <2>2, <2>3, <2>4, <2>5 DEF Token
  <1>11. ToldInOrder'
    BY <1>1, <1>9, <1>4 DEF Known, AB, IInv, TypeOK, Token, ResponderWaits,
         InitiatorWaits, NoneIsBefore, ToldInOrder, Over, Ended, CloseChannel, MayCall,
         SessionClosed, SetStatus
  <1>12. SilentUntilTold'
    <2>. SUFFICES ASSUME NEW p \in Ends, ~told'[p]
         PROVE  /\ encrypting'[p] = 0
                /\ Count(net'[Other(p)], "APP") = 0 /\ Count(net'[Other(p)], "GOODBYE") = 0
      BY DEF SilentUntilTold
    <2>1. ~told[p]
      BY <1>1 DEF Known, AB, TypeOK, CloseChannel, MayCall, SessionClosed, SetStatus
    <2>2. encrypting'[p] = 0
      BY <1>1, <2>1 DEF Known, AB, TypeOK, IInv, SilentUntilTold, CloseChannel, MayCall,
           SessionClosed, SetStatus
    <2>3. Count(net'[Other(p)], "APP") = 0 /\ Count(net'[Other(p)], "GOODBYE") = 0
      BY <1>1, <1>3, <1>7, <2>1 DEF Known, AB, Gets, TypeOK, IInv, SilentUntilTold,
           Messages, CloseChannel, MayCall, SessionClosed, SetStatus
    <2>. QED  BY <2>2, <2>3
  <1>13. ConfirmArrives'
    <2>1. Decided => Decided'
      BY <1>1, <1>3, <1>9 DEF Known, AB, TypeOK, IInv, Token, ResponderWaits,
           NoneIsBefore, Decided, Verifying, Over, Ended, CloseChannel, MayCall,
           SessionClosed, SetStatus
    <2>2. told'["A"] => Confirmations' > 0 \/ Decided'
      BY <1>1, <1>8, <2>1 DEF Known, AB, TypeOK, IInv, ConfirmArrives, Decided,
           Verifying, Runs, CloseChannel, MayCall, SessionClosed, SetStatus
    <2>3. Decided' \/ ConfirmFirst(net'["B"])
      BY <1>1, <1>3, <2>1 DEF Known, AB, Gets, TypeOK, IInv, ConfirmArrives,
           Confirmations, SilentUntilTold, ToldInOrder, Messages, CloseChannel, MayCall,
           SessionClosed, SetStatus
    <2>. QED  BY <2>2, <2>3 DEF ConfirmArrives
  <1>14. CardReadyIsBacked'
    BY <1>1, <1>9, <1>4 DEF Known, AB, IInv, TypeOK, Token, InitiatorWaits,
         ResponderWaits, NoneIsBefore, CardReadyIsBacked, CloseChannel, MayCall,
         SessionClosed, SetStatus
  <1>. QED  BY <1>6, <1>10, <1>11, <1>12, <1>13, <1>14 DEF IInv

\* HandleGoodbye keeps the invariant:
\* the other end has closed it.
LEMMA GoodbyeKeeps ==
    ASSUME IInv, NEW n \in Ends, HandleGoodbye(n)
    PROVE  IInv'
  <1>1. Known
    BY StateFacts
  <1>2. /\ UNCHANGED <<Runs("B", "derive"), Runs("B", "sign"), Runs("A", "verify")>>
        /\ UNCHANGED <<Runs("A", "derive"), Runs("A", "sign"), Runs("B", "verify")>>
    BY <1>1 DEF Known, AB, TypeOK, Runs, HandleGoodbye
  <1>3. Takes(n, "GOODBYE")
    BY HeadTaken, BothEnds, <1>1 DEF Known, HandleGoodbye, AB, Messages
  <1>4. /\ card' \in [status : {"none", "READY", "CLOSED"}, slots : Slots]
        /\ card'.slots = card.slots /\ card'.status # "READY"
        /\ card'.status = "none" <=> card.status = "none"
    BY <1>1 DEF Known, TypeOK, CardClosed, SessionClosed, HandleGoodbye
  <1>5. TypeOK'
    BY <1>1, <1>3, <1>4 DEF Known, AB, Takes, TypeOK, HandleGoodbye, SessionClosed,
         SetStatus
  <1>6. \A p \in Ends : \A m : Count(net'[p], m) \in Nat
    BY CountType, <1>5 DEF TypeOK
  <1>7. UNCHANGED <<Requests, Responses, Confirmations>>
    BY <1>1, <1>3, <1>6 DEF Known, AB, Takes, Messages, Requests, Responses,
         Confirmations, HandleGoodbye
  <1>8. UNCHANGED <<Undecided, AtResponder, AtInitiator, Confirming>>
    BY <1>1, <1>2, <1>7 DEF Known, AB, IInv, Token, OneToken, Undecided, AtResponder,
         AtInitiator, Confirming
  <1>9. told[Other(n)]
    BY <1>1, <1>3, <1>6 DEF Known, AB, Takes, IInv, SilentUntilTold
  <1>10. Token'
    <2>1. OneToken'
      BY <1>1, <1>8, <1>9, <1>4 DEF Known, AB, IInv, TypeOK, Token, OneToken, Unopened,
           InitiatorWaits, ResponderWaits, NoneIsBefore, ToldInOrder, Over, Ended,
           HandleGoodbye, SessionClosed, SetStatus
    <2>2. Unopened'
      BY <1>1, <1>8, <1>9, <1>4 DEF Known, AB, IInv, TypeOK, Token, OneToken, Unopened,
           InitiatorWaits, ResponderWaits, NoneIsBefore, ToldInOrder, Over, Ended,
           HandleGoodbye, SessionClosed, SetStatus
    <2>3. InitiatorWaits'
      BY <1>1, <1>8, <1>9, <1>4 DEF Known, AB, IInv, TypeOK, Token, OneToken, Unopened,
           InitiatorWaits, ResponderWaits, NoneIsBefore, ToldInOrder, Over, Ended,
           HandleGoodbye, SessionClosed, SetStatus
    <2>4. ResponderWaits'
      BY <1>1, <1>8, <1>9, <1>4 DEF Known, AB, IInv, TypeOK, Token, OneToken, Unopened,
           InitiatorWaits, ResponderWaits, NoneIsBefore, ToldInOrder, Over, Ended,
           HandleGoodbye, SessionClosed, SetStatus
    <2>5. NoneIsBefore'
      BY <1>1, <1>8, <1>9, <1>4 DEF Known, AB, IInv, TypeOK, Token, OneToken, Unopened,
           InitiatorWaits, ResponderWaits, NoneIsBefore, ToldInOrder, Over, Ended,
           HandleGoodbye, SessionClosed, SetStatus
    <2>. QED  BY <2>1, <2>2, <2>3, <2>4, <2>5 DEF Token
  <1>11. ToldInOrder'
    BY <1>1, <1>8, <1>9, <1>4 DEF Known, AB, IInv, TypeOK, Token, ResponderWaits,
         InitiatorWaits, NoneIsBefore, ToldInOrder, Over, Ended, HandleGoodbye,
         SessionClosed, SetStatus
  <1>12. SilentUntilTold'
    <2>. SUFFICES ASSUME NEW p \in Ends, ~told'[p]
         PROVE  /\ encrypting'[p] = 0
                /\ Count(net'[Other(p)], "APP") = 0 /\ Count(net'[Other(p)], "GOODBYE") = 0
      BY DEF SilentUntilTold
    <2>1. ~told[p]
      BY <1>1 DEF Known, AB, TypeOK, HandleGoodbye, SessionClosed, SetStatus
    <2>2. encrypting'[p] = 0
      BY <1>1, <2>1 DEF Known, AB, TypeOK, IInv, SilentUntilTold, HandleGoodbye,
           SessionClosed, SetStatus
    <2>3. Count(net'[Other(p)], "APP") = 0 /\ Count(net'[Other(p)], "GOODBYE") = 0
      BY <1>1, <1>3, <1>6, <2>1 DEF Known, AB, Takes, TypeOK, IInv, SilentUntilTold,
           Messages, HandleGoodbye, SessionClosed, SetStatus
    <2>. QED  BY <2>2, <2>3
  <1>13. ConfirmArrives'
    <2>1. Decided => Decided'
      BY <1>1, <1>3, <1>8 DEF Known, AB, TypeOK, IInv, Token, ResponderWaits,
           NoneIsBefore, Decided, Verifying, Over, Ended, HandleGoodbye, SessionClosed,
           SetStatus
    <2>2. told'["A"] => Confirmations' > 0 \/ Decided'
      BY <1>1, <1>7, <2>1 DEF Known, AB, TypeOK, IInv, ConfirmArrives, Decided,
           Verifying, Runs, HandleGoodbye, SessionClosed, SetStatus
    <2>3. Decided' \/ ConfirmFirst(net'["B"])
      BY <1>1, <1>3, <2>1 DEF Known, AB, Takes, TypeOK, IInv, ConfirmArrives,
           Confirmations, SilentUntilTold, ToldInOrder, Messages, HandleGoodbye,
           SessionClosed, SetStatus
    <2>. QED  BY <2>2, <2>3 DEF ConfirmArrives
  <1>14. CardReadyIsBacked'
    BY <1>1, <1>8, <1>4 DEF Known, AB, IInv, TypeOK, Token, InitiatorWaits,
         ResponderWaits, NoneIsBefore, CardReadyIsBacked, HandleGoodbye, SessionClosed,
         SetStatus
  <1>. QED  BY <1>5, <1>10, <1>11, <1>12, <1>13, <1>14 DEF IInv

\* OpenChannel keeps the invariant: openSession brings the HELLO and the token.
LEMMA OpenKeeps ==
    ASSUME IInv, OpenChannel
    PROVE  IInv'
  <1>. DEFINE q == net["B"]  v == Append(q, "HELLO")  w == Append(v, "KEY_EXCHANGE")
  <1>1. Known
    BY StateFacts
  <1>2. q \in Seq(Messages) /\ v \in Seq(Messages) /\ w \in Seq(Messages)
    BY <1>1 DEF Known, AB, TypeOK, Messages
  <1>3. q \o <<"HELLO", "KEY_EXCHANGE">> = w
    BY <1>2
  <1>4. /\ Count(w, "KEY_EXCHANGE") = Count(q, "KEY_EXCHANGE") + 1
        /\ \A m \in Messages \ {"HELLO", "KEY_EXCHANGE"} : Count(w, m) = Count(q, m)
    <2>1. /\ Count(v, "KEY_EXCHANGE") = Count(q, "KEY_EXCHANGE")
          /\ \A m \in Messages \ {"HELLO", "KEY_EXCHANGE"} : Count(v, m) = Count(q, m)
      BY <1>2, CountAppend DEF Messages
    <2>2. /\ Count(w, "KEY_EXCHANGE") = Count(v, "KEY_EXCHANGE") + 1
          /\ \A m \in Messages \ {"HELLO", "KEY_EXCHANGE"} : Count(w, m) = Count(v, m)
      <3>. HIDE DEF v
      <3>. QED  BY <1>2, CountAppend DEF Messages
    <2>. QED  BY <2>1, <2>2
  <1>5. net' \in [Ends -> Seq(Messages)] /\ net'["B"] = w /\ net'["A"] = net["A"]
    <2>1. net' = [net EXCEPT !["B"] = w]
      BY <1>3 DEF OpenChannel
    <2>. HIDE DEF w
    <2>. QED  BY <1>1, <1>2, <2>1 DEF Known, AB, TypeOK
  <1>. HIDE DEF w, q
  <1>6. TypeOK'
    BY <1>1, <1>5 DEF Known, AB, TypeOK, OpenChannel
  <1>7. \A p \in Ends : \A m : Count(net'[p], m) \in Nat
    BY <1>6, CountType DEF TypeOK
  <1>8. Requests' = Requests + 1 /\ UNCHANGED <<Responses, Confirmations>>
    BY <1>4, <1>5 DEF Messages, Requests, Responses, Confirmations, q
  <1>9. /\ Undecided' = 1 /\ Undecided = 0
        /\ UNCHANGED <<AtResponder, AtInitiator, Confirming>> /\ Confirming = 0
        /\ ~told["A"]
    <2>1. Undecided + Confirming = 0 /\ ~told["A"]
      BY DEF IInv, Token, Unopened, OpenChannel
    <2>2. Undecided = 0 /\ Confirming = 0
      BY <1>1, <2>1 DEF Known
    <2>3. UNCHANGED <<AtResponder, AtInitiator, Confirming>>
      BY <1>8 DEF OpenChannel, AtResponder, AtInitiator, Confirming, Runs
    <2>4. Undecided' = Undecided + 1
      BY <1>1, <1>8, <2>3 DEF Known, Undecided
    <2>. QED  BY <2>1, <2>2, <2>3, <2>4
  <1>10. Token'
    BY <1>1, <1>9 DEF Known, AB, IInv, TypeOK, Token, OneToken, Unopened, InitiatorWaits,
         ResponderWaits, NoneIsBefore, OpenChannel
  <1>11. ToldInOrder'
    BY <1>1, <1>9 DEF Known, AB, IInv, TypeOK, ToldInOrder, Over, Ended, OpenChannel
  <1>12. /\ Count(net'["B"], "APP") = Count(net["B"], "APP")
         /\ Count(net'["B"], "GOODBYE") = Count(net["B"], "GOODBYE")
    BY <1>4, <1>5 DEF Messages, q
  <1>13. SilentUntilTold'
    BY <1>1, <1>5, <1>12 DEF Known, AB, IInv, SilentUntilTold, OpenChannel
  <1>14. ConfirmFirst(net'["B"])
    <2>1. Count(net'["B"], "APP") = 0 /\ Count(net'["B"], "GOODBYE") = 0
      BY <1>1, <1>9, <1>12 DEF Known, AB, IInv, SilentUntilTold
    <2>2. \A i \in 1 .. Len(net'["B"]) : net'["B"][i] \notin {"APP", "GOODBYE"}
      BY <1>2, <1>5, <2>1, CountAbsent
    <2>. QED  BY <2>2 DEF ConfirmFirst, Preceded
  <1>15. ConfirmArrives'
    BY <1>9, <1>14 DEF ConfirmArrives, OpenChannel
  <1>16. CardReadyIsBacked'
    BY <1>1, <1>9 DEF Known, AB, IInv, TypeOK, Token, Unopened, CardReadyIsBacked,
         OpenChannel
  <1>. QED  BY <1>6, <1>10, <1>11, <1>13, <1>15, <1>16 DEF IInv

-----------------------------------------------------------------------------
(* Every action keeps PInv *)

\* The numbers of Known alone.
Numbers ==
    /\ Confirmations \in Nat /\ AtResponder \in Nat /\ AtInitiator \in Nat
    /\ Undecided \in Nat
    /\ Undecided = 0 => Requests = 0 /\ AtResponder = 0 /\ AtInitiator = 0

\* A state that is known has them.
LEMMA NumberFacts == Known => Numbers
  BY DEF Known, Numbers, Undecided

\* What one message less does to the counts of the handshake.
LEMMA TokenTaken ==
    ASSUME Known, Known', NEW n \in Ends, NEW m \in Messages, Takes(n, m)
    PROVE  /\ Requests' \in Nat /\ Responses' \in Nat /\ Confirmations' \in Nat
           /\ Requests = Requests' + (IF n = "B" /\ m = "KEY_EXCHANGE" THEN 1 ELSE 0)
           /\ Responses = Responses' + (IF n = "A" /\ m = "AUTH_RESPONSE" THEN 1 ELSE 0)
           /\ Confirmations =
                  Confirmations' + (IF n = "B" /\ m = "AUTH_CONFIRM" THEN 1 ELSE 0)
  BY DEF Known, AB, Takes, Messages, Requests, Responses, Confirmations

\* What one message more does to them.
LEMMA TokenAdded ==
    ASSUME Known, Known', NEW n \in Ends, NEW m \in Messages, Gets(n, m)
    PROVE  /\ Requests \in Nat /\ Responses \in Nat /\ Confirmations \in Nat
           /\ Requests' = Requests + (IF n = "B" /\ m = "KEY_EXCHANGE" THEN 1 ELSE 0)
           /\ Responses' = Responses + (IF n = "A" /\ m = "AUTH_RESPONSE" THEN 1 ELSE 0)
           /\ Confirmations' =
                  Confirmations + (IF n = "B" /\ m = "AUTH_CONFIRM" THEN 1 ELSE 0)
  BY DEF Known, AB, Gets, Messages, Requests, Responses, Confirmations

\* The inbox of the responder keeps its order when another message leaves it.
LEMMA HelloStays ==
    ASSUME PInv, NEW n \in Ends, NEW m \in Messages, m # "HELLO", Takes(n, m), Known,
           channel' = channel
    PROVE  channel'["B"] = "none" => HelloFirst(net'["B"])
  BY DEF PInv, Takes, Known, AB

\* HandleHello keeps it: the session's channel is made, its handshake not moved.
LEMMA HelloWaits ==
    ASSUME IInv, IInv', PInv, HandleHello
    PROVE  PInv'
  <1>1. Known /\ Known' /\ Numbers /\ Numbers'
    BY StateFacts, NumberFacts, PTL
  <1>2. Takes("B", "HELLO") /\ session' = [session EXCEPT !["B"] = TRUE]
    BY <1>1, ReceiveEffect DEF Known, AB, Messages, HandleHello
  <1>3. UNCHANGED <<Requests, Responses, Confirmations>>
    BY <1>1, <1>2, TokenTaken, BothEnds DEF AB, Messages
  <1>4. UNCHANGED <<Undecided, AtResponder, AtInitiator>>
    BY <1>3 DEF HandleHello, Undecided, AtResponder, AtInitiator, Runs
  <1>. QED  BY <1>1, <1>2, <1>3, <1>4 DEF PInv, Known, AB, TypeOK, HandleHello

\* HandleKeyExchange keeps it: the responder has an entry for the session.
LEMMA KeyExchangeWaits ==
    ASSUME IInv, IInv', PInv, HandleKeyExchange
    PROVE  PInv'
  <1>1. Known /\ Known' /\ Numbers /\ Numbers'
    BY StateFacts, NumberFacts, PTL
  <1>2. Takes("B", "KEY_EXCHANGE") /\ session' = [session EXCEPT !["B"] = TRUE]
    BY <1>1, ReceiveEffect DEF Known, AB, Messages, HandleKeyExchange
  <1>3. Requests > 0 /\ UNCHANGED <<Responses, Confirmations>>
    BY <1>1, <1>2, TokenTaken, BothEnds DEF AB, Messages
  <1>4. UNCHANGED AtInitiator
    BY <1>1, <1>3 DEF Known, AB, TypeOK, HandleKeyExchange, StartJob, AtInitiator, Runs
  <1>5. Undecided > 0 /\ Undecided' > 0
    <2>1. Undecided > 0
      BY <1>1, <1>3 DEF Known, Undecided
    <2>2. Runs("B", "derive")' = 1 /\ Runs("B", "sign")' \in {0, 1}
      BY <1>1 DEF Known, AB, TypeOK, HandleKeyExchange, StartJob, Runs
    <2>3. AtResponder' # 0
      BY <2>2 DEF AtResponder
    <2>. QED  BY <1>1, <2>1, <2>3 DEF Numbers
  <1>6. session'["B"]
    <2>1. AB /\ TypeOK
      BY <1>1 DEF Known
    <2>. QED  BY <1>2, <2>1 DEF AB, TypeOK
  <1>7. channel' = channel /\ channel["B"] # "none" /\ UNCHANGED <<pending, promise>>
    BY DEF HandleKeyExchange
  <1>. QED  BY <1>3, <1>4, <1>5, <1>6, <1>7 DEF PInv

\* Derived keeps it: its handler goes on to sign.
LEMMA DerivedWaits ==
    ASSUME IInv, IInv', PInv, NEW n \in Ends, Derived(n)
    PROVE  PInv'
  <1>1. Known /\ Known' /\ Numbers /\ Numbers'
    BY StateFacts, NumberFacts, PTL
  <1>2. UNCHANGED <<Requests, Responses, Confirmations, net["B"]>>
    BY DEF Derived, Requests, Responses, Confirmations
  <1>3. UNCHANGED <<Runs("A", "verify"), Runs(Other(n), "derive"), Runs(Other(n), "sign")>>
    BY <1>1 DEF Known, AB, TypeOK, Derived, NextJob, Runs
  <1>4. Runs(n, "derive") = 1 /\ Runs(n, "derive")' = 0 /\ Runs(n, "sign")' = 1
    BY <1>1 DEF Known, AB, TypeOK, Derived, NextJob, Runs
  <1>5. /\ Undecided > 0 /\ Undecided' > 0
        /\ AtResponder' > 0 => AtResponder > 0
        /\ AtInitiator' > 0 => AtInitiator > 0
    BY <1>1, <1>2, <1>3, <1>4 DEF Known, AB, Undecided, AtResponder, AtInitiator
  <1>. QED  BY <1>1, <1>2, <1>5 DEF PInv, Known, Derived

\* SendAuthResponse keeps it: the response is sent, by an end that awaits the
\* confirmation and whose channel nobody can have ended yet.
LEMMA ResponseWaits ==
    ASSUME IInv, IInv', PInv, SendAuthResponse
    PROVE  PInv'
  <1>1. Known /\ Known' /\ Numbers /\ Numbers'
    BY StateFacts, NumberFacts, PTL
  <1>2. Runs("B", "sign") = 1
    BY DEF SendAuthResponse, EndJob, Runs
  <1>3. AtResponder > 0 /\ Undecided > 0
    BY <1>1, <1>2 DEF Known, AB, AtResponder, Undecided
  <1>4. Gets("A", "AUTH_RESPONSE")
    BY <1>1, <1>3, SendEffect DEF PInv, Known, AB, Messages, SendAuthResponse
  <1>5. Responses' = Responses + 1 /\ UNCHANGED <<Requests, Confirmations>>
    BY <1>1, <1>4, TokenAdded, BothEnds DEF AB, Messages, Numbers
  <1>6. Undecided' > 0
    BY <1>1, <1>5 DEF Known, AB, Undecided, AtInitiator
  <1>7. AtResponder' > 0 => session'["B"]
    BY <1>3 DEF PInv, SendAuthResponse
  <1>8. channel["B"] = "AUTHENTICATING"
    BY <1>1, <1>3 DEF Known, AB, TypeOK, IInv, Token, InitiatorWaits, NoneIsBefore,
         ToldInOrder, Over, Ended
  <1>. QED  BY <1>1, <1>3, <1>6, <1>7, <1>8 DEF PInv, Known, AB, TypeOK, SendAuthResponse

\* HandleAuth keeps it at the initiator: its handler verifies.
LEMMA AuthResponseWaits ==
    ASSUME IInv, IInv', PInv, HandleAuth("A", "AUTH_RESPONSE", "initiator")
    PROVE  PInv'
  <1>1. Known /\ Known' /\ Numbers /\ Numbers'
    BY StateFacts, NumberFacts, PTL
  <1>2. Takes("A", "AUTH_RESPONSE") /\ session' = [session EXCEPT !["A"] = TRUE]
    BY <1>1, ReceiveEffect DEF Known, AB, Messages, HandleAuth
  <1>3. Responses > 0 /\ UNCHANGED <<Requests, Confirmations>>
    BY <1>1, <1>2, TokenTaken, BothEnds DEF AB, Messages
  <1>4. UNCHANGED AtResponder /\ Runs("A", "verify")' = 1
    BY <1>1 DEF Known, AB, TypeOK, HandleAuth, StartJob, AtResponder, Runs
  <1>5. Undecided > 0 /\ Undecided' > 0 /\ AtInitiator > 0
    BY <1>1, <1>3, <1>4 DEF Known, AB, Undecided, AtInitiator
  <1>6. channel'["B"] = "none" => HelloFirst(net'["B"])
    BY <1>1, <1>2, HelloStays, BothEnds DEF HandleAuth, AB, Messages
  <1>. QED  BY <1>1, <1>2, <1>4, <1>5, <1>6 DEF PInv, Known, AB, TypeOK, HandleAuth

\* HandleAuth keeps it at the responder: the initiator has decided.
LEMMA ConfirmWaits ==
    ASSUME IInv, IInv', PInv, HandleAuth("B", "AUTH_CONFIRM", "responder")
    PROVE  PInv'
  <1>1. Known /\ Known' /\ Numbers /\ Numbers'
    BY StateFacts, NumberFacts, PTL
  <1>2. Takes("B", "AUTH_CONFIRM") /\ session' = [session EXCEPT !["B"] = TRUE]
    BY <1>1, ReceiveEffect DEF Known, AB, Messages, HandleAuth
  <1>3. Confirmations > 0 /\ UNCHANGED <<Requests, Responses>>
    BY <1>1, <1>2, TokenTaken, BothEnds DEF AB, Messages
  <1>4. UNCHANGED <<AtResponder, AtInitiator, Undecided>>
    <2>1. UNCHANGED <<Runs("A", "verify"), Runs("A", "derive"), Runs("A", "sign"),
                      Runs("B", "derive"), Runs("B", "sign")>>
      BY <1>1 DEF Known, AB, TypeOK, HandleAuth, StartJob, Runs
    <2>. QED  BY <1>3, <2>1 DEF AtResponder, AtInitiator, Undecided
  <1>5. channel'["B"] = "none" => HelloFirst(net'["B"])
    BY <1>1, <1>2, HelloStays, BothEnds DEF HandleAuth, AB, Messages
  <1>. QED  BY <1>1, <1>2, <1>3, <1>4, <1>5 DEF PInv, Known, AB, TypeOK, HandleAuth

\* ResponseVerified keeps it: its handler goes on to derive the key.
LEMMA ResponseVerifiedWaits ==
    ASSUME IInv, IInv', PInv, ResponseVerified
    PROVE  PInv'
  <1>1. Known /\ Known' /\ Numbers /\ Numbers'
    BY StateFacts, NumberFacts, PTL
  <1>2. UNCHANGED <<Requests, Responses, Confirmations, AtResponder, net["B"]>>
    BY <1>1 DEF Known, AB, TypeOK, ResponseVerified, NextJob, Requests, Responses,
         Confirmations, AtResponder, Runs
  <1>3. Runs("A", "verify") = 1 /\ Runs("A", "derive")' = 1
    BY <1>1 DEF Known, AB, TypeOK, ResponseVerified, NextJob, Runs
  <1>4. Undecided > 0 /\ Undecided' > 0 /\ AtInitiator > 0
    BY <1>1, <1>3 DEF Known, AB, Undecided, AtInitiator
  <1>. QED  BY <1>1, <1>2, <1>4 DEF PInv, Numbers, ResponseVerified

\* SendAuthConfirm keeps it: the promise is resolved as the token leaves.
LEMMA AuthConfirmWaits ==
    ASSUME IInv, IInv', PInv, SendAuthConfirm
    PROVE  PInv'
  <1>1. Known /\ Known' /\ Numbers /\ Numbers'
    BY StateFacts, NumberFacts, PTL
  <1>2. Runs("A", "sign") = 1
    BY DEF SendAuthConfirm, EndJob, Runs
  <1>3. AtInitiator > 0 /\ Undecided > 0
    BY <1>1, <1>2 DEF Known, AB, AtInitiator, Undecided
  <1>4. Gets("B", "AUTH_CONFIRM")
    BY <1>1, <1>3, SendEffect DEF IInv, Token, InitiatorWaits, Known, AB, Messages,
         SendAuthConfirm
  <1>5. Undecided' = 0
    <2>1. told'["A"]
      BY <1>1 DEF Known, AB, TypeOK, SendAuthConfirm
    <2>. QED  BY <1>1, <2>1 DEF IInv, Token, InitiatorWaits, Known
  <1>6. AtResponder' = 0
    BY <1>1, <1>5 DEF Numbers
  <1>7. channel'["B"] = channel["B"] /\ promise' # "pending"
    BY <1>1 DEF Known, AB, TypeOK, SendAuthConfirm, SetStatus
  <1>8. channel["B"] = "AUTHENTICATING" /\ pending'["B"] = "responder"
    BY <1>1, <1>3 DEF PInv, Known, AB, TypeOK, SendAuthConfirm
  <1>. QED  BY <1>5, <1>6, <1>7, <1>8 DEF PInv

\* ConfirmVerified keeps it: the handshake is over.
LEMMA ConfirmVerifiedWaits ==
    ASSUME IInv, IInv', PInv, ConfirmVerified
    PROVE  PInv'
  <1>1. Known /\ Known' /\ Numbers /\ Numbers'
    BY StateFacts, NumberFacts, PTL
  <1>2. UNCHANGED <<Requests, Responses, Confirmations, net["B"]>>
    BY DEF ConfirmVerified, Requests, Responses, Confirmations
  <1>3. UNCHANGED <<AtResponder, AtInitiator, Undecided>>
    <2>1. UNCHANGED <<Runs("A", "verify"), Runs("A", "derive"), Runs("A", "sign"),
                      Runs("B", "derive"), Runs("B", "sign")>>
      BY <1>1 DEF Known, AB, TypeOK, ConfirmVerified, EndJob, Runs
    <2>. QED  BY <1>2, <2>1 DEF AtResponder, AtInitiator, Undecided
  <1>4. Undecided = 0 /\ Confirmations = 0
    <2>1. Runs("B", "verify") = 1
      BY DEF ConfirmVerified, EndJob, Runs
    <2>. QED  BY <1>1, <2>1 DEF Known, AB, IInv, Token, OneToken, Confirming
  <1>5. AtInitiator = 0 /\ AtResponder = 0
    BY <1>1, <1>4 DEF Known
  <1>. QED  BY <1>1, <1>2, <1>3, <1>4, <1>5 DEF PInv, Known, AB, TypeOK, ConfirmVerified,
              SetStatus

\* AuthFails keeps it: the initiator's caller is told, the responder's handshake is over.
LEMMA AuthFailsWaits ==
    ASSUME IInv, IInv', PInv, NEW n \in Ends, AuthFails(n)
    PROVE  PInv'
  <1>1. Known /\ Known' /\ Numbers /\ Numbers'
    BY StateFacts, NumberFacts, PTL
  <1>2. UNCHANGED <<Requests, Responses, Confirmations, net["B"]>>
    BY DEF AuthFails, Requests, Responses, Confirmations
  <1>3. UNCHANGED <<Runs("A", "derive"), Runs("A", "sign"), Runs("B", "derive"),
                    Runs("B", "sign"), Runs(Other(n), "verify")>>
    BY <1>1 DEF Known, AB, TypeOK, AuthFails, EndJob, Runs
  <1>4. Runs(n, "verify") = 1 /\ Runs(n, "verify")' = 0
    BY <1>1 DEF Known, AB, TypeOK, AuthFails, EndJob, Runs
  <1>5. CASE n = "A"
    <2>1. /\ Requests = 0 /\ Responses = 0 /\ Confirmations = 0
          /\ Runs("A", "derive") = 0 /\ Runs("A", "sign") = 0
          /\ Runs("B", "derive") = 0 /\ Runs("B", "sign") = 0
      BY <1>1, <1>4, <1>5 DEF Known, AB, IInv, Token, OneToken, Undecided, AtResponder,
           AtInitiator, Confirming
    <2>2. AtResponder' = 0 /\ AtInitiator' = 0 /\ Undecided' = 0
      BY <1>2, <1>3, <1>4, <1>5, <2>1 DEF Undecided, AtResponder, AtInitiator
    <2>. QED  BY <1>1, <1>2, <1>5, <2>1, <2>2 DEF PInv, Known, AB, TypeOK, AuthFails,
                FailChannel, SetStatus
  <1>6. CASE n = "B"
    <2>1. /\ Undecided = 0 /\ Undecided' = 0 /\ Confirmations = 0
          /\ AtResponder' = 0 /\ AtInitiator' = 0
      BY <1>1, <1>2, <1>3, <1>4, <1>6 DEF Known, AB, IInv, Token, OneToken, Undecided,
           AtResponder, AtInitiator, Confirming
    <2>. QED  BY <1>1, <1>2, <1>6, <2>1 DEF PInv, Known, AB, TypeOK, AuthFails,
                FailChannel, SetStatus
  <1>. QED  BY <1>1, <1>5, <1>6 DEF Known, AB

\* While the application at an end has its channel, the handshake is decided.
LEMMA ToldIsDecided ==
    ASSUME IInv, PInv, NEW n \in Ends, told[n]
    PROVE  Undecided = 0 /\ promise # "pending"
  <1>1. Known /\ told["A"]
    BY StateFacts, BothEnds DEF AB, IInv, ToldInOrder
  <1>2. Undecided = 0
    BY <1>1 DEF IInv, Token, InitiatorWaits, Known
  <1>. QED  BY <1>2 DEF PInv

\* SendMessage keeps it: encryption is no part of the handshake.
LEMMA SendMessageWaits ==
    ASSUME IInv, IInv', PInv, NEW n \in Ends, SendMessage(n)
    PROVE  PInv'
  <1>1. Known
    BY StateFacts
  <1>2. UNCHANGED <<Requests, Responses, Confirmations, net["B"]>>
    BY DEF SendMessage, Requests, Responses, Confirmations
  <1>3. UNCHANGED <<AtResponder, AtInitiator, Undecided>>
    <2>1. UNCHANGED <<Runs("A", "verify"), Runs("A", "derive"), Runs("A", "sign"),
                      Runs("B", "derive"), Runs("B", "sign")>>
      BY <1>1 DEF Known, AB, TypeOK, SendMessage, StartJob, Runs
    <2>. QED  BY <1>2, <2>1 DEF AtResponder, AtInitiator, Undecided
  <1>. QED  BY <1>2, <1>3 DEF PInv, SendMessage

\* Encrypted keeps it: the message is sent, and is not a key exchange.
LEMMA EncryptedWaits ==
    ASSUME IInv, IInv', PInv, NEW n \in Ends, Encrypted(n)
    PROVE  PInv'
  <1>1. Known /\ Known' /\ Numbers /\ Numbers'
    BY StateFacts, NumberFacts, PTL
  <1>2. net' = net \/ Gets(Other(n), "APP")
    BY <1>1, SendEffect DEF Known, Messages, Encrypted
  <1>3. /\ UNCHANGED <<Requests, Responses, Confirmations>>
        /\ channel["B"] = "none" => HelloFirst(net'["B"])
    <2>1. CASE net' = net
      BY <2>1 DEF Requests, Responses, Confirmations, PInv
    <2>2. CASE Gets(Other(n), "APP")
      <3>1. Other(n) \in Ends /\ "APP" \in Messages
        BY BothEnds DEF AB, Messages
      <3>2. UNCHANGED <<Requests, Responses, Confirmations>>
        BY <1>1, <2>2, <3>1, TokenAdded
      <3>3. Other(n) = "B" \/ net'["B"] = net["B"]
        BY <2>2, BothEnds DEF AB, Gets
      <3>. QED  BY <2>2, <3>2, <3>3 DEF Gets, PInv
    <2>. QED  BY <1>2, <2>1, <2>2
  <1>4. UNCHANGED <<AtResponder, AtInitiator, Undecided>>
    <2>1. UNCHANGED <<Runs("A", "verify"), Runs("A", "derive"), Runs("A", "sign"),
                      Runs("B", "derive"), Runs("B", "sign")>>
      BY <1>1 DEF Known, AB, TypeOK, Encrypted, EndJob, Runs
    <2>. QED  BY <1>3, <2>1 DEF AtResponder, AtInitiator, Undecided
  <1>. QED  BY <1>3, <1>4 DEF PInv, Encrypted

\* HandleApp keeps it.
LEMMA AppWaits ==
    ASSUME IInv, IInv', PInv, NEW n \in Ends, HandleApp(n)
    PROVE  PInv'
  <1>1. Known /\ Known'
    BY StateFacts, PTL
  <1>2. Takes(n, "APP") /\ session' = [session EXCEPT ![n] = TRUE]
    BY <1>1, ReceiveEffect DEF Known, Messages, HandleApp
  <1>3. UNCHANGED <<Requests, Responses, Confirmations>>
    BY <1>1, <1>2, TokenTaken DEF Messages
  <1>4. UNCHANGED <<Undecided, AtResponder, AtInitiator>>
    BY <1>3 DEF HandleApp, Undecided, AtResponder, AtInitiator, Runs
  <1>5. channel'["B"] = "none" => HelloFirst(net'["B"])
    BY <1>1, <1>2, HelloStays DEF HandleApp, Messages
  <1>6. session["B"] => session'["B"]
    BY <1>1, <1>2 DEF Known, AB, TypeOK
  <1>. QED  BY <1>3, <1>4, <1>5, <1>6 DEF PInv, HandleApp

\* The end of a channel keeps it: it comes after the decision.
LEMMA EndWaits ==
    ASSUME IInv, PInv, NEW n \in Ends, SessionClosed(n), TypeOK', UNCHANGED <<promise, jobs>>,
           UNCHANGED <<Requests, Responses, Confirmations>>, Undecided = 0,
           n = "B" => Confirmations = 0,
           channel["B"] = "none" => HelloFirst(net'["B"])
    PROVE  PInv'
  <1>1. Known /\ Numbers
    BY StateFacts, NumberFacts
  <1>2. UNCHANGED <<Undecided, AtResponder, AtInitiator>>
    BY DEF Undecided, AtResponder, AtInitiator, Runs
  <1>3. Undecided' = 0 /\ AtResponder' = 0 /\ AtInitiator' = 0
    BY <1>1, <1>2 DEF Numbers
  <1>4. channel'["B"] = "none" => channel["B"] = "none"
    BY <1>1 DEF Known, AB, TypeOK, SessionClosed, SetStatus
  <1>5. pending'["B"] # "initiator"
    BY <1>1 DEF Known, AB, TypeOK, SessionClosed, PInv
  <1>6. Confirmations > 0 => pending'["B"] = pending["B"] /\ channel'["B"] = channel["B"]
    BY <1>1 DEF Known, AB, TypeOK, SessionClosed, SetStatus
  <1>. QED  BY <1>1, <1>3, <1>4, <1>5, <1>6 DEF PInv, Numbers

\* CloseChannel keeps it: the application at B has a channel only after the
\* confirmation has arrived.
LEMMA CloseWaits ==
    ASSUME IInv, IInv', PInv, NEW n \in Ends, CloseChannel(n)
    PROVE  PInv'
  <1>1. Known /\ Known' /\ Numbers /\ Numbers'
    BY StateFacts, NumberFacts, PTL
  <1>2. Undecided = 0
    BY ToldIsDecided DEF CloseChannel, MayCall
  <1>3. net' = net \/ Gets(Other(n), "GOODBYE")
    BY <1>1, SendEffect DEF Known, Messages, CloseChannel
  <1>4. /\ UNCHANGED <<Requests, Responses, Confirmations>>
        /\ channel["B"] = "none" => HelloFirst(net'["B"])
    <2>1. CASE net' = net
      BY <2>1 DEF Requests, Responses, Confirmations, PInv
    <2>2. CASE Gets(Other(n), "GOODBYE")
      <3>1. Other(n) \in Ends /\ "GOODBYE" \in Messages
        BY BothEnds DEF AB, Messages
      <3>2. UNCHANGED <<Requests, Responses, Confirmations>>
        BY <1>1, <2>2, <3>1, TokenAdded
      <3>3. Other(n) = "B" \/ net'["B"] = net["B"]
        BY <2>2, BothEnds DEF AB, Gets
      <3>. QED  BY <2>2, <3>2, <3>3 DEF Gets, PInv
    <2>. QED  BY <1>3, <2>1, <2>2
  <1>5. n = "B" => Confirmations = 0
    BY <1>1 DEF Known, AB, IInv, Token, ResponderWaits, Confirming, Runs, CloseChannel, MayCall
  <1>. QED  BY <1>1, <1>2, <1>4, <1>5, EndWaits DEF IInv, CloseChannel

\* HandleGoodbye keeps it: a confirmation on its way is ahead of the GOODBYE.
LEMMA GoodbyeWaits ==
    ASSUME IInv, IInv', PInv, NEW n \in Ends, HandleGoodbye(n)
    PROVE  PInv'
  <1>1. Known /\ Known' /\ Numbers /\ Numbers'
    BY StateFacts, NumberFacts, PTL
  <1>2. Takes(n, "GOODBYE")
    BY <1>1, HeadTaken DEF Known, Messages, HandleGoodbye
  <1>3. UNCHANGED <<Requests, Responses, Confirmations>>
    BY <1>1, <1>2, TokenTaken DEF Messages
  <1>4. Undecided = 0
    <2>1. told[Other(n)]
      <3>1. Count(net[n], "GOODBYE") # 0
        <4>1. net[n] \in Seq(Messages) /\ 1 \in 1 .. Len(net[n]) /\ net[n][1] = "GOODBYE"
          BY <1>1 DEF Known, TypeOK, HandleGoodbye
        <4>. QED  BY <4>1, CountAbsent
      <3>. QED  BY <3>1, BothEnds DEF AB, IInv, SilentUntilTold
    <2>. QED  BY <2>1, ToldIsDecided, BothEnds DEF AB
  <1>5. channel["B"] = "none" => HelloFirst(net'["B"])
    BY <1>1, <1>2, BothEnds DEF AB, Takes, PInv
  <1>6. n = "B" => Confirmations = 0
    <2>. SUFFICES ASSUME n = "B", Confirmations # 0 PROVE FALSE
      OBVIOUS
    <2>1. Confirmations > 0
      BY <1>1 DEF Numbers
    <2>2. channel["B"] = "AUTHENTICATING"
      BY <2>1 DEF PInv
    <2>3. ~Verifying
      BY <1>1, <2>1 DEF Known, AB, IInv, Token, OneToken, Confirming, Runs, Verifying
    <2>4. ConfirmFirst(net["B"])
      BY <2>2, <2>3 DEF IInv, ConfirmArrives, Decided, Over, Ended
    <2>. QED  BY <1>2, <2>4 DEF Takes
  <1>. QED  BY <1>1, <1>3, <1>4, <1>5, <1>6, EndWaits DEF IInv, HandleGoodbye

\* OpenChannel establishes it: HELLO goes before the key exchange.
LEMMA OpenWaits ==
    ASSUME IInv, IInv', PInv, OpenChannel
    PROVE  PInv'
  <1>. DEFINE q == net["B"]  w == q \o <<"HELLO", "KEY_EXCHANGE">>
  <1>1. Known /\ Known' /\ Numbers /\ Numbers'
    BY StateFacts, NumberFacts, PTL
  <1>2. q \in Seq(Messages) /\ w \in Seq(Messages)
    BY <1>1 DEF Known, AB, TypeOK, Messages
  <1>3. net' = [net EXCEPT !["B"] = w]
    BY DEF OpenChannel
  <1>4. /\ Len(w) = Len(q) + 2 /\ w[Len(q) + 1] = "HELLO" /\ w[Len(q) + 2] = "KEY_EXCHANGE"
        /\ Len(q) \in Nat /\ \A i \in 1 .. Len(q) : w[i] = q[i]
    BY <1>2
  <1>. HIDE DEF q, w
  <1>5. net'["B"] = w /\ net'["A"] = net["A"]
    BY <1>1, <1>3 DEF Known, AB, TypeOK
  <1>6. Undecided = 0 /\ Confirming = 0
    <2>1. Undecided + Confirming = 0
      BY DEF IInv, Token, Unopened, OpenChannel
    <2>. QED  BY <1>1, <2>1 DEF Known
  <1>7. Requests = 0 /\ Confirmations = 0 /\ AtResponder = 0 /\ AtInitiator = 0
    BY <1>1, <1>6 DEF Known, AB, Undecided, Confirming
  <1>8. AtResponder' = 0 /\ AtInitiator' = 0
    BY <1>5, <1>7 DEF AtResponder, AtInitiator, Responses, Runs, OpenChannel
  <1>9. Confirmations' = 0
    <2>1. \A i \in 1 .. Len(w) : w[i] # "AUTH_CONFIRM"
      BY <1>2, <1>4, <1>7, CountAbsent DEF Confirmations, q
    <2>. QED  BY <1>2, <1>5, <2>1, CountAbsent DEF Confirmations
  <1>10. Undecided' # 0
    <2>1. Requests' # 0
      BY <1>2, <1>4, <1>5, CountAbsent DEF Requests
    <2>. QED  BY <1>1, <2>1 DEF Numbers
  <1>11. HelloFirst(net'["B"])
    <2>1. \A j \in 1 .. Len(q) : q[j] # "KEY_EXCHANGE"
      BY <1>2, <1>7, CountAbsent DEF Requests, q
    <2>2. \A j \in 1 .. Len(w) : w[j] = "KEY_EXCHANGE" => j = Len(q) + 2
      BY <1>4, <2>1
    <2>3. \A j \in 1 .. Len(w) : w[j] = "KEY_EXCHANGE" => Len(q) + 1 \in 1 .. j - 1
      BY <1>4, <2>2
    <2>. QED  BY <1>4, <1>5, <2>3 DEF HelloFirst, Preceded
  <1>12. pending'["A"] = "initiator" /\ pending'["B"] = pending["B"] /\ promise' = "pending"
    BY <1>1 DEF Known, AB, TypeOK, OpenChannel
  <1>13. Undecided' > 0
    BY <1>1, <1>10 DEF Numbers
  <1>. QED  BY <1>8, <1>9, <1>11, <1>12, <1>13 DEF PInv

-----------------------------------------------------------------------------
(* The theorems *)

\* The handshake is in one place at a time and the application hears of the
\* channel in order, whenever Web Crypto answers.
THEOREM Invariance == Spec => []IInv
<1>1. Init => IInv
  <2>. SUFFICES ASSUME Init PROVE IInv
    OBVIOUS
  <2>1. AB /\ TypeOK /\ \A n \in Ends : net[n] \in Seq(Messages) /\ Len(net[n]) = 0
    BY BothEnds DEF Init, TypeOK, AB, Slots
  <2>2. \A n \in Ends : \A m : Count(net[n], m) = 0
    BY <2>1, CountAbsent
  <2>3. Undecided = 0 /\ AtResponder = 0 /\ AtInitiator = 0 /\ Confirming = 0
    BY <2>1, <2>2 DEF Init, AB, Undecided, Requests, AtResponder, Responses, AtInitiator,
         Confirmations, Confirming, Runs
  <2>4. Token
    BY <2>1, <2>3 DEF Init, AB, Token, OneToken, Unopened, InitiatorWaits, ResponderWaits,
         NoneIsBefore
  <2>5. ToldInOrder /\ SilentUntilTold
    BY <2>1, <2>2 DEF Init, AB, ToldInOrder, SilentUntilTold, Over, Ended
  <2>6. ConfirmArrives /\ CardReadyIsBacked
    BY <2>1 DEF Init, AB, ConfirmArrives, ConfirmFirst, Preceded, CardReadyIsBacked
  <2>. QED  BY <2>1, <2>4, <2>5, <2>6 DEF IInv
<1>2. IInv /\ [Next]_vars => IInv'
  <2>. SUFFICES ASSUME IInv, [Next]_vars PROVE IInv'
    OBVIOUS
  <2>1. CASE OpenChannel
    BY <2>1, OpenKeeps
  <2>2. CASE Handshake
    BY <2>2, HelloKeeps, KeyExchangeKeeps, AuthResponseKeeps, ResponseKeeps,
       ResponseVerifiedKeeps, AuthConfirmKeeps, ConfirmKeeps, ConfirmVerifiedKeeps,
       DerivedKeeps, AuthFailsKeeps DEF Handshake
  <2>3. CASE \E n \in Ends : SendMessage(n) \/ Encrypted(n) \/ HandleApp(n)
    BY <2>3, SendMessageKeeps, EncryptedKeeps, AppKeeps
  <2>4. CASE \E n \in Ends : CloseChannel(n) \/ HandleGoodbye(n)
    BY <2>4, CloseKeeps, GoodbyeKeeps
  <2>5. CASE UNCHANGED vars
    BY <2>5 DEF vars, IInv, TypeOK, Token, OneToken, Unopened, InitiatorWaits,
         ResponderWaits, NoneIsBefore, Undecided, Requests, AtResponder, Responses,
         AtInitiator, Confirmations, Confirming, Runs, ToldInOrder, SilentUntilTold,
         ConfirmArrives, Decided, Verifying, CardReadyIsBacked
  <2>. QED  BY <2>1, <2>2, <2>3, <2>4, <2>5 DEF Next
<1>. QED  BY <1>1, <1>2, PTL DEF Spec

\* The page never shows a channel as READY of which neither end is: a close takes
\* the card with it, and a manager whose verification fails was not READY.  The
\* initiator's callback makes the card and the responder's fills its second slot:
\* whichever slots are missing when openChannel resolves, the first is the initiator's.
THEOREM CardsAreBacked == Spec => []CardReadyIsBacked
<1>1. IInv => CardReadyIsBacked
  BY DEF IInv
<1>. QED  BY <1>1, Invariance, PTL

\* A message that comes early comes to the responder while it verifies: the
\* confirmation is always handled before it.
THEOREM DropsWhileVerifying == Spec => DroppedOnlyWhileVerifying
<1>1. ASSUME IInv, NEW n \in Ends, net[n] # << >>, Head(net[n]) = "APP"
      PROVE  channel[n] \in {"READY"} \cup Ended \/ (n = "B" /\ Verifying)
  <2>1. /\ AB /\ net[n] \in Seq(Messages) /\ Len(net[n]) \in Nat \ {0}
        /\ net[n][1] = "APP"
    BY <1>1, StateFacts DEF Known, IInv, TypeOK
  <2>2. CASE n = "A"
    <3>1. Count(net["A"], "APP") # 0
      BY <2>1, <2>2, CountAbsent
    <3>2. told["B"]
      BY <1>1, <2>1, <3>1 DEF AB, IInv, SilentUntilTold
    <3>. QED  BY <1>1, <2>1, <2>2, <3>2 DEF AB, IInv, ToldInOrder, Over
  <2>3. CASE n = "B"
    <3>1. ~ConfirmFirst(net["B"])
      BY <2>1, <2>3 DEF ConfirmFirst, Preceded
    <3>. QED  BY <1>1, <2>3, <3>1 DEF IInv, ConfirmArrives, Decided, Over
  <2>. QED  BY <2>1, <2>2, <2>3 DEF AB
<1>2. IInv => [\A n \in Ends :
          net[n] # << >> /\ net'[n] = Tail(net[n]) /\ Head(net[n]) = "APP" =>
              \/ channel[n] \in {"READY"} \cup Ended
              \/ n = "B" /\ Verifying]_vars
  BY <1>1
<1>. QED  BY <1>2, Invariance, PTL DEF DroppedOnlyWhileVerifying

\* The initiator never revives a channel, although it awaits a key and a
\* signature before READY: until it has decided nobody can close the session.
\* The responder does, as the initiator has decided while it still verifies.
THEOREM RevivesWhileVerifying == Spec => RevivedOnlyWhileVerifying
<1>1. ASSUME IInv, [Next]_vars, NEW n \in Ends, channel[n] \in Ended, channel'[n] = "READY"
      PROVE  n = "B" /\ Verifying
  <2>1. AB /\ TypeOK
    BY <1>1, StateFacts DEF Known
  <2>2. CASE SendAuthConfirm
    <3>1. Runs("A", "sign") = 1
      BY <2>2 DEF SendAuthConfirm, EndJob, Runs
    <3>2. Undecided > 0
      BY <1>1, <2>1, <3>1, StateFacts DEF Known, AB, Undecided, AtInitiator
    <3>. QED  BY <1>1, <2>1, <2>2, <3>2 DEF AB, TypeOK, IInv, Token, InitiatorWaits,
                SendAuthConfirm, SetStatus, Ended
  <2>3. CASE ConfirmVerified
    BY <1>1, <2>1, <2>3 DEF AB, TypeOK, ConfirmVerified, EndJob, SetStatus, Verifying, Ended
  <2>4. ASSUME ~SendAuthConfirm, ~ConfirmVerified PROVE FALSE
    <3>. USE <1>1, <2>1, <2>4 DEF AB, TypeOK, Ended
    <3>1. CASE OpenChannel \/ HandleHello
      BY <3>1 DEF OpenChannel, HandleHello, IInv, Token, Unopened
    <3>2. CASE \/ HandleKeyExchange \/ SendAuthResponse \/ ResponseVerified
               \/ HandleAuth("A", "AUTH_RESPONSE", "initiator")
               \/ HandleAuth("B", "AUTH_CONFIRM", "responder")
      BY <3>2 DEF HandleKeyExchange, SendAuthResponse, ResponseVerified, HandleAuth
    <3>3. CASE \E p \in Ends : Derived(p) \/ AuthFails(p)
      BY <3>3 DEF Derived, AuthFails, FailChannel, SetStatus
    <3>4. CASE \E p \in Ends : SendMessage(p) \/ Encrypted(p) \/ HandleApp(p)
      BY <3>4 DEF SendMessage, Encrypted, HandleApp
    <3>5. CASE \E p \in Ends : CloseChannel(p) \/ HandleGoodbye(p)
      BY <3>5 DEF CloseChannel, HandleGoodbye, SessionClosed, SetStatus
    <3>6. CASE UNCHANGED vars
      BY <3>6 DEF vars
    <3>. QED  BY <3>1, <3>2, <3>3, <3>4, <3>5, <3>6 DEF Next, Handshake
  <2>. QED  BY <2>2, <2>3, <2>4
<1>2. IInv /\ [Next]_vars => [\A n \in Ends :
          channel[n] \in Ended /\ channel'[n] = "READY" => n = "B" /\ Verifying]_vars
  BY <1>1
<1>. QED  BY <1>2, Invariance, PTL DEF RevivedOnlyWhileVerifying, Spec

\* While openChannel's caller waits, somebody works on the answer: every end that
\* has the next step is known to the other and waits for it.
THEOREM ProgressInvariance == Spec => []PInv
<1>1. Init => PInv
  <2>. SUFFICES ASSUME Init PROVE PInv
    OBVIOUS
  <2>1. AB /\ \A n \in Ends : net[n] \in Seq(Messages) /\ Len(net[n]) = 0
    BY BothEnds DEF Init, AB
  <2>2. \A n \in Ends : \A m : Count(net[n], m) = 0
    BY <2>1, CountAbsent
  <2>3. Undecided = 0 /\ AtResponder = 0 /\ AtInitiator = 0 /\ Confirmations = 0
    BY <2>1, <2>2 DEF Init, AB, Undecided, Requests, AtResponder, Responses, AtInitiator,
         Confirmations, Runs
  <2>. QED  BY <2>1, <2>3 DEF Init, AB, PInv, HelloFirst, Preceded
<1>2. IInv /\ IInv' /\ PInv /\ [Next]_vars => PInv'
  <2>. SUFFICES ASSUME IInv, IInv', PInv, [Next]_vars PROVE PInv'
    OBVIOUS
  <2>1. CASE OpenChannel
    BY <2>1, OpenWaits
  <2>2. CASE Handshake
    BY <2>2, HelloWaits, KeyExchangeWaits, AuthResponseWaits, ResponseWaits,
       ResponseVerifiedWaits, AuthConfirmWaits, ConfirmWaits, ConfirmVerifiedWaits,
       DerivedWaits, AuthFailsWaits DEF Handshake
  <2>3. CASE \E n \in Ends : SendMessage(n) \/ Encrypted(n) \/ HandleApp(n)
    BY <2>3, SendMessageWaits, EncryptedWaits, AppWaits
  <2>4. CASE \E n \in Ends : CloseChannel(n) \/ HandleGoodbye(n)
    BY <2>4, CloseWaits, GoodbyeWaits
  <2>5. CASE UNCHANGED vars
    BY <2>5 DEF vars, PInv, Undecided, Requests, AtResponder, Responses, AtInitiator,
         Confirmations, Runs
  <2>. QED  BY <2>1, <2>2, <2>3, <2>4, <2>5 DEF Next
<1>. QED  BY <1>1, <1>2, Invariance, PTL DEF Spec

\* openChannel never waits for nothing: until its promise is settled, the handshake
\* is in an inbox or in Web Crypto, whatever does not verify and whoever closes.
THEOREM OpensAreUnderWay == Spec => []OpenIsUnderWay
<1>1. IInv /\ PInv => OpenIsUnderWay
  <2>. SUFFICES ASSUME IInv, PInv, promise = "pending", ~OpenIsUnderWay PROVE FALSE
    BY DEF OpenIsUnderWay
  <2>1. Known /\ Undecided > 0
    BY StateFacts DEF PInv
  <2>2. net["A"] \in Seq(Messages) /\ net["B"] \in Seq(Messages)
    BY <2>1 DEF Known, AB, TypeOK
  <2>3. Requests = 0 /\ Responses = 0
    BY <2>2, CountAbsent DEF OpenIsUnderWay, Requests, Responses
  <2>4. AtResponder = 0 /\ AtInitiator = 0
    BY <2>3 DEF OpenIsUnderWay, AtResponder, AtInitiator, Runs
  <2>. QED  BY <2>1, <2>3, <2>4 DEF Undecided
<1>. QED  BY <1>1, Invariance, ProgressInvariance, PTL

\* The early returns of the handlers of the handshake never throw away a message:
\* HELLO is ahead of the key exchange, and whoever gets an answer awaits it.
THEOREM NothingIsIgnored == Spec => []NoneIgnored
<1>1. IInv /\ PInv => NoneIgnored
  <2>. SUFFICES ASSUME IInv, PInv PROVE NoneIgnored
    OBVIOUS
  <2>1. Known /\ Numbers
    BY StateFacts, NumberFacts
  <2>2. /\ \A n \in Ends : net[n] \in Seq(Messages)
        /\ \A n \in Ends : net[n] # << >> => 1 \in 1 .. Len(net[n]) /\ net[n][1] = Head(net[n])
    BY <2>1 DEF Known, TypeOK
  <2>3. \A n \in Ends : net[n] # << >> => Count(net[n], Head(net[n])) # 0
    BY <2>2, CountAbsent
  <2>4. ASSUME net["B"] # << >>, Head(net["B"]) = "KEY_EXCHANGE" PROVE channel["B"] # "none"
    <3>1. ~HelloFirst(net["B"])
      BY <2>1, <2>2, <2>4 DEF Known, AB, HelloFirst, Preceded
    <3>. QED  BY <3>1 DEF PInv
  <2>5. ASSUME net["B"] # << >>, Head(net["B"]) = "AUTH_CONFIRM"
        PROVE  pending["B"] = "responder"
    <3>1. Confirmations > 0
      BY <2>1, <2>3, <2>5 DEF Known, AB, Confirmations
    <3>. QED  BY <3>1 DEF PInv
  <2>6. ASSUME net["A"] # << >>, Head(net["A"]) = "AUTH_RESPONSE"
        PROVE  pending["A"] = "initiator"
    <3>1. Responses > 0
      BY <2>1, <2>3, <2>6 DEF Known, AB, Responses
    <3>2. Undecided > 0
      BY <2>1, <3>1 DEF Known, AB, AtInitiator
    <3>. QED  BY <3>2 DEF PInv
  <2>. QED  BY <2>4, <2>5, <2>6 DEF NoneIgnored
<1>. QED  BY <1>1, Invariance, ProgressInvariance, PTL

\* openChannel of the simulation always has its answer coming.
THEOREM NothingGetsStuck == Spec => []NothingIsStuck
BY OpensAreUnderWay, NothingIsIgnored, PTL DEF NothingIsStuck

=============================================================================

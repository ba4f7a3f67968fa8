--------------------------- MODULE BrowserChannel ---------------------------
(***************************************************************************)
(* The browser simulation: PeerChannelManager over Web Crypto              *)
(* (simulation/peer-channel-browser.js), its client and bus                *)
(* (simulation/peer2nodes-browser.js) and the page's registry of channels  *)
(* (simulation/app.js), for one session that A opens to B.                 *)
(*                                                                         *)
(* What differs from PeerChannel: every use of a key is asynchronous, and  *)
(* the client does not wait for onData.  A handler that waits for Web      *)
(* Crypto is a JOB here, and the next messages of the session are handled  *)
(* while it runs.  Sends return at once, so what follows one is in the     *)
(* same action; the bus delivers in order, here at some later time, which  *)
(* includes its own way of delivering inside the send.                     *)
(***************************************************************************)
EXTENDS Naturals, Sequences

CONSTANTS
    Forgeable,  \* ends at which the other's signature may not verify
    MaxCalls    \* bound: calls of sendMessage and closeChannel at each end

ASSUME BrowserAssumption == Forgeable \subseteq {"A", "B"} /\ MaxCalls \in Nat

Ends == {"A", "B"}
Other(n) == IF n = "A" THEN "B" ELSE "A"

VARIABLES
    net,      \* net[n]: messages on their way to n
    session,  \* session[n]: the client knows whom session messages go to
    channel,  \* #channels: "none" or a ChannelStatus
    pending,  \* #pending: "none", "initiator", "responder"
    key,      \* PeerCryptoService holds the session key
    jobs,     \* handlers of n that wait for Web Crypto
    encrypting, \* calls of sendMessage at n that do
    promise,  \* what openChannel gave A's caller
    told,     \* the application at n may use the channel
    calls,    \* calls it has made
    card      \* the page's entry: its status, and peerIds, its two slots

vars == <<net, session, channel, pending, key, jobs, encrypting, promise, told,
          calls, card>>

Ended == {"CLOSED", "ERROR"}

Init ==
    /\ net     = [n \in Ends |-> << >>]
    /\ session = [n \in Ends |-> FALSE]
    /\ channel = [n \in Ends |-> "none"]
    /\ pending = [n \in Ends |-> "none"]
    /\ key     = [n \in Ends |-> FALSE]
    /\ jobs    = [n \in Ends |-> {}]
    /\ encrypting = [n \in Ends |-> 0]
    /\ promise = "none"
    /\ told    = [n \in Ends |-> FALSE]
    /\ calls   = [n \in Ends |-> 0]
    /\ card    = [status |-> "none", slots |-> <<"null", "null">>]

-----------------------------------------------------------------------------
(* Bus and client *)

\* sendData: without a session entry there is no target and the bus drops it.
Send(n, m) == net' = IF session[n] THEN [net EXCEPT ![Other(n)] = Append(@, m)] ELSE net

\* #handleIncoming: the entry is made if it is not there.
Receive(n, m) ==
    /\ net[n] # << >> /\ Head(net[n]) = m
    /\ net' = [net EXCEPT ![n] = Tail(@)]
    /\ session' = [session EXCEPT ![n] = TRUE]

\* A job is one call into Web Crypto that a handler of the handshake awaits; each
\* is started once, as its message is sent once.
StartJob(n, j) == jobs' = [jobs EXCEPT ![n] = @ \cup {j}]

\* Job j is over, and goes on as job k.
NextJob(n, j, k) ==
    /\ j \in jobs[n]
    /\ jobs' = [jobs EXCEPT ![n] = (@ \ {j}) \cup {k}]

EndJob(n, j) ==
    /\ j \in jobs[n]
    /\ jobs' = [jobs EXCEPT ![n] = @ \ {j}]

-----------------------------------------------------------------------------
(* The page: callbacks of the managers, with both instances in one tab *)

Shows(slots, n) == n = slots[1] \/ n = slots[2]

\* onChannelReady: the first end to call makes the card, the second fills the
\* other slot, and either makes it READY.
CardReady(n, c) ==
    [status |-> "READY",
     slots  |-> IF c.status = "none" THEN <<n, "null">>
                ELSE IF Shows(c.slots, n) THEN c.slots
                ELSE <<c.slots[1], n>>]

\* openChannel of the page, when the manager's has resolved: a card is made if
\* no callback has, and of one that is there only the missing peers are filled in.
CardOpened(c) ==
    LET first  == IF Shows(c.slots, "A") THEN c.slots[1] ELSE "A"
        filled == <<first, IF "B" \in {first, c.slots[2]} THEN c.slots[2] ELSE "B">>
    IN  IF c.status = "none" THEN [status |-> "READY", slots |-> <<"A", "B">>]
        ELSE [c EXCEPT !.slots = filled]

\* Mutant of CardClosed: the card is left to the next rendering.
CardClosedLater(c) == c

\* onChannelClosed
CardClosed(c) == IF c.status = "none" THEN c ELSE [c EXCEPT !.status = "CLOSED"]

-----------------------------------------------------------------------------
(* Ends of a channel *)

SetStatus(n, status) ==
    channel' = [channel EXCEPT ![n] = IF @ = "none" THEN @ ELSE status]

\* #onSessionClosed
SessionClosed(n) ==
    /\ SetStatus(n, "CLOSED")
    /\ key'     = [key EXCEPT ![n] = FALSE]
    /\ pending' = [pending EXCEPT ![n] = "none"]
    /\ card'    = CardClosed(card)

\* Mutant of FailChannel: the promise is forgotten.
FailChannelSilently(n) ==
    /\ SetStatus(n, "ERROR")
    /\ key'     = [key EXCEPT ![n] = FALSE]
    /\ pending' = [pending EXCEPT ![n] = "none"]
    /\ UNCHANGED promise

\* #failChannel: an initiator's entry has a reject.
FailChannel(n) ==
    /\ SetStatus(n, "ERROR")
    /\ key'     = [key EXCEPT ![n] = FALSE]
    /\ pending' = [pending EXCEPT ![n] = "none"]
    /\ promise' = IF pending[n] = "initiator" THEN "rejected" ELSE promise

-----------------------------------------------------------------------------
(* The handshake *)

\* Mutant of OpenChannel: the key exchange does not wait for openSession.
OpenChannelKeyFirst ==
    /\ promise = "none"
    /\ promise' = "pending"
    /\ session' = [session EXCEPT !["A"] = TRUE]
    /\ channel' = [channel EXCEPT !["A"] = "AUTHENTICATING"]
    /\ pending' = [pending EXCEPT !["A"] = "initiator"]
    /\ net'     = [net EXCEPT !["B"] = @ \o <<"KEY_EXCHANGE", "HELLO">>]
    /\ UNCHANGED <<key, jobs, told, calls, card, encrypting>>

\* openChannel: openSession (HELLO), entries, KEY_EXCHANGE.
OpenChannel ==
    /\ promise = "none"
    /\ promise' = "pending"
    /\ session' = [session EXCEPT !["A"] = TRUE]
    /\ channel' = [channel EXCEPT !["A"] = "AUTHENTICATING"]
    /\ pending' = [pending EXCEPT !["A"] = "initiator"]
    /\ net'     = [net EXCEPT !["B"] = @ \o <<"HELLO", "KEY_EXCHANGE">>]
    /\ UNCHANGED <<key, jobs, told, calls, card, encrypting>>

\* HELLO; the HELLO_ACK that answers it changes nothing at A.
HandleHello ==
    /\ Receive("B", "HELLO")
    /\ channel' = [channel EXCEPT !["B"] = IF @ = "none" THEN "AUTHENTICATING" ELSE @]
    /\ UNCHANGED <<pending, key, jobs, promise, told, calls, card, encrypting>>

\* #handleKeyExchange up to generateEphemeralKeyPair.
HandleKeyExchange ==
    /\ Receive("B", "KEY_EXCHANGE")
    /\ channel["B"] # "none"
    /\ StartJob("B", "derive")
    /\ UNCHANGED <<channel, pending, key, promise, told, calls, card, encrypting>>

\* deriveSessionKey, at either end, puts the key under the session id.
Derived(n) ==
    /\ NextJob(n, "derive", "sign")
    /\ key' = [key EXCEPT ![n] = TRUE]
    /\ UNCHANGED <<net, session, channel, pending, promise, told, calls, card>>
    /\ UNCHANGED encrypting

\* The rest of #handleKeyExchange, when its signature is made.
SendAuthResponse ==
    /\ EndJob("B", "sign")
    /\ pending' = [pending EXCEPT !["B"] = "responder"]
    /\ Send("B", "AUTH_RESPONSE")
    /\ UNCHANGED <<session, channel, key, promise, told, calls, card, encrypting>>

\* #handleAuthResponse and #handleAuthConfirm, up to the verification.
HandleAuth(n, m, role) ==
    /\ Receive(n, m)
    /\ pending[n] = role
    /\ StartJob(n, "verify")
    /\ UNCHANGED <<channel, pending, key, promise, told, calls, card, encrypting>>

\* Mutant of ResponseVerified: READY when the responder is authenticated.
ResponseVerifiedReady ==
    /\ NextJob("A", "verify", "derive")
    /\ SetStatus("A", "READY")
    /\ told' = [told EXCEPT !["A"] = TRUE]
    /\ card' = CardReady("A", card)
    /\ UNCHANGED <<net, session, pending, key, promise, calls, encrypting>>

\* The responder's signature verifies.
ResponseVerified ==
    /\ NextJob("A", "verify", "derive")
    /\ UNCHANGED <<net, session, channel, pending, key, promise, told, calls, card, encrypting>>

\* The rest of #handleAuthResponse: AUTH_CONFIRM, READY, openChannel resolves
\* and the page goes on.
SendAuthConfirm ==
    /\ EndJob("A", "sign")
    /\ Send("A", "AUTH_CONFIRM")
    /\ SetStatus("A", "READY")
    /\ pending' = [pending EXCEPT !["A"] = "none"]
    /\ promise' = "resolved"
    /\ told'    = [told EXCEPT !["A"] = TRUE]
    /\ card'    = CardOpened(CardReady("A", card))
    /\ UNCHANGED <<session, key, calls, encrypting>>

\* The initiator's signature verifies: READY, whatever has come meanwhile.
ConfirmVerified ==
    /\ EndJob("B", "verify")
    /\ SetStatus("B", "READY")
    /\ pending' = [pending EXCEPT !["B"] = "none"]
    /\ told'    = [told EXCEPT !["B"] = TRUE]
    /\ card'    = CardReady("B", card)
    /\ UNCHANGED <<net, session, key, promise, calls, encrypting>>

\* Either signature does not.
AuthFails(n) ==
    /\ n \in Forgeable
    /\ EndJob(n, "verify")
    /\ FailChannel(n)
    /\ UNCHANGED <<net, session, told, calls, card, encrypting>>

-----------------------------------------------------------------------------
(* Messages and closes *)

MayCall(n) ==
    /\ told[n] /\ calls[n] < MaxCalls
    /\ calls' = [calls EXCEPT ![n] = @ + 1]

\* sendMessage up to encrypt, on a READY channel that has its key.
SendMessage(n) ==
    /\ MayCall(n)
    /\ channel[n] = "READY" /\ key[n]
    /\ encrypting' = [encrypting EXCEPT ![n] = @ + 1]
    /\ UNCHANGED <<net, session, channel, pending, key, jobs, promise, told, card>>

\* sendMessage after it: sent, whatever the channel is by now.
Encrypted(n) ==
    /\ encrypting[n] > 0
    /\ encrypting' = [encrypting EXCEPT ![n] = @ - 1]
    /\ Send(n, "APP")
    /\ UNCHANGED <<session, channel, pending, key, jobs, promise, told, calls, card>>

\* #handleAppMessage: dropped unless READY; decryption and ACK change nothing here.
HandleApp(n) ==
    /\ Receive(n, "APP")
    /\ UNCHANGED <<channel, pending, key, jobs, promise, told, calls, card, encrypting>>

\* closeChannel and disconnect, also from handleCloseChannel of the page.
CloseChannel(n) ==
    /\ MayCall(n)
    /\ Send(n, "GOODBYE")
    /\ session' = [session EXCEPT ![n] = FALSE]
    /\ SessionClosed(n)
    /\ UNCHANGED <<jobs, promise, told, encrypting>>

HandleGoodbye(n) ==
    /\ net[n] # << >> /\ Head(net[n]) = "GOODBYE"
    /\ net' = [net EXCEPT ![n] = Tail(@)]
    /\ session' = [session EXCEPT ![n] = FALSE]
    /\ SessionClosed(n)
    /\ UNCHANGED <<jobs, promise, told, calls, encrypting>>

-----------------------------------------------------------------------------
Handshake ==
    \/ HandleHello \/ HandleKeyExchange \/ SendAuthResponse
    \/ HandleAuth("A", "AUTH_RESPONSE", "initiator") \/ ResponseVerified \/ SendAuthConfirm
    \/ HandleAuth("B", "AUTH_CONFIRM", "responder") \/ ConfirmVerified
    \/ \E n \in Ends : Derived(n) \/ AuthFails(n)

Next ==
    \/ OpenChannel
    \/ Handshake
    \/ \E n \in Ends : SendMessage(n) \/ Encrypted(n) \/ HandleApp(n)
    \/ \E n \in Ends : CloseChannel(n) \/ HandleGoodbye(n)

Spec == Init /\ [][Next]_vars

\* The page's event loop runs, and Web Crypto answers.
FairSpec == Spec /\ WF_vars(Handshake)

-----------------------------------------------------------------------------
(* Properties *)

Verifying == "verify" \in jobs["B"]

\* A message is dropped for want of a READY channel only at the responder, in
\* the time it verifies the confirmation, or after the channel has ended.
DroppedOnlyWhileVerifying ==
    [][\A n \in Ends :
          net[n] # << >> /\ net'[n] = Tail(net[n]) /\ Head(net[n]) = "APP" =>
              \/ channel[n] \in {"READY"} \cup Ended
              \/ n = "B" /\ Verifying]_vars

\* An ended channel does not become READY again, except the responder's whose
\* GOODBYE came while it verified the confirmation.
RevivedOnlyWhileVerifying ==
    [][\A n \in Ends :
          channel[n] \in Ended /\ channel'[n] = "READY" => n = "B" /\ Verifying]_vars

\* The page shows a channel as READY only while one of its ends is, and names the
\* initiator, which handleCloseChannel closes, first: its callback comes before
\* the responder has verified the confirmation, where section 2.5 of the ADR
\* (simulation-adr.md:121-123) has the responder's callback come first.
CardReadyIsBacked ==
    /\ card.status = "READY" => \E n \in Ends : channel[n] = "READY"
    /\ card.status # "none" => card.slots[1] = "A"

\* openChannel never waits for nothing: a message of the handshake is on its way,
\* or one of its handlers waits for Web Crypto.
OpenIsUnderWay ==
    promise = "pending" =>
        \/ \E i \in 1 .. Len(net["B"]) : net["B"][i] = "KEY_EXCHANGE"
        \/ jobs["B"] \cap {"derive", "sign"} # {}
        \/ \E i \in 1 .. Len(net["A"]) : net["A"][i] = "AUTH_RESPONSE"
        \/ jobs["A"] \cap {"verify", "derive", "sign"} # {}

\* No early return of a handler ever meets a message of the handshake: its
\* receiver knows the channel and waits for it, whatever Web Crypto has delayed.
NoneIgnored ==
    /\ net["B"] # << >> =>
          /\ Head(net["B"]) = "KEY_EXCHANGE" => channel["B"] # "none"
          /\ Head(net["B"]) = "AUTH_CONFIRM" => pending["B"] = "responder"
    /\ net["A"] # << >> /\ Head(net["A"]) = "AUTH_RESPONSE" => pending["A"] = "initiator"

\* The caller of openChannel always has an answer coming: the handshake is on its
\* way and whom it reaches does not throw it away.
NothingIsStuck == OpenIsUnderWay /\ NoneIgnored

\* Under FairSpec: openChannel settles, whatever does not verify.
OpenSettles == promise = "pending" ~> promise \in {"resolved", "rejected"}
=============================================================================

---------------------------- MODULE PeerChannel ----------------------------
(***************************************************************************)
(* PeerChannelManager (javascript/peer-channel.js) on top of               *)
(* PeerNodeClient (javascript/peer2nodes.js): opening, authenticating,     *)
(* using, closing and abandoning encrypted channels between two peers.     *)
(*                                                                         *)
(* A handler is one action up to its `await transport.send(...)`.  What    *)
(* the code does after that await is a FRAME of its own, resumed by a      *)
(* later action, so everything that can happen across the await does.      *)
(*                                                                         *)
(* Inline = TRUE is MemoryPeerTransport: send() runs the remote handler    *)
(* before it returns, so a reply reaches a node whose handler is still     *)
(* suspended, and stop() leaves the message handler in place.              *)
(* Inline = FALSE is WebRTCPeerTransport over an open data channel: the    *)
(* continuation runs before the event loop takes another message of that   *)
(* session, sends may be rejected, and stop() closes the connection for    *)
(* both ends.                                                              *)
(*                                                                         *)
(* Callbacks are synchronous.  What the application does in one is a call  *)
(* it makes after the handler's action: all that a handler does after one  *)
(* is to drop a #pending entry nobody reads.  #handleAuthResponse does     *)
(* more, it resolves openChannel; its onChannelReady is a frame as well.   *)
(***************************************************************************)
EXTENDS Naturals, Sequences

CONSTANTS
    Nodes,        \* the peers
    Remote,       \* Remote[n]: the peer n's transport is connected to
    Sessions,     \* session ids; a fresh UUID per openSession
    Inline,       \* which transport, see above
    StopAllowed,  \* the application may stop a node
    SendMayFail,  \* transport.send may reject (WebRTC only)
    Tampered,     \* message types whose signature may not verify
    MaxCalls      \* bound: closeChannel and sendMessage calls per node and session

ASSUME RemoteAssumption ==
    /\ Remote \in [Nodes -> Nodes]
    /\ \A n \in Nodes : Remote[n] # n /\ Remote[Remote[n]] = n

ASSUME SettingsAssumption ==
    /\ Inline \in BOOLEAN /\ StopAllowed \in BOOLEAN /\ SendMayFail \in BOOLEAN
    /\ Inline => ~SendMayFail
    /\ Tampered \subseteq {"AUTH_RESPONSE", "AUTH_CONFIRM"}
    /\ MaxCalls \in Nat

VARIABLES
    up,       \* up[n]: n's manager has not been stopped
    net,      \* net[n]: messages on their way to n, in order
    session,  \* PeerNodeClient.sessions: "absent", "known", "connected"
    channel,  \* PeerChannelManager.#channels: "none" or a ChannelStatus
    pending,  \* PeerChannelManager.#pending: "none", "initiator", "responder"
    key,      \* PeerCryptoService: a session key is held
    promise,  \* the promise openChannel gave its caller; "none" if n did not open s
    frames,   \* handlers suspended at `await transport.send` or in onChannelReady
    told,     \* a callback or a promise has given the application this session id
    calls     \* closeChannel and sendMessage calls made so far

vars == <<up, net, session, channel, pending, key, promise, frames, told, calls>>

Types == {"HELLO", "HELLO_ACK", "KEY_EXCHANGE", "AUTH_RESPONSE", "AUTH_CONFIRM",
          "APP", "GOODBYE"}

\* An envelope, reduced to what a handler reads: `good` says whether the
\* challenge signature it carries verifies.
Message == [type : Types, sid : Sessions, good : BOOLEAN]

ChannelStatus == {"AUTHENTICATING", "READY", "CLOSING", "CLOSED", "ERROR"}

Init ==
    /\ up      = [n \in Nodes |-> TRUE]
    /\ net     = [n \in Nodes |-> << >>]
    /\ session = [n \in Nodes |-> [s \in Sessions |-> "absent"]]
    /\ channel = [n \in Nodes |-> [s \in Sessions |-> "none"]]
    /\ pending = [n \in Nodes |-> [s \in Sessions |-> "none"]]
    /\ key     = [n \in Nodes |-> [s \in Sessions |-> FALSE]]
    /\ promise = [n \in Nodes |-> [s \in Sessions |-> "none"]]
    /\ frames  = [n \in Nodes |-> [s \in Sessions |-> {}]]
    /\ told    = [n \in Nodes |-> [s \in Sessions |-> FALSE]]
    /\ calls   = [n \in Nodes |-> [s \in Sessions |-> 0]]

-----------------------------------------------------------------------------
(* Transport *)

Msg(type, s) == [type |-> type, sid |-> s, good |-> TRUE]

\* A signed message may come with a signature that does not verify.
SignedMsgs(type, s) ==
    {[type |-> type, sid |-> s, good |-> g] :
        g \in IF type \in Tampered THEN BOOLEAN ELSE {TRUE}}

\* Over WebRTC the connection is there while both ends run.  Once one has
\* closed it, onclose has removed it at the other: a send then makes a new one,
\* which nobody answers, and is rejected by its timeout.
Connected(n) == Inline \/ (up[n] /\ up[Remote[n]])

MayReject(n) == SendMayFail \/ ~Connected(n)

\* Mutant of Arrival: a data channel opened with { ordered: false }.
UnorderedArrival(p, m) == <<m>> \o net[p]

\* The inbox of p once m has been sent to it.
Arrival(p, m) == Append(net[p], m)

Consume(n) == net' = [net EXCEPT ![n] = Tail(@)]

Send(n, m) ==
    /\ Connected(n)
    /\ net' = [net EXCEPT ![Remote[n]] = Arrival(Remote[n], m)]

Answer(n, m) ==
    /\ Connected(n)
    /\ net' = [net EXCEPT ![n] = Tail(@), ![Remote[n]] = Arrival(Remote[n], m)]

\* MemoryPeerTransport.send returns only when the remote handler has, so with
\* it nothing else runs while a message is being handled.
Quiet == Inline => \A n \in Nodes : net[n] = << >>

\* A handler on n's event loop, which peers connected in one process share, is
\* inside the application's onChannelReady, and goes on before anything else.
CallingBack(n) ==
    \E m \in IF Inline THEN Nodes ELSE {n}, s \in Sessions :
        "onChannelReady" \in frames[m][s]

\* Mutant of Receiving: WebRTC's send would return only after the peer has
\* received, as MemoryPeerTransport's does.
ReceivingWhileSuspended(n, s, type) ==
    /\ Inline \/ (up[n] /\ ~CallingBack(n))
    /\ net[n] # << >>
    /\ Head(net[n]).type = type
    /\ Head(net[n]).sid = s

\* n's event loop hands it the next message, of this type and session.
Receiving(n, s, type) ==
    /\ Inline \/ (up[n] /\ frames[n][s] = {} /\ ~CallingBack(n))
    /\ net[n] # << >>
    /\ Head(net[n]).type = type
    /\ Head(net[n]).sid = s

-----------------------------------------------------------------------------
(* Steps the handlers share *)

\* #handleIncoming and #nextSequence create the session entry they do not find.
TouchSession(n, s) ==
    session' = [session EXCEPT ![n][s] = IF @ = "absent" THEN "known" ELSE @]

ConnectSession(n, s) == session' = [session EXCEPT ![n][s] = "connected"]

Suspend(n, s, f) == frames' = [frames EXCEPT ![n][s] = @ \cup {f}]

Resume(n, s, f) ==
    /\ Quiet
    /\ ~CallingBack(n)
    /\ f \in frames[n][s]
    /\ frames' = [frames EXCEPT ![n][s] = @ \ {f}]

\* #onSessionOpened: the responder's entry; the initiator makes its own.
OnSessionOpened(n, s) ==
    channel' = [channel EXCEPT ![n][s] = IF @ = "none" THEN "AUTHENTICATING" ELSE @]

\* A status is only assigned to an entry that is still in the map.
SetStatus(n, s, status) ==
    channel' = [channel EXCEPT ![n][s] = IF @ = "none" THEN @ ELSE status]

\* A promise settles once: a later resolve or reject changes nothing.
Settle(n, s, outcome) ==
    promise' = [promise EXCEPT ![n][s] = IF @ = "pending" THEN outcome ELSE @]

DropPending(n, s) == pending' = [pending EXCEPT ![n][s] = "none"]
ForgetKey(n, s)   == key' = [key EXCEPT ![n][s] = FALSE]
Tell(n, s)        == told' = [told EXCEPT ![n][s] = TRUE]

\* Mutant of OnSessionClosed: the entry keeps its status.
OnSessionClosedKeepsStatus(n, s) ==
    /\ UNCHANGED channel
    /\ ForgetKey(n, s)
    /\ DropPending(n, s)
    /\ Tell(n, s)

OnSessionClosed(n, s) ==
    /\ SetStatus(n, s, "CLOSED")
    /\ ForgetKey(n, s)
    /\ DropPending(n, s)
    /\ Tell(n, s)

\* Mutants of FailChannel: a status no one knows, a key left behind, a promise
\* left unsettled, an unchanged status.
FailChannelBadStatus(n, s) ==
    /\ SetStatus(n, s, "FAILED")
    /\ Settle(n, s, "rejected")
    /\ DropPending(n, s)
    /\ ForgetKey(n, s)

FailChannelKeepsKey(n, s) ==
    /\ SetStatus(n, s, "ERROR")
    /\ Settle(n, s, "rejected")
    /\ DropPending(n, s)
    /\ UNCHANGED key

FailChannelNoReject(n, s) ==
    /\ SetStatus(n, s, "ERROR")
    /\ DropPending(n, s)
    /\ ForgetKey(n, s)
    /\ UNCHANGED promise

FailChannelKeepsStatus(n, s) ==
    /\ Settle(n, s, "rejected")
    /\ DropPending(n, s)
    /\ ForgetKey(n, s)
    /\ UNCHANGED channel

\* #failChannel: pending.reject exists in the initiator's entry only.
FailChannel(n, s) ==
    /\ SetStatus(n, s, "ERROR")
    /\ Settle(n, s, "rejected")
    /\ DropPending(n, s)
    /\ ForgetKey(n, s)

-----------------------------------------------------------------------------
(* openChannel *)

\* openSession: a new session entry, then HELLO; the manager's own entries are
\* made when that send has returned.  A rejected send rejects openChannel.
OpenChannel(n, s) ==
    /\ Quiet
    /\ up[n]
    /\ \A m \in Nodes : promise[m][s] = "none"
    /\ session' = [session EXCEPT ![n][s] = "known"]
    /\ \/ /\ Send(n, Msg("HELLO", s))
          /\ Suspend(n, s, "openSession")
          /\ promise' = [promise EXCEPT ![n][s] = "pending"]
       \/ /\ MayReject(n)
          /\ promise' = [promise EXCEPT ![n][s] = "rejected"]
          /\ UNCHANGED <<net, frames>>
    /\ UNCHANGED <<up, channel, pending, key, told, calls>>

\* Mutant of SendKeyExchange: #pending not set before the send.
SendKeyExchangeUnprepared(n, s) ==
    /\ Resume(n, s, "openSession")
    /\ channel' = [channel EXCEPT ![n][s] = "AUTHENTICATING"]
    /\ TouchSession(n, s)
    /\ Send(n, Msg("KEY_EXCHANGE", s))
    /\ UNCHANGED <<up, pending, key, promise, told, calls>>

\* openChannel after `await openSession`: entries, then the key exchange.
SendKeyExchange(n, s) ==
    /\ Resume(n, s, "openSession")
    /\ channel' = [channel EXCEPT ![n][s] = "AUTHENTICATING"]
    /\ pending' = [pending EXCEPT ![n][s] = "initiator"]
    /\ TouchSession(n, s)
    /\ \/ /\ Send(n, Msg("KEY_EXCHANGE", s))
          /\ UNCHANGED promise
       \/ /\ MayReject(n)
          /\ Settle(n, s, "rejected")
          /\ UNCHANGED net
    /\ UNCHANGED <<up, key, told, calls>>

-----------------------------------------------------------------------------
(* Handlers of incoming messages *)

HandleHello(n, s) ==
    /\ Receiving(n, s, "HELLO")
    /\ ConnectSession(n, s)
    /\ OnSessionOpened(n, s)
    /\ \/ Answer(n, Msg("HELLO_ACK", s))
       \/ MayReject(n) /\ Consume(n)
    /\ UNCHANGED <<up, pending, key, promise, frames, told, calls>>

HandleHelloAck(n, s) ==
    /\ Receiving(n, s, "HELLO_ACK")
    /\ ConnectSession(n, s)
    /\ OnSessionOpened(n, s)
    /\ Consume(n)
    /\ UNCHANGED <<up, pending, key, promise, frames, told, calls>>

\* Mutant of HandleKeyExchange: READY as soon as the key is derived.
HandleKeyExchangeReady(n, s) ==
    /\ Receiving(n, s, "KEY_EXCHANGE")
    /\ channel[n][s] # "none"
    /\ TouchSession(n, s)
    /\ SetStatus(n, s, "READY")
    /\ key' = [key EXCEPT ![n][s] = TRUE]
    /\ pending' = [pending EXCEPT ![n][s] = "responder"]
    /\ \E m \in SignedMsgs("AUTH_RESPONSE", s) : Answer(n, m)
    /\ UNCHANGED <<up, promise, frames, told, calls>>

\* #handleKeyExchange: the responder derives the key, signs the challenge and
\* remembers its own before it answers.
HandleKeyExchange(n, s) ==
    /\ Receiving(n, s, "KEY_EXCHANGE")
    /\ channel[n][s] # "none"
    /\ TouchSession(n, s)
    /\ key' = [key EXCEPT ![n][s] = TRUE]
    /\ pending' = [pending EXCEPT ![n][s] = "responder"]
    /\ \/ \E m \in SignedMsgs("AUTH_RESPONSE", s) : Answer(n, m)
       \/ MayReject(n) /\ Consume(n)
    /\ UNCHANGED <<up, channel, promise, frames, told, calls>>

\* Mutant of HandleAuthResponse: the pending entry is deleted before the send.
HandleAuthResponseDropsFirst(n, s) ==
    /\ Receiving(n, s, "AUTH_RESPONSE")
    /\ pending[n][s] = "initiator"
    /\ Head(net[n]).good
    /\ TouchSession(n, s)
    /\ DropPending(n, s)
    /\ key' = [key EXCEPT ![n][s] = TRUE]
    /\ \/ /\ \E m \in SignedMsgs("AUTH_CONFIRM", s) : Answer(n, m)
          /\ Suspend(n, s, "authResponse")
       \/ /\ MayReject(n)
          /\ Consume(n)
          /\ UNCHANGED frames
    /\ UNCHANGED <<up, channel, promise, told, calls>>

\* #handleAuthResponse, signature verified: key, then the confirmation.  A
\* rejected send escapes the handler, which leaves everything as it is.
HandleAuthResponse(n, s) ==
    /\ Receiving(n, s, "AUTH_RESPONSE")
    /\ pending[n][s] = "initiator"
    /\ Head(net[n]).good
    /\ TouchSession(n, s)
    /\ key' = [key EXCEPT ![n][s] = TRUE]
    /\ \/ /\ \E m \in SignedMsgs("AUTH_CONFIRM", s) : Answer(n, m)
          /\ Suspend(n, s, "authResponse")
       \/ /\ MayReject(n)
          /\ Consume(n)
          /\ UNCHANGED frames
    /\ UNCHANGED <<up, channel, pending, promise, told, calls>>

\* #handleAuthResponse after the confirmation has been sent: the initiator is
\* READY, whatever has happened in between, and onChannelReady is called (of a
\* stopped manager it is not, but its application makes no calls either).
InitiatorReady(n, s) ==
    /\ Quiet
    /\ ~CallingBack(n)
    /\ "authResponse" \in frames[n][s]
    /\ Suspend(n, s, "onChannelReady")
    /\ SetStatus(n, s, "READY")
    /\ Tell(n, s)
    /\ UNCHANGED <<up, net, session, pending, key, promise, calls>>

\* #handleAuthResponse after onChannelReady has returned: openChannel resolves,
\* whatever the application has done in the callback.
InitiatorResolves(n, s) ==
    /\ Quiet
    /\ "onChannelReady" \in frames[n][s]
    /\ frames' = [frames EXCEPT ![n][s] = @ \ {"authResponse", "onChannelReady"}]
    /\ Settle(n, s, "resolved")
    /\ DropPending(n, s)
    /\ UNCHANGED <<up, net, session, channel, key, told, calls>>

\* #handleAuthConfirm, signature verified.
ResponderReady(n, s) ==
    /\ Receiving(n, s, "AUTH_CONFIRM")
    /\ pending[n][s] = "responder"
    /\ Head(net[n]).good
    /\ TouchSession(n, s)
    /\ SetStatus(n, s, "READY")
    /\ DropPending(n, s)
    /\ Tell(n, s)
    /\ Consume(n)
    /\ UNCHANGED <<up, key, promise, frames, calls>>

\* Either side, when the other's signature does not verify.
AuthFails(n, s) ==
    /\ \/ Receiving(n, s, "AUTH_RESPONSE") /\ pending[n][s] = "initiator"
       \/ Receiving(n, s, "AUTH_CONFIRM") /\ pending[n][s] = "responder"
    /\ ~Head(net[n]).good
    /\ TouchSession(n, s)
    /\ FailChannel(n, s)
    /\ Consume(n)
    /\ UNCHANGED <<up, frames, told, calls>>

\* #handleAppMessage without ACK: delivered to the application if READY.
HandleAppMessage(n, s) ==
    /\ Receiving(n, s, "APP")
    /\ TouchSession(n, s)
    /\ Consume(n)
    /\ UNCHANGED <<up, channel, pending, key, promise, frames, told, calls>>

\* DATA that #onData or its handler returns from at once: no channel entry, or
\* no pending handshake in the role the message is for.
IgnoreData(n, s) ==
    /\ \/ Receiving(n, s, "KEY_EXCHANGE") /\ channel[n][s] = "none"
       \/ Receiving(n, s, "AUTH_RESPONSE") /\ pending[n][s] # "initiator"
       \/ Receiving(n, s, "AUTH_CONFIRM") /\ pending[n][s] # "responder"
    /\ TouchSession(n, s)
    /\ Consume(n)
    /\ UNCHANGED <<up, channel, pending, key, promise, frames, told, calls>>

\* Mutant of HandleGoodbye: the manager is not told.
HandleGoodbyeSilent(n, s) ==
    /\ Receiving(n, s, "GOODBYE")
    /\ session' = [session EXCEPT ![n][s] = "absent"]
    /\ Consume(n)
    /\ UNCHANGED <<up, channel, pending, key, promise, frames, told, calls>>

HandleGoodbye(n, s) ==
    /\ Receiving(n, s, "GOODBYE")
    /\ session' = [session EXCEPT ![n][s] = "absent"]
    /\ OnSessionClosed(n, s)
    /\ Consume(n)
    /\ UNCHANGED <<up, promise, frames, calls>>

-----------------------------------------------------------------------------
(* Calls of the application *)

\* The application uses a session id it has been given, on a running manager,
\* MaxCalls times.
MayCall(n, s) ==
    /\ Quiet
    /\ up[n]
    /\ told[n][s]
    /\ calls[n][s] < MaxCalls
    /\ calls' = [calls EXCEPT ![n][s] = @ + 1]

\* sendMessage with requireAck: false; encrypt throws without a key.
SendMessage(n, s) ==
    /\ MayCall(n, s)
    /\ channel[n][s] = "READY"
    /\ key[n][s]
    /\ TouchSession(n, s)
    /\ Send(n, Msg("APP", s)) \/ (MayReject(n) /\ UNCHANGED net)
    /\ UNCHANGED <<up, channel, pending, key, promise, frames, told>>

\* closeChannel looks at no status: a second call says GOODBYE again.  The
\* application awaits one call before it makes the next.
CloseChannel(n, s) ==
    /\ MayCall(n, s)
    /\ channel[n][s] # "none"
    /\ "disconnect" \notin frames[n][s]
    /\ SetStatus(n, s, "CLOSING")
    /\ TouchSession(n, s)
    /\ \/ Send(n, Msg("GOODBYE", s)) /\ Suspend(n, s, "disconnect")
       \/ MayReject(n) /\ UNCHANGED <<net, frames>>
    /\ UNCHANGED <<up, pending, key, promise, told>>

\* PeerNodeClient.disconnect after the GOODBYE has been sent.
Disconnected(n, s) ==
    /\ Resume(n, s, "disconnect")
    /\ session' = [session EXCEPT ![n][s] = "absent"]
    /\ OnSessionClosed(n, s)
    /\ UNCHANGED <<up, net, promise, calls>>

\* stop clears the maps and settles nothing.  WebRTC closes the connection: what
\* n has not read is lost, and so may be the end of what n had sent.  The peer's
\* onclose is part of the step: all it sent before is in the inbox that is lost.
Stop(n) ==
    /\ Quiet
    /\ ~CallingBack(n)
    /\ StopAllowed
    /\ up[n]
    /\ up'      = [up EXCEPT ![n] = FALSE]
    /\ session' = [session EXCEPT ![n] = [s \in Sessions |-> "absent"]]
    /\ channel' = [channel EXCEPT ![n] = [s \in Sessions |-> "none"]]
    /\ pending' = [pending EXCEPT ![n] = [s \in Sessions |-> "none"]]
    /\ \E k \in IF Inline THEN {0} ELSE 0 .. Len(net[Remote[n]]) :
          net' = [net EXCEPT ![n] = << >>, ![Remote[n]] = SubSeq(@, 1, k)]
    /\ UNCHANGED <<key, promise, frames, told, calls>>

-----------------------------------------------------------------------------
Deliver(n, s) ==
    \/ HandleHello(n, s)
    \/ HandleHelloAck(n, s)
    \/ HandleKeyExchange(n, s)
    \/ HandleAuthResponse(n, s)
    \/ ResponderReady(n, s)
    \/ AuthFails(n, s)
    \/ HandleAppMessage(n, s)
    \/ IgnoreData(n, s)
    \/ HandleGoodbye(n, s)

Continue(n, s) ==
    \/ SendKeyExchange(n, s)
    \/ InitiatorReady(n, s)
    \/ InitiatorResolves(n, s)
    \/ Disconnected(n, s)

Application(n, s) ==
    \/ OpenChannel(n, s)
    \/ SendMessage(n, s)
    \/ CloseChannel(n, s)

Next ==
    \/ \E n \in Nodes, s \in Sessions :
          Deliver(n, s) \/ Continue(n, s) \/ Application(n, s)
    \/ \E n \in Nodes : Stop(n)

Spec == Init /\ [][Next]_vars

\* The event loop of each node runs what is ready to run; the application is
\* under no obligation to call anything.
Fairness ==
    \A n \in Nodes : WF_vars(\E s \in Sessions : Deliver(n, s) \/ Continue(n, s))

FairSpec == Spec /\ Fairness

-----------------------------------------------------------------------------
(* Properties *)

TypeOK ==
    /\ up      \in [Nodes -> BOOLEAN]
    /\ net     \in [Nodes -> Seq(Message)]
    /\ session \in [Nodes -> [Sessions -> {"absent", "known", "connected"}]]
    /\ channel \in [Nodes -> [Sessions -> ChannelStatus \cup {"none"}]]
    /\ pending \in [Nodes -> [Sessions -> {"none", "initiator", "responder"}]]
    /\ key     \in [Nodes -> [Sessions -> BOOLEAN]]
    /\ promise \in [Nodes -> [Sessions -> {"none", "pending", "resolved", "rejected"}]]
    /\ frames  \in [Nodes -> [Sessions -> SUBSET
                      {"openSession", "authResponse", "onChannelReady", "disconnect"}]]
    /\ told    \in [Nodes -> [Sessions -> BOOLEAN]]
    /\ calls   \in [Nodes -> [Sessions -> Nat]]

\* A READY channel can be used: its session key is held and its session entry
\* exists, whatever order handlers, continuations, closes and stops ran in.
ReadyIsBacked ==
    \A n \in Nodes, s \in Sessions :
        channel[n][s] = "READY" => key[n][s] /\ session[n][s] # "absent"

\* The responder is READY only after the initiator has verified its signature
\* and confirmed: openChannel has resolved there, or is about to.
ResponderReadyAfterInitiator ==
    \A n \in Nodes, s \in Sessions :
        channel[n][s] = "READY" /\ promise[n][s] = "none" =>
            LET p == Remote[n]
            IN  promise[p][s] = "resolved" \/ "authResponse" \in frames[p][s]

\* The promise of an openChannel still waiting on a running node is never lost: its
\* entry is in #pending, or a suspended handler will make or use it.  (That what
\* uses the entry comes is OpenIsUnderWay; a rejected AUTH_CONFIRM is the end of it.)
OpenIsServed ==
    \A n \in Nodes, s \in Sessions :
        up[n] /\ promise[n][s] = "pending" =>
            \/ pending[n][s] = "initiator"
            \/ frames[n][s] \cap {"openSession", "authResponse"} # {}

\* No key outlives its channel: once it is CLOSED or has failed, and until a
\* suspended handler runs on, the session key is gone.
KeyErased ==
    \A n \in Nodes, s \in Sessions :
        channel[n][s] \in {"CLOSED", "ERROR"} => ~key[n][s]

\* An application message never overtakes the handshake: when it is handled
\* the receiver has decided, so handleAppMessage drops none for being early.
AppAfterHandshake ==
    \A n \in Nodes, s \in Sessions :
        Receiving(n, s, "APP") => channel[n][s] # "AUTHENTICATING"

\* A channel that was closed, is being closed or has failed never becomes
\* READY: no late message and no resumed handler revives it.
NoRevival ==
    [][\A n \in Nodes, s \in Sessions :
          channel[n][s] \in {"CLOSING", "CLOSED", "ERROR"} =>
              channel'[n][s] \notin {"AUTHENTICATING", "READY"}]_vars

\* openChannel resolves with a session that can be used at once (on a node that
\* has not been stopped meanwhile), unless its own application has begun to close
\* it in onChannelReady: never with one that has ended under the handler.
ResolvesUsable ==
    [][\A n \in Nodes, s \in Sessions :
          up[n] /\ promise[n][s] = "pending" /\ promise'[n][s] = "resolved" =>
              channel'[n][s] \in {"READY", "CLOSING"} /\ key'[n][s]]_vars

-----------------------------------------------------------------------------
(* What the two managers of one session promise together, as ChannelAgreement *)
(* states it.  The initiator counts as ready from the moment it has sent its  *)
(* confirmation; a node that was stopped counts as over.                      *)

Opened(s) == \E n \in Nodes : promise[n][s] # "none"
Opener(s) == CHOOSE n \in Nodes : promise[n][s] # "none"

Confirmed(s) ==
    \E n \in Nodes : promise[n][s] = "resolved" \/ "authResponse" \in frames[n][s]

InitiatorPhase(s) ==
    LET n == Opener(s)
    IN  CASE ~Opened(s) -> "idle"
          [] Opened(s) /\ (\/ ~up[n]
                           \/ promise[n][s] = "rejected"
                           \/ channel[n][s] \in {"CLOSING", "CLOSED", "ERROR"}) -> "over"
          [] OTHER -> IF Confirmed(s) THEN "ready" ELSE "opening"

ResponderPhase(s) ==
    LET n == Remote[Opener(s)]
    IN  CASE ~Opened(s) -> "idle"
          [] Opened(s) /\ ~up[n] -> "over"
          [] OTHER -> CASE channel[n][s] = "none"           -> "idle"
                        [] channel[n][s] = "AUTHENTICATING" -> "opening"
                        [] channel[n][s] = "READY"          -> "ready"
                        [] OTHER                            -> "over"

Agreement == INSTANCE ChannelAgreement WITH
    initiator <- [s \in Sessions |-> InitiatorPhase(s)],
    responder <- [s \in Sessions |-> ResponderPhase(s)],
    confirmed <- {s \in Sessions : Confirmed(s)}

\* Over an open data channel the managers implement ChannelAgreement.
ImplementsAgreement == Agreement!Spec

-----------------------------------------------------------------------------
(* What liveness rests on, where no node stops and no send is rejected: as *)
(* long as something is to come, what brings it about is on its way.       *)

\* A message of type t about session s is in the inbox q.
Holds(q, s, t) == \E i \in 1 .. Len(q) : q[i].sid = s /\ q[i].type = t

InFlight(n, s, t) == Holds(net[n], s, t)

\* openChannel never waits for nothing: a suspended handler goes on with it, or
\* the message that does is on its way and will not be ignored.
OpenIsUnderWay ==
    \A n \in Nodes, s \in Sessions :
        promise[n][s] = "pending" =>
            \/ frames[n][s] \cap {"openSession", "authResponse"} # {}
            \/ InFlight(Remote[n], s, "KEY_EXCHANGE")
            \/ InFlight(n, s, "AUTH_RESPONSE") /\ pending[n][s] = "initiator"

\* A responder whose initiator is READY has decided, or will: it waits for the
\* confirmation that is on its way to it.
DecisionIsUnderWay ==
    \A n \in Nodes, s \in Sessions :
        promise[n][s] = "resolved" =>
            \/ channel[Remote[n]][s] \notin {"none", "AUTHENTICATING"}
            \/ InFlight(Remote[n], s, "AUTH_CONFIRM") /\ pending[Remote[n]][s] = "responder"

\* No close is one-sided: where one end is CLOSED the other is, or is closing,
\* or has a GOODBYE coming.
CloseIsUnderWay ==
    \A n \in Nodes, s \in Sessions :
        channel[n][s] = "CLOSED" =>
            \/ channel[Remote[n]][s] = "CLOSED"
            \/ "disconnect" \in frames[Remote[n]][s]
            \/ InFlight(Remote[n], s, "GOODBYE")

\* What a caller, a responder or the other end of a close waits for is always on
\* its way, whatever fails to verify and in whatever order both ends close.
NothingIsStuck == OpenIsUnderWay /\ DecisionIsUnderWay /\ CloseIsUnderWay

-----------------------------------------------------------------------------
(* Liveness, under FairSpec *)

\* Every openChannel call settles.
OpenSettles ==
    \A n \in Nodes, s \in Sessions :
        promise[n][s] = "pending" ~> promise[n][s] # "pending"

\* An openChannel call settles although its own manager is stopped meanwhile, as
\* long as the peer goes on.
StopSettlesOpens ==
    \A n \in Nodes, s \in Sessions :
        promise[n][s] = "pending" /\ ~up[n] ~>
            promise[n][s] # "pending" \/ ~up[Remote[n]]

\* When the initiator is READY the responder does not stay in the handshake.
ResponderDecides ==
    \A n \in Nodes, s \in Sessions :
        promise[n][s] = "resolved" ~>
            channel[Remote[n]][s] \notin {"none", "AUTHENTICATING"}

\* A close reaches both sides: after either has CLOSED the channel, the other
\* does too.
CloseIsMutual ==
    \A n \in Nodes, s \in Sessions :
        channel[n][s] = "CLOSED" ~> channel[Remote[n]][s] = "CLOSED"

=============================================================================

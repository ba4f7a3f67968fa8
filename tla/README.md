# Peer2Nodes in TLA+

Models of the JavaScript reference implementation of Peer2Nodes (`javascript/`)
and of its browser simulation (`simulation/`), from the top: the secure channel
two peers build on a message transport, the acknowledged delivery of messages on
it, the WebRTC connection that carries it, and the signaling server and polls
that set the connection up; beside them the conversions of keys, signatures and
shared connection infos. The Kotlin and Swift ports follow the same protocol and
are left to the plan.

## Inventory

| Part | State | Operations | Talks to | Hard parts |
|---|---|---|---|---|
| `PeerChannelManager` (`peer-channel.js`) | `#channels` (status per session), `#pending` (handshakes) | `openChannel`, `sendMessage`, `closeChannel`, `stop`, five DATA handlers, the client's callbacks | calls the client and the crypto service, is called back by the client, calls the application back | state used after an `await`, closes and stops during the handshake, crossing closes, promises that must settle |
| `OutboundMessageQueue` | `#pending`, `#timer` | `enqueue`, `acknowledge`, `stop`, `#tick` | `sendMessage` and `#handleAck` | ACK before enqueue, late ACK, expiry, stop between a send and its enqueue |
| `PeerCryptoService` | session keys, remote identity keys | derive, verify, encrypt, decrypt, clear | the manager | life of a key against the life of its channel |
| `PeerNodeClient` (`peer2nodes.js`) | `sessions` (target, connected, next sequence number) | `openSession`, `sendData`, `disconnect`, `stop`, `#handleIncoming` | a transport, by `send` and a handler | entries recreated by late messages, sequence numbers that restart |
| `MemoryPeerTransport` | the connected peer | `send` runs the remote handler inline | the other client | a reply is handled before the send it answers returns |
| `WebRTCPeerTransport` (`webrtc-p2p.js`) | peer states, session targets | `send`, `#ensurePeer`, `#handleSignal`, channel events | signaling, the WebRTC engine | glare, order of sends during set-up, timeout against open and close |
| `HttpPollingSignaling` | poll loop, abort controller | `start`, `stop`, `sendSignal`, `#pollLoop` | the signaling server over HTTP | abandoned polls, back-off |
| Signaling server (`signaling-server.js`) | queues per room and node, waiting polls | POST, long poll | the polling clients | two polls of one node, signals drained for a client that left |
| Adapters (`peer-crypto-adapter.js`), connection sharing | none | conversions | the application | lengths, leading zeros, defaults |
| Kotlin and Swift ports | as above, shared by threads or dispatch queues | as above | as above | races JavaScript cannot have |
| Simulation (`simulation/`) | as above, plus the page's registry | as above | a bus or WebRTC | Web Crypto adds awaits inside the handlers |

What makes each part correct:

- **channel**: READY means usable; READY only after mutual authentication;
  an ended channel stays ended and leaves no key; `openChannel` settles, and
  only with a usable session; both ends learn of a close.
- **queue**: the timer runs while something waits; an ACK ends retries and
  settles once; every call settles; nothing is resolved that was not accepted.
- **client**: one session entry per live session.
- **transport**: no message stranded or sent twice, no hanging send, no dead
  connection in the map.
- **signaling**: no wake-up lost, no signal handed out twice, order kept, losses
  only from failures; polling goes on.
- **conversions**: a value means the same in every format.
- **simulation**: the page shows what the managers hold.

## What is modelled

### `PeerChannel`: manager and client of two connected peers

State: `channel` is `#channels`, `pending` is `#pending`, `session` is the
client's `sessions`, `key` the session keys of the crypto service, `promise`
the promise `openChannel` returned, `net` the messages on their way to a node.
`frames` holds the handlers that are suspended at `await transport.send(...)`, or
inside the application's `onChannelReady`; `told` and `calls` stand for the application, which can use a session only once
a callback or a promise has given it the id.

A handler is one action up to its `await`, and the rest of it is another, so
that anything the code lets happen across the await happens in the model:

| Code | Action before the await | Action after it |
|---|---|---|
| `openChannel` / `openSession` | `OpenChannel` (HELLO) | `SendKeyExchange` |
| `#handleAuthResponse` | `HandleAuthResponse` (AUTH_CONFIRM) | `InitiatorReady` (READY, `onChannelReady`), then `InitiatorResolves` |
| `closeChannel` / `disconnect` | `CloseChannel` (GOODBYE) | `Disconnected` |

Handlers with nothing left after their send are one action (`HandleHello`,
`HandleKeyExchange`). `IgnoreData` is every early return; `AuthFails` is
`#failChannel` at either end. `SendMessage` is `sendMessage` without ACK.

`#setChannelReady` calls the application before `#handleAuthResponse` resolves
`openChannel`. What the application does in that callback comes in between:
after `InitiatorReady` the node does nothing else (`CallingBack`) but its
application's calls, a close among them, and `InitiatorResolves`. The other
callbacks are the last thing a handler does, or precede only the deletion of a
`#pending` entry nobody reads, so a call made in one is a call made after it.

Two transports, one constant. `Inline = TRUE` is `MemoryPeerTransport`: while a
message is on its way nothing else runs (`Quiet`), replies reach a node whose
handler is suspended, and `stop` leaves the handler installed. `Inline = FALSE`
is `WebRTCPeerTransport` with an open, ordered data channel: the continuation
of a send is a microtask, so a node takes no other message of the session while
one of its handlers waits (`Receiving`); sends may be rejected
(`SendMayFail`); `stop` loses the inbox and may lose the end of what was sent.
Once either end has stopped (`~Connected`), a send needs a new connection, which
nobody answers, and is rejected (`MayReject`): at once here, in the code by the
connection timer after 30 s. The peer's `onclose` belongs to the step of `Stop`.

Signatures are reduced to whether they verify (`good`); `Tampered` names the
messages whose signature may not. A message whose signature does not verify
stands for any corruption that the code detects there.

### `ChannelAgreement`: what the two ends promise together

Each end is idle, opening, ready or over, and `confirmed` holds the sessions in
which the initiator has sent its confirmation. The responder becomes ready only
in a confirmed session, an end that is over stays over, and ready is reached
from opening only. `PeerChannel` implements it (`ImplementsAgreement`) under the
mapping at its end: the initiator counts as ready when its confirmation is
sent, and a stopped node as over.

### `ReliableDelivery`: `sendMessage` with ACK, one direction

`queue`, `retries` and `timer` are the `OutboundMessageQueue`; `outcome` is the
promise of each call. `SendMessage` is the code up to `await sendFn()` and
`Enqueue` what follows it; `HandleAppMessage` is the receiver up to
`await sendData(ACK)` and `DeliverMessage` what follows that. `Tick` is the
whole timer callback; `Keep(q, T)` of `SequenceFilter` is what of a queue is in
`T`, in its order. Either end may close the channel and the sender may stop.

The connection under the channel may break while the channel stays READY (`Lose`):
`onclose` forgets it, and what the sender transmits next (`Transmit`) makes a new
one and waits for it in `waiting`, its `pendingMessages`. The new connection opens
(`Connect`), its timer rejects what waits (`ConnectTimesOut`), or it closes before
it has opened (`ConnectCloses`): then nobody settles `readyPromise`, and a
`sendMessage` whose first transmission waited for it is `Abandoned`, as it is by a
`stop`. Calls already queued do not await their retries and are not affected. That
the receiver makes the new connection is part of `Connect`; its ACKs are lost or
rejected until then. `sends`, `received`, `accepted` and
`acked` count what the properties speak of.

### `SignalingRelay`: server queues, long polls and poll loops

`queue` is `queuesByRoom` for one room, `polls` the listeners of a node's queue
event in the order they were added, `client`, `stopped` and `batch` a node's
`#pollLoop` with the response it handles. The server does not learn that a
client is gone: `Abandon` turns its poll into a dead one that waits on and takes
whatever it is answered with. `Wake` is `queueEvents.emit`, which runs all
listeners, the first of which drains the queue. Requests may fail before or
after they reach the server, a handler may throw, `stop` aborts a request but
waits for a handler or the back-off.

`SignalMailbox` is what a peer may expect: signals arrive at most once and in
the order they were posted, and are lost only from the front or on arrival.
`ImplementsMailbox` maps the mailbox to the response under way with the queue
behind it.

### `WebRTCConnection`: two `WebRTCPeerTransport`s

`att[n]` numbers the peer states `n` has made and `peer[n]` is the one
`#peerStates` holds, as an old state lives on beside a newer one: its channel may
still close, its timer fire, its signals arrive. `send[m]` is how far a call of
`send` is; its awaits (the offer, the POST of the offer, `readyPromise`) end
`SendFirst`, `Offer` and `HandOver`. `#handleSignal` is `HandleOffer` and
`Answer`, `HandleAnswer`, or `HandleWithoutEffect` where the engine refuses what
it is given. Both peers may offer at once; the engine may then roll its own
offer back or refuse the other's. Signals may be lost and overtake each other:
each POST is on its own, and `SignalingRelay` shows that the rest can be lost.
The engine itself is external (`Linked`, `CanOpen`): a channel opens only when both
ends have each other's description, and may close or fail to open at any time.

After crossing offers one connection has two data channels at each end: the one
it created and the one of `ondatachannel` (`chans`, by `Ends`). Each has its own
`onopen` and `onclose`; `DataChannel` is `state.dataChannel`, the one attached
last, which `send` uses while `ready` holds. The engine announces the other end's
channel and opens it in one task (`OnOpen`).

### `CryptoAdapter`, `ConnectionShare`, `Conversions`: formats

The conversions are operators on sequences of bytes, with `W` bytes to a
coordinate instead of 32 and "throws" as the empty sequence. A connection info
is reduced to what the code asks of its fields (is it a string, is it empty, is
it a date), and `Json` gives each a distinct sequence of bytes; Base64 is
modelled to the bit, as the padding and the two replaced characters are what can
go wrong; `atob` takes two `=` at most. A URI is what follows its scheme: the check
for the scheme and the trim of what follows are left out, as no URI here lacks the
one or needs the other. `Keep` is the filter of the capabilities. `Conversions` sends a value through any sequence of conversions and
compares what it means with where it began.

### `BrowserChannel`: the simulation's manager, client and page

The handlers of `PeerChannel` again, for one session on the bus, with two
differences: every use of a key waits for Web Crypto, and `onData` is not
awaited. A handler that waits is a job in `jobs`, and later messages are handled
beside it; `encrypting` counts the encryptions an end has under way. `card` is the
page's registry entry, which the callbacks of both instances update: the first to
come makes it with one slot filled, and the second, and `openChannel` when it
returns, fill only the slots that miss a peer (`CardReady`, `CardOpened`).

## What is checked

| Run | Instance | Shows |
|---|---|---|
| `channel_webrtc` | 2 peers, 2 sessions, 1 call of the application per peer and session, stop, rejected sends, bad signatures | type correctness; `ReadyIsBacked`, `ResponderReadyAfterInitiator`, `OpenIsServed`, `KeyErased`, `AppAfterHandshake`; steps never revive an ended channel (`NoRevival`) nor resolve an unusable one (`ResolvesUsable`: READY with its key, or being closed by its own application from `onChannelReady`); refinement of `ChannelAgreement` |
| `channel_memory` | in-process transport, 1 session, 3 calls, stop | the safety properties that hold there too |
| `channel_live` | data channel, 1 session, 2 calls, bad signatures, no stop, no rejected send | `NothingIsStuck` (`OpenIsUnderWay`, `DecisionIsUnderWay`, `CloseIsUnderWay`); under fairness `OpenSettles`, `ResponderDecides`, `CloseIsMutual` |
| `delivery_webrtc` | 2 messages, 2 retries, connections that break and are made again, rejected sends, closes, stop | all properties of `ReliableDelivery`; under fairness `SendSettles`: every call settles but those whose first transmission is `Abandoned` |
| `channel_memory_resolve` | in-process transport | `ResolvesUsable` violated, see *Findings* |
| `channel_stop_open` | data channel, 1 session, stop | `StopSettlesOpens` violated, see *Findings* |
| `delivery_inline_retry` | in-process transport | `NoRetryAfterAck` violated, see *Findings* |
| `signaling` | 2 nodes, 3 signals (2 to one node), 2 polls of a node at a time, failures, stops, restarts | `NoLostWakeup`; refinement of `SignalMailbox`; under fairness `Collected`, `StopReturns` |
| `connection` | 2 peers that each send to the other, 2 attempts at one and 1 at the other, candidates of one, losses, time-outs, closes, stops | `NothingStranded`, `EntryIsServed`, `SentOnceUnlessRejected`, `ResolvedIsSent`; under fairness `SettlesUnlessTornDown` |
| `connection_hang` | one peer sends both messages | `NoSendHangs` violated, see *Findings* |
| `conversions` | 2-byte coordinates over 6 bytes, 150 connection infos | `SignatureKept`, `KeyKept`, `InfoKept` |
| `browser_channel` | 1 session, 2 calls at each end, signatures that do not verify | `DroppedOnlyWhileVerifying`, `RevivedOnlyWhileVerifying`, `CardReadyIsBacked`, `NothingIsStuck` (`OpenIsUnderWay`, `NoneIgnored`); under fairness `OpenSettles` |

**Bounds.** Two sessions are enough for their interference: they share only the
inboxes, `stop` and the event loop; their ids are interchangeable, and
`channel_webrtc`, which checks safety only, uses that symmetry. `MaxCalls` bounds closes and messages per
peer and session; one each lets both ends close and cross, and the runs with
one session allow two or three (a message then a close, a close that is
repeated). Two messages let one expire while the other is acknowledged, and two
retries let an ACK come before the first, between the two and after the last.
Inboxes and frames are finite because each session is opened once.
`MaxPolls` = 2 gives a live poll with a dead one before it, and three signals an
order to keep in one queue while another queue is used. Two attempts
(`MaxAttempts`) let signals, closes and time-outs of one meet the next; the other
peer has one, as its second would differ in nothing but its number. `Trickling`
names the peers that have a candidate, one each: it is the signal that creates a
connection nobody offered for. `CoordinateBytes` holds the bytes at which DER
changes (0, 127, 128, 255) and the DER tag (48),
and two bytes to a coordinate (`W`) give leading zeros of every kind.
`MaxCalls` = 2 in `browser_channel` is a message and a close, or a repeated one.

**Deadlock** is not checked: an application that has made its calls, or has
stopped its nodes, is a system at rest; so is a value that has been converted.

**Fairness.** Each node's event loop runs a message or a continuation that is
ready, the interval timer fires while it is set, and so does the timer of a
connection that is being made (`ConnectTimesOut`); that one opens is not assumed.
Nothing is assumed of the application. No fairness is assumed for a particular session: the inbox is a
queue and continuations are finite. In `SignalingRelay` the poll loop goes on,
the server's timers fire, and a loop that polls for ever reaches the server
infinitely often (strong fairness of `Poll`: requests may fail, not all of them).
In `WebRTCConnection` only the engine's offer, the end of HTTP requests and the
timers are fair; signals, the network and the other peer are not, so a send
settles by its timer if by nothing else. In `BrowserChannel` handlers run and Web
Crypto answers.

## What is proved

`PeerChannelProofs`, for any set of peers connected in pairs, any set of
sessions and any bound:

- `TypeCorrect`: `TypeOK` is invariant, on either transport.
- `Invariance`: with `~Inline`, the inductive invariant `IInv`.
- `ReadyChannelsAreBacked`: `ReadyIsBacked`, from `IInv`.
- `ResolvedChannelsAreUsable`: `ResolvesUsable`, from `IInv`. The application may
  begin to close the channel in `onChannelReady`, and then gets the id of a CLOSING
  one; nothing else comes between READY and the resolution.

The only assumptions are the two on the constants in `PeerChannel` and, for the
last three, that the transport is a data channel; `channel_memory_resolve`
shows that `ResolvesUsable` is false without it.

`ReadyIsBacked` is not inductive: `InitiatorReady` sets READY without looking
at the key or the session entry. `IInv` adds what makes that safe. While the
confirmation is being sent (`ConfirmingBacked`), no other handler of the session
is suspended, the application has not been told of the session, and the channel
is AUTHENTICATING with its key (or the node was stopped and has no entry). While
`onChannelReady` runs (`CallbackBacked`), the channel is READY or CLOSING and still
has its key, as no message is handled in between. That in turn needs to know what a pending handshake implies (`PendingBacked`), what
an `openSession` under way implies (`OpeningBacked`), and that a session nobody
has opened is mentioned nowhere (`FreshIsUnused`). The proof goes action by
action; `StepIsLocal` says that a step about one node and session leaves all
others alone, so each action is looked at for its own node and session only.

`SignalingProofs`, for any nodes, signals and targets, and any number of polls at
the server, from `RelayAssumption` alone:

- `TypeCorrect`: `TypeOK` is invariant.
- `WakeUpsAreNotLost`: `NoLostWakeup` is invariant.
- `RelayImplementsMailbox`: `Spec => ImplementsMailbox`; what waits for a node is
  its batch followed by its queue.

`NoLostWakeup` is almost inductive by itself. It needs the types, and the
refinement needs `BatchHeld` with it: a loop that neither received nor handles a
response holds no signals, so what a poll is answered with does not overwrite
any. `WakeEffect` says what a publication does to the polls that wait,
`TimeoutAttends` why the live poll stays the last one when a dead one before it
goes. A publication is `Post`, or `PostAndLose` where a dead poll drains the
queue first; `HandleSignal` is `Hand`; a request, loop or stop that drops its
batch is `LoseOldest`, or a stutter if the batch is empty; all other steps are
stutters.

`DeliveryProofs`, for any messages and any number of retries, from
`DeliveryAssumption`:

- `TypeCorrect`, on either transport; with it, no message is sent more than
  `MaxRetries + 1` times.
- `QueueServed`, `ResolvedAccepted`, `DuplicatesAreResent`: `QueueIsServed`,
  `ResolvedIsAccepted` and `NoSpontaneousDuplicates`, on either transport.
- `AckEndsRetries`, `AckEndsExpiry`: with `~Inline`, `NoRetryAfterAck` and
  `AckedDoesNotExpire`. `delivery_inline_retry` shows that the hypothesis is needed.

The inductive invariant is `TypeOK /\ SenderInv /\ FlowInv /\ SettledInv`.
`SenderInv` is local to the sender: the queue is a sequence without repetitions
of the calls that wait, its timer runs while it is not empty, and the retries
of a call account for how often it was sent. `FlowInv`
counts: what was sent of a message is at least what waits for a connection, is on
its way, in a handler and delivered, so nothing can be received that no send accounts for; and an ACK on
its way is for a message the receiver accepted. `SettledInv` is what follows for
the promise: resolved means accepted, and over a data channel an ACK that was
handled has settled it. The counts are `Count` of
`SequenceLemmas`, with lemmas for taking from, adding to and cutting a sequence.
Facts about data are proved by induction: `NatSetInduction` is the
rule for a set of naturals in place of a predicate, and follows from
the library's well-foundedness of `<` on `Nat`. `Keep`, the filter of the queue,
is a recursive function (`SequenceFilter`), so that what it keeps can be proved
this way for every sequence; `SelectSeq` is opaque to the prover.

`ConnectionProofs`, for any peers, messages and number of attempts, from
`ConnectionAssumption`:

- `TypeCorrect`, and `NoneStranded`, `EntriesAreServed`, `SentOnce`,
  `ResolvedSends` for `NothingStranded`, `EntryIsServed`,
  `SentOnceUnlessRejected` and `ResolvedIsSent`.

The inductive invariant is `TypeOK /\ Grounded /\ EntryIsServed /\
AttemptsCoherent /\ CallInv`. `AttemptsCoherent` says how the two channels, `ready`,
timer and promise of one attempt agree, current or old. `CallInv` relates calls to
attempts both ways: what an attempt holds, unless it has timed out, is of a call
that has not gone out and is as far as its promise is (`PendingWait`), and a call
that waits is held (`WaitersPend`); that is why nothing is handed over
twice when an old attempt ends beside a newer one. Nearly every step changes
one attempt of one node: it is shown to be `Becomes(n, i, b)`, and from there on
only the new attempt `b` is looked at.

`HandshakeProofs`, for any set of peers connected in pairs and any set of
sessions, with `~Inline`:

- `HandshakeInvariance`: the inductive invariant `HInv`.
- `KeysAreErased`, `OpensAreServed`, `ResponderFollows`,
  `MessagesFollowHandshake`: `KeyErased`, `OpenIsServed`,
  `ResponderReadyAfterInitiator`, `AppAfterHandshake`. `OpenIsServed` says that the
  promise is not lost: its entry is in `#pending` or a suspended handler has it. It
  does not say that anything will use the entry; `OpensAreUnderWay` below does.
- `NothingRevives`: `NoRevival`.
- `ManagersAgree`: `Spec => ImplementsAgreement`.
- `ProgressInvariance`: the inductive invariant `GInv`, with `~StopAllowed` and
  `~SendMayFail`; from it `OpensAreUnderWay`, `DecisionsAreUnderWay` and
  `ClosesAreUnderWay`, which together are `NothingGetsStuck`: `NothingIsStuck`.

`IInv` speaks of one node at a time and cannot say why no message that revives a
channel or its key can still arrive. `HInv` adds the other end and the messages
between the two. The handshake of a session is a token: a suspended
`openSession`, then the KEY_EXCHANGE, the AUTH_RESPONSE, the AUTH_CONFIRM. There
is at most one, and for each place it can be in, `OpeningStage`, `ExchangeStage`,
`ResponseStage` and `ConfirmStage` say what the two ends hold; `DecisionFirst`
says that nobody decides before it got there, `Settled` what an end that has
decided may hold, and `ConfirmFirst` that application messages come after the
confirmation in the inbox. Each action has a lemma for its effect on the inboxes
(`Took`, `Gained`, `Shortened`, `Kept`), one for what it changes of a session
(`...Changes`) and one that it keeps the stages (`...Keeps`); `StepKeepsElsewhere`
covers all other sessions. For the refinement, `OneOpener` stands in for the
mapping's CHOOSE: a session is opened at one end, and once it is, the mapping
never changes (`MappingKnown`). `stop` changes all sessions of a node at once and
is a step of the agreement in each (`StopEnds`). `Roles`
says which handlers and entries belong to the opener, whose promise waits, and that
only a channel its application knows is being closed. The hypothesis `~Inline` is real:
on the in-process transport `channel_memory_resolve` revives a session.

`HInv` says that there is at most one token; `GInv` adds that there is one as long
as somebody waits for it, which is the safety half of the liveness properties.
`OpenMoves` names its places, `Announced` keeps the HELLO in front of the
KEY_EXCHANGE, which a node without the channel would ignore, and `Ending` holds at
both ends of a session or at neither. Here each action has a lemma `...Moves`, and
`StepMovesElsewhere` covers the other sessions. The two more hypotheses are those
of `channel_live`, and needed: a stop leaves an `openChannel` waiting
(`channel_stop_open`), and a rejected send loses the token or the GOODBYE.

`BrowserProofs`, for any number of calls and whoever's signatures may not verify,
from `BrowserAssumption`:

- `Invariance`: the inductive invariant `IInv`.
- `CardsAreBacked`, `DropsWhileVerifying`, `RevivesWhileVerifying`:
  `CardReadyIsBacked`, `DroppedOnlyWhileVerifying`, `RevivedOnlyWhileVerifying`.
  That the initiator has the first slot follows from the order of the callbacks:
  nothing in the page puts it there.
- `ProgressInvariance`: the inductive invariant `PInv`; from it `OpensAreUnderWay`
  and `NothingIsIgnored`, together `NothingGetsStuck`: `NothingIsStuck`.

The token again, counted this time: `Undecided + Confirming` is the number of
messages and Web Crypto jobs that carry the handshake on, and is never above 1.
While it is `Undecided` no application has the channel, so no end can close or
use it; `SilentUntilTold` is that for the inboxes. `ConfirmArrives` puts the
confirmation in front of whatever the initiator sends next, and so leaves only
the responder's verification as a time in which a message can be early. `PInv`
ties the promise to the token (it is pending just while the handshake is
`Undecided`) and says that whoever has the next step has a session to send in and a
peer whose early returns let the message through; the bus needs no hypothesis, as
it neither stops nor rejects.

`ConversionProofs`, for coordinates of any number of bytes, any SPKI header, any
infos and any texts `JSON.stringify` may give them, from the assumptions of
`CryptoAdapter`, `ConnectionShare` and `Conversions`:

- `FormsAreKept`: the inductive invariant `IInv`.
- `SignaturesAreKept`, `KeysAreKept`, `InfosAreKept`: `SignatureKept`, `KeyKept`,
  `InfoKept`. `SignatureKept` excludes the signatures whose R begins with 0x30, which
  `normalizeSignature` takes for DER.
- The conversions themselves, for every value: `DerIsDer` (what `p1363ToDer`
  returns is the canonical DER of the pair), `SignatureRoundTrip` (`derToP1363`
  undoes it), `KeyConversions`, `UrlSafeRoundTrip` and `ShareUriRoundTrip`.

`AdapterAssumption` bounds the width so that the length of a DER signature fits
into one byte, as the code writes it; `JsonAssumption` says that distinct infos
have distinct texts, none of them empty, and `SharedAssumption` that what a
receiver makes of a shared info has a text too. `SignatureKept` only says what a
signature means, and so is not inductive: to convert it once more one has to
know the very bytes. `IInv` gives them for each form: the pair or its
`P1363ToDer`, the point or the point behind the header, the URI of the shared
info or of what it was normalized to. Its steps are the round trips above.

Those rest on layout and arithmetic. `StrippedProperties` says what is left when
leading zeros go and `NumberOfSuffix`, by induction on the length, that the number
is the same; so `Content` has at most `W + 1` bytes, `DerLayout` gives the place
of every byte, and `PadOfContent` restores the half a signature began with. Three
bytes make four sextets and back (`SextetArithmetic`); `SextetCount` relates the
lengths, `StripIs` shows that cutting `=` off finds the end of the data,
and `UrlSafeIs` that the replaced characters do not collide with others. Recursive
functions (`Number`, `Keep`) are unfolded once by a lemma, and induction is on a
set of naturals, as in `DeliveryProofs`.

Only model-checked:

- liveness (`OpenSettles`, `ResponderDecides`, `CloseIsMutual`, `SendSettles`,
  `SettlesUnlessTornDown`, `Collected`, `StopReturns`): the prover does not reason
  about fairness or ENABLED. That what is waited for is always on its way is proved
  for the handshake and for closes (`NothingIsStuck`), and `QueueIsServed`,
  `NoLostWakeup` and `EntryIsServed` say the same of the other parts; that a fair
  event loop then takes the step is left to TLC;
- the in-process transport (`Inline = TRUE`), except for types and for the theorems
  of `DeliveryProofs` that have no hypothesis; `channel_memory` checks those
  properties of `PeerChannel` that hold there.

Every invariant, action property and refinement that a passing run checks is
stated by a theorem. The type invariants of `SignalingRelay` and
`WebRTCConnection` are proved and no longer checked by a run.

## Findings

1. **`openChannel` resolves with a dead session** (`channel_memory_resolve`,
   in-process transport). The responder becomes READY inside the initiator's
   send of the confirmation. If it closes from its ready callback, its GOODBYE
   is handled while `#handleAuthResponse` is suspended: key and session entry
   go, the status is CLOSED. Then the handler runs on, sets READY and resolves.
   `simulation/simulation-adr.md:105-109` says the returned session is
   "immediately usable".
2. **`openChannel` never settles after a stop** (`channel_stop_open`). In the run
   the opener's KEY_EXCHANGE is out when its own manager stops; the responder goes
   on and its AUTH_RESPONSE finds the opener gone. `stop` clears `#pending` and
   settles nothing in it, unlike the queue's own `stop`.
   `PeerChannelManager.kt:320-321` promises resolve or reject.
3. **An acknowledged message is sent again** (`delivery_inline_retry`,
   in-process transport). The ACK is handled inside the first send, before
   `enqueue`; the message is queued afterwards and retried.
   `claude-adr.md:97-98` says it is re-invoked "until an ACK is received".
4. **A send hangs** (`connection_hang`). If the data channel closes before it
   opened, `onclose` clears the connection timer and nothing settles
   `readyPromise`; `stop` does the same. `webrtc-p2p.js:278-279` says the timer is
   there "so callers never hang indefinitely".

Seen while modelling, and written into the properties as the exceptions they are:

- `normalizeSignature` takes a P1363 signature that begins with 0x30 for DER and
  returns it unchanged (`SignatureKept` excludes that byte).
- In the browser simulation the responder still verifies when `openChannel`
  resolves, although `simulation-adr.md:105-111` says both ends are READY by then.
  What the initiator sends meanwhile is dropped, and a GOODBYE is overwritten by
  READY, without a key (`DroppedOnlyWhileVerifying`, `RevivedOnlyWhileVerifying`).
- A send that waited for the POST of its own offer resolves without having sent
  anything if its channel opened and closed meanwhile (`ResolvedIsSent`).
- An application that closes the channel in `onChannelReady` gets the id of a CLOSING
  session from `openChannel`, which resolves only afterwards (`ResolvesUsable`).
- When the AUTH_CONFIRM is rejected, the exception leaves `#handleAuthResponse` with
  the `#pending` entry in place: nothing retries the handshake, and `openChannel`
  waits for ever (`channel_live` excludes rejected sends).
- `simulation-adr.md:121-123` has the responder's `onChannelReady` come first and
  the initiator fill the second slot of the page's entry. In the code the
  initiator's always comes first, since the client does not await `onData` and the
  responder's verification is left to Web Crypto (`CardReadyIsBacked`).
- `sendMessage` after a broken connection hangs, like the sends of finding 4, if the
  new connection closes before it opens (`Abandoned`, excluded from `SendSettles`).
- A peer that restarts its poll loses signals to its own dead polls until they
  time out (`SignalMailbox` allows the loss, `Collected` says it ends).

## Plan

Done: `ChannelAgreement`, `PeerChannel`, `ReliableDelivery`, `SignalMailbox`,
`SignalingRelay`, `WebRTCConnection`, `CryptoAdapter`, `ConnectionShare`,
`Conversions`, `BrowserChannel`, and the proofs: `PeerChannelProofs`,
`HandshakeProofs` (which builds on it), `SignalingProofs`, `SequenceLemmas`,
`DeliveryProofs`, `ConnectionProofs`, `BrowserProofs` and `ConversionProofs`
(which use it). Next, in this order:

1. `AckQueueThreads`: the Kotlin queue with its lock and its scheduler thread, with
   `ReliableDelivery`'s queue as the abstract specification.
2. `stop` in two steps, and the client's targets and sequence numbers of entries
   that are recreated after a close.

## Not modelled

Cryptography is assumed to work: a verifying signature was made by the peer and
a key both sides derived is the same. `PeerChannel` begins with a WebRTC
connection that is set up; `WebRTCConnection` shows how far that can be relied
on, and the two are not composed. A transport that is started again after `stop`
is left out of `WebRTCConnection`, and `stop` is one step in `PeerChannel` and
`ReliableDelivery`: the code awaits the transport before it clears its maps.
Sequence numbers are sent and compared by no receiver. Heartbeats, ERROR
envelopes, capabilities, time stamps and the contents of messages decide nothing
that is checked. HTTP parsing, body limits and CORS concern single requests. The
page's message log, forms and rendering, the JSON schema, CI and editor
configuration have no protocol state. The Kotlin and Swift ports have their own
threads and queues, which are not modelled yet.

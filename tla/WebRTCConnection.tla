-------------------------- MODULE WebRTCConnection --------------------------
(***************************************************************************)
(* WebRTCPeerTransport (javascript/webrtc-p2p.js; simulation/              *)
(* webrtc-p2p-browser.js is its port) at two peers: making a connection on *)
(* the first send, answering one, sending before and after the data        *)
(* channel is open, time-outs, closes and stop.                            *)
(*                                                                         *)
(* A peer state of the code is an attempt here; attempts are numbered, as  *)
(* an old one may live on beside the one #peerStates holds.  Every await   *)
(* ends an action.  Signals may be lost and overtake each other: each is a *)
(* request of its own, and the poll loop drops signals after an error      *)
(* (SignalingRelay).  The WebRTC engine is external: it does what its      *)
(* specification allows, and a channel may close or fail to open.          *)
(***************************************************************************)
EXTENDS Naturals, Sequences

CONSTANTS
    Nodes,       \* the peers
    Remote,      \* Remote[n]: the peer n talks to
    Messages,    \* envelopes, each sent once
    Sender,      \* Sender[m]: the peer that sends m
    Trickling,   \* peers whose engine has an ICE candidate to signal
    MaxAttempts  \* bound: MaxAttempts[n] peer states are made by n

ASSUME ConnectionAssumption ==
    /\ Remote \in [Nodes -> Nodes]
    /\ \A n \in Nodes : Remote[n] # n /\ Remote[Remote[n]] = n
    /\ Sender \in [Messages -> Nodes]
    /\ Trickling \subseteq Nodes
    /\ MaxAttempts \in [Nodes -> Nat]

VARIABLES
    peer,     \* #peerStates: the attempt it holds for the other peer, 0 if none
    att,      \* att[n]: the attempts n has made
    signals,  \* signals on their way
    handling, \* handling[n]: the attempt whose OFFER is being answered, or 0
    up,       \* up[n]: n's signaling polls
    send,     \* send[m]: how far the call send(m) is
    on,       \* on[m]: the attempt it got from #ensurePeer, or 0
    sent      \* sent[n]: payloads handed to a data channel, in order

vars == <<peer, att, signals, handling, up, send, on, sent>>

\* The data channel of our createDataChannel, and the one of ondatachannel.  A
\* connection has both at both ends after crossing offers.
Ends == {"own", "theirs"}

\* One peer state.  pc and with: which descriptions its RTCPeerConnection has
\* and the attempt the remote one is of; chans: its data channels; ready, timer,
\* promise, waiting: ready, timeoutId, readyPromise, pendingMessages; cand: its
\* ICE candidate is still to come.
Attempt == [pc : {"new", "offered", "answering", "stable", "closed"}, with : Nat,
            chans : [Ends -> {"none", "connecting", "open", "closed"}], ready : BOOLEAN,
            timer : BOOLEAN, promise : {"pending", "resolved", "rejected"},
            waiting : Seq(Messages), cand : BOOLEAN]

Signal == [to : Nodes, type : {"OFFER", "ANSWER", "CANDIDATE"}, att : Nat]

Init ==
    /\ peer     = [n \in Nodes |-> 0]
    /\ att      = [n \in Nodes |-> << >>]
    /\ signals  = {}
    /\ handling = [n \in Nodes |-> 0]
    /\ up       = [n \in Nodes |-> TRUE]
    /\ send     = [m \in Messages |-> "none"]
    /\ on       = [m \in Messages |-> 0]
    /\ sent     = [n \in Nodes |-> << >>]

-----------------------------------------------------------------------------
(* Helpers *)

\* The new state of #ensurePeer: as initiator it has a data channel already.
NewAttempt(n, own) ==
    [pc |-> "new", with |-> 0, chans |-> [c \in Ends |-> IF c = "own" THEN own ELSE "none"],
     ready |-> FALSE, timer |-> TRUE, promise |-> "pending", waiting |-> << >>,
     cand |-> n \in Trickling]

\* state.dataChannel: the one attached last.
DataChannel(a) == IF a.chans["theirs"] = "none" THEN a.chans["own"] ELSE a.chans["theirs"]

\* Mutant of ClosePc: the connection is left to the garbage collector.
ClosePcLater(a) == a

\* pc.close()
ClosePc(a) == [a EXCEPT !.pc = "closed", !.with = 0, !.cand = FALSE]

SignalTo(n, type, i) == [to |-> Remote[n], type |-> type, att |-> i]

\* The signals with one that n posts: none reaches a peer that polls no more.
Posted(n, type, i) ==
    IF up[Remote[n]] THEN signals \cup {SignalTo(n, type, i)} ELSE signals

\* Mutant of DropEntry: the map keeps the ended connection.
KeepEntry(n) == UNCHANGED peer

\* #peerStates.delete: whichever attempt is in the map.
DropEntry(n) == peer' = [peer EXCEPT ![n] = 0]

\* Mutant of Flush: the pending messages are dropped.
FlushNothing(n, i) == UNCHANGED sent

\* The loop over pendingMessages in onopen.
Flush(n, i) == sent' = [sent EXCEPT ![n] = @ \o att[n][i].waiting]

\* Mutant of SettleWaiting: nobody is told.
SettleNobody(n, i, result) == UNCHANGED send

\* readyPromise settles: the calls that wait for it do.
SettleWaiting(n, i, result) ==
    send' = [m \in Messages |->
                IF Sender[m] = n /\ on[m] = i /\ send[m] = "waiting" THEN result ELSE send[m]]

\* What has become of a call that awaits readyPromise.
Result(a) == IF a.promise = "pending" THEN "waiting" ELSE a.promise

\* Mutant of HandOver: the payload is queued whether or not the channel is open.
HandOverQueued(n, m, i) ==
    /\ on'   = [on EXCEPT ![m] = i]
    /\ att'  = [att EXCEPT ![n][i].waiting = Append(@, m)]
    /\ send' = [send EXCEPT ![m] = Result(att[n][i])]
    /\ UNCHANGED sent

\* send after `await #ensurePeer`: if the state is ready over its data channel,
\* which throws if it is not open or is closing, else to the state's pending
\* messages.  readyPromise may have settled by then.
HandOver(n, m, i) ==
    /\ on' = [on EXCEPT ![m] = i]
    /\ IF att[n][i].ready
       THEN /\ UNCHANGED att
            /\ \/ /\ att[n][i].pc # "closed" /\ DataChannel(att[n][i]) = "open"
                  /\ sent' = [sent EXCEPT ![n] = Append(@, m)]
                  /\ send' = [send EXCEPT ![m] = "resolved"]
               \/ /\ send' = [send EXCEPT ![m] = "rejected"]
                  /\ UNCHANGED sent
       ELSE /\ att'  = [att EXCEPT ![n][i].waiting = Append(@, m)]
            /\ send' = [send EXCEPT ![m] = Result(att[n][i])]
            /\ UNCHANGED sent

-----------------------------------------------------------------------------
(* send *)

\* send with a peer state there: whatever it is for, no offer is made.
SendOnExisting(n, m) ==
    /\ Sender[m] = n /\ send[m] = "none"
    /\ peer[n] # 0
    /\ HandOver(n, m, peer[n])
    /\ UNCHANGED <<peer, signals, handling, up>>

\* send as the initiator, up to `await pc.createOffer()`.
SendFirst(n, m) ==
    /\ Sender[m] = n /\ send[m] = "none"
    /\ peer[n] = 0 /\ Len(att[n]) < MaxAttempts[n]
    /\ att'  = [att EXCEPT ![n] = Append(@, NewAttempt(n, "connecting"))]
    /\ peer' = [peer EXCEPT ![n] = Len(att'[n])]
    /\ on'   = [on EXCEPT ![m] = Len(att'[n])]
    /\ send' = [send EXCEPT ![m] = "offering"]
    /\ UNCHANGED <<signals, handling, up, sent>>

\* setLocalDescription, then the OFFER is posted.  An offer that came in
\* meanwhile or a closed connection makes it throw; so does a refused POST, and
\* send rejects while the state and its timer stay.
Offer(n, m) ==
    LET i == on[m] IN
    /\ Sender[m] = n /\ send[m] = "offering"
    /\ \/ /\ att[n][i].pc = "new"
          /\ att' = [att EXCEPT ![n][i].pc = "offered"]
          /\ \/ send' = [send EXCEPT ![m] = "posted"] /\ signals' = Posted(n, "OFFER", i)
             \/ send' = [send EXCEPT ![m] = "rejected"] /\ signals' \in {signals, Posted(n, "OFFER", i)}
       \/ /\ att[n][i].pc # "new"
          /\ send' = [send EXCEPT ![m] = "rejected"]
          /\ UNCHANGED <<att, signals>>
    /\ UNCHANGED <<peer, handling, up, on, sent>>

\* The response to the POST has come: send goes on.
OfferPosted(n, m) ==
    /\ Sender[m] = n /\ send[m] = "posted"
    /\ HandOver(n, m, on[m])
    /\ UNCHANGED <<peer, signals, handling, up>>

\* onicecandidate: posted without waiting for the OFFER's response.
IceCandidate(n, i) ==
    /\ att[n][i].cand /\ att[n][i].pc \in {"offered", "stable"}
    /\ att' = [att EXCEPT ![n][i].cand = FALSE]
    /\ signals' = Posted(n, "CANDIDATE", i)
    /\ UNCHANGED <<peer, handling, up, send, on, sent>>

-----------------------------------------------------------------------------
(* #handleSignal, called by the poll loop for one signal at a time *)

\* n takes signal s, for attempt i, which #ensurePeer has made if there was none.
Handling(n, s, i) ==
    /\ up[n] /\ handling[n] = 0
    /\ s.to = n
    /\ signals' = signals \ {s}
    /\ IF peer[n] # 0
       THEN i = peer[n]
       ELSE Len(att[n]) < MaxAttempts[n] /\ i = Len(att[n]) + 1
    /\ peer' = [peer EXCEPT ![n] = i]

Attempts(n, i) == IF i \in DOMAIN att[n] THEN att[n] ELSE Append(att[n], NewAttempt(n, "none"))

\* An OFFER, up to the await after setRemoteDescription.  The engine may roll
\* back an offer of ours for it, or refuse it: see HandleWithoutEffect.
HandleOffer(n, s, i) ==
    /\ s.type = "OFFER"
    /\ Handling(n, s, i)
    /\ att' = [att EXCEPT ![n] =
                  [Attempts(n, i) EXCEPT ![i].pc = "answering", ![i].with = s.att]]
    /\ handling' = [handling EXCEPT ![n] = i]
    /\ UNCHANGED <<up, send, on, sent>>

\* An ANSWER for a connection that has an offer out, this one's or an older one's.
HandleAnswer(n, s, i) ==
    /\ s.type = "ANSWER"
    /\ Handling(n, s, i)
    /\ Attempts(n, i)[i].pc = "offered"
    /\ att' = [att EXCEPT ![n][i].pc = "stable", ![n][i].with = s.att]
    /\ UNCHANGED <<handling, up, send, on, sent>>

\* A CANDIDATE; or the engine refuses the description: an ANSWER without an
\* offer, an OFFER that crosses one of ours or follows another.  The state that
\* #ensurePeer made stays.
HandleWithoutEffect(n, s, i) ==
    /\ Handling(n, s, i)
    /\ \/ s.type = "CANDIDATE"
       \/ s.type = "ANSWER" /\ Attempts(n, i)[i].pc # "offered"
       \/ s.type = "OFFER" /\ Attempts(n, i)[i].pc # "new"
    /\ att' = [att EXCEPT ![n] = Attempts(n, i)]
    /\ UNCHANGED <<handling, up, send, on, sent>>

\* createAnswer, setLocalDescription and the post of the ANSWER, all of which
\* fail once the connection is closed.
Answer(n) ==
    LET i == handling[n] IN
    /\ i # 0
    /\ handling' = [handling EXCEPT ![n] = 0]
    /\ IF att[n][i].pc = "answering"
       THEN /\ att' = [att EXCEPT ![n][i].pc = "stable"]
            /\ signals' = Posted(n, "ANSWER", i)
       ELSE UNCHANGED <<att, signals>>
    /\ UNCHANGED <<peer, up, send, on, sent>>

-----------------------------------------------------------------------------
(* Events of the WebRTC engine, and of the timer *)

\* Both ends have each other's description and neither is closed.
Linked(n, i) ==
    LET r == Remote[n]  j == att[n][i].with IN
    /\ j \in DOMAIN att[r]
    /\ att[n][i].pc = "stable"
    /\ att[r][j].pc = "stable" /\ att[r][j].with = i

\* Channel c may open: our own once the connection is up; the other end's when
\* it comes in, as the engine fires ondatachannel and onopen in one task.
CanOpen(n, i, c) ==
    /\ Linked(n, i)
    /\ IF c = "own"
       THEN att[n][i].chans[c] = "connecting"
       ELSE att[n][i].chans[c] = "none" /\ att[Remote[n]][att[n][i].with].chans["own"] # "none"

\* ondatachannel for the channel of the other end, which becomes
\* state.dataChannel even if there is one; onopen for either: the timer is
\* cleared, readyPromise resolves, pending messages go out on the channel.
OnOpen(n, i, c) ==
    /\ CanOpen(n, i, c)
    /\ att' = [att EXCEPT ![n][i].chans[c] = "open", ![n][i].ready = TRUE, ![n][i].timer = FALSE,
                          ![n][i].promise = "resolved", ![n][i].waiting = << >>]
    /\ Flush(n, i)
    /\ SettleWaiting(n, i, "resolved")
    /\ UNCHANGED <<peer, signals, handling, up, on>>

\* onclose, before or after onopen, also some time after a close of our own: the
\* map's entry goes, whichever attempt it is of.  The other channel of the
\* attempt may still open.
OnClose(n, i, c) ==
    /\ att[n][i].chans[c] \in {"connecting", "open"}
    /\ att'  = [att EXCEPT ![n][i].chans[c] = "closed", ![n][i].ready = FALSE,
                           ![n][i].timer = FALSE]
    /\ DropEntry(n)
    /\ UNCHANGED <<signals, handling, up, send, on, sent>>

\* The connection timer: the entry goes, the connection closes, sends reject.
Timeout(n, i) ==
    /\ i \in DOMAIN att[n]
    /\ att[n][i].timer
    /\ att'  = [att EXCEPT ![n][i] =
                   [ClosePc(@) EXCEPT !.timer = FALSE, !.promise = "rejected"]]
    /\ DropEntry(n)
    /\ SettleWaiting(n, i, "rejected")
    /\ UNCHANGED <<signals, handling, up, on, sent>>

\* stop: what the map holds is closed, its promise is left as it is.  The poll
\* loop ends, a signal that is being handled is finished.
Stop(n) ==
    /\ up[n]
    /\ up'   = [up EXCEPT ![n] = FALSE]
    /\ DropEntry(n)
    /\ att'  = [att EXCEPT ![n] = [i \in DOMAIN @ |->
                   IF i = peer[n] THEN [ClosePc(@[i]) EXCEPT !.timer = FALSE] ELSE @[i]]]
    /\ signals' = {s \in signals : s.to # n}
    /\ UNCHANGED <<handling, send, on, sent>>

-----------------------------------------------------------------------------
Next ==
    \/ \E n \in Nodes, m \in Messages :
          SendOnExisting(n, m) \/ SendFirst(n, m) \/ Offer(n, m) \/ OfferPosted(n, m)
    \/ \E n \in Nodes : \E s \in signals, i \in 1 .. MaxAttempts[n] :
          HandleOffer(n, s, i) \/ HandleAnswer(n, s, i) \/ HandleWithoutEffect(n, s, i)
    \/ \E n \in Nodes : \E i \in DOMAIN att[n] :
          \/ IceCandidate(n, i) \/ Timeout(n, i)
          \/ \E c \in Ends : OnOpen(n, i, c) \/ OnClose(n, i, c)
    \/ \E n \in Nodes : Answer(n) \/ Stop(n)

Spec == Init /\ [][Next]_vars

\* The engine makes offers, HTTP requests end, timers fire.  Nothing is assumed
\* of signals, of the network or of the other peer.
Fairness ==
    /\ \A m \in Messages : WF_vars(Offer(Sender[m], m)) /\ WF_vars(OfferPosted(Sender[m], m))
    /\ \A n \in Nodes : \A i \in 1 .. MaxAttempts[n] : WF_vars(Timeout(n, i))

FairSpec == Spec /\ Fairness

-----------------------------------------------------------------------------
(* Properties *)

TypeOK ==
    /\ peer     \in [Nodes -> Nat]
    /\ att      \in [Nodes -> Seq(Attempt)]
    /\ signals  \subseteq Signal
    /\ handling \in [Nodes -> Nat]
    /\ up       \in [Nodes -> BOOLEAN]
    /\ send     \in [Messages -> {"none", "offering", "posted", "waiting", "resolved", "rejected"}]
    /\ on       \in [Messages -> Nat]
    /\ sent     \in [Nodes -> Seq(Messages)]

\* No message is stranded beside a ready state: what arrives before onopen is
\* flushed by it, what arrives later is not queued.
NothingStranded ==
    \A n \in Nodes : \A i \in DOMAIN att[n] :
        att[n][i].ready => att[n][i].waiting = << >>

\* A data channel of a has closed.
Closed(a) == \E c \in Ends : a.chans[c] = "closed"

\* A send that finds an entry in #peerStates finds a connection that has not
\* ended: it is ready, or its timer will end it.
EntryIsServed ==
    \A n \in Nodes : peer[n] # 0 =>
        LET a == att[n][peer[n]] IN
        a.pc # "closed" /\ ~ Closed(a) /\ (a.ready \/ a.timer)

\* What has been reported as failed is never sent, and nothing is sent twice.
SentOnceUnlessRejected ==
    \A n \in Nodes : \A i, j \in DOMAIN sent[n] :
        /\ send[sent[n][i]] = "resolved"
        /\ sent[n][i] = sent[n][j] => i = j

\* A send that resolved has gone out, except one whose connection was ready and
\* lost a channel while the POST of its own offer was still under way.
ResolvedIsSent ==
    \A m \in Messages : send[m] = "resolved" =>
        \/ \E i \in DOMAIN sent[Sender[m]] : sent[Sender[m]][i] = m
        \/ LET a == att[Sender[m]][on[m]] IN Closed(a) /\ a.promise = "resolved"

Begun(m)   == send[m] \in {"offering", "posted", "waiting"}
Settled(m) == send[m] \in {"resolved", "rejected"}

\* Its state has been torn down, by stop or by a channel that closed before it
\* opened, and readyPromise was not settled.
TornDown(m) ==
    /\ send[m] = "waiting"
    /\ LET a == att[Sender[m]][on[m]] IN a.promise = "pending" /\ ~a.timer

\* Under FairSpec: every send settles unless its connection is torn down.
SettlesUnlessTornDown ==
    \A m \in Messages : Begun(m) ~> Settled(m) \/ TornDown(m)

\* Under FairSpec: every send settles, "so callers never hang indefinitely when
\* ICE fails or the remote peer never answers" (webrtc-p2p.js).
NoSendHangs ==
    \A m \in Messages : Begun(m) ~> Settled(m)
=============================================================================

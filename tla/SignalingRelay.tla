--------------------------- MODULE SignalingRelay ---------------------------
(***************************************************************************)
(* The signaling path of the WebRTC transport: the server's queues and     *)
(* long polls (javascript/signaling-server.js) with the poll loop of each  *)
(* peer, HttpPollingSignaling (javascript/webrtc-p2p.js), in one room.     *)
(*                                                                         *)
(* The server never learns that a poll's client is gone: a poll whose      *)
(* client aborted it or lost its connection waits on as a "dead" one, and  *)
(* what it drains is lost.  Waiting polls are EventEmitter listeners, run  *)
(* in the order they were added: the first drains the queue, the others    *)
(* answer with nothing.                                                    *)
(***************************************************************************)
EXTENDS Naturals, Sequences, SequencesExt

CONSTANTS
    Nodes,     \* the peers that poll
    Signals,   \* the signals that are published, each once
    Target,    \* Target[s]: targetNodeId
    MaxPolls   \* bound: polls of one node that wait at the server at a time

ASSUME RelayAssumption ==
    /\ Target \in [Signals -> Nodes]
    /\ MaxPolls \in Nat \ {0}

VARIABLES
    published, \* signals the server has accepted
    queue,     \* queuesByRoom: what is queued for each node
    polls,     \* the listeners on the node's queue event: "live" or "dead"
    client,    \* where the node's #pollLoop is, "off" if there is none
    stopped,   \* HttpPollingSignaling.#stopped
    batch,     \* the signals of the response that is on its way or handled
    handled    \* the signals onSignal was called with

vars == <<published, queue, polls, client, stopped, batch, handled>>

ClientState == {"off", "idle", "polling", "answered", "handling", "backoff"}

Init ==
    /\ published = {}
    /\ queue     = [n \in Nodes |-> << >>]
    /\ polls     = [n \in Nodes |-> << >>]
    /\ client    = [n \in Nodes |-> "off"]
    /\ stopped   = [n \in Nodes |-> TRUE]
    /\ batch     = [n \in Nodes |-> << >>]
    /\ handled   = [n \in Nodes |-> << >>]

-----------------------------------------------------------------------------
(* The server *)

\* Mutant of Respond: a drain that leaves the queue as it was.
RespondUndrained(n, poll, q) ==
    /\ UNCHANGED queue
    /\ IF poll = "live"
       THEN /\ client' = [client EXCEPT ![n] = "answered"]
            /\ batch'  = [batch EXCEPT ![n] = q]
       ELSE UNCHANGED <<client, batch>>

\* drainSignals and sendJson: a poll is answered with all of q; if its client
\* is gone the response is lost.
Respond(n, poll, q) ==
    /\ queue' = [queue EXCEPT ![n] = << >>]
    /\ IF poll = "live"
       THEN /\ client' = [client EXCEPT ![n] = "answered"]
            /\ batch'  = [batch EXCEPT ![n] = q]
       ELSE UNCHANGED <<client, batch>>

\* Mutant of Wake: the listeners are not called.
WakeNobody(n, q) ==
    /\ queue' = [queue EXCEPT ![n] = q]
    /\ UNCHANGED <<polls, client, batch>>

\* queueEvents.emit: every waiting poll goes on, the first one gets q, a live
\* one behind it an empty response.
Wake(n, q) ==
    IF polls[n] = << >>
    THEN /\ queue' = [queue EXCEPT ![n] = q]
         /\ UNCHANGED <<polls, client, batch>>
    ELSE /\ polls' = [polls EXCEPT ![n] = << >>]
         /\ IF Contains(Tail(polls[n]), "live")
            THEN Respond(n, "live", << >>)
            ELSE Respond(n, Head(polls[n]), q)

\* POST /signals/publish, accepted (a refused one changes nothing): the signal
\* is queued and the polls of its target are woken.
Publish(s) ==
    /\ s \notin published
    /\ published' = published \cup {s}
    /\ Wake(Target[s], Append(queue[Target[s]], s))
    /\ UNCHANGED <<stopped, handled>>

\* A poll has waited for pollTimeoutMs: it drains what there is and answers.
PollTimeout(n, i) ==
    /\ i \in DOMAIN polls[n]
    /\ polls' = [polls EXCEPT ![n] = RemoveAt(@, i)]
    /\ Respond(n, polls[n][i], queue[n])
    /\ UNCHANGED <<published, stopped, handled>>

-----------------------------------------------------------------------------
(* The client: start, stop and #pollLoop *)

\* start: a poll loop that still runs is kept, also one that is stopping.
Start(n) ==
    /\ client[n] = "off"
    /\ client'  = [client EXCEPT ![n] = "idle"]
    /\ stopped' = [stopped EXCEPT ![n] = FALSE]
    /\ UNCHANGED <<published, queue, polls, batch, handled>>

\* GET /signals/poll: answered at once if there is something, else it waits.
Poll(n) ==
    /\ client[n] = "idle"
    /\ ~stopped[n]
    /\ Len(polls[n]) < MaxPolls
    /\ IF queue[n] # << >>
       THEN Respond(n, "live", queue[n]) /\ UNCHANGED polls
       ELSE /\ polls'  = [polls EXCEPT ![n] = Append(@, "live")]
            /\ client' = [client EXCEPT ![n] = "polling"]
            /\ UNCHANGED <<queue, batch>>
    /\ UNCHANGED <<published, stopped, handled>>

ReceiveResponse(n) ==
    /\ client[n] = "answered"
    /\ client' = [client EXCEPT ![n] = "handling"]
    /\ UNCHANGED <<published, queue, polls, stopped, batch, handled>>

\* The request of the node ends without its response.
Abandon(n) ==
    /\ client[n] \in {"polling", "answered"}
    /\ polls' = [polls EXCEPT ![n] = [i \in DOMAIN @ |-> "dead"]]
    /\ batch' = [batch EXCEPT ![n] = << >>]

\* The connection to the server fails, before the request is there or after:
\* onError, then 800 ms of back-off.
PollFails(n) ==
    /\ \/ Abandon(n)
       \/ client[n] = "idle" /\ ~stopped[n] /\ UNCHANGED <<polls, batch>>
    /\ client' = [client EXCEPT ![n] = "backoff"]
    /\ UNCHANGED <<published, queue, stopped, handled>>

\* One signal of the batch is handled.  If the handler throws, the rest of the
\* batch is gone.
HandleSignal(n) ==
    /\ client[n] = "handling"
    /\ ~stopped[n]
    /\ batch[n] # << >>
    /\ handled' = [handled EXCEPT ![n] = Append(@, Head(batch[n]))]
    /\ \/ batch' = [batch EXCEPT ![n] = Tail(@)] /\ UNCHANGED client
       \/ batch' = [batch EXCEPT ![n] = << >>] /\ client' = [client EXCEPT ![n] = "backoff"]
    /\ UNCHANGED <<published, queue, polls, stopped>>

\* Mutant of NextRound: an error ends the rounds, the loop never goes on.
NextRoundUnlessFailed(n) ==
    /\ client[n] = "handling" /\ batch[n] = << >>
    /\ client' = [client EXCEPT ![n] = "idle"]
    /\ UNCHANGED <<published, queue, polls, stopped, batch, handled>>

\* The next round of the loop, after the batch or the back-off.
NextRound(n) ==
    /\ \/ client[n] = "handling" /\ batch[n] = << >>
       \/ client[n] = "backoff"
    /\ client' = [client EXCEPT ![n] = "idle"]
    /\ UNCHANGED <<published, queue, polls, stopped, batch, handled>>

\* stop: a request under way is aborted, which ends the loop; a handler or a
\* back-off runs to its end first.
Stop(n) ==
    /\ ~stopped[n]
    /\ stopped' = [stopped EXCEPT ![n] = TRUE]
    /\ \/ /\ Abandon(n)
          /\ client' = [client EXCEPT ![n] = "off"]
       \/ /\ client[n] \notin {"polling", "answered"}
          /\ UNCHANGED <<polls, batch, client>>
    /\ UNCHANGED <<published, queue, handled>>

\* A stopped loop drops what it has not handled and ends; stop() returns.
LoopEnds(n) ==
    /\ stopped[n]
    /\ client[n] \in {"idle", "handling"}
    /\ client' = [client EXCEPT ![n] = "off"]
    /\ batch'  = [batch EXCEPT ![n] = << >>]
    /\ UNCHANGED <<published, queue, polls, stopped, handled>>

-----------------------------------------------------------------------------
Loop(n) == Poll(n) \/ ReceiveResponse(n) \/ HandleSignal(n) \/ NextRound(n) \/ LoopEnds(n)

Next ==
    \/ \E s \in Signals : Publish(s)
    \/ \E n \in Nodes : Start(n) \/ Stop(n) \/ Loop(n) \/ PollFails(n)
    \/ \E n \in Nodes, i \in 1 .. MaxPolls : PollTimeout(n, i)

Spec == Init /\ [][Next]_vars

\* The loop goes on, handlers and the back-off end, the server's timers fire.  A
\* loop that goes on polling reaches the server now and then.
Fairness ==
    \A n \in Nodes :
        /\ WF_vars(Loop(n)) /\ SF_vars(Poll(n))
        /\ WF_vars(\E i \in 1 .. MaxPolls : PollTimeout(n, i))

FairSpec == Spec /\ Fairness

-----------------------------------------------------------------------------
(* Properties *)

TypeOK ==
    /\ published \subseteq Signals
    /\ queue     \in [Nodes -> Seq(Signals)]
    /\ polls     \in [Nodes -> Seq({"live", "dead"})]
    /\ client    \in [Nodes -> ClientState]
    /\ stopped   \in [Nodes -> BOOLEAN]
    /\ batch     \in [Nodes -> Seq(Signals)]
    /\ handled   \in [Nodes -> Seq(Signals)]

\* No lost wake-up: a signal is never queued beside a poll that waits, and the
\* client waits exactly while the server holds one live poll of it, the newest.
NoLostWakeup ==
    \A n \in Nodes :
        /\ polls[n] # << >> => queue[n] = << >>
        /\ client[n] = "polling" => polls[n] # << >>
        /\ \A i \in DOMAIN polls[n] :
              polls[n][i] = "live" <=> client[n] = "polling" /\ i = Len(polls[n])

\* Queues, polls and loops together are a mailbox: signals are handed over at
\* most once and in order, and lost from the front or on arrival only.
Mail == INSTANCE SignalMailbox WITH
            posted <- published, box <- [n \in Nodes |-> batch[n] \o queue[n]]

ImplementsMailbox == Mail!MailSpec

\* Under FairSpec: what is queued does not stay there while its target polls,
\* whatever requests fail, short of all, and whatever dead polls wait.
Collected ==
    \A s \in Signals :
        Contains(queue[Target[s]], s) /\ ~stopped[Target[s]] ~>
            \/ ~Contains(queue[Target[s]], s)
            \/ stopped[Target[s]]

\* Under FairSpec: stop() returns.
StopReturns ==
    \A n \in Nodes : stopped[n] ~> client[n] = "off"
=============================================================================

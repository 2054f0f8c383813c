----------------------------- MODULE WampClient -----------------------------
(***************************************************************************)
(* One Client with its program, its message listener, its router and the   *)
(* connection between them: the composition of ClientOps, MessageListener  *)
(* and Router, and the properties of the whole.                            *)
(***************************************************************************)
EXTENDS MessageListener, ClientOps, Router

\* The type invariant, by the variables that actions change together.
StateType == state \in ClientState /\ broker \in BOOLEAN
LockType ==
    holder \in Contenders \cup {"none"} /\ waiter \in Contenders \cup {"none"}
SinkType ==
    sink \in {"open", "closed"} /\ unsent \in Seq(TxMessage) /\ toRouter \in Seq(TxMessage)
TrackType == tracked \in [Topics -> Ids] /\ streams \in [Reqs -> Stream]
BufferType ==
    /\ received \in SUBSET RxMessage
    /\ hasQueue \in SUBSET Topics /\ queue \in [Topics -> Seq(Counts)]
ListenType ==
    /\ lpc \in ListenerPCs /\ lmsg \in RxMessage \cup {NoMessage}
    /\ lstate \in ClientState /\ lreply \in {"ABORT", "GOODBYE"}
UserType ==
    /\ upc \in UserPCs /\ polled \in BOOLEAN /\ op \in Ops /\ outcome \in Outcomes
    /\ req \in Ids /\ asked \in [Ids -> SubIds] /\ closes \in 0 .. MaxClose
NetType ==
    /\ fromRouter \in Seq(RxMessage) /\ conn \in Connections /\ session \in Sessions
    /\ rsubs \in SUBSET Topics /\ sent \in [Topics -> Counts] /\ stalled \in BOOLEAN

TypeOK ==
    /\ StateType /\ LockType /\ SinkType /\ TrackType /\ stopListener \in BOOLEAN
    /\ BufferType /\ ListenType /\ UserType /\ NetType

Init ==
    /\ state = "Establishing" /\ broker = FALSE
    /\ holder = "none" /\ waiter = "none"
    /\ sink = "open" /\ unsent = <<>> /\ toRouter = <<>>
    /\ tracked = [t \in Topics |-> 0] /\ streams = [r \in Reqs |-> NoStream]
    /\ stopListener = FALSE
    /\ received = {} /\ hasQueue = {} /\ queue = [t \in Topics |-> <<>>]
    /\ lpc = "none" /\ lmsg = NoMessage /\ lstate = "Establishing" /\ lreply = "ABORT"
    /\ upc = "new" /\ polled = FALSE /\ op = "new" /\ outcome = "none"
    /\ req = 0 /\ asked = [i \in Ids |-> NoTopic] /\ closes = 0
    /\ fromRouter = <<>> /\ conn = "up" /\ session = "none"
    /\ rsubs = {} /\ sent = [t \in Topics |-> 0] /\ stalled = FALSE

Next ==
    \/ UserStep \/ UserChoice
    \/ \E r \in Reqs : StreamStep(r)
    \/ ListenerStep \/ LStop
    \/ RouterAnswer \/ EnvironmentChoice

Spec == Init /\ [][Next]_vars

\* tokio polls every task that was woken (PollableValue and PollableSet show that
\* none is forgotten), the reader of a stream polls it, and a router answers what it
\* was sent. The program need not call anything, and the connection need not fail.
Fairness ==
    /\ WF_vars(UserStep)
    /\ WF_vars(ListenerStep) /\ WF_vars(LStop)
    /\ \A r \in Reqs : WF_vars(StreamStep(r))
    /\ WF_vars(RouterAnswer)

FairSpec == Spec /\ Fairness

-----------------------------------------------------------------------------
\* The sender lock is never leaked and its queue never stuck: whoever holds it, or
\* waits for it, is at the point of the code that goes on to release it, also after
\* futures were dropped and the listener stopped at an await (the guards of
\* message_listener.rs:89-104, ops/*.rs and client/mod.rs:398).
LockInv ==
    /\ holder = "user" \/ waiter = "user" <=> upc \in {"send", "flush", "close"}
    /\ holder = "listener" \/ waiter = "listener" <=> lpc \in {"send", "close"}
    /\ waiter # "none" => holder \notin {"none", waiter}

\* What the listener has yet to judge, oldest first.
Coming == IF lpc = "process" THEN <<lmsg>> \o fromRouter ELSE fromRouter

Arriving == {Coming[i] : i \in 1 .. Len(Coming)}

\* The events of a topic on their way: their numbers, and that they come in order.
IsEvent(m, t) == m.type = "EVENT" /\ m.sub = t
InFlight == [t \in Topics |-> {n \in Counts : \E m \in Arriving : IsEvent(m, t) /\ m.n = n}]
ComeInOrder(t) ==
    \A i, j \in 1 .. Len(Coming) :
        i < j /\ IsEvent(Coming[i], t) /\ IsEvent(Coming[j], t) => Coming[i].n < Coming[j].n

\* The listener goes on reading an established session.
SessionLasts == state = "Established" /\ conn = "up" /\ lpc \in {"recv", "process"}

\* While the session lasts, a stream that was not told to stop yields every event of
\* its topic once and in order: what it has yielded, what waits in its queue and what
\* is on the way leave no gap up to the last event the broker sent
\* (client/mod.rs:319-321, message_listener.rs:323-338, ops/subscribe.rs:88-94).
NoEventLost ==
    \A r \in Reqs :
        LET s == streams[r]
            q == queue[s.sub]
        IN  s.status = "live" /\ ~s.stop /\ SessionLasts
                => /\ q = [i \in 1 .. Len(q) |-> s.last + i]
                   /\ InFlight[s.sub] = s.last + Len(q) + 1 .. sent[s.sub]
                   /\ ComeInOrder(s.sub)

\* A stream that was not told to stop is backed by a subscription at the broker as
\* long as the session lasts: replies to cancelled calls, refusals and the ends of
\* other streams never leave it waiting for events that cannot come
\* (ops/unsubscribe.rs:71-90, ops/subscribe.rs:77-105).
StreamBacked ==
    \A r \in Reqs :
        streams[r].status = "live" /\ ~streams[r].stop /\ session = "joined"
            => streams[r].sub \in rsubs \cap hasQueue

\* Every stream that was not told to stop can still be: the tracker holds its stop
\* sender, so that an ABORT, a GOODBYE, close and drop reach it; subscribing again or
\* unsubscribing never leaves a stream behind that nobody can end
\* (client/mod.rs:134-159, ops/subscribe.rs:80-94, ops/unsubscribe.rs:73-78).
StreamsCanBeStopped ==
    \A r \in Reqs : streams[r].status = "live" /\ ~streams[r].stop
                       => \E t \in Topics : tracked[t] = r

\* A subscribe call returns the stream it asked for, though earlier calls were
\* cancelled and left their replies in the buffer (the predicates of
\* ops/subscribe.rs:62-73).
StreamMatchesRequest ==
    \A r \in Reqs : streams[r].status # "none" => streams[r].sub = asked[r]

-----------------------------------------------------------------------------
\* TransportClosed is only written once the transport's sink is closed: "We're
\* completely done; the transport is closed" (client/mod.rs:56).
TransportClosedMeansClosed == state = "TransportClosed" => sink = "closed"

\* close returns success only if the router said GOODBYE in this session: no other end of
\* it, an ABORT of either side, garbage or a broken connection, is taken for the
\* acknowledgement, though the watch lets Closed pass
\* (client/mod.rs:380-382, ops/close.rs:54, 64-66).
CloseOkMeansGoodbye ==
    op = "close" /\ outcome = "ok" => session \in {"closing", "left"}

\* As long as the state says Established, somebody reads the connection: no path out
\* of the listener leaves the state behind, unless the client is being dropped or the
\* stream ended without an error (message_listener.rs:48-152).
EstablishedHasListener ==
    state = "Established" /\ op # "drop" /\ conn # "end" => lpc \in ListenerRunning

-----------------------------------------------------------------------------
(* What the client promises, as specifications of their own.               *)
Began(r) == streams[r].status \notin {"none", "made"}

Promise == INSTANCE EventStreams WITH
    open  <- {r \in Reqs : streams[r].status = "live"},
    over  <- {r \in Reqs : Began(r) /\ streams[r].status # "live"},
    topic <- [r \in Reqs |-> IF Began(r) THEN streams[r].sub ELSE NoTopic],
    last  <- [r \in Reqs |-> IF Began(r) THEN streams[r].last ELSE 0]

\* From the listener's buffer to the program, and whatever ends the session, requests or
\* streams on the way, a stream never skips, repeats or reorders events
\* (client/mod.rs:316-326; message_listener.rs:323-338, ops/subscribe.rs:133-170).
ImplementsEventStreams == Promise!Spec

\* However often a program subscribes to a topic, no event of it reaches the program twice,
\* or behind one that came later, through whichever of its streams: the newest queue
\* replaces the others, and what was sent before a SUBSCRIBED is not heard through it
\* (message_listener.rs:323-338, ops/subscribe.rs:77-105, 133-170).
NeverTwiceNorLate ==
    [][\A r, s \in Reqs :
          /\ streams[r].status = "live" /\ streams'[r].last # streams[r].last
          /\ Began(s) /\ streams[s].sub = streams[r].sub
          => streams'[r].last > streams[s].last]_vars

ListenerProgress ==
    CASE lpc \in ListenerDone -> "over"
      [] lpc \in {"stop", "lockSend", "send", "lockClose", "close", "final"} -> "ended"
      [] OTHER -> IF state = "Establishing" THEN "joining" ELSE "open"

Lifecycle == INSTANCE SessionLifecycle WITH
    listener <- ListenerProgress, closing <- op = "close" /\ upc # "idle"

\* However the listener and the calls race for the state, it is written as the comments
\* on ClientState tell (client/mod.rs:35-57): a session opens once and before everything
\* else, ends once on the router's side, and only a close under way or the listener
\* that ended it writes TransportClosed.
ImplementsLifecycle == Lifecycle!Spec

-----------------------------------------------------------------------------
\* Every request resolves, with whatever outcome, as long as the router answers and
\* the stream does not just end: no reply, state change or lock is missed
\* (client/mod.rs:326-335 and the select of ops/{subscribe,unsubscribe,publish}.rs).
RequestsResolve ==
    upc # "gone" /\ op \in {"new", "subscribe", "unsubscribe", "publish"}
        ~> upc \in {"idle", "gone"}

\* So does close (client/mod.rs:380-382).
CloseResolves == op = "close" /\ upc # "idle" ~> upc = "idle"

\* A broken connection is reported: the client ends up TransportClosed, unless it is
\* dropped first (message_listener.rs:73-83, client/mod.rs:409-416).
ResetReported == conn = "reset" /\ lpc \in ListenerRunning
                     ~> state = "TransportClosed" \/ op = "drop"

\* Dropping the client ends its listener and every stream it made, wherever they are
\* (client/mod.rs:418-422).
DropStopsAll ==
    op = "drop" /\ upc = "gone"
        ~> /\ lpc \in ListenerDone
           /\ \A r \in Reqs : streams[r].status # "live"

\* An event that was sent to the topic of a live stream reaches the program: the stream
\* yields it, unless it ends first, or the session does (client/mod.rs:316-326 and the
\* wakers of SubscriptionStreamImpl::poll_next).
EventsDelivered ==
    \A r \in Reqs, n \in 1 .. MaxEvents :
        streams[r].status = "live" /\ streams[r].last < n /\ n <= sent[streams[r].sub]
            ~> streams[r].last >= n \/ streams[r].status # "live" \/ state # "Established"

\* A new that fails returns no client, so that nobody can stop what it started: the
\* listener ends by itself and closes the transport (ops/initialize.rs:66-89,
\* message_listener.rs:73-143).
FailedNewLeavesNothing ==
    op = "new" /\ outcome = "failed" /\ lpc # "none" ~> lpc = "closed" /\ sink = "closed"

\* A new that is cancelled leaves a listener that no handle can stop. The router or the
\* network still ends it, with its half of the transport, as long as the connection
\* takes what it has to send (ops/initialize.rs:66-89, message_listener.rs:73-143).
OrphanedListenerEnds ==
    op = "new" /\ outcome = "cancelled" /\ lpc \in ListenerRunning
        /\ (conn = "reset" \/ session = "closing" \/ SessionOver)
        ~> (lpc = "closed" /\ sink = "closed") \/ stalled

\* The end of the session frees the call that watches it, even while the connection
\* takes no bytes and the call holds the sender lock
\* (client/mod.rs:81-100; the listener needs that lock to go on).
StateChangeFreesRequests ==
    op # "close" /\ upc \in SelectPCs /\ state # "Established" ~> upc \notin SelectPCs

-----------------------------------------------------------------------------
(* What the repository's comments and tests say, and the code does not do. *)
\* Failed means that the router broke the protocol: "received anything other than a
\* WELCOME while waiting for a WELCOME, or received HELLO or AUTHENTICATE while
\* Established" (client/mod.rs:41-42). A well-behaved router never causes it.
FailedOnlyByMisbehaviour == state = "Failed" => "garbage" \in RouterMay

\* "If the router does not acknowledge the subscription within the client timeout
\* period, the returned future will resolve with an error" (client/mod.rs:334-335).
SubscribeResolves == op = "subscribe" /\ upc \in SelectPCs ~> upc \notin SelectPCs

\* On ABORT the listener stops all tasks (message_listener.rs:74-75), so that every
\* stream ends.
AbortEndsStreams == lpc = "closed" ~> \A r \in Reqs : streams[r].status # "live"
=============================================================================

---------------------------- MODULE ClientShared ----------------------------
(***************************************************************************)
(* What the tasks of one wamp-proto Client share, and the operations on    *)
(* it: the client's state, the sender and its lock, the task tracker, the  *)
(* message buffer and the connection. MessageListener, ClientOps and       *)
(* Router hold the actions, WampClient composes them.                      *)
(*                                                                         *)
(* A subscription id is the topic itself: a WAMP broker gives every        *)
(* subscription of one session to one topic the same id. A stream is named *)
(* by the request id of the subscribe call that made it.                   *)
(***************************************************************************)
EXTENDS Integers, Sequences, FiniteSets

CONSTANTS
    Topics,      \* the topics, and the broker's subscription ids
    NoTopic,     \* the topic of a request that has none
    MaxReq,      \* bound: session-scope ids the client gives out
    MaxEvents,   \* bound: EVENTs the router sends per topic
    MaxClose,    \* bound: calls of close
    UserMay,     \* what the program that owns the client does in this instance
    RouterMay    \* what the router and the network do besides answering

ASSUME ClientAssumption ==
    /\ NoTopic \notin Topics
    /\ MaxReq \in Nat /\ MaxEvents \in Nat /\ MaxClose \in Nat

VARIABLES
    state,       \* Client.state, without Established's fields
    broker,      \* router_capabilities.broker, valid while Established
    holder,      \* who holds the tokio mutex around the sender ...
    waiter,      \* ... and who is queued for it
    sink,        \* the transport's sink: "open" or "closed"
    unsent,      \* the sink's slot: a message start_send took, flush did not
    tracked,     \* subscriptions: the stream whose stop sender is kept, or 0
    streams,     \* the SubscriptionStreamImpl made by each subscribe call
    stopListener,\* the message listener's stop signal was sent
    received,    \* MessageBuffer without the events
    hasQueue,    \* the keys of MessageBuffer.event ...
    queue,       \* ... and its queues (<<>> for a topic without one)
    lpc, lmsg, lstate, lreply,                      \* MessageListener
    upc, polled, op, outcome, req, asked, closes,   \* ClientOps
    toRouter, fromRouter, conn, session, rsubs, sent, stalled  \* Router

stateVars  == <<state, broker>>
lockVars   == <<holder, waiter>>
sinkVars   == <<sink, unsent, toRouter>>
trackVars  == <<tracked, streams>>
bufferVars == <<received, hasQueue, queue>>
listenVars == <<lpc, lmsg, lstate, lreply>>
userVars   == <<upc, polled, op, outcome, req, asked, closes>>
netVars    == <<fromRouter, conn, session, rsubs, sent, stalled>>

vars == <<stateVars, lockVars, sinkVars, trackVars, stopListener, bufferVars,
          listenVars, userVars, netVars>>

-----------------------------------------------------------------------------
Reqs == 1 .. MaxReq
Ids == 0 .. MaxReq      \* 0: none
SubIds == Topics \cup {NoTopic}
Counts == 0 .. MaxEvents

ClientState == {"Closed", "Establishing", "Failed", "Established",
                "ShuttingDown", "Closing", "TransportClosed"}

\* What the client sends. Payloads, URIs and options are left out.
TxMessage ==
         [type : {"HELLO", "PUBLISH", "GOODBYE", "ABORT"}]
    \cup [type : {"SUBSCRIBE", "UNSUBSCRIBE"}, req : Reqs, topic : Topics]

\* What the stream yields: a message, a NetworkError ("RESET") or a ParseError
\* ("GARBAGE"). n numbers the events of a topic; SUBSCRIBED carries the number of
\* those that went before it, which no client sees and the properties use.
RxMessage ==
         [type : {"WELCOME"}, broker : BOOLEAN]
    \cup [type : {"ABORT", "GOODBYE", "RESET", "GARBAGE"}]
    \cup [type : {"SUBSCRIBED"}, req : Reqs, sub : Topics, n : Counts]
    \cup [type : {"UNSUBSCRIBED"}, req : Reqs]
    \cup [type : {"ERROR"}, to : {"SUBSCRIBE", "UNSUBSCRIBE"}, req : Reqs]
    \cup [type : {"EVENT"}, sub : Topics, n : Counts]

NoMessage == [type |-> "none"]
Goodbye == [type |-> "GOODBYE"]

\* status: "made" until subscribe returns it, "live" while the user polls it, "ended"
\* once it returned None, "gone" once dropped. stop: its stop receiver is ready. last: the last event it yielded.
Stream == [status : {"none", "made", "live", "ended", "gone"}, stop : BOOLEAN,
           sub : SubIds, last : Counts]
NoStream == [status |-> "none", stop |-> FALSE, sub |-> NoTopic, last |-> 0]

-----------------------------------------------------------------------------
(* The sender's mutex: fair, and only ever contended by these two.         *)
Contenders == {"user", "listener"}

Request(who) ==
    IF holder = "none" THEN holder' = who /\ UNCHANGED waiter
                       ELSE waiter' = who /\ UNCHANGED holder

Release == holder' = waiter /\ waiter' = "none"

\* The future that holds or waits for the lock is dropped.
Forget(who) ==
    \/ holder = who /\ Release
    \/ /\ holder # who
       /\ waiter' = IF waiter = who THEN "none" ELSE waiter
       /\ UNCHANGED holder

-----------------------------------------------------------------------------
(* The sink. A flush waits while the connection takes no more bytes; a     *)
(* message written to a dead connection is lost or refused.                *)
CanFlush == ~stalled \/ conn # "up"
CanStartSend == unsent = <<>> \/ CanFlush \/ sink = "closed"
SinkMayFail == sink = "closed" \/ conn # "up"

StartSend(m) ==
    /\ sink = "open"
    /\ unsent' = <<m>>
    /\ toRouter' = toRouter \o unsent
    /\ UNCHANGED sink

Flush ==
    /\ unsent' = <<>>
    /\ toRouter' = toRouter \o unsent
    /\ UNCHANGED sink

CloseSink == sink' = "closed" /\ unsent' = <<>> /\ toRouter' = toRouter \o unsent

-----------------------------------------------------------------------------
(* The task tracker. *)
Stopped(rs) == [r \in Reqs |-> IF r \in rs THEN [streams[r] EXCEPT !.stop = TRUE]
                                           ELSE streams[r]]

\* stop_all_except_message_listener
StopAll ==
    /\ streams' = Stopped({tracked[t] : t \in Topics})
    /\ tracked' = [t \in Topics |-> 0]
=============================================================================

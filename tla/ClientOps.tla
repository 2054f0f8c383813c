----------------------------- MODULE ClientOps -----------------------------
(***************************************************************************)
(* The calls of the program that owns a Client (src/src/client/mod.rs and  *)
(* src/src/client/ops/): new, subscribe, unsubscribe, publish, close,      *)
(* wait_for_close, drop, and the polls of its subscription streams.        *)
(*                                                                         *)
(* Every call borrows the client, so one runs at a time. subscribe,        *)
(* unsubscribe, publish and the first part of close are select(watch,      *)
(* impl): each poll looks at the client's state first, then runs impl      *)
(* until it has to wait. polled says that such a poll is under way; a      *)
(* future is dropped (cancelled) only between two polls.                   *)
(***************************************************************************)
EXTENDS ClientShared

SelectPCs == {"acquire", "send", "reacquire", "flush", "reply", "ack"}
UserPCs == SelectPCs \cup
    {"new", "joining", "idle", "waiting", "gone",
     "addQueue", "track", "rmQueue", "untrack",
     "stopSubs", "stopAgain", "acquireClose", "close", "writeClosed",
     "dropStop", "dropListener", "dropCheck"}
Ops == {"new", "subscribe", "unsubscribe", "publish", "close", "wait", "drop"}
Outcomes == {"none", "ok", "failed", "rejected", "cancelled", "panicked"}

\* Everything the calls do not share.
EnvUnchanged == UNCHANGED <<listenVars, netVars>>

Go(pc) == upc' = pc /\ UNCHANGED <<op, outcome, req, asked, closes>>

\* The call returns. A failed new leaves no client behind.
Return(o) ==
    /\ upc' = IF op = "new" /\ o # "ok" THEN "gone" ELSE "idle"
    /\ outcome' = o /\ polled' = FALSE
    /\ UNCHANGED <<op, req, asked, closes>>

-----------------------------------------------------------------------------
(* Client::new: HELLO is sent before the sink is shared, then the listener *)
(* is spawned; it alone moves the state away from Establishing.            *)
UHello ==
    /\ upc = "new"
    /\ \/ /\ CanFlush
          /\ toRouter' = Append(toRouter, [type |-> "HELLO"])
          /\ lpc' = "recv"
          /\ Go("joining") /\ UNCHANGED polled
       \/ /\ SinkMayFail
          /\ Return("failed")
          /\ UNCHANGED <<toRouter, lpc>>
    /\ UNCHANGED <<sink, unsent, lmsg, lstate, lreply, stateVars, lockVars, trackVars,
                   stopListener, bufferVars, netVars>>

\* A new that returns the client as soon as HELLO is sent.
JoinAtOnce ==
    /\ upc = "joining"
    /\ Return("ok")
    /\ UNCHANGED <<stateVars, lockVars, sinkVars, trackVars, stopListener, bufferVars>>
    /\ EnvUnchanged

UJoined ==
    /\ upc = "joining" /\ state # "Establishing"
    /\ Return(IF state = "Established" THEN "ok" ELSE "failed")
    /\ UNCHANGED <<stateVars, lockVars, sinkVars, trackVars, stopListener, bufferVars>>
    /\ EnvUnchanged

-----------------------------------------------------------------------------
(* The calls begin: the state and the router's capabilities are checked.   *)
Accepts == state = "Established" /\ broker

Begin(o) == upc = "idle" /\ o \in UserMay /\ op' = o /\ polled' = FALSE

\* A call that does not remember what it asks for.
BeginWithoutTopic(topic) ==
    /\ req < MaxReq
    /\ IF Accepts
       THEN /\ upc' = "acquire" /\ outcome' = "none"
            /\ req' = req + 1
       ELSE upc' = "idle" /\ outcome' = "rejected" /\ UNCHANGED req
    /\ UNCHANGED <<asked, closes>>

\* A call that takes an id only if none was taken before.
ReuseId(topic) ==
    /\ req < MaxReq
    /\ IF Accepts
       THEN /\ upc' = "acquire" /\ outcome' = "none"
            /\ req' = (IF req = 0 THEN 1 ELSE req)
            /\ asked' = [asked EXCEPT ![req'] = topic]
       ELSE upc' = "idle" /\ outcome' = "rejected" /\ UNCHANGED <<req, asked>>
    /\ UNCHANGED closes

\* The call takes the next session-scope id, or is refused at once.
BeginRequest(topic) ==
    /\ req < MaxReq
    /\ IF Accepts
       THEN /\ upc' = "acquire" /\ outcome' = "none"
            /\ req' = req + 1
            /\ asked' = [asked EXCEPT ![req + 1] = topic]
       ELSE upc' = "idle" /\ outcome' = "rejected" /\ UNCHANGED <<req, asked>>
    /\ UNCHANGED closes

\* Unless it may resubscribe, the program keeps to topics it has no queue for.
UBeginSubscribe(t) ==
    /\ Begin("subscribe")
    /\ "resubscribe" \in UserMay \/ t \notin hasQueue
    /\ BeginRequest(t)
    /\ UNCHANGED <<stateVars, lockVars, sinkVars, trackVars, stopListener, bufferVars>>
    /\ EnvUnchanged

\* An unsubscribe that borrows the stream, and leaves it with the program.
BorrowingUnsubscribe(r) ==
    /\ Begin("unsubscribe")
    /\ streams[r].status \in {"live", "ended"}
    /\ BeginRequest(streams[r].sub)
    /\ UNCHANGED <<stateVars, lockVars, sinkVars, trackVars, stopListener, bufferVars>>
    /\ EnvUnchanged

\* The stream is moved into the call: it is gone whatever comes of it.
UBeginUnsubscribe(r) ==
    /\ Begin("unsubscribe")
    /\ streams[r].status \in {"live", "ended"}
    /\ BeginRequest(streams[r].sub)
    /\ streams' = [streams EXCEPT ![r].status = "gone"]
    /\ UNCHANGED <<stateVars, lockVars, sinkVars, tracked, stopListener, bufferVars>>
    /\ EnvUnchanged

UBeginPublish ==
    /\ Begin("publish") /\ req < MaxReq
    /\ upc' = (IF Accepts THEN "acquire" ELSE "idle")
    /\ outcome' = (IF Accepts THEN "none" ELSE "rejected")
    /\ UNCHANGED <<req, asked, closes>>
    /\ UNCHANGED <<stateVars, lockVars, sinkVars, trackVars, stopListener, bufferVars>>
    /\ EnvUnchanged

\* close asks for no state: it writes ShuttingDown over whatever there is.
UBeginClose ==
    /\ Begin("close") /\ closes < MaxClose
    /\ state' = "ShuttingDown"
    /\ upc' = "stopSubs" /\ outcome' = "none" /\ closes' = closes + 1
    /\ UNCHANGED <<req, asked, broker>>
    /\ UNCHANGED <<lockVars, sinkVars, trackVars, stopListener, bufferVars>>
    /\ EnvUnchanged

UStopAll ==
    /\ \/ upc = "stopSubs" /\ Go("acquire")
       \/ upc = "stopAgain" /\ Go("acquireClose")
    /\ StopAll
    /\ UNCHANGED <<polled, stateVars, lockVars, sinkVars, stopListener, bufferVars>>
    /\ EnvUnchanged

-----------------------------------------------------------------------------
(* Polls of select(watch, impl).                                           *)
\* A watch that lets the end of the session pass.
WatchedLoosely == IF op = "close" THEN {"ShuttingDown", "Closed", "TransportClosed"}
                                  ELSE {"Established", "Closed"}

\* The states the watch lets pass.
Watched == IF op = "close" THEN {"ShuttingDown", "Closed"} ELSE {"Established"}

\* A call that takes any reply to a call of its kind.
AnyReply ==
    {m \in received :
        \/ m.type = "SUBSCRIBED" /\ op = "subscribe"
        \/ m.type = "UNSUBSCRIBED" /\ op = "unsubscribe"
        \/ m.type = "ERROR" /\ m.to = "SUBSCRIBE" /\ op = "subscribe"
        \/ m.type = "ERROR" /\ m.to = "UNSUBSCRIBE" /\ op = "unsubscribe"}

\* The replies in the buffer that answer the request under way.
Replies ==
    {m \in received :
        /\ m.type \in {"SUBSCRIBED", "UNSUBSCRIBED", "ERROR"} /\ m.req = req
        /\ \/ m.type = "SUBSCRIBED" /\ op = "subscribe"
           \/ m.type = "UNSUBSCRIBED" /\ op = "unsubscribe"
           \/ m.type = "ERROR" /\ m.to = "SUBSCRIBE" /\ op = "subscribe"
           \/ m.type = "ERROR" /\ m.to = "UNSUBSCRIBE" /\ op = "unsubscribe"}

\* Whether impl can go on from where it is.
ImplReady ==
    \/ upc \in {"acquire", "reacquire"}
    \/ upc = "send" /\ holder = "user" /\ CanStartSend
    \/ upc = "flush" /\ holder = "user" /\ (CanFlush \/ sink = "closed")
    \/ upc = "reply" /\ Replies # {}
    \/ upc = "ack" /\ Goodbye \in received

\* A poll that gets past the watch. One that would end where it began is left out.
UPoll ==
    /\ upc \in SelectPCs /\ ~polled
    /\ state \in Watched /\ ImplReady
    /\ polled' = TRUE
    /\ UNCHANGED <<upc, op, outcome, req, asked, closes, stateVars, lockVars, sinkVars,
                   trackVars, stopListener, bufferVars>>
    /\ EnvUnchanged

\* The watch completes first: impl is dropped, with the lock or its place in line.
UWatchFails ==
    /\ upc \in SelectPCs /\ ~polled
    /\ state \notin Watched
    /\ Forget("user")
    /\ Return("failed")
    /\ UNCHANGED <<stateVars, sinkVars, trackVars, stopListener, bufferVars>>
    /\ EnvUnchanged

UPend ==
    /\ upc \in SelectPCs /\ polled /\ ~ImplReady
    /\ polled' = FALSE
    /\ UNCHANGED <<upc, op, outcome, req, asked, closes, stateVars, lockVars, sinkVars,
                   trackVars, stopListener, bufferVars>>
    /\ EnvUnchanged

-----------------------------------------------------------------------------
(* impl: lock, start_send, unlock; lock, flush, unlock; wait for the reply. *)
URequest ==
    /\ \/ upc = "acquire" /\ polled /\ Go("send")
       \/ upc = "reacquire" /\ polled /\ Go("flush")
       \/ upc = "acquireClose" /\ Go("close")
    /\ Request("user")
    /\ UNCHANGED <<polled, stateVars, sinkVars, trackVars, stopListener, bufferVars>>
    /\ EnvUnchanged

Outgoing ==
    CASE op = "subscribe"   -> [type |-> "SUBSCRIBE", req |-> req, topic |-> asked[req]]
      [] op = "unsubscribe" -> [type |-> "UNSUBSCRIBE", req |-> req, topic |-> asked[req]]
      [] op = "publish"     -> [type |-> "PUBLISH"]
      [] OTHER              -> Goodbye

\* A call that keeps the guard on the sender from start_send to flush.
SendKeepingLock ==
    /\ upc = "send" /\ polled /\ holder = "user" /\ CanStartSend
    /\ StartSend(Outgoing)
    /\ upc' = "reacquire"
    /\ req' = IF op = "publish" THEN req + 1 ELSE req
    /\ UNCHANGED <<polled, op, outcome, asked, closes, stateVars, lockVars, trackVars,
                   stopListener, bufferVars>>
    /\ EnvUnchanged

\* publish takes its id here. (Its request is never answered.)
USend ==
    /\ upc = "send" /\ polled /\ holder = "user" /\ CanStartSend
    /\ Release
    /\ StartSend(Outgoing)
    /\ upc' = "reacquire"
    /\ req' = IF op = "publish" THEN req + 1 ELSE req
    /\ UNCHANGED <<polled, op, outcome, asked, closes, stateVars, trackVars, stopListener,
                   bufferVars>>
    /\ EnvUnchanged

\* A close that does not wait for the router's GOODBYE.
FlushAndGo ==
    /\ upc = "flush" /\ polled /\ holder = "user" /\ CanFlush
    /\ Release
    /\ Flush
    /\ CASE op = "publish" -> Return("ok")
         [] op = "close"   -> Go("stopAgain") /\ polled' = FALSE
         [] OTHER          -> Go("reply") /\ UNCHANGED polled
    /\ UNCHANGED <<stateVars, trackVars, stopListener, bufferVars>>
    /\ EnvUnchanged

UFlush ==
    /\ upc = "flush" /\ polled /\ holder = "user" /\ CanFlush
    /\ Release
    /\ Flush
    /\ CASE op = "publish" -> Return("ok")
         [] op = "close"   -> Go("ack") /\ UNCHANGED polled
         [] OTHER          -> Go("reply") /\ UNCHANGED polled
    /\ UNCHANGED <<stateVars, trackVars, stopListener, bufferVars>>
    /\ EnvUnchanged

\* The sink is closed or the connection dead, and says so.
USinkFails ==
    /\ upc \in {"send", "flush"} /\ polled /\ holder = "user" /\ SinkMayFail
    /\ Release
    /\ Return("failed")
    /\ UNCHANGED <<stateVars, sinkVars, trackVars, stopListener, bufferVars>>
    /\ EnvUnchanged

-----------------------------------------------------------------------------
\* The reply is taken from the buffer. SUBSCRIBED makes the stream.
UReply ==
    /\ upc = "reply" /\ polled
    /\ \E m \in Replies :
          /\ received' = received \ {m}
          /\ \/ m.type = "SUBSCRIBED" /\ Go("addQueue") /\ UNCHANGED polled
             \/ m.type = "UNSUBSCRIBED" /\ Go("rmQueue") /\ UNCHANGED polled
             \/ m.type = "ERROR" /\ Return("failed")
          /\ streams' = IF m.type = "SUBSCRIBED"
                        THEN [streams EXCEPT ![req] = [status |-> "made", stop |-> FALSE,
                                                       sub |-> m.sub, last |-> m.n]]
                        ELSE streams
    /\ UNCHANGED <<stateVars, lockVars, sinkVars, tracked, stopListener, hasQueue, queue>>
    /\ EnvUnchanged

\* A queue that the subscription id has is kept.
AddQueueIfNone ==
    /\ upc = "addQueue" /\ Go("track")
    /\ hasQueue' = hasQueue \cup {streams[req].sub}
    /\ queue' = IF streams[req].sub \in hasQueue
                THEN queue ELSE [queue EXCEPT ![streams[req].sub] = <<>>]
    /\ UNCHANGED <<polled, stateVars, lockVars, sinkVars, trackVars, stopListener, received>>
    /\ EnvUnchanged

\* A new queue replaces the one the subscription id had.
UAddQueue ==
    /\ upc = "addQueue" /\ Go("track")
    /\ hasQueue' = hasQueue \cup {streams[req].sub}
    /\ queue' = [queue EXCEPT ![streams[req].sub] = <<>>]
    /\ UNCHANGED <<polled, stateVars, lockVars, sinkVars, trackVars, stopListener, received>>
    /\ EnvUnchanged

\* A tracker that keeps the sender it has.
TrackFirst ==
    /\ upc = "track" /\ Return("ok")
    /\ streams' = [streams EXCEPT ![req].status = "live"]
    /\ tracked' = IF tracked[streams[req].sub] = 0
                  THEN [tracked EXCEPT ![streams[req].sub] = req] ELSE tracked
    /\ UNCHANGED <<stateVars, lockVars, sinkVars, stopListener, bufferVars>>
    /\ EnvUnchanged

\* track_subscription. The stop sender that it replaces is dropped, which ends the
\* stream at the other end.
UTrack ==
    /\ upc = "track" /\ Return("ok")
    /\ streams' = [Stopped({tracked[streams[req].sub]} \ {req})
                      EXCEPT ![req].status = "live"]
    /\ tracked' = [tracked EXCEPT ![streams[req].sub] = req]
    /\ UNCHANGED <<stateVars, lockVars, sinkVars, stopListener, bufferVars>>
    /\ EnvUnchanged

URemoveQueue ==
    /\ upc = "rmQueue" /\ Go("untrack")
    /\ hasQueue' = hasQueue \ {asked[req]}
    /\ queue' = [queue EXCEPT ![asked[req]] = <<>>]
    /\ UNCHANGED <<polled, stateVars, lockVars, sinkVars, trackVars, stopListener, received>>
    /\ EnvUnchanged

\* stop_subscription
UUntrack ==
    /\ upc = "untrack" /\ Return("ok")
    /\ streams' = Stopped({tracked[asked[req]]})
    /\ tracked' = [tracked EXCEPT ![asked[req]] = 0]
    /\ UNCHANGED <<stateVars, lockVars, sinkVars, stopListener, bufferVars>>
    /\ EnvUnchanged

-----------------------------------------------------------------------------
(* close, from the router's GOODBYE on. Nothing watches the state here.    *)
\* A close to which a session that is Closed is as good as an acknowledged one.
AckAnyEnd ==
    /\ upc = "ack" /\ polled /\ (Goodbye \in received \/ state = "Closed")
    /\ received' = received \ {Goodbye}
    /\ upc' = "stopAgain" /\ polled' = FALSE
    /\ UNCHANGED <<op, outcome, req, asked, closes, stateVars, lockVars, sinkVars,
                   trackVars, stopListener, hasQueue, queue>>
    /\ EnvUnchanged

UAck ==
    /\ upc = "ack" /\ polled /\ Goodbye \in received
    /\ received' = received \ {Goodbye}
    /\ upc' = "stopAgain" /\ polled' = FALSE
    /\ UNCHANGED <<op, outcome, req, asked, closes, stateVars, lockVars, sinkVars,
                   trackVars, stopListener, hasQueue, queue>>
    /\ EnvUnchanged

UClose ==
    /\ upc = "close" /\ holder = "user" /\ (CanFlush \/ sink = "closed")
    /\ Release
    /\ CloseSink
    /\ \/ Go("writeClosed") /\ UNCHANGED polled
       \/ SinkMayFail /\ Return("failed")
    /\ UNCHANGED <<stateVars, trackVars, stopListener, bufferVars>>
    /\ EnvUnchanged

UWriteClosed ==
    /\ upc = "writeClosed" /\ Return("ok")
    /\ state' = "TransportClosed"
    /\ UNCHANGED <<broker, lockVars, sinkVars, trackVars, stopListener, bufferVars>>
    /\ EnvUnchanged

-----------------------------------------------------------------------------
(* wait_for_close, and dropping a future where it waits.                   *)
UBeginWait ==
    /\ Begin("wait")
    /\ upc' = "waiting" /\ outcome' = "none" /\ UNCHANGED <<req, asked, closes>>
    /\ UNCHANGED <<stateVars, lockVars, sinkVars, trackVars, stopListener, bufferVars>>
    /\ EnvUnchanged

UWaited ==
    /\ upc = "waiting" /\ state = "TransportClosed" /\ Return("ok")
    /\ UNCHANGED <<stateVars, lockVars, sinkVars, trackVars, stopListener, bufferVars>>
    /\ EnvUnchanged

UCancel ==
    /\ "cancel" \in UserMay /\ ~polled
    /\ upc \in {"new", "joining", "send", "flush", "reply", "ack", "close", "waiting"}
    /\ Forget("user")
    /\ Return("cancelled")
    /\ UNCHANGED <<stateVars, sinkVars, trackVars, stopListener, bufferVars>>
    /\ EnvUnchanged

-----------------------------------------------------------------------------
(* Drop for Client: stop everything, then look at the state.               *)
UBeginDrop ==
    /\ Begin("drop")
    /\ upc' = "dropStop" /\ outcome' = "none" /\ UNCHANGED <<req, asked, closes>>
    /\ UNCHANGED <<stateVars, lockVars, sinkVars, trackVars, stopListener, bufferVars>>
    /\ EnvUnchanged

UDropStop ==
    /\ upc = "dropStop" /\ Go("dropListener")
    /\ StopAll
    /\ UNCHANGED <<polled, stateVars, lockVars, sinkVars, stopListener, bufferVars>>
    /\ EnvUnchanged

\* A drop that leaves the listener to itself.
DropWithoutStop ==
    /\ upc = "dropListener" /\ Go("dropCheck")
    /\ UNCHANGED <<polled, stateVars, lockVars, sinkVars, trackVars, stopListener,
                   bufferVars>>
    /\ EnvUnchanged

UDropListener ==
    /\ upc = "dropListener" /\ Go("dropCheck")
    /\ stopListener' = TRUE
    /\ UNCHANGED <<polled, stateVars, lockVars, sinkVars, trackVars, bufferVars>>
    /\ EnvUnchanged

\* With panic_on_drop_while_open, as ClientConfig::new sets it.
UDropCheck ==
    /\ upc = "dropCheck"
    /\ upc' = "gone" /\ polled' = FALSE
    /\ outcome' = IF state = "TransportClosed" THEN "ok" ELSE "panicked"
    /\ UNCHANGED <<op, req, asked, closes, stateVars, lockVars, sinkVars, trackVars,
                   stopListener, bufferVars>>
    /\ EnvUnchanged

-----------------------------------------------------------------------------
(* poll_next of a stream, by any task of the program: first the stop       *)
(* signal, then the queue; and the stream dropped without unsubscribing.   *)
StreamEnds(r) ==
    /\ streams[r].status = "live"
    /\ streams[r].stop \/ streams[r].sub \notin hasQueue
    /\ streams' = [streams EXCEPT ![r].status = "ended"]
    /\ UNCHANGED <<tracked, stateVars, lockVars, sinkVars, stopListener, bufferVars, userVars>>
    /\ EnvUnchanged

\* A stream that takes the event that was buffered last.
YieldNewest(r) ==
    LET q == queue[streams[r].sub] IN
    /\ streams[r].status = "live" /\ ~streams[r].stop
    /\ streams[r].sub \in hasQueue /\ q # <<>>
    /\ streams' = [streams EXCEPT ![r].last = q[Len(q)]]
    /\ queue' = [queue EXCEPT ![streams[r].sub] = SubSeq(q, 1, Len(q) - 1)]
    /\ UNCHANGED <<tracked, stateVars, lockVars, sinkVars, stopListener, received, hasQueue,
                   userVars>>
    /\ EnvUnchanged

StreamYields(r) ==
    LET q == queue[streams[r].sub] IN
    /\ streams[r].status = "live" /\ ~streams[r].stop
    /\ streams[r].sub \in hasQueue /\ q # <<>>
    /\ streams' = [streams EXCEPT ![r].last = Head(q)]
    /\ queue' = [queue EXCEPT ![streams[r].sub] = Tail(q)]
    /\ UNCHANGED <<tracked, stateVars, lockVars, sinkVars, stopListener, received, hasQueue,
                   userVars>>
    /\ EnvUnchanged

StreamDropped(r) ==
    /\ "dropStream" \in UserMay
    /\ streams[r].status \in {"live", "ended"}
    /\ streams' = [streams EXCEPT ![r].status = "gone"]
    /\ UNCHANGED <<tracked, stateVars, lockVars, sinkVars, stopListener, bufferVars, userVars>>
    /\ EnvUnchanged

\* What the runtime carries on once it is begun.
UserStep ==
    \/ UHello \/ UJoined \/ UStopAll \/ UPoll \/ UWatchFails \/ UPend \/ URequest
    \/ USend \/ UFlush \/ USinkFails \/ UReply \/ UAddQueue \/ UTrack
    \/ URemoveQueue \/ UUntrack \/ UAck \/ UClose \/ UWriteClosed \/ UWaited
    \/ UDropStop \/ UDropListener \/ UDropCheck

StreamStep(r) == StreamEnds(r) \/ StreamYields(r)

\* What the program begins, or gives up, as it pleases.
UserChoice ==
    \/ \E t \in Topics : UBeginSubscribe(t)
    \/ \E r \in Reqs : UBeginUnsubscribe(r) \/ StreamDropped(r)
    \/ UBeginPublish \/ UBeginClose \/ UBeginWait \/ UBeginDrop \/ UCancel
=============================================================================

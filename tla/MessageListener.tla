--------------------------- MODULE MessageListener ---------------------------
(***************************************************************************)
(* The message listener (src/src/client/message_listener.rs): the spawned  *)
(* task that reads the transport, fills the message buffer and answers     *)
(* what ends the session. It shares the client's state, the sender lock    *)
(* and the task tracker with the user's calls, so every step between two   *)
(* of their accesses is an action of its own.                              *)
(***************************************************************************)
EXTENDS ClientShared

ListenerPCs == {"none", "recv", "process", "welcome", "abort", "protocolError",
                "goodbye", "closing", "lockSend", "send", "stop", "lockClose",
                "close", "final", "closed", "eof", "stopped"}
ListenerDone == {"closed", "eof", "stopped"}
ListenerRunning == ListenerPCs \ (ListenerDone \cup {"none"})

\* Everything the listener does not share.
OthersUnchanged == UNCHANGED <<stopListener, userVars>>
NetUnchanged == UNCHANGED netVars

-----------------------------------------------------------------------------
\* The next item of the stream is taken and the state is read for it.
TakeItem(m) ==
    /\ lpc = "recv"
    /\ lmsg' = m /\ lstate' = state /\ lpc' = "process"
    /\ UNCHANGED <<lreply, stateVars, lockVars, sinkVars, trackVars, bufferVars>>
    /\ OthersUnchanged

LRecv ==
    /\ fromRouter # <<>>
    /\ TakeItem(Head(fromRouter))
    /\ fromRouter' = Tail(fromRouter)
    /\ UNCHANGED <<conn, session, rsubs, sent, stalled>>

\* A listener that takes a broken connection for the end of the stream.
ErrorIsEnd ==
    /\ lpc = "recv" /\ conn = "reset"
    /\ lpc' = "eof"
    /\ UNCHANGED <<lmsg, lstate, lreply, stateVars, lockVars, sinkVars, trackVars,
                   bufferVars>>
    /\ OthersUnchanged /\ NetUnchanged

\* The connection broke: the stream yields a NetworkError, and what was still on
\* the way may be lost.
LRecvError ==
    /\ conn = "reset"
    /\ TakeItem([type |-> "RESET"])
    /\ NetUnchanged

\* The stream ended: the listener returns, and touches nothing else.
LRecvNone ==
    /\ lpc = "recv" /\ fromRouter = <<>> /\ conn = "end"
    /\ lpc' = "eof"
    /\ UNCHANGED <<lmsg, lstate, lreply, stateVars, lockVars, sinkVars, trackVars,
                   bufferVars>>
    /\ OthersUnchanged /\ NetUnchanged

-----------------------------------------------------------------------------
\* A listener that takes an EVENT without a queue for a normal message.
LenientVerdict(m, st) ==
    CASE m.type \in {"ABORT", "RESET"} -> "abort"
      [] m.type = "WELCOME" /\ st # "Established" -> "welcome"
      [] m.type = "GOODBYE" /\ st = "Established" -> "goodbye"
      [] m.type = "GOODBYE" /\ st = "ShuttingDown" -> "recv"
      [] m.type \in {"SUBSCRIBED", "UNSUBSCRIBED", "ERROR", "EVENT"}
            /\ st = "Established" -> "recv"
      [] OTHER -> "protocolError"

\* process_stream_value and process_message: what the listener does next.
Verdict(m, st) ==
    CASE m.type \in {"ABORT", "RESET"} -> "abort"
      [] m.type = "WELCOME" /\ st # "Established" -> "welcome"
      [] m.type = "GOODBYE" /\ st = "Established" -> "goodbye"
      [] m.type = "GOODBYE" /\ st = "ShuttingDown" -> "recv"
      [] m.type \in {"SUBSCRIBED", "UNSUBSCRIBED", "ERROR"} /\ st = "Established" -> "recv"
      [] m.type = "EVENT" /\ st = "Established" /\ m.sub \in hasQueue -> "recv"
      [] OTHER -> "protocolError"

\* A buffer that has no place for ERROR.
BufferWithoutErrors(m) ==
    IF m.type = "EVENT"
    THEN /\ queue' = IF m.sub \in hasQueue
                     THEN [queue EXCEPT ![m.sub] = Append(@, m.n)] ELSE queue
         /\ UNCHANGED <<received, hasQueue>>
    ELSE /\ received' = IF m.type = "ERROR" THEN received ELSE received \cup {m}
         /\ UNCHANGED <<hasQueue, queue>>

\* A message with verdict "recv" goes into the buffer, the rest is acted upon.
Buffer(m) ==
    IF m.type = "EVENT"
    THEN /\ queue' = IF m.sub \in hasQueue
                     THEN [queue EXCEPT ![m.sub] = Append(@, m.n)] ELSE queue
         /\ UNCHANGED <<received, hasQueue>>
    ELSE received' = received \cup {m} /\ UNCHANGED <<hasQueue, queue>>

LProcess ==
    /\ lpc = "process"
    /\ lpc' = Verdict(lmsg, lstate)
    /\ IF Verdict(lmsg, lstate) = "recv" THEN Buffer(lmsg) ELSE UNCHANGED bufferVars
    /\ lmsg' = IF Verdict(lmsg, lstate) = "welcome" THEN lmsg ELSE NoMessage
    /\ lstate' = "Establishing"
    /\ UNCHANGED <<lreply, stateVars, lockVars, sinkVars, trackVars>>
    /\ OthersUnchanged /\ NetUnchanged

-----------------------------------------------------------------------------
(* What the listener does with WELCOME, ABORT, a protocol error, GOODBYE.  *)
SetState(from, st, to) ==
    /\ lpc = from /\ lpc' = to
    /\ state' = st
    /\ UNCHANGED <<lmsg, lstate, lockVars, sinkVars, trackVars, bufferVars>>
    /\ OthersUnchanged /\ NetUnchanged

LWelcome ==
    /\ lpc = "welcome"
    /\ state' = "Established" /\ broker' = lmsg.broker
    /\ lpc' = "recv" /\ lmsg' = NoMessage
    /\ UNCHANGED <<lstate, lreply, lockVars, sinkVars, trackVars, bufferVars>>
    /\ OthersUnchanged /\ NetUnchanged

\* A listener that goes on reading after an ABORT.
AbortAndReadOn == SetState("abort", "Closed", "recv") /\ UNCHANGED <<broker, lreply>>

LAbort == SetState("abort", "Closed", "stop") /\ UNCHANGED <<broker, lreply>>

LProtocolError ==
    /\ SetState("protocolError", "Failed", "lockSend")
    /\ lreply' = "ABORT"
    /\ UNCHANGED broker

\* GOODBYE: the state is read a second time, and only then written.
LGoodbye ==
    /\ lpc = "goodbye"
    /\ lpc' = IF state = "Established" THEN "closing" ELSE "recv"
    /\ UNCHANGED <<lmsg, lstate, lreply, stateVars, lockVars, sinkVars, trackVars,
                   bufferVars>>
    /\ OthersUnchanged /\ NetUnchanged

LClosing ==
    /\ SetState("closing", "Closing", "lockSend")
    /\ lreply' = "GOODBYE"
    /\ UNCHANGED broker

-----------------------------------------------------------------------------
(* The sender is locked twice: to send the reply, and to close the sink.   *)
Lock(from, to) ==
    /\ lpc = from /\ lpc' = to
    /\ Request("listener")
    /\ UNCHANGED <<lmsg, lstate, lreply, stateVars, sinkVars, trackVars, bufferVars>>
    /\ OthersUnchanged /\ NetUnchanged

LLockSend == Lock("lockSend", "send")
LLockClose == Lock("lockClose", "close")

\* A listener that keeps the guard on the sender while it goes on.
SendKeepingGuard ==
    /\ lpc = "send" /\ holder = "listener" /\ (CanFlush \/ sink = "closed")
    /\ \/ /\ sink = "open"
          /\ toRouter' = toRouter \o unsent \o <<[type |-> lreply]>>
          /\ unsent' = <<>>
          /\ UNCHANGED sink
       \/ SinkMayFail /\ UNCHANGED sinkVars
    /\ lpc' = "stop"
    /\ UNCHANGED <<lmsg, lstate, lreply, stateVars, lockVars, trackVars, bufferVars>>
    /\ OthersUnchanged /\ NetUnchanged

\* SinkExt::send, flush included. An error is only logged.
LSend ==
    /\ lpc = "send" /\ holder = "listener" /\ (CanFlush \/ sink = "closed")
    /\ Release
    /\ \/ /\ sink = "open"
          /\ toRouter' = toRouter \o unsent \o <<[type |-> lreply]>>
          /\ unsent' = <<>>
          /\ UNCHANGED sink
       \/ SinkMayFail /\ UNCHANGED sinkVars
    /\ lpc' = "stop"
    /\ UNCHANGED <<lmsg, lstate, lreply, stateVars, trackVars, bufferVars>>
    /\ OthersUnchanged /\ NetUnchanged

LStopAll ==
    /\ lpc = "stop" /\ lpc' = "lockClose"
    /\ StopAll
    /\ UNCHANGED <<lmsg, lstate, lreply, stateVars, lockVars, sinkVars, bufferVars>>
    /\ OthersUnchanged /\ NetUnchanged

\* A listener that writes TransportClosed before the sink is closed.
CloseLate ==
    /\ lpc = "close" /\ holder = "listener" /\ (CanFlush \/ sink = "closed")
    /\ Release
    /\ lpc' = "final"
    /\ UNCHANGED <<lmsg, lstate, lreply, stateVars, sinkVars, trackVars, bufferVars>>
    /\ OthersUnchanged /\ NetUnchanged

\* An error of close is only logged: the sink is of no further use either way.
LClose ==
    /\ lpc = "close" /\ holder = "listener" /\ (CanFlush \/ sink = "closed")
    /\ Release
    /\ CloseSink
    /\ lpc' = "final"
    /\ UNCHANGED <<lmsg, lstate, lreply, stateVars, trackVars, bufferVars>>
    /\ OthersUnchanged /\ NetUnchanged

\* A listener that finishes without a last word.
SilentFinal ==
    /\ lpc = "final" /\ lpc' = "closed"
    /\ UNCHANGED <<lmsg, lstate, lreply, stateVars, lockVars, sinkVars, trackVars,
                   bufferVars>>
    /\ OthersUnchanged /\ NetUnchanged

LFinal == SetState("final", "TransportClosed", "closed") /\ UNCHANGED <<broker, lreply>>

\* The select on the stop signal: the listener is dropped where it waits, with the
\* lock or its place in the queue.
LStop ==
    /\ stopListener /\ lpc \in {"recv", "send", "close"}
    /\ lpc' = "stopped"
    /\ Forget("listener")
    /\ UNCHANGED <<lmsg, lstate, lreply, stateVars, sinkVars, trackVars, bufferVars>>
    /\ OthersUnchanged /\ NetUnchanged

ListenerStep ==
    \/ LRecv \/ LRecvError \/ LRecvNone \/ LProcess
    \/ LWelcome \/ LAbort \/ LProtocolError \/ LGoodbye \/ LClosing
    \/ LLockSend \/ LSend \/ LStopAll \/ LLockClose \/ LClose \/ LFinal
=============================================================================

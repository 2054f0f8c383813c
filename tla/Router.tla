------------------------------- MODULE Router -------------------------------
(***************************************************************************)
(* The environment of a client, none of which is in the repository: a WAMP *)
(* router with a broker, and the connection to it. It is modelled from     *)
(* what the client relies on (the messages of src/src/proto.rs and the     *)
(* answers that ops/ wait for) and follows the protocol: it answers each   *)
(* request once and in order, sends EVENTs only to subscribers and says    *)
(* GOODBYE at most once. RouterMay lists what else an instance lets happen.*)
(***************************************************************************)
EXTENDS ClientShared

\* "closing": the router has said GOODBYE, first. "left": it has said GOODBYE, and the
\* session is over. "aborted": the session ended without one.
Sessions == {"none", "joined", "closing", "left", "aborted"}
SessionOver == session \in {"left", "aborted"}
Connections == {"up", "end", "reset"}

ClientUnchanged ==
    UNCHANGED <<stateVars, lockVars, sink, unsent, trackVars, stopListener, bufferVars,
                listenVars, userVars>>

Send(m) == fromRouter' = Append(fromRouter, m)

\* The router takes the next message, whatever it is.
Takes(type) ==
    /\ conn = "up" /\ toRouter # <<>> /\ Head(toRouter).type = type
    /\ toRouter' = Tail(toRouter)
    /\ UNCHANGED <<conn, stalled, sent>>
    /\ ClientUnchanged

Refuses == "refuse" \in RouterMay

-----------------------------------------------------------------------------
RHello ==
    /\ Takes("HELLO") /\ session = "none"
    /\ \/ /\ \E b \in {TRUE, "noBroker" \notin RouterMay} :
                Send([type |-> "WELCOME", broker |-> b])
          /\ session' = "joined"
       \/ Refuses /\ Send([type |-> "ABORT"]) /\ session' = "aborted"
    /\ UNCHANGED rsubs

RSubscribe ==
    /\ Takes("SUBSCRIBE") /\ session = "joined"
    /\ LET m == Head(toRouter) IN
       \/ /\ Send([type |-> "SUBSCRIBED", req |-> m.req, sub |-> m.topic,
                   n |-> sent[m.topic]])
          /\ rsubs' = rsubs \cup {m.topic}
       \/ /\ Refuses
          /\ Send([type |-> "ERROR", to |-> "SUBSCRIBE", req |-> m.req])
          /\ UNCHANGED rsubs
    /\ UNCHANGED session

RUnsubscribe ==
    /\ Takes("UNSUBSCRIBE") /\ session = "joined"
    /\ LET m == Head(toRouter) IN
       \/ /\ m.topic \in rsubs
          /\ Send([type |-> "UNSUBSCRIBED", req |-> m.req])
          /\ rsubs' = rsubs \ {m.topic}
       \/ /\ m.topic \notin rsubs \/ Refuses
          /\ Send([type |-> "ERROR", to |-> "UNSUBSCRIBE", req |-> m.req])
          /\ UNCHANGED rsubs
    /\ UNCHANGED session

\* No acknowledgement is asked for, and none sent.
RPublish ==
    /\ Takes("PUBLISH") /\ session = "joined"
    /\ UNCHANGED <<fromRouter, session, rsubs>>

\* GOODBYE is answered, unless it is the answer to the router's own.
RGoodbye ==
    /\ Takes("GOODBYE")
    /\ \/ session = "joined" /\ Send(Goodbye)
       \/ session = "closing" /\ UNCHANGED fromRouter
    /\ session' = "left" /\ UNCHANGED rsubs

RAbort ==
    /\ Takes("ABORT") /\ session \in {"joined", "closing"}
    /\ session' = (IF session = "joined" THEN "aborted" ELSE "left")
    /\ UNCHANGED <<fromRouter, rsubs>>

\* What comes after the session's end is discarded. A silent router may discard
\* anything.
RDiscard ==
    /\ \E type \in {"HELLO", "SUBSCRIBE", "UNSUBSCRIBE", "PUBLISH", "GOODBYE", "ABORT"} :
          /\ Takes(type)
          /\ \/ SessionOver
             \/ session = "closing" /\ type \notin {"GOODBYE", "ABORT"}
             \/ "silent" \in RouterMay
    /\ UNCHANGED <<fromRouter, session, rsubs>>

RouterAnswer ==
    RHello \/ RSubscribe \/ RUnsubscribe \/ RPublish \/ RGoodbye \/ RAbort \/ RDiscard

-----------------------------------------------------------------------------
(* What the router does of its own accord while the session lasts. Garbage *)
(* (something the client cannot parse) is the last thing it sends.         *)
Acts == conn = "up" /\ session = "joined"

REvent(t) ==
    /\ Acts /\ t \in rsubs /\ sent[t] < MaxEvents
    /\ sent' = [sent EXCEPT ![t] = @ + 1]
    /\ Send([type |-> "EVENT", sub |-> t, n |-> sent[t] + 1])
    /\ UNCHANGED <<conn, session, rsubs, stalled, toRouter>> /\ ClientUnchanged

REndsSession ==
    /\ Acts
    /\ \/ "goodbye" \in RouterMay /\ Send(Goodbye) /\ session' = "closing"
       \/ "abort" \in RouterMay /\ Send([type |-> "ABORT"]) /\ session' = "aborted"
       \/ "garbage" \in RouterMay /\ Send([type |-> "GARBAGE"]) /\ session' = "aborted"
    /\ UNCHANGED <<conn, rsubs, sent, stalled, toRouter>> /\ ClientUnchanged

\* The connection ends in good order: because the session is over, or the client
\* closed its sink, or (an "end") for no such reason.
NetEnd ==
    /\ conn = "up"
    /\ SessionOver \/ sink = "closed" \/ "end" \in RouterMay
    /\ conn' = "end"
    /\ UNCHANGED <<fromRouter, session, rsubs, sent, stalled, toRouter>> /\ ClientUnchanged

NetReset ==
    /\ conn = "up" /\ "reset" \in RouterMay
    /\ conn' = "reset"
    /\ UNCHANGED <<fromRouter, session, rsubs, sent, stalled, toRouter>> /\ ClientUnchanged

\* The connection takes no more bytes, or takes them again.
NetStall ==
    /\ conn = "up" /\ "stall" \in RouterMay
    /\ stalled' = ~stalled
    /\ UNCHANGED <<fromRouter, conn, session, rsubs, sent, toRouter>> /\ ClientUnchanged

EnvironmentChoice ==
    \/ \E t \in Topics : REvent(t)
    \/ REndsSession \/ NetEnd \/ NetReset \/ NetStall
=============================================================================

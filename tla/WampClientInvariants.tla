------------------------ MODULE WampClientInvariants ------------------------
(***************************************************************************)
(* The inductive invariants from which the safety of WampClient follows:   *)
(* SessionInv (who may say what of the session, and when), AskInv (which   *)
(* requests, replies and streams belong together), PubSubInv (which        *)
(* streams, queues and events do) and OrderInv (which events are behind).  *)
(***************************************************************************)
EXTENDS WampClient

-----------------------------------------------------------------------------
(* The session. Which call is under way tells where it can be.             *)
Acked == {"stopAgain", "acquireClose", "close", "writeClosed"}
Dropping == {"dropStop", "dropListener", "dropCheck"}

CallInv ==
    /\ upc \in {"new", "joining"} => op = "new"
    /\ upc \in {"acquire", "send", "reacquire", "flush"}
           => op \in {"subscribe", "unsubscribe", "publish", "close"}
    /\ upc = "reply" => op \in {"subscribe", "unsubscribe"}
    /\ upc \in {"addQueue", "track"} => op = "subscribe"
    /\ upc \in {"rmQueue", "untrack"} => op = "unsubscribe"
    /\ upc \in {"stopSubs", "ack"} \cup Acked => op = "close"
    /\ upc = "waiting" => op = "wait"
    /\ upc \in Dropping => op = "drop"
    /\ upc = "gone" => op \in {"new", "drop"}
    /\ op = "drop" => upc \in Dropping \cup {"gone"}
    /\ stopListener => op = "drop"

\* Where the one WELCOME, or the one GOODBYE, of a session may be.
OnWire == {fromRouter[i].type : i \in 1 .. Len(fromRouter)}
Repeated ==
    {type \in OnWire : \E i, j \in 1 .. Len(fromRouter) :
        i # j /\ fromRouter[i].type = type /\ fromRouter[j].type = type}
Judged(type) == lpc = "process" /\ lmsg.type = type

\* The listener has met nothing yet that ends the session.
Reading == lpc \in {"none", "recv", "process", "welcome", "goodbye"}

\* WELCOME comes once, and until it is acted upon nobody writes the state but a
\* listener that gives up.
WelcomeAhead ==
    session = "none" \/ "WELCOME" \in OnWire \/ Judged("WELCOME") \/ lpc = "welcome"

JoinInv ==
    /\ "WELCOME" \notin Repeated
    /\ session = "none" => "WELCOME" \notin OnWire /\ ~Judged("WELCOME") /\ lpc # "welcome"
    /\ Judged("WELCOME") \/ lpc = "welcome" => "WELCOME" \notin OnWire
    /\ Reading /\ WelcomeAhead => state = "Establishing"
    /\ lpc = "none" => state = "Establishing"
    /\ state = "Establishing" => upc \in {"new", "joining", "gone"}

\* GOODBYE comes once: it is on its way, or answered by the listener, or kept for
\* close, or close has found it.
ByeAtListener == Judged("GOODBYE") \/ lpc \in {"goodbye", "closing"}

ByeInv ==
    /\ "GOODBYE" \notin Repeated
    /\ "GOODBYE" \in OnWire => ~ByeAtListener /\ Goodbye \notin received /\ upc \notin Acked
    /\ ByeAtListener => Goodbye \notin received /\ upc \notin Acked
    /\ Goodbye \in received => upc \notin Acked
    /\ session \notin {"closing", "left"}
           => "GOODBYE" \notin OnWire /\ ~ByeAtListener /\ Goodbye \notin received
              /\ upc \notin Acked
    /\ CloseOkMeansGoodbye

\* What the state says, by the places of the listener and of close.
StateInv ==
    /\ lpc = "closing" => state \in {"Established", "ShuttingDown"}
    /\ op = "close" /\ upc # "idle" => state \notin {"Establishing", "Established"}
    /\ state = "Established" => lpc \notin {"none", "closed"}
    /\ state = "Established" /\ lpc = "eof" => conn = "end"
    /\ lpc = "stopped" => op = "drop"

\* One WELCOME opens a session and one GOODBYE of the router's closes it; each is in one
\* place at a time (on the wire, with the listener, kept for close), and that place tells
\* what the listener and the calls may have written to the state.
SessionInv == CallInv /\ JoinInv /\ ByeInv /\ StateInv

-----------------------------------------------------------------------------
(* Requests and replies. Request ids only grow, and the router answers in  *)
(* order: whatever is still to be answered is younger than any answer.     *)
Written == toRouter \o unsent
IsRequest(m) == m.type \in {"SUBSCRIBE", "UNSUBSCRIBE"}
IsReply(m) == m.type \in {"SUBSCRIBED", "UNSUBSCRIBED", "ERROR"}

\* The requests that the router has not met, and the replies that no call has taken.
Requests == {m \in {Written[i] : i \in 1 .. Len(Written)} : IsRequest(m)}
Replied == {m \in received \cup Arriving : IsReply(m)}

\* A request has its id, and has not been written; or has been answered.
Unwritten == op \in {"subscribe", "unsubscribe"} /\ upc \in {"acquire", "send"}
Settling == upc \in {"addQueue", "track", "rmQueue", "untrack"}

Increasing ==
    \A i, j \in 1 .. Len(Written) :
        i < j /\ IsRequest(Written[i]) /\ IsRequest(Written[j])
            => Written[i].req < Written[j].req

WrittenInv ==
    /\ Increasing
    /\ \A q \in Requests :
           /\ q.req <= req /\ (Unwritten => q.req < req)
           /\ q.topic = asked[q.req]
    /\ Settling => Requests = {}
    /\ upc = "new" => toRouter = <<>> /\ unsent = <<>>

RepliedInv ==
    \A m \in Replied :
        /\ m.req <= req /\ (Unwritten => m.req < req)
        /\ m.type = "SUBSCRIBED" => m.sub = asked[m.req]
        /\ \A q \in Requests : m.req < q.req

\* A stream belongs to the request it is named after.
Subscribing == op = "subscribe" /\ upc \in SelectPCs

OwnersInv ==
    \A r \in Reqs : streams[r].status # "none" =>
        /\ r <= req /\ (Subscribing => r < req)
        /\ streams[r].sub = asked[r]

\* Requests, replies and streams are told apart by their ids: a request that is still to be
\* answered is younger than every answer on its way or in the message buffer, also of
\* calls that were dropped, and answer and stream are about what that request asked for.
AskInv == WrittenInv /\ RepliedInv /\ OwnersInv

-----------------------------------------------------------------------------
(* Topics, of a program that does not subscribe to one it has a queue for. *)
(* At most one stream, or call, at a time has to do with a topic.          *)
InUse(r) == streams[r].status \in {"made", "live", "ended"}

\* Unsubscribing a topic, until the broker's answer is found.
Leaving == op = "unsubscribe" /\ upc \in SelectPCs \cup {"rmQueue"}

UseInv ==
    \A r \in Reqs : InUse(r) =>
        /\ streams[r].sub \in rsubs
        /\ streams[r].status = "made" => r = req /\ upc \in {"addQueue", "track"}
        /\ streams[r].sub \in hasQueue \/ (r = req /\ upc = "addQueue")
        /\ Leaving => streams[r].sub # asked[req]
        /\ \A q \in Requests : q.type = "UNSUBSCRIBE" => q.topic # streams[r].sub
        /\ \A s \in Reqs : InUse(s) /\ r # s => streams[r].sub # streams[s].sub

TopicInv ==
    /\ UseInv
    /\ Subscribing \/ upc = "addQueue" => asked[req] \notin hasQueue
    /\ Leaving => asked[req] \in hasQueue
    /\ \A q \in Requests : q.type = "UNSUBSCRIBE" => q.topic \in hasQueue
    /\ \A m \in Replied : m.type = "SUBSCRIBED" /\ Subscribing /\ m.req = req
           => m.sub \in rsubs

-----------------------------------------------------------------------------
(* Events. What is on the way is in order and has no gap.                  *)
EventsAfter(s, i, t) ==
    {n \in Counts : \E j \in 1 .. Len(s) : i < j /\ IsEvent(s[j], t) /\ s[j].n = n}

\* From a SUBSCRIBED on, all events of its topic follow.
WireInv ==
    /\ \A t \in Topics : ComeInOrder(t)
    /\ \A i \in 1 .. Len(Coming) :
           LET m == Coming[i]
           IN  /\ m.type \in {"EVENT", "SUBSCRIBED"} => m.n <= sent[m.sub]
               /\ m.type = "SUBSCRIBED" => EventsAfter(Coming, i, m.sub) = m.n + 1 .. sent[m.sub]

\* The listener reads what the broker sends.
Listening == lpc \in {"none", "recv", "process", "welcome", "goodbye"}

\* The numbers n such that the events of a topic after its n-th, and no others, are on
\* the way (which says nothing once nobody reads them).
Heard ==
    [t \in Topics |-> {n \in 0 .. sent[t] : Listening => InFlight[t] = n + 1 .. sent[t]}]

FlowInv ==
    /\ \A m \in received : m.type = "SUBSCRIBED" /\ Subscribing /\ m.req = req
           => m.n \in Heard[m.sub]
    /\ \A r \in Reqs :
           LET s == streams[r]
               q == queue[s.sub]
           IN  /\ InUse(r) /\ upc = "addQueue" /\ r = req => s.last \in Heard[s.sub]
               /\ InUse(r) /\ ~(upc = "addQueue" /\ r = req)
                      => /\ q = [i \in 1 .. Len(q) |-> s.last + i]
                         /\ s.last + Len(q) \in Heard[s.sub]

\* No two streams share a topic; from subscribe's SUBSCRIBED on, what a stream has yielded,
\* what its queue holds and what is on the wire are the events of its topic, in order and
\* without a gap.
PubSubInv == TopicInv /\ WireInv /\ FlowInv

-----------------------------------------------------------------------------
(* Order, also where one topic has several streams, which share its queue. *)

\* The numbers n such that no event of a topic up to its n-th is still on the way.
Passed ==
    [t \in Topics |-> {n \in 0 .. sent[t] : \A k \in InFlight[t] : n < k}]

Rising(q) == \A i, j \in 1 .. Len(q) : i < j => q[i] < q[j]
Follows(q, n) == \A i \in 1 .. Len(q) : n < q[i]

\* What is queued comes in order, behind all that any stream of the topic has yielded or
\* was told to begin after, and before all that is on the way.
OrderInv ==
    /\ \A m \in received : m.type = "SUBSCRIBED" => m.n \in Passed[m.sub]
    /\ \A t \in Topics :
           /\ Rising(queue[t])
           /\ \A i \in 1 .. Len(queue[t]) : queue[t][i] \in Passed[t]
    /\ \A r \in Reqs : streams[r].status # "none" =>
           /\ streams[r].last \in Passed[streams[r].sub]
           /\ (r = req /\ upc = "addQueue") \/ Follows(queue[streams[r].sub], streams[r].last)
=============================================================================

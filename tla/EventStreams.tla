---------------------------- MODULE EventStreams ----------------------------
(***************************************************************************)
(* What subscribe promises (src/src/client/mod.rs, Client::subscribe): a   *)
(* stream of the events of a topic, each of them once and in order from    *)
(* the moment the broker subscribed the client, until the stream ends.     *)
(* WampClient implements it, as long as the program does not subscribe     *)
(* twice to one topic.                                                     *)
(***************************************************************************)
EXTENDS Integers

CONSTANTS Reqs, Topics, NoTopic      \* as in WampClient; a stream has its request's name

VARIABLES
    sent,        \* sent[t]: how many events the broker sent to topic t
    open,        \* the streams that the program reads
    over,        \* those that have ended or were given up
    topic,       \* topic[r]: the topic of stream r
    last         \* last[r]: the number of the event it yielded last

vars == <<sent, open, over, topic, last>>

Init ==
    /\ sent = [t \in Topics |-> 0] /\ open = {} /\ over = {}
    /\ topic = [r \in Reqs |-> NoTopic] /\ last = [r \in Reqs |-> 0]

Event(t) ==
    /\ sent' = [sent EXCEPT ![t] = @ + 1]
    /\ UNCHANGED <<open, over, topic, last>>

\* A stream begins behind the event that was the last before the subscription, and
\* shares the topic's events with no other.
Open(r, t, n) ==
    /\ r \notin open \cup over
    /\ \A s \in open : topic[s] # t
    /\ open' = open \cup {r}
    /\ topic' = [topic EXCEPT ![r] = t] /\ last' = [last EXCEPT ![r] = n]
    /\ UNCHANGED <<sent, over>>

\* The next event, and no other.
Yield(r) ==
    /\ r \in open /\ last[r] < sent[topic[r]]
    /\ last' = [last EXCEPT ![r] = @ + 1]
    /\ UNCHANGED <<sent, open, over, topic>>

Close(r) ==
    /\ r \in open
    /\ open' = open \ {r} /\ over' = over \cup {r}
    /\ UNCHANGED <<sent, topic, last>>

Next ==
    \/ \E t \in Topics : Event(t)
    \/ \E r \in Reqs : Yield(r) \/ Close(r)
    \/ \E r \in Reqs, t \in Topics : \E n \in 0 .. sent[t] : Open(r, t, n)

Spec == Init /\ [][Next]_vars
=============================================================================

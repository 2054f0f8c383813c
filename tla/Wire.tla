-------------------------------- MODULE Wire --------------------------------
(***************************************************************************)
(* Clients of one process and a broker that talk in JSON frames: what the  *)
(* ids, the URIs and the codec do to the values that programs exchange.    *)
(* Here the listener of a client handles a frame, and the call or stream   *)
(* that waits for it, in one step: their interleavings, the failures of    *)
(* the connection and what ends a session are module WampClient.           *)
(***************************************************************************)
EXTENDS Codec, FiniteSets

CONSTANTS
    Clients,
    Topics,             \* the texts that the programs make topics of
    Broadcasts,         \* what the programs publish
    Foreign,            \* what other publishers send: JSON of any kind
    Extras,             \* what a router adds to the details of WELCOME
    ErrorUris,          \* the reasons that a router gives for an ERROR
    SubscriptionIds,
    Offers,             \* the roles that a router may offer
    IdRange,            \* usize::MAX + 1
    StartIds,           \* how far earlier clients may have driven the counter
    MaxRequests, MaxPublications

\* No instance takes more ids than the counter has: it would take a program of 2^64 requests.
ASSUME CounterAssumption ==
    /\ IdRange \in Nat /\ StartIds \subseteq 0 .. IdRange - 1
    /\ MaxRequests \in 0 .. IdRange
    /\ MaxPublications \in Nat

\* The router gives ids and reasons that the protocol allows; its own session id is 1.
ASSUME RouterAssumption ==
    /\ SubscriptionIds \subseteq Nat /\ MaxId >= 1
    /\ ErrorUris \subseteq Seq(Components \ {"bad"})

\* What is published, here or elsewhere, is a list and a dictionary.
ASSUME PayloadAssumption ==
    /\ \A b \in Broadcasts :
           /\ b = [arguments |-> b.arguments, arguments_kw |-> b.arguments_kw]
           /\ {b.arguments, b.arguments_kw} \subseteq Values
           /\ b.arguments[1] = "List" /\ b.arguments_kw[1] = "Dict"
    /\ \A f \in Foreign :
           /\ {f.arguments, f.arguments_kw} \subseteq Json
           /\ IsList(f.arguments) /\ IsDict(f.arguments_kw)
    /\ {Array(<<>>), Empty} \subseteq Json

\* The details of a WELCOME: the roles, and what else a router adds.
Roles(offer) == {<<r, Empty>> : r \in offer}
Details(offer, extra) == {<<"roles", Object(Roles(offer))>>} \cup extra

ASSUME DetailsAssumption ==
    \A offer \in Offers, extra \in Extras : Object(Details(offer, extra)) \in Json

VARIABLES
    next,               \* NEXT of Id::next: one counter for the process
    state, caps,        \* per client: the session, and RouterCapabilities
    call,               \* per client: the request that it waits for, if any
    queues,             \* per client: its event queues, as [id, topic, stream]
    lost,               \* per client: the frame that failed its session, if one did
    up, down,           \* per client: frames on their way to and from the router
    offered, rsubs, granted, published,     \* the router's side
    made, said, heard   \* history: requests, broadcasts published and yielded

idVars == <<next, made>>
clientVars == <<state, caps, call, queues, lost>>
routerVars == <<offered, rsubs, granted, published>>
vars == <<idVars, clientVars, routerVars, up, down, said, heard>>

Idle == [op |-> "none"]
NoCaps == [broker |-> FALSE, dealer |-> FALSE]
Realm == <<"plain">>
Reason == <<"wamp", "plain">>
ClientDetails ==
    <<"Dict", {<<"roles", <<"Dict",
        {<<r, <<"Dict", {}>> >> : r \in {"caller", "callee", "subscriber", "publisher"}}>> >>}>>

TypeOK ==
    /\ next \in 0 .. IdRange - 1 /\ made \in 0 .. MaxRequests
    /\ state \in [Clients -> {"new", "joining", "open", "closing", "ended"}]
    /\ \A c \in Clients : /\ lost[c] # Null => state[c] = "ended"
                          /\ call[c] # Idle => state[c] = "open"
    /\ rsubs \subseteq Clients \X SubscriptionIds
    /\ Len(published) <= MaxPublications

Init ==
    /\ next \in StartIds /\ made = 0
    /\ state = [c \in Clients |-> "new"]
    /\ caps = [c \in Clients |-> NoCaps]
    /\ call = [c \in Clients |-> Idle]
    /\ queues = [c \in Clients |-> {}]
    /\ lost = [c \in Clients |-> Null]
    /\ up = [c \in Clients |-> <<>>] /\ down = [c \in Clients |-> <<>>]
    /\ offered = [c \in Clients |-> {}]
    /\ rsubs = {} /\ granted = {} /\ published = <<>>
    /\ said = {} /\ heard = {}

-----------------------------------------------------------------------------
(* The program's calls. *)

\* A counter that is not advanced.
Stuck == made < MaxRequests /\ made' = made + 1 /\ next' = next

\* A counter that does not wrap.
NoWrap == made < MaxRequests /\ made' = made + 1 /\ next' = next + 1

\* Id::next
TakeId == made < MaxRequests /\ made' = made + 1 /\ next' = (next + 1) % IdRange

Sends(c, m) == up' = [up EXCEPT ![c] = Append(@, MessageToJson(m))]

Hello(c) ==
    /\ state[c] = "new"
    /\ state' = [state EXCEPT ![c] = "joining"]
    /\ Sends(c, [type |-> "HELLO", realm |-> Realm, details |-> ClientDetails])
    /\ UNCHANGED <<idVars, caps, call, queues, lost, routerVars, down, said, heard>>

\* A call that needs a broker.
MayAsk(c) == state[c] = "open" /\ caps[c].broker /\ call[c] = Idle

Subscribe(c, text) ==
    /\ MayAsk(c) /\ (Strict(text) \/ Relaxed(text))
    /\ TakeId
    /\ Sends(c, [type |-> "SUBSCRIBE", request |-> next, options |-> <<"Dict", {}>>,
                 topic |-> text])
    /\ call' = [call EXCEPT ![c] = [op |-> "subscribe", request |-> next, topic |-> text]]
    /\ UNCHANGED <<state, caps, queues, lost, routerVars, down, said, heard>>

\* The call takes the stream of q, so that nobody reads the queue any more.
Unsubscribe(c, q) ==
    /\ MayAsk(c) /\ q \in queues[c] /\ q.stream
    /\ TakeId
    /\ Sends(c, [type |-> "UNSUBSCRIBE", request |-> next, subscription |-> q.id])
    /\ queues' = [queues EXCEPT ![c] = (@ \ {q}) \cup {[q EXCEPT !.stream = FALSE]}]
    /\ call' = [call EXCEPT ![c] = [op |-> "unsubscribe", request |-> next, id |-> q.id]]
    /\ UNCHANGED <<state, caps, lost, routerVars, down, said, heard>>

Publish(c, text, b) ==
    /\ MayAsk(c) /\ (Strict(text) \/ Relaxed(text))
    /\ TakeId
    /\ Sends(c, [type |-> "PUBLISH", request |-> next, options |-> <<"Dict", {}>>,
                 topic |-> text, arguments |-> b.arguments, arguments_kw |-> b.arguments_kw])
    /\ said' = said \cup {<<c, text, b>>}
    /\ UNCHANGED <<clientVars, routerVars, down, heard>>

\* The program drops the future of its call. An answer to it stays in the buffer for good,
\* since no other request has its id within IdRange requests.
Cancel(c) ==
    /\ call[c] # Idle
    /\ call' = [call EXCEPT ![c] = Idle]
    /\ UNCHANGED <<idVars, state, caps, queues, lost, routerVars, up, down, said, heard>>

Close(c) ==
    /\ state[c] = "open" /\ call[c] = Idle
    /\ state' = [state EXCEPT ![c] = "closing"]
    /\ caps' = [caps EXCEPT ![c] = NoCaps]
    /\ Sends(c, [type |-> "GOODBYE", details |-> <<"Dict", {}>>, reason |-> Reason])
    /\ UNCHANGED <<idVars, call, queues, lost, routerVars, down, said, heard>>

-----------------------------------------------------------------------------
(* The listener's handling of a frame. *)

\* WampStreamAdapter::poll_next, with what the listener gets from it
Reads(c, type) == down[c] # <<>> /\ parse_message(Head(down[c])).type = type

\* The session is over, and the connection with it.
Ends(c) ==
    /\ state' = [state EXCEPT ![c] = "ended"]
    /\ caps' = [caps EXCEPT ![c] = NoCaps]
    /\ call' = [call EXCEPT ![c] = Idle]
    /\ queues' = [queues EXCEPT ![c] = {}]
    /\ offered' = [offered EXCEPT ![c] = {}]
    /\ up' = [up EXCEPT ![c] = <<>>] /\ down' = [down EXCEPT ![c] = <<>>]
    /\ rsubs' = {s \in rsubs : s[1] # c}

Fails(c) ==
    /\ lost' = [lost EXCEPT ![c] = Head(down[c])]
    /\ Ends(c)
    /\ UNCHANGED <<idVars, granted, published, said, heard>>

Handled(c) == down' = [down EXCEPT ![c] = Tail(@)]

HearWelcome(c) ==
    /\ Reads(c, "WELCOME") /\ state[c] = "joining"
    /\ state' = [state EXCEPT ![c] = "open"]
    /\ caps' = [caps EXCEPT ![c] = CapabilitiesOf(parse_message(Head(down[c])).details)]
    /\ Handled(c)
    /\ UNCHANGED <<idVars, call, queues, lost, routerVars, up, said, heard>>

\* An answer is for the call that waits for its id, and of no concern to any other.
IsAwaited(c) == call[c] # Idle /\ call[c].request = parse_message(Head(down[c])).request

Answers(c, type, op) ==
    /\ Reads(c, type) /\ state[c] = "open"
    /\ IsAwaited(c) /\ call[c].op = op
    /\ call' = [call EXCEPT ![c] = Idle]
    /\ Handled(c)

HearSubscribed(c) ==
    /\ Answers(c, "SUBSCRIBED", "subscribe")
    /\ LET id == parse_message(Head(down[c])).subscription IN
       queues' = [queues EXCEPT ![c] = {q \in @ : q.id # id}
                                       \cup {[id |-> id, topic |-> call[c].topic,
                                              stream |-> TRUE]}]
    /\ UNCHANGED <<idVars, state, caps, lost, routerVars, up, said, heard>>

HearUnsubscribed(c) ==
    /\ Answers(c, "UNSUBSCRIBED", "unsubscribe")
    /\ queues' = [queues EXCEPT ![c] = {q \in @ : q.id # call[c].id}]
    /\ UNCHANGED <<idVars, state, caps, lost, routerVars, up, said, heard>>

HearError(c) ==
    /\ Reads(c, "ERROR")
    /\ LET type == parse_message(Head(down[c])).request_type IN
       \/ type = Code.SUBSCRIBE /\ Answers(c, "ERROR", "subscribe")
       \/ type = Code.UNSUBSCRIBE /\ Answers(c, "ERROR", "unsubscribe")
    /\ UNCHANGED <<idVars, state, caps, queues, lost, routerVars, up, said, heard>>

\* An answer to a call that was cancelled. The code keeps it; no later call could take it,
\* since no id is given twice (CounterAssumption), and it is left out here.
HearLate(c) ==
    /\ \E type \in {"SUBSCRIBED", "UNSUBSCRIBED", "ERROR"} : Reads(c, type)
    /\ state[c] = "open" /\ ~ IsAwaited(c)
    /\ Handled(c)
    /\ UNCHANGED <<idVars, clientVars, routerVars, up, said, heard>>

\* An event whose queue has no reader is only kept.
HearEvent(c) ==
    /\ Reads(c, "EVENT") /\ state[c] = "open"
    /\ LET event == parse_message(Head(down[c])) IN
       \E q \in queues[c] :
          /\ q.id = event.subscription
          /\ heard' = IF q.stream
                      THEN heard \cup {<<q.topic, event.publication, BroadcastOf(event)>>}
                      ELSE heard
    /\ Handled(c)
    /\ UNCHANGED <<idVars, clientVars, routerVars, up, said>>

HearGoodbye(c) ==
    /\ Reads(c, "GOODBYE") /\ state[c] \in {"open", "closing"}
    /\ Ends(c)
    /\ UNCHANGED <<idVars, lost, granted, published, said, heard>>

HearAbort(c) ==
    /\ Reads(c, "ABORT")
    /\ Ends(c)
    /\ UNCHANGED <<idVars, lost, granted, published, said, heard>>

\* Ok(None): the stream goes on to the next frame.
Skip(c) ==
    /\ Reads(c, "skipped")
    /\ Handled(c)
    /\ UNCHANGED <<idVars, clientVars, routerVars, up, said, heard>>

\* TransportError::ParseError
Misread(c) == Reads(c, "refused") /\ Fails(c)

\* A message that process_message refuses: an event without a queue, or one that comes
\* after the client began to close.
Refuse(c) ==
    /\ \/ /\ Reads(c, "EVENT")
          /\ \/ state[c] # "open"
             \/ \A q \in queues[c] : q.id # parse_message(Head(down[c])).subscription
       \/ /\ \E type \in {"SUBSCRIBED", "UNSUBSCRIBED", "ERROR"} : Reads(c, type)
          /\ state[c] # "open"
    /\ Fails(c)

-----------------------------------------------------------------------------
(* The router, which follows the protocol. *)
Frame(code, rest) == Array(<<U64(Code[code])>> \o rest)
Field(frame, i) == frame[2][i]

\* It takes a frame of the client.
Takes(c, code) ==
    /\ up[c] # <<>> /\ Field(Head(up[c]), 1) = U64(Code[code])
    /\ up' = [up EXCEPT ![c] = Tail(@)]

Tell(c, frame) == down' = [down EXCEPT ![c] = Append(@, frame)]

RouterActs == UNCHANGED <<idVars, clientVars, said, heard>>

RHello(c) ==
    /\ Takes(c, "HELLO")
    /\ \/ \E offer \in Offers, extra \in Extras :
            /\ offered' = [offered EXCEPT ![c] = offer]
            /\ Tell(c, Frame("WELCOME", <<U64(1), Object(Details(offer, extra))>>))
       \/ Tell(c, Frame("ABORT", <<Empty, Text(Reason)>>)) /\ UNCHANGED offered
    /\ RouterActs /\ UNCHANGED <<rsubs, granted, published>>

\* Trailing arguments without contents may be written or not.
Trails(arguments, arguments_kw) ==
    {<<arguments, arguments_kw>>}
    \cup (IF arguments_kw = Empty THEN {<<arguments>>} ELSE {})
    \cup (IF arguments_kw = Empty /\ arguments = Array(<<>>) THEN {<<>>} ELSE {})

RError(c, code, uri) ==
    \E trail \in Trails(Array(<<>>), Empty) :
        Tell(c, Frame("ERROR", <<U64(Code[code]), Field(Head(up[c]), 2), Empty, Text(uri)>>
                               \o trail))

RSubscribe(c) ==
    /\ Takes(c, "SUBSCRIBE")
    /\ LET topic == Field(Head(up[c]), 4)[2] IN
       \/ /\ WellFormed(topic)
          /\ \E id \in SubscriptionIds :
                /\ \A g \in granted : (g[1] = topic) = (g[2] = id)
                /\ granted' = granted \cup {<<topic, id>>}
                /\ rsubs' = rsubs \cup {<<c, id>>}
                /\ Tell(c, Frame("SUBSCRIBED", <<Field(Head(up[c]), 2), U64(id)>>))
       \/ /\ \E uri \in ErrorUris : RError(c, "SUBSCRIBE", uri)
          /\ UNCHANGED <<granted, rsubs>>
    /\ RouterActs /\ UNCHANGED <<offered, published>>

RUnsubscribe(c) ==
    /\ Takes(c, "UNSUBSCRIBE")
    /\ LET id == Field(Head(up[c]), 3)[2] IN
       \/ /\ <<c, id>> \in rsubs
          /\ rsubs' = rsubs \ {<<c, id>>}
          /\ Tell(c, Frame("UNSUBSCRIBED", <<Field(Head(up[c]), 2)>>))
       \/ \E uri \in ErrorUris : RError(c, "UNSUBSCRIBE", uri) /\ UNCHANGED rsubs
    /\ RouterActs /\ UNCHANGED <<offered, granted, published>>

\* An EVENT for every subscriber but the publisher.
Spreads(by, topic, arguments, arguments_kw) ==
    /\ Len(published) < MaxPublications
    /\ published' = Append(published, [by |-> by, topic |-> topic, arguments |-> arguments,
                                       arguments_kw |-> arguments_kw])
    /\ \E trail \in Trails(arguments, arguments_kw) :
       down' = [c \in Clients |->
                  LET ids == {g[2] : g \in {h \in granted : h[1] = topic
                                              /\ <<c, h[2]>> \in rsubs /\ {c} # by}}
                  IN  IF ids = {} THEN down[c]
                      ELSE Append(down[c], Frame("EVENT",
                             <<U64(CHOOSE id \in ids : TRUE), U64(Len(published) + 1), Empty>>
                             \o trail))]

\* Without acknowledgement, the publisher hears nothing of a topic that is refused.
RPublish(c) ==
    /\ Takes(c, "PUBLISH")
    /\ LET m == Head(up[c])
           topic == Field(m, 4)[2]
       IN  IF WellFormed(topic) /\ Len(m[2]) >= 5
           THEN Spreads({c}, topic, Field(m, 5),
                               IF Len(m[2]) = 6 THEN Field(m, 6) ELSE Empty)
           ELSE UNCHANGED <<published, down>>
    /\ RouterActs /\ UNCHANGED <<offered, rsubs, granted>>

RForeign(f) ==
    /\ \E g \in granted : Spreads({}, g[1], f.arguments, f.arguments_kw)
    /\ RouterActs /\ UNCHANGED <<offered, rsubs, granted, up>>

\* Module WampClient has a router that ends the session itself.
RGoodbye(c) ==
    /\ Takes(c, "GOODBYE")
    /\ Tell(c, Frame("GOODBYE", <<Empty, Text(Reason)>>))
    /\ rsubs' = {s \in rsubs : s[1] # c}
    /\ RouterActs /\ UNCHANGED <<offered, granted, published>>

\* Frames of the connection, and of protocol extensions that the client does not know. To
\* bound the instances, only before the first request.
RExtension(c) ==
    /\ state[c] = "open" /\ down[c] = <<>> /\ made = 0
    /\ \E frame \in {<<"binary">>, Frame("PUBLISHED", <<U64(1), U64(1)>>)} : Tell(c, frame)
    /\ RouterActs /\ UNCHANGED <<routerVars, up>>

Next ==
    \/ \E c \in Clients :
        \/ Hello(c) \/ Cancel(c) \/ Close(c)
        \/ \E t \in Topics : Subscribe(c, t) \/ \E b \in Broadcasts : Publish(c, t, b)
        \/ \E q \in queues[c] : Unsubscribe(c, q)
        \/ HearWelcome(c) \/ HearSubscribed(c) \/ HearUnsubscribed(c) \/ HearError(c)
        \/ HearLate(c) \/ HearEvent(c) \/ HearGoodbye(c) \/ HearAbort(c)
        \/ Skip(c) \/ Misread(c) \/ Refuse(c)
        \/ RHello(c) \/ RSubscribe(c) \/ RUnsubscribe(c) \/ RPublish(c)
        \/ RGoodbye(c) \/ RExtension(c)
    \/ \E f \in Foreign : RForeign(f)

Spec == Init /\ [][Next]_vars

-----------------------------------------------------------------------------
(* Properties *)

\* What a stream of a topic yields of a publication by another client of this library is what
\* that client gave to publish for that topic, both kinds of arguments: through
\* TxMessage::to_json, a router that may drop empty arguments, parse_event and
\* SubscriptionStreamImpl::poll_next nothing is lost, added or put under another topic.
BroadcastsArriveIntact ==
    \A h \in heard :
        LET p == published[h[2]] IN
        p.by # {} => \E c \in p.by : <<c, h[1], h[3]>> \in said

\* Each event queue is for the subscription that the broker made for the topic the program
\* asked for, however the requests of the clients, cancelled ones among them, and their
\* answers interleave: request ids tell the calls apart.
AnswersReachAsker ==
    \A c \in Clients : \A q \in queues[c] : <<q.topic, q.id>> \in granted

\* A session with a router that follows the protocol is failed by the parsers only for the
\* two values that they hold narrower than the protocol: an id above MAX_ID_VAL (which
\* Id::next can reach) and a reason with an empty component (which Uri::relaxed refuses).
ConformingRouterUnderstood ==
    \A c \in Clients : parse_message(lost[c]) = Refused /\ lost[c] # Null =>
        \E i \in DOMAIN lost[c][2] \ {1} :
            LET j == Field(lost[c], i) IN
            \/ /\ j[1] = "int" /\ j[2] > MaxId
               /\ i = 2 => Field(lost[c], 1) # U64(Code.ERROR)     \* REQUEST.Type
            \/ j[1] = "string" /\ \E k \in DOMAIN j[2] : j[2][k] = "empty"

\* A client whose session is open knows the roles that its router offered, whatever else the
\* router put in the details: subscribe and publish refuse to run without a broker.
CapabilitiesMatchRouter ==
    \A c \in Clients : state[c] = "open" =>
        /\ caps[c].broker = ("broker" \in offered[c])
        /\ caps[c].dealer = ("dealer" \in offered[c])

\* What a stream yields of a publication by some other program is all of its arguments that
\* json_to_tv has a type for: a value that it has none for costs nothing but itself.
ForeignArgumentsRead ==
    \A h \in heard :
        LET p == published[h[2]] IN
        /\ h[1] = p.topic
        /\ Represents(h[3].arguments, p.arguments)
        /\ Represents(h[3].arguments_kw, p.arguments_kw)
=============================================================================

--------------------------- MODULE WireInvariants ---------------------------
(***************************************************************************)
(* The inductive invariant of Wire: which frames there can be, and what    *)
(* they have to do with the requests, subscriptions and publications that  *)
(* they are about.                                                         *)
(***************************************************************************)
EXTENDS Wire

-----------------------------------------------------------------------------
(* The frames.                                                             *)
Ids == 0 .. IdRange - 1

NoOptions == ToJson(<<"Dict", {}>>)

AskSubscribe(r, t) == Frame("SUBSCRIBE", <<U64(r), NoOptions, Text(t)>>)
AskUnsubscribe(r, id) == Frame("UNSUBSCRIBE", <<U64(r), U64(id)>>)
AskPublish(r, t, b) ==
    Frame("PUBLISH", <<U64(r), NoOptions, Text(t), ToJson(b.arguments), ToJson(b.arguments_kw)>>)

Greeting == Frame("HELLO", <<Text(Realm), ToJson(ClientDetails)>>)

FromClient ==
    {Greeting, Frame("GOODBYE", <<NoOptions, Text(Reason)>>)}
    \cup {AskSubscribe(r, t) : r \in Ids, t \in Topics}
    \cup {AskUnsubscribe(r, id) : r \in Ids, id \in SubscriptionIds}
    \cup {AskPublish(r, t, b) : r \in Ids, t \in Topics, b \in Broadcasts}

\* What publications carry.
Payloads ==
    {[arguments |-> ToJson(b.arguments), arguments_kw |-> ToJson(b.arguments_kw)] :
        b \in Broadcasts}
    \cup {[arguments |-> f.arguments, arguments_kw |-> f.arguments_kw] : f \in Foreign}

Welcome(offer, extra) == Frame("WELCOME", <<U64(1), Object(Details(offer, extra))>>)
Welcomes == {Welcome(offer, extra) : offer \in Offers, extra \in Extras}

Answer(r, id) == Frame("SUBSCRIBED", <<U64(r), U64(id)>>)
Errors ==
    {Frame("ERROR", <<U64(Code[code]), U64(r), Empty, Text(uri)>> \o trail) :
        code \in {"SUBSCRIBE", "UNSUBSCRIBE"}, r \in Ids, uri \in ErrorUris,
        trail \in Trails(Array(<<>>), Empty)}

\* The events that publication n, with this payload, may become.
Events(id, n, p) ==
    {Frame("EVENT", <<U64(id), U64(n), Empty>> \o trail) :
        trail \in Trails(p.arguments, p.arguments_kw)}

\* What a client hears that is neither the answer to subscribe nor an event nor an error.
Others ==
    {<<"binary">>, Frame("PUBLISHED", <<U64(1), U64(1)>>),
     Frame("ABORT", <<Empty, Text(Reason)>>), Frame("GOODBYE", <<Empty, Text(Reason)>>)}
    \cup Welcomes
    \cup {Frame("UNSUBSCRIBED", <<U64(r)>>) : r \in Ids}

FromRouter ==
    Others \cup Errors
    \cup {Answer(r, id) : r \in Ids, id \in SubscriptionIds}
    \cup UNION {Events(id, n, p) :
                    id \in SubscriptionIds, n \in 1 .. MaxPublications, p \in Payloads}

Calls ==
    {Idle} \cup [op : {"subscribe"}, request : Ids, topic : Topics]
           \cup [op : {"unsubscribe"}, request : Ids, id : SubscriptionIds]

FrameInv ==
    /\ up \in [Clients -> Seq(FromClient)] /\ down \in [Clients -> Seq(FromRouter)]
    /\ lost \in [Clients -> FromRouter \cup {Null}]
    /\ call \in [Clients -> Calls]
    /\ queues \in [Clients -> SUBSET [id : SubscriptionIds, topic : Topics, stream : BOOLEAN]]

In(frames) == {frames[i] : i \in 1 .. Len(frames)}

-----------------------------------------------------------------------------
(* Requests. The ids of those made so far are the last ones of the counter. *)
Taken(r) ==
    /\ r \in Ids
    /\ IF r < next THEN next - r <= made ELSE next + IdRange - r <= made

Awaits(c, r) == call[c].op = "subscribe" /\ call[c].request = r

\* A SUBSCRIBE asks for the topic of the call that waits for its answer, if one does.
AskFits(c, f) ==
    Field(f, 1) = U64(Code["SUBSCRIBE"]) =>
        \E r \in Ids, t \in Topics :
            f = AskSubscribe(r, t) /\ Taken(r) /\ (Awaits(c, r) => call[c].topic = t)

\* A SUBSCRIBED gives the subscription id of that topic.
AnswerFits(c, f) ==
    LET m == parse_message(f) IN
    m.type = "SUBSCRIBED" =>
        Taken(m.request) /\ (Awaits(c, m.request) => <<call[c].topic, m.subscription>> \in granted)

AskedInv ==
    \A c \in Clients :
        /\ \A f \in In(up[c]) : AskFits(c, f)
        /\ \A f \in In(down[c]) : AnswerFits(c, f)
        /\ \A q \in queues[c] : <<q.topic, q.id>> \in granted

-----------------------------------------------------------------------------
(* Publications. *)
Publication(by, t, p) ==
    [by |-> by, topic |-> t, arguments |-> p.arguments, arguments_kw |-> p.arguments_kw]
Publications ==
    {Publication(by, t, p) :
        by \in {{}} \cup {{c} : c \in Clients}, t \in Topics, p \in Payloads}

\* What a stream makes of the arguments of a publication.
Read(p) == BroadcastOf([arguments    |-> FromJson(p.arguments),
                        arguments_kw |-> FromJson(p.arguments_kw)])

\* A publication by a client carries what that client said about its topic.
Backed(n) ==
    \A c \in published[n].by : \E b \in Broadcasts :
        /\ <<c, published[n].topic, b>> \in said
        /\ published[n].arguments = ToJson(b.arguments)
        /\ published[n].arguments_kw = ToJson(b.arguments_kw)

PublishFits(c, f) ==
    Field(f, 1) = U64(Code["PUBLISH"]) =>
        \E r \in Ids, t \in Topics, b \in Broadcasts :
            <<c, t, b>> \in said /\ f = AskPublish(r, t, b)

\* An EVENT, and what was heard of it, carries its publication, under the id of its topic.
EventFits(f) ==
    LET m == parse_message(f) IN
    m.type = "EVENT" =>
        /\ m.publication \in 1 .. Len(published)
        /\ <<published[m.publication].topic, m.subscription>> \in granted
        /\ BroadcastOf(m) = Read(published[m.publication])

HeardFits(h) ==
    /\ h[2] \in 1 .. Len(published)
    /\ h[1] = published[h[2]].topic /\ h[3] = Read(published[h[2]])

SpreadInv ==
    /\ granted \subseteq Topics \X SubscriptionIds
    /\ \A g, h \in granted : g[2] = h[2] => g[1] = h[1]
    /\ published \in Seq(Publications)
    /\ \A n \in 1 .. Len(published) : Backed(n)
    /\ \A c \in Clients : /\ \A f \in In(up[c]) : PublishFits(c, f)
                          /\ \A f \in In(down[c]) : EventFits(f)
    /\ \A h \in heard : HeardFits(h)

MessageInv == TypeOK /\ FrameInv /\ AskedInv /\ SpreadInv

-----------------------------------------------------------------------------
(* Joining. There is one HELLO, and one answer to it, which says what the  *)
(* router offers; the broker sends nothing else before.                    *)
Joining(c) ==
    \/ up[c] = <<Greeting>> /\ down[c] = <<>>
    \/ /\ up[c] = <<>>
       /\ \/ /\ offered[c] \in Offers
             /\ \E extra \in Extras : down[c] = <<Welcome(offered[c], extra)>>
          \/ down[c] = <<Frame("ABORT", <<Empty, Text(Reason)>>)>>

JoinFits(c) ==
    /\ state[c] = "new" => up[c] = <<>> /\ down[c] = <<>>
    /\ state[c] = "joining" => Joining(c)
    /\ IF state[c] \in {"new", "joining"}
       THEN \A s \in rsubs : s[1] # c
       ELSE \A f \in In(up[c]) : Field(f, 1) # U64(Code["HELLO"])
    /\ state[c] = "open" => caps[c] = [broker |-> "broker" \in offered[c],
                                      dealer |-> "dealer" \in offered[c]]

JoinInv ==
    /\ caps \in [Clients -> [broker : BOOLEAN, dealer : BOOLEAN]]
    /\ offered \in [Clients -> {{}} \cup Offers]
    /\ \A c \in Clients : JoinFits(c)

-----------------------------------------------------------------------------
\* What the ids of Id::next and of the broker, MessageToJson and parse_message keep true of
\* every frame on its way: a request id, once taken, is not taken again, so a SUBSCRIBED is
\* for the topic that the waiting call asked for; a PUBLISH, its publication and its EVENTs
\* say of a topic what the program said of it; a WELCOME gives a client the roles that its
\* router offers it.
WireInv == MessageInv /\ JoinInv
=============================================================================

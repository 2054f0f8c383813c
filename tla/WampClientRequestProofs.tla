----------------------- MODULE WampClientRequestProofs -----------------------
(* Requests and replies: AskInv is an invariant, so that a subscribe call   *)
(* returns the stream it asked for.                                         *)
EXTENDS WampClientSafetyProofs

-----------------------------------------------------------------------------
(* What goes in and out of the sequence of messages to the router.         *)
LEMMA WrittenType ==
    ASSUME SinkType
    PROVE  /\ Written \in Seq(TxMessage) /\ Len(Written) \in Nat
           /\ \A i \in 1 .. Len(Written) : Written[i] \in TxMessage
           /\ Requests \subseteq TxMessage
           /\ \A q \in Requests : q.req \in Reqs /\ q.topic \in Topics
<1>1. Written \in Seq(TxMessage)
  BY ConcatProperties DEF SinkType, Written
<1>2. Len(Written) \in Nat /\ \A i \in 1 .. Len(Written) : Written[i] \in TxMessage
  BY <1>1, LenProperties, ElementOfSeq
<1>3. QED
  BY <1>1, <1>2, MessageFields DEF Requests, IsRequest

LEMMA WrittenSame ==
    UNCHANGED Written => /\ UNCHANGED Requests
                         /\ Increasing <=> Increasing'
  BY DEF Requests, Increasing

LEMMA SinkSame ==
    ASSUME SinkType, UNCHANGED sinkVars \/ Flush \/ CloseSink
    PROVE  UNCHANGED Requests /\ (Increasing <=> Increasing')
<1>1. toRouter \o unsent \in Seq(TxMessage)
  BY ConcatProperties DEF SinkType
<1>2. CASE Flush \/ CloseSink
  BY <1>1, <1>2, ConcatEmptySeq, WrittenSame DEF Written, Flush, CloseSink
<1>3. CASE UNCHANGED sinkVars
  BY <1>3, WrittenSame DEF Written, sinkVars
<1>4. QED
  BY <1>2, <1>3

LEMMA WrittenMore ==
    ASSUME SinkType, NEW m \in TxMessage, Written' = Append(Written, m)
    PROVE  /\ Requests' = Requests \cup (IF IsRequest(m) THEN {m} ELSE {})
           /\ Increasing /\ (IsRequest(m) => \A q \in Requests : q.req < m.req) => Increasing'
<1>1. Written \in Seq(TxMessage) /\ Len(Written) \in Nat
  BY WrittenType
<1>2. /\ Len(Written') = Len(Written) + 1
      /\ \A i \in 1 .. Len(Written) : Written'[i] = Written[i]
      /\ Written'[Len(Written) + 1] = m
  BY <1>1, AppendProperties
<1>3. Requests' = Requests \cup (IF IsRequest(m) THEN {m} ELSE {})
  BY <1>1, <1>2 DEF Requests, IsRequest
<1>4. ASSUME Increasing, IsRequest(m) => \A q \in Requests : q.req < m.req
      PROVE  Increasing'
  BY <1>1, <1>2, <1>4 DEF Increasing, Requests
<1>5. QED
  BY <1>3, <1>4

LEMMA SinkSends ==
    ASSUME SinkType, NEW m \in TxMessage,
           StartSend(m) \/ (toRouter' = toRouter \o unsent \o <<m>> /\ unsent' = <<>>)
    PROVE  Written' = Append(Written, m)
<1>1. toRouter \in Seq(TxMessage) /\ unsent \in Seq(TxMessage) /\ Written \in Seq(TxMessage)
  BY WrittenType DEF SinkType
<1>2. Append(Written, m) = Written \o <<m>> /\ Append(Written, m) \in Seq(TxMessage)
  BY <1>1, AppendIsConcat, AppendProperties
<1>3. CASE StartSend(m)
  BY <1>2, <1>3 DEF StartSend, Written
<1>4. CASE toRouter' = toRouter \o unsent \o <<m>> /\ unsent' = <<>>
  BY <1>2, <1>4, ConcatEmptySeq DEF Written
<1>5. QED
  BY <1>3, <1>4

LEMMA WrittenLess ==
    ASSUME SinkType, toRouter # <<>>, toRouter' = Tail(toRouter), UNCHANGED unsent
    PROVE  /\ Requests' \subseteq Requests
           /\ Increasing => Increasing'
           /\ Head(toRouter) \in TxMessage
           /\ IsRequest(Head(toRouter)) =>
                 /\ Head(toRouter) \in Requests
                 /\ Increasing => \A q \in Requests' : Head(toRouter).req < q.req
<1>1. toRouter \in Seq(TxMessage) /\ Len(toRouter) \in Nat \ {0} /\ unsent \in Seq(TxMessage)
      /\ Len(unsent) \in Nat
  BY EmptySeq, LenProperties DEF SinkType
<1>2. /\ Tail(toRouter) \in Seq(TxMessage) /\ Len(Tail(toRouter)) = Len(toRouter) - 1
      /\ \A i \in 1 .. Len(Tail(toRouter)) : Tail(toRouter)[i] = toRouter[i + 1]
      /\ Head(toRouter) = toRouter[1] /\ Head(toRouter) \in TxMessage
  BY <1>1, HeadTailProperties
<1>3. /\ Len(Written) = Len(toRouter) + Len(unsent)
      /\ \A i \in 1 .. Len(Written) :
            Written[i] = IF i <= Len(toRouter) THEN toRouter[i] ELSE unsent[i - Len(toRouter)]
  BY <1>1, ConcatProperties DEF Written
<1>4. /\ Len(Written') = Len(toRouter) - 1 + Len(unsent)
      /\ \A i \in 1 .. Len(Written') :
            Written'[i] = IF i <= Len(toRouter) - 1 THEN Tail(toRouter)[i]
                                                    ELSE unsent[i - (Len(toRouter) - 1)]
  BY <1>1, <1>2, ConcatProperties DEF Written
<1>5. /\ Len(Written) \in Nat /\ Len(Written) > 0 /\ Len(Written') = Len(Written) - 1
      /\ Written[1] = Head(toRouter)
  BY <1>1, <1>2, <1>3, <1>4
<1>6. ASSUME NEW i \in 1 .. Len(Written') PROVE Written'[i] = Written[i + 1]
  <2>1. i \in Nat /\ 1 <= i /\ i + 1 \in 1 .. Len(Written)
    BY <1>5
  <2>2. CASE i <= Len(toRouter) - 1
    BY <1>1, <1>2, <1>3, <1>4, <2>1, <2>2
  <2>3. CASE ~(i <= Len(toRouter) - 1)
    BY <1>1, <1>3, <1>4, <2>1, <2>3
  <2>4. QED
    BY <2>2, <2>3
<1>7. Requests' \subseteq Requests /\ (IsRequest(Head(toRouter)) => Head(toRouter) \in Requests)
  BY <1>5, <1>6 DEF Requests
<1>8. Increasing => Increasing'
  BY <1>5, <1>6 DEF Increasing
<1>9. ASSUME IsRequest(Head(toRouter)), Increasing
      PROVE  \A q \in Requests' : Head(toRouter).req < q.req
  <2> SUFFICES ASSUME NEW q \in Requests' PROVE Head(toRouter).req < q.req
    OBVIOUS
  <2>1. PICK i \in 1 .. Len(Written') : Written'[i] = q /\ IsRequest(q)
    BY DEF Requests, IsRequest
  <2>2. i + 1 \in 1 .. Len(Written) /\ 1 < i + 1 /\ Written[i + 1] = q
    BY <1>5, <1>6, <2>1
  <2>3. QED
    BY <1>5, <1>9, <2>1, <2>2 DEF Increasing
<1>10. QED
  BY <1>2, <1>7, <1>8, <1>9

-----------------------------------------------------------------------------
(* What comes to the listener.                                             *)
Item == RxMessage \cup {NoMessage}

LEMMA FromRouterType ==
    ASSUME NetType
    PROVE  fromRouter \in Seq(RxMessage) /\ fromRouter \in Seq(Item) /\ Len(fromRouter) \in Nat
           /\ \A i \in 1 .. Len(fromRouter) : fromRouter[i] \in RxMessage
  BY SeqMonotonic, LenProperties, ElementOfSeq DEF NetType, Item

\* A message that is judged comes before the rest.
LEMMA ComingFirst ==
    ASSUME NetType, ListenType
    PROVE  /\ Coming \in Seq(Item) /\ Len(Coming) \in Nat
           /\ \A i \in 1 .. Len(Coming) : Coming[i] \in Item
           /\ lpc # "process" => Coming = fromRouter
           /\ lpc = "process" =>
                 /\ Len(Coming) = Len(fromRouter) + 1 /\ Coming[1] = lmsg
                 /\ \A i \in 1 .. Len(fromRouter) : Coming[i + 1] = fromRouter[i]
<1>1. lmsg \in Item /\ <<lmsg>> \in Seq(Item) /\ Len(<<lmsg>>) = 1 /\ <<lmsg>>[1] = lmsg
  BY DEF ListenType, Item
<1>2. /\ <<lmsg>> \o fromRouter \in Seq(Item)
      /\ Len(<<lmsg>> \o fromRouter) = 1 + Len(fromRouter)
      /\ \A i \in 1 .. 1 + Len(fromRouter) :
            (<<lmsg>> \o fromRouter)[i] = IF i <= 1 THEN <<lmsg>>[i] ELSE fromRouter[i - 1]
  BY <1>1, FromRouterType, ConcatProperties
<1>3. /\ (<<lmsg>> \o fromRouter)[1] = lmsg
      /\ \A i \in 1 .. Len(fromRouter) : (<<lmsg>> \o fromRouter)[i + 1] = fromRouter[i]
  BY <1>1, <1>2, FromRouterType
<1>4. Coming \in Seq(Item)
  BY <1>2, FromRouterType DEF Coming
<1>5. QED
  BY <1>2, <1>3, <1>4, LenProperties, ElementOfSeq DEF Coming

LEMMA ComingSame ==
    ASSUME UNCHANGED fromRouter,
           (lpc # "process" /\ lpc' # "process") \/ UNCHANGED <<lpc, lmsg>>
    PROVE  UNCHANGED <<Coming, Arriving>>
  BY DEF Coming, Arriving

LEMMA ComingTaken ==
    ASSUME NetType, ListenType, LRecv
    PROVE  UNCHANGED <<Coming, Arriving>>
<1>1. fromRouter = <<Head(fromRouter)>> \o Tail(fromRouter)
  BY HeadTailProperties, FromRouterType DEF LRecv
<1>2. QED
  BY <1>1 DEF LRecv, TakeItem, Coming, Arriving

LEMMA ComingReset ==
    ASSUME NetType, ListenType, LRecvError
    PROVE  /\ Len(Coming') = Len(Coming) + 1 /\ Coming'[1] = [type |-> "RESET"]
           /\ \A i \in 1 .. Len(Coming) : Coming'[i + 1] = Coming[i]
           /\ Arriving' = Arriving \cup {[type |-> "RESET"]}
<1>1. /\ fromRouter \in Seq(Item) /\ Len(fromRouter) \in Nat /\ Coming = fromRouter
      /\ Coming' = <<[type |-> "RESET"]>> \o fromRouter
  BY FromRouterType DEF LRecvError, TakeItem, Coming, NetUnchanged, netVars
<1>2. [type |-> "RESET"] \in Item
  BY BareMessages DEF Item
<1>3. /\ Len(Coming') = 1 + Len(fromRouter)
      /\ \A i \in 1 .. 1 + Len(fromRouter) :
            Coming'[i] = IF i <= 1 THEN <<[type |-> "RESET"]>>[i] ELSE fromRouter[i - 1]
  BY <1>1, <1>2, ConcatProperties
<1>4. /\ Len(Coming') = Len(Coming) + 1 /\ Coming'[1] = [type |-> "RESET"]
      /\ \A i \in 1 .. Len(Coming) : Coming'[i + 1] = Coming[i]
  BY <1>1, <1>3
<1>5. QED
  BY <1>1, <1>4 DEF Arriving

LEMMA ComingJudged ==
    ASSUME NetType, ListenType, lpc = "process", lpc' # "process", UNCHANGED fromRouter
    PROVE  /\ Len(Coming) = Len(Coming') + 1 /\ Coming[1] = lmsg /\ Len(Coming') \in Nat
           /\ \A i \in 1 .. Len(Coming') : Coming[i + 1] = Coming'[i]
           /\ Arriving = Arriving' \cup {lmsg}
<1>1. Coming' = fromRouter
  BY DEF Coming
<1>2. /\ Len(Coming) = Len(Coming') + 1 /\ Coming[1] = lmsg /\ Len(Coming') \in Nat
      /\ \A i \in 1 .. Len(Coming') : Coming[i + 1] = Coming'[i]
  BY <1>1, ComingFirst, FromRouterType
<1>3. Arriving' \cup {lmsg} \subseteq Arriving
  BY <1>2 DEF Arriving
<1>4. ASSUME NEW i \in 1 .. Len(Coming) PROVE Coming[i] \in Arriving' \cup {lmsg}
  <2>1. i = 1 \/ (i - 1 \in 1 .. Len(Coming') /\ Coming[i] = Coming'[i - 1])
    BY <1>2
  <2>2. QED
    BY <1>2, <2>1 DEF Arriving
<1>5. QED
  BY <1>2, <1>3, <1>4 DEF Arriving

LEMMA ComingMore ==
    ASSUME NetType, ListenType, NEW m \in RxMessage, Send(m), UNCHANGED listenVars
    PROVE  /\ Len(Coming') = Len(Coming) + 1 /\ Coming'[Len(Coming) + 1] = m
           /\ \A i \in 1 .. Len(Coming) : Coming'[i] = Coming[i]
           /\ Arriving' = Arriving \cup {m}
<1>1. fromRouter \in Seq(Item) /\ m \in Item /\ <<lmsg>> \in Seq(Item) /\ Coming \in Seq(Item)
      /\ Len(Coming) \in Nat
  BY FromRouterType, ComingFirst DEF Item, ListenType
<1>2. Append(fromRouter, m) = fromRouter \o <<m>> /\ <<m>> \in Seq(Item)
  BY <1>1, AppendIsConcat
<1>3. <<lmsg>> \o (fromRouter \o <<m>>) = (<<lmsg>> \o fromRouter) \o <<m>>
  BY <1>1, <1>2, ConcatAssociative
<1>4. Coming' = Coming \o <<m>>
  BY <1>2, <1>3 DEF Coming, Send, listenVars
<1>5. Coming' = Append(Coming, m)
  BY <1>1, <1>4, AppendIsConcat
<1>6. /\ Len(Coming') = Len(Coming) + 1 /\ Coming'[Len(Coming) + 1] = m
      /\ \A i \in 1 .. Len(Coming) : Coming'[i] = Coming[i]
  BY <1>1, <1>5, AppendProperties
<1>7. QED
  BY <1>1, <1>6 DEF Arriving

-----------------------------------------------------------------------------
\* No stream is made, and none changes its topic.
NoNewStream ==
    \A r \in Reqs : /\ streams'[r].status # "none" => streams[r].status # "none"
                    /\ streams'[r].sub = streams[r].sub

LEMMA StopMakesNone == TrackInv /\ StopAll => NoNewStream
  BY StoppedType DEF StopAll, NoNewStream

\* A step that takes no id, writes no request, buffers no reply and makes no stream.
LEMMA AskFrame ==
    ASSUME AskInv, Requests' \subseteq Requests, Increasing', Replied' \subseteq Replied,
           UNCHANGED <<req, asked>>, NoNewStream,
           Settling' => Settling, Unwritten' => Unwritten, Subscribing' => Subscribing,
           upc' = "new" => upc = "new" /\ UNCHANGED <<toRouter, unsent>>
    PROVE  AskInv'
  BY DEF AskInv, WrittenInv, RepliedInv, OwnersInv, NoNewStream

LEMMA RepliesListener ==
    ASSUME NetType, ListenType, ListenerStep \/ LStop
    PROVE  Replied' \subseteq Replied
<1> USE DEF Replied, bufferVars, NetUnchanged, netVars
<1>1. CASE LRecv
  BY <1>1, ComingTaken DEF LRecv, TakeItem
<1>2. CASE LRecvError
  BY <1>2, ComingReset DEF LRecvError, TakeItem, IsReply
<1>3. CASE LProcess
  <2>1. Verdict(lmsg, lstate) # "process"
    BY DEF Verdict
  <2>2. Arriving = Arriving' \cup {lmsg}
    BY <1>3, <2>1, ComingJudged DEF LProcess
  <2>3. received' \subseteq received \cup {lmsg}
    BY <1>3 DEF LProcess, Buffer
  <2>4. QED
    BY <2>2, <2>3 DEF IsReply
<1>4. CASE LRecvNone \/ LWelcome \/ LGoodbye
  BY <1>4, ComingSame DEF LRecvNone, LWelcome, LGoodbye
<1>5. CASE LAbort \/ LProtocolError \/ LClosing \/ LFinal
  BY <1>5, ComingSame DEF LAbort, LProtocolError, LClosing, LFinal, SetState
<1>6. CASE LLockSend \/ LLockClose \/ LSend \/ LStopAll \/ LClose \/ LStop
  BY <1>6, ComingSame DEF LLockSend, LLockClose, Lock, LSend, LStopAll, LClose, LStop
<1>7. QED
  BY <1>1, <1>2, <1>3, <1>4, <1>5, <1>6 DEF ListenerStep

\* The listener writes ABORT and GOODBYE only.
LEMMA ListenerAsksNothing ==
    ASSUME TypeInv, ListenerStep \/ LStop
    PROVE  UNCHANGED Requests /\ (Increasing => Increasing')
<1>1. SinkType /\ ListenType
  BY DEF TypeInv, ListenInv
<1>2. CASE LSend
  <2>1. [type |-> lreply] \in TxMessage /\ ~IsRequest([type |-> lreply])
    BY <1>1, BareMessages DEF ListenType, IsRequest
  <2>2. UNCHANGED sinkVars \/ Written' = Append(Written, [type |-> lreply])
    BY <1>1, <1>2, <2>1, SinkSends DEF LSend
  <2>3. CASE UNCHANGED sinkVars
    BY <1>1, <2>3, SinkSame
  <2>4. CASE Written' = Append(Written, [type |-> lreply])
    <3>1. Requests' = Requests /\ (Increasing => Increasing')
      BY <1>1, <2>1, <2>4, WrittenMore
    <3>2. QED
      BY <3>1
  <2>5. QED
    BY <2>2, <2>3, <2>4
<1>3. CASE ~LSend
  <2>1. UNCHANGED sinkVars \/ CloseSink
    BY <1>3 DEF ListenerStep, LRecv, LRecvError, TakeItem, LRecvNone, LProcess, LWelcome,
                LAbort, LProtocolError, LGoodbye, LClosing, SetState, LLockSend, LLockClose,
                Lock, LStopAll, LClose, LFinal, LStop
  <2>2. QED
    BY <1>1, <2>1, SinkSame
<1>4. QED
  BY <1>2, <1>3

LEMMA ListenerFrame ==
    ListenerStep \/ LStop => /\ UNCHANGED <<userVars, hasQueue, rsubs, session>>
                             /\ UNCHANGED streams \/ StopAll
                             /\ lpc # "none"
<1> USE DEF bufferVars, trackVars, netVars, NetUnchanged, OthersUnchanged
<1>1. LRecv \/ LRecvError \/ LRecvNone \/ LProcess \/ LWelcome \/ LGoodbye
        => /\ UNCHANGED <<userVars, hasQueue, rsubs, session, streams>> /\ lpc # "none"
  BY DEF LRecv, LRecvError, TakeItem, LRecvNone, LProcess, Buffer, LWelcome, LGoodbye
<1>2. LAbort \/ LProtocolError \/ LClosing \/ LFinal
        => /\ UNCHANGED <<userVars, hasQueue, rsubs, session, streams>> /\ lpc # "none"
  BY DEF LAbort, LProtocolError, LClosing, LFinal, SetState
<1>3. LLockSend \/ LLockClose \/ LSend \/ LClose \/ LStop
        => /\ UNCHANGED <<userVars, hasQueue, rsubs, session, streams>> /\ lpc # "none"
  BY DEF LLockSend, LLockClose, Lock, LSend, LClose, LStop
<1>4. LStopAll => /\ UNCHANGED <<userVars, hasQueue, rsubs, session>> /\ StopAll /\ lpc # "none"
  BY DEF LStopAll
<1>5. QED
  BY <1>1, <1>2, <1>3, <1>4 DEF ListenerStep

LEMMA AskListener == TypeInv /\ SpawnInv /\ AskInv /\ (ListenerStep \/ LStop) => AskInv'
<1> SUFFICES ASSUME TypeInv, SpawnInv, AskInv, ListenerStep \/ LStop PROVE AskInv'
  OBVIOUS
<1>1. Replied' \subseteq Replied /\ Requests' = Requests /\ Increasing'
  BY RepliesListener, ListenerAsksNothing DEF TypeInv, ListenInv, AskInv, WrittenInv
<1>2. NoNewStream
  BY ListenerFrame, StopMakesNone DEF NoNewStream, TypeInv
<1>3. UNCHANGED userVars /\ upc # "new"
  BY ListenerFrame DEF SpawnInv
<1>4. QED
  BY <1>1, <1>2, <1>3, AskFrame DEF userVars, Settling, Unwritten, Subscribing

LEMMA RepliesUser ==
    UNCHANGED <<lmsg, fromRouter>> /\ (UNCHANGED lpc \/ {lpc, lpc'} \subseteq {"none", "recv"})
        /\ received' \subseteq received => Replied' \subseteq Replied
  BY ComingSame DEF Replied

LEMMA UserReq == TypeInv => req \in Int /\ \A r \in Reqs : r \in Int
  BY ClientAssumption DEF TypeInv, UserInv, UserType, Ids, Reqs

LEMMA ReplyFields ==
    ASSUME TypeInv
    PROVE  /\ Replied \subseteq RxMessage
           /\ \A m \in Replied : /\ m.req \in Reqs
                                 /\ m.type = "SUBSCRIBED" => m.sub \in Topics /\ m.n \in Counts
<1>1. \A m \in RxMessage : IsReply(m) => m.req \in Reqs
  BY DEF RxMessage, IsReply
<1>2. ~IsReply(NoMessage)
  BY DEF NoMessage, IsReply
<1>3. Replied \subseteq RxMessage
  BY <1>2, ComingFirst DEF TypeInv, ListenInv, BufferType, Replied, Arriving, Item
<1>4. QED
  BY <1>1, <1>3, MessageFields DEF Replied

\* HELLO is the first message, and no request.
LEMMA HelloAsksNothing ==
    ASSUME TypeInv, AskInv, UHello
    PROVE  Requests' = Requests /\ Increasing'
<1>1. SinkType /\ Increasing
  BY DEF TypeInv, AskInv, WrittenInv
<1>2. CASE UNCHANGED toRouter
  BY <1>1, <1>2, SinkSame DEF UHello, sinkVars
<1>3. CASE toRouter' = Append(toRouter, [type |-> "HELLO"])
  <2>1. toRouter = <<>> /\ unsent = <<>> /\ UNCHANGED unsent
    BY DEF UHello, AskInv, WrittenInv
  <2>2. [type |-> "HELLO"] \in TxMessage /\ ~IsRequest([type |-> "HELLO"])
    BY BareMessages DEF IsRequest
  <2>3. Written' = Append(Written, [type |-> "HELLO"])
    BY <1>3, <2>1, <2>2, EmptySeq, AppendProperties, ConcatEmptySeq DEF Written
  <2>4. QED
    BY <1>1, <2>2, <2>3, WrittenMore
<1>4. QED
  BY <1>2, <1>3 DEF UHello

\* A call writes its request behind all others.
LEMMA SendAsks ==
    ASSUME TypeInv, AskInv, USend
    PROVE  /\ Increasing'
           /\ op \in {"subscribe", "unsubscribe"} =>
                 /\ Requests' = Requests \cup {Outgoing}
                 /\ Outgoing.req = req /\ Outgoing.topic = asked[req] /\ IsRequest(Outgoing)
                 /\ Outgoing.type = "UNSUBSCRIBE" <=> op = "unsubscribe"
           /\ op \notin {"subscribe", "unsubscribe"} => Requests' = Requests
<1>1. SinkType /\ UserInv /\ Increasing
  BY DEF TypeInv, AskInv, WrittenInv
<1>2. Outgoing \in TxMessage /\ Written' = Append(Written, Outgoing) /\ upc = "send"
  BY <1>1, OutgoingType, SinkSends DEF USend
<1>3. CASE op \in {"subscribe", "unsubscribe"}
  <2>1. /\ Outgoing.req = req /\ Outgoing.topic = asked[req] /\ IsRequest(Outgoing)
        /\ Outgoing.type = "UNSUBSCRIBE" <=> op = "unsubscribe"
    BY <1>3 DEF Outgoing, IsRequest
  <2>2. Requests' = Requests \cup {Outgoing} /\ Increasing'
    BY <1>1, <1>2, <1>3, <2>1, WrittenMore DEF AskInv, WrittenInv, Unwritten
  <2>3. QED
    BY <1>3, <2>1, <2>2
<1>4. CASE op \notin {"subscribe", "unsubscribe"}
  <2>1. ~IsRequest(Outgoing)
    BY <1>4 DEF Outgoing, IsRequest, Goodbye
  <2>2. QED
    BY <1>1, <1>2, <1>4, <2>1, WrittenMore
<1>5. QED
  BY <1>3, <1>4

\* A reply answers the request under way, and then nothing is left to answer.
LEMMA ReplyTaken ==
    ASSUME TypeInv, AskInv, UReply
    PROVE  /\ upc = "reply" /\ Requests = {} /\ Requests' = {} /\ Increasing'
           /\ received' \subseteq received /\ Replied' \subseteq Replied
           /\ UNCHANGED <<req, asked, op, hasQueue, queue, rsubs, sent, fromRouter, lpc, lmsg>>
           /\ \/ /\ UNCHANGED streams /\ upc' \notin SelectPCs \cup {"new", "addQueue"}
                 /\ upc' = "rmQueue" => op = "unsubscribe"
              \/ /\ upc' = "addQueue" /\ op = "subscribe" /\ req \in Reqs
                 /\ \E m \in received :
                       /\ m \in Replied /\ m.type = "SUBSCRIBED" /\ m.req = req
                       /\ streams' = [streams EXCEPT ![req] =
                             [status |-> "made", stop |-> FALSE, sub |-> m.sub, last |-> m.n]]
<1>1. PICK m \in Replies :
        /\ received' = received \ {m}
        /\ \/ m.type = "SUBSCRIBED" /\ Go("addQueue") /\ UNCHANGED polled
           \/ m.type = "UNSUBSCRIBED" /\ Go("rmQueue") /\ UNCHANGED polled
           \/ m.type = "ERROR" /\ Return("failed")
        /\ streams' = IF m.type = "SUBSCRIBED"
                      THEN [streams EXCEPT ![req] = [status |-> "made", stop |-> FALSE,
                                                     sub |-> m.sub, last |-> m.n]]
                      ELSE streams
  BY DEF UReply
<1>2. /\ upc = "reply" /\ SinkType /\ received' \subseteq received
      /\ UNCHANGED <<req, asked, op, hasQueue, queue, rsubs, sent, fromRouter, lpc, lmsg, sinkVars>>
  BY <1>1 DEF TypeInv, UReply, Go, Return, EnvUnchanged, netVars, listenVars
<1>3. Requests' = Requests /\ Increasing' /\ Replied' \subseteq Replied
  BY <1>1, <1>2, SinkSame, RepliesUser DEF AskInv, WrittenInv
<1>4. m \in Replied /\ m \in received /\ m.req = req
  BY DEF Replies, Replied, IsReply
<1>5. Requests = {}
  BY <1>2, <1>4, WrittenType, UserReq DEF AskInv, WrittenInv, RepliedInv
<1>6. CASE m.type = "SUBSCRIBED"
  <2>1. op = "subscribe" /\ upc' = "addQueue"
    BY <1>1, <1>6 DEF Replies, Go
  <2>2. req \in Reqs
    BY <1>2, <2>1 DEF TypeInv, UserInv, RequestInv, RequestPCs, SelectPCs
  <2>3. QED
    BY <1>1, <1>2, <1>3, <1>4, <1>5, <1>6, <2>1, <2>2
<1>7. CASE m.type # "SUBSCRIBED"
  <2>1. /\ UNCHANGED streams /\ upc' \notin SelectPCs \cup {"new", "addQueue"}
        /\ upc' = "rmQueue" => op = "unsubscribe"
    BY <1>1, <1>7 DEF Replies, Go, Return, SelectPCs
  <2>2. QED
    BY <1>2, <1>3, <1>5, <2>1
<1>8. QED
  BY <1>6, <1>7

LEMMA AskUser == TypeInv /\ SpawnInv /\ AskInv /\ UserStep => AskInv'
<1> SUFFICES ASSUME TypeInv, SpawnInv, AskInv, UserStep PROVE AskInv'
  OBVIOUS
<1>0. SinkType /\ TrackInv /\ Increasing /\ MadeInv /\ CloseInv
  BY DEF TypeInv, AskInv, WrittenInv, UserInv
<1> USE <1>0 DEF EnvUnchanged, listenVars, netVars, bufferVars, NoNewStream, trackVars, sinkVars,
                 Settling, Unwritten, Subscribing, SelectPCs, Go, Return
<1>1. CASE UHello
  <2>1. Replied' \subseteq Replied
    BY <1>1, RepliesUser DEF UHello, SpawnInv
  <2>2. QED
    BY <1>1, <2>1, HelloAsksNothing, AskFrame DEF UHello
<1>2. CASE UJoined \/ UPoll \/ UWatchFails \/ UPend \/ URequest \/ USinkFails
  BY <1>2, SinkSame, RepliesUser, AskFrame
  DEF UJoined, UPoll, UWatchFails, UPend, URequest, USinkFails
<1>3. CASE UStopAll \/ UDropStop
  <2>1. NoNewStream
    BY <1>3, StopMakesNone DEF UStopAll, UDropStop
  <2>2. QED
    BY <1>3, <2>1, SinkSame, RepliesUser, AskFrame DEF UStopAll, UDropStop, CloseInv
<1>4. CASE UTrack
  <2>1. NoNewStream
    BY <1>4, StoppedType DEF UTrack, MadeInv, TrackInv, TrackType
  <2>2. QED
    BY <1>4, <2>1, SinkSame, RepliesUser, AskFrame DEF UTrack
<1>5. CASE UUntrack
  <2>1. NoNewStream
    BY <1>5, StoppedType DEF UUntrack
  <2>2. QED
    BY <1>5, <2>1, SinkSame, RepliesUser, AskFrame DEF UUntrack
<1>6. CASE UAddQueue \/ URemoveQueue \/ UAck \/ UWriteClosed \/ UWaited
  BY <1>6, SinkSame, RepliesUser, AskFrame
  DEF UAddQueue, URemoveQueue, UAck, UWriteClosed, UWaited
<1>7. CASE UDropListener \/ UDropCheck
  BY <1>7, SinkSame, RepliesUser, AskFrame DEF UDropListener, UDropCheck
<1>8. CASE UFlush \/ UClose
  BY <1>8, SinkSame, RepliesUser, AskFrame DEF UFlush, UClose
<1>9. CASE USend
  <2>1. Replied' \subseteq Replied
    BY <1>9, RepliesUser DEF USend
  <2>2. /\ UNCHANGED <<asked, op, streams>> /\ upc = "send" /\ upc' = "reacquire"
        /\ req' = IF op = "publish" THEN req + 1 ELSE req
    BY <1>9 DEF USend
  <2>3. req \in Int /\ (\A m \in Replied : m.req \in Int) /\ (\A q \in Requests : q.req \in Int)
    BY UserReq, ReplyFields, WrittenType
  <2>4. QED
    BY <1>9, <2>1, <2>2, <2>3, SendAsks, UserReq
    DEF AskInv, WrittenInv, RepliedInv, OwnersInv
<1>10. CASE UReply
  <2>1. ~Unwritten' /\ ~Subscribing'
    BY <1>10, ReplyTaken
  <2>2. OwnersInv'
    BY <1>10, <2>1, ReplyTaken, UserReq DEF AskInv, RepliedInv, OwnersInv, TrackInv, TrackType
  <2>3. QED
    BY <1>10, <2>1, <2>2, ReplyTaken DEF AskInv, WrittenInv, RepliedInv
<1>11. QED
  BY <1>1, <1>2, <1>3, <1>4, <1>5, <1>6, <1>7, <1>8, <1>9, <1>10 DEF UserStep

LEMMA AskChoice == TypeInv /\ AskInv /\ UserChoice => AskInv'
<1> SUFFICES ASSUME TypeInv, AskInv, UserChoice PROVE AskInv'
  OBVIOUS
<1>0. SinkType /\ TrackInv /\ Increasing /\ TrackType
  BY DEF TypeInv, AskInv, WrittenInv, TrackInv
<1> USE <1>0 DEF EnvUnchanged, listenVars, netVars, bufferVars, NoNewStream, trackVars, sinkVars,
                 Settling, Unwritten, Subscribing, SelectPCs
<1>1. ASSUME NEW topic, BeginRequest(topic), upc = "idle",
             Requests' = Requests, Increasing', Replied' \subseteq Replied, NoNewStream
      PROVE  AskInv'
  <2>1. CASE Accepts
    <3>1. req' = req + 1 /\ upc' = "acquire" /\ asked' = [asked EXCEPT ![req + 1] = topic]
      BY <1>1, <2>1 DEF BeginRequest
    <3>2. \A r \in Reqs : r <= req => asked'[r] = asked[r]
      BY <3>1, UserReq DEF TypeInv, UserInv, UserType
    <3>3. \A q \in Requests : q.req \in Reqs /\ q.req <= req /\ q.topic = asked[q.req]
      BY WrittenType DEF AskInv, WrittenInv
    <3>4. \A m \in Replied : m.req \in Reqs /\ m.req <= req
      BY ReplyFields DEF AskInv, RepliedInv
    <3>5. WrittenInv' /\ RepliedInv'
      BY <1>1, <3>1, <3>2, <3>3, <3>4, UserReq DEF AskInv, WrittenInv, RepliedInv
    <3>6. OwnersInv'
      BY <1>1, <3>1, <3>2, UserReq DEF AskInv, OwnersInv
    <3>7. QED
      BY <3>5, <3>6 DEF AskInv
  <2>2. CASE ~Accepts
    BY <1>1, <2>2, AskFrame DEF BeginRequest
  <2>3. QED
    BY <2>1, <2>2
<1>2. CASE \E t \in Topics : UBeginSubscribe(t)
  BY <1>1, <1>2, SinkSame, RepliesUser DEF UBeginSubscribe, Begin
<1>3. CASE \E r \in Reqs : UBeginUnsubscribe(r)
  BY <1>1, <1>3, SinkSame, RepliesUser DEF UBeginUnsubscribe, Begin, TrackType
<1>4. CASE UBeginPublish \/ UBeginClose \/ UBeginWait \/ UBeginDrop
  BY <1>4, SinkSame, RepliesUser, AskFrame
  DEF UBeginPublish, UBeginClose, UBeginWait, UBeginDrop, Begin
<1>5. CASE UCancel
  BY <1>5, SinkSame, RepliesUser, AskFrame DEF UCancel, Return
<1>6. CASE \E r \in Reqs : StreamDropped(r)
  BY <1>6, SinkSame, RepliesUser, AskFrame DEF StreamDropped, userVars, TrackType
<1>7. QED
  BY <1>2, <1>3, <1>4, <1>5, <1>6 DEF UserChoice

LEMMA AskStream == \A r \in Reqs : TypeInv /\ AskInv /\ StreamStep(r) => AskInv'
<1> SUFFICES ASSUME NEW r \in Reqs, TypeInv, AskInv, StreamStep(r) PROVE AskInv'
  OBVIOUS
<1>1. SinkType /\ Increasing /\ TrackType
  BY DEF TypeInv, AskInv, WrittenInv, TrackInv
<1>2. /\ UNCHANGED <<userVars, sinkVars, listenVars, netVars, received>>
      /\ NoNewStream
  <2>1. /\ UNCHANGED <<userVars, sinkVars, listenVars, netVars, received>>
        /\ \/ streams' = [streams EXCEPT ![r].status = "ended"] /\ streams[r].status = "live"
           \/ streams' = [streams EXCEPT ![r].last = Head(queue[streams[r].sub])]
    BY DEF StreamStep, StreamEnds, StreamYields, EnvUnchanged, bufferVars
  <2>2. NoNewStream
    BY <1>1, <2>1 DEF NoNewStream, TrackType, Stream
  <2>3. QED
    BY <2>1, <2>2
<1>3. QED
  BY <1>1, <1>2, SinkSame, RepliesUser, AskFrame
  DEF userVars, sinkVars, listenVars, netVars, Settling, Unwritten, Subscribing

\* The router answers the oldest request, so that its answer is older than all others.
LEMMA AskAnswered ==
    ASSUME TypeInv, AskInv, ClientUnchanged, NEW m \in RxMessage, Send(m),
           toRouter # <<>>, toRouter' = Tail(toRouter),
           IsReply(m) => /\ IsRequest(Head(toRouter)) /\ m.req = Head(toRouter).req
                         /\ m.type = "SUBSCRIBED" => m.sub = Head(toRouter).topic
    PROVE  AskInv'
<1> USE DEF ClientUnchanged, userVars, listenVars, bufferVars, trackVars
<1>1. SinkType /\ NetType /\ ListenType /\ Increasing
  BY DEF TypeInv, ListenInv, AskInv, WrittenInv
<1>2. /\ Requests' \subseteq Requests /\ Increasing'
      /\ IsRequest(Head(toRouter)) =>
            /\ Head(toRouter) \in Requests
            /\ \A q \in Requests' : Head(toRouter).req < q.req
  BY <1>1, WrittenLess
<1>3. Replied' = Replied \cup (IF IsReply(m) THEN {m} ELSE {})
  BY <1>1, ComingMore DEF Replied, IsReply
<1>4. WrittenInv' /\ OwnersInv'
  BY <1>2 DEF AskInv, WrittenInv, OwnersInv, Settling, Unwritten, Subscribing
<1>5. RepliedInv'
  BY <1>2, <1>3 DEF AskInv, WrittenInv, RepliedInv, Unwritten
<1>6. QED
  BY <1>4, <1>5 DEF AskInv

LEMMA AskRouter ==
    TypeInv /\ AskInv /\ (RouterAnswer \/ EnvironmentChoice) => AskInv'
<1> SUFFICES ASSUME TypeInv, AskInv, RouterAnswer \/ EnvironmentChoice PROVE AskInv'
  OBVIOUS
<1> USE DEF ClientUnchanged, userVars, listenVars, bufferVars, trackVars
<1>1. SinkType /\ NetType /\ ListenType /\ Increasing /\ ClientUnchanged
  BY EnvironmentFrame DEF TypeInv, ListenInv, AskInv, WrittenInv
<1>2. ASSUME Requests' \subseteq Requests, Increasing', Replied' \subseteq Replied,
             upc = "new" => UNCHANGED <<toRouter, unsent>>
      PROVE  AskInv'
  BY <1>1, <1>2, AskFrame DEF NoNewStream, Settling, Unwritten, Subscribing
<1>3. ASSUME toRouter # <<>>, toRouter' = Tail(toRouter), UNCHANGED fromRouter PROVE AskInv'
  <2>1. upc # "new"
    BY <1>3 DEF AskInv, WrittenInv
  <2>2. QED
    BY <1>1, <1>2, <1>3, <2>1, WrittenLess, RepliesUser
<1>4. ASSUME NEW m \in RxMessage, Send(m), ~IsReply(m), UNCHANGED toRouter PROVE AskInv'
  <2>1. Replied' \subseteq Replied
    BY <1>1, <1>4, ComingMore DEF Replied
  <2>2. QED
    BY <1>1, <1>2, <1>4, <2>1, SinkSame DEF sinkVars
<1>5. CASE RHello
  BY <1>1, <1>5, AskAnswered, RxMessages, BareMessages DEF RHello, Takes, IsReply
<1>6. ASSUME NEW m \in TxMessage, m = Head(toRouter), IsRequest(m), RSubscribe \/ RUnsubscribe
      PROVE  AskInv'
  <2>1. m.req \in Reqs /\ m.topic \in Topics /\ sent[m.topic] \in Counts
    BY <1>1, <1>6, MessageFields DEF IsRequest, NetType
  <2>2. toRouter # <<>> /\ toRouter' = Tail(toRouter)
    BY <1>6 DEF RSubscribe, RUnsubscribe, Takes
  <2>3. CASE RSubscribe
    BY <1>1, <1>6, <2>1, <2>2, <2>3, AskAnswered, RxMessages DEF RSubscribe, IsReply
  <2>4. CASE RUnsubscribe
    BY <1>1, <1>6, <2>1, <2>2, <2>4, AskAnswered, RxMessages DEF RUnsubscribe, IsReply
  <2>5. QED
    BY <1>6, <2>3, <2>4
<1>7. CASE RSubscribe \/ RUnsubscribe
  BY <1>1, <1>6, <1>7, TakesType DEF RSubscribe, RUnsubscribe, IsRequest
<1>8. CASE RGoodbye
  BY <1>1, <1>3, <1>8, AskAnswered, BareMessages DEF RGoodbye, Takes, Goodbye, IsReply
<1>9. CASE RPublish \/ RAbort \/ RDiscard
  BY <1>3, <1>9 DEF RPublish, RAbort, RDiscard, Takes
<1>10. CASE (\E t \in Topics : REvent(t)) \/ REndsSession
  <2>1. ASSUME NEW t \in Topics, REvent(t) PROVE AskInv'
    <3>1. sent[t] + 1 \in Counts
      BY <1>1, <2>1, ClientAssumption DEF REvent, NetType, Counts
    <3>2. QED
      BY <1>4, <2>1, <3>1, RxMessages DEF REvent, IsReply
  <2>2. CASE REndsSession
    BY <1>4, <2>2, BareMessages DEF REndsSession, Goodbye, IsReply
  <2>3. QED
    BY <1>10, <2>1, <2>2
<1>11. CASE NetEnd \/ NetReset \/ NetStall
  BY <1>1, <1>2, <1>11, SinkSame, RepliesUser DEF NetEnd, NetReset, NetStall, sinkVars
<1>12. QED
  BY <1>5, <1>7, <1>8, <1>9, <1>10, <1>11 DEF RouterAnswer, EnvironmentChoice

\* A request that is still to be answered is younger than every answer there is, also of
\* calls that were dropped, and each answer and stream is about what its request asked for
\* (ops/subscribe.rs:24-97, ops/unsubscribe.rs:17-90).
THEOREM AskInvariance == Spec => []AskInv
<1>1. Init => AskInv
  <2>1. SUFFICES ASSUME Init PROVE AskInv
    OBVIOUS
  <2>2. Written = <<>> /\ Coming = <<>>
    BY <2>1 DEF Init, Written, Coming
  <2>3. Requests = {} /\ Replied = {}
    BY <2>1, <2>2 DEF Init, Requests, Replied, Arriving
  <2>4. QED
    BY <2>1, <2>2, <2>3
    DEF Init, AskInv, WrittenInv, RepliedInv, OwnersInv, Increasing, NoStream
<1>2. TypeInv /\ SpawnInv /\ AskInv /\ [Next]_vars => AskInv'
  <2>1. TypeInv /\ AskInv /\ UNCHANGED vars => AskInv'
    BY SinkSame, RepliesUser, AskFrame
    DEF vars, userVars, listenVars, bufferVars, trackVars, sinkVars, netVars, NoNewStream,
        Settling, Unwritten, Subscribing, TypeInv, AskInv, WrittenInv
  <2>2. QED
    BY <2>1, AskListener, AskUser, AskChoice, AskStream, AskRouter DEF Next
<1>3. QED
  BY <1>1, <1>2, TypeInvariance, Spawned, PTL DEF Spec

\* A subscribe call returns the stream it asked for, whatever calls were cancelled before:
\* replies carry the ids of their requests, and an id is never given out twice
\* (ops/subscribe.rs:62-73).
THEOREM StreamsMatch == Spec => []StreamMatchesRequest
<1>1. AskInv => StreamMatchesRequest
  BY DEF AskInv, OwnersInv, StreamMatchesRequest
<1>2. QED
  BY <1>1, AskInvariance, PTL
=============================================================================

----------------------- MODULE WampClientStreamProofs -----------------------
(* Events: PubSubInv is an invariant of a program that does not subscribe  *)
(* again to a topic it has a queue for, so that no event is lost and the   *)
(* client implements EventStreams. OrderInv is one of every program, so    *)
(* that none yields an event twice, or late.                               *)
EXTENDS WampClientRequestProofs

-----------------------------------------------------------------------------
(* The events on the wire.                                                 *)
LEMMA ArrivingType ==
    ASSUME TypeInv
    PROVE  /\ NetType /\ ListenType /\ Len(Coming) \in Nat /\ Arriving \subseteq Item
           /\ \A t \in Topics : sent[t] \in Nat /\ sent[t] \in Counts
           /\ \A m \in Arriving :
                 m.type \in {"EVENT", "SUBSCRIBED"} => m.sub \in Topics /\ m.n \in Counts
<1>1. NetType /\ ListenType
  BY DEF TypeInv, ListenInv
<1>2. Len(Coming) \in Nat /\ Arriving \subseteq Item
  BY <1>1, ComingFirst DEF Arriving
<1>3. \A t \in Topics : sent[t] \in Nat /\ sent[t] \in Counts
  BY <1>1, ClientAssumption DEF NetType, Counts
<1>4. \A m \in Item : m.type \in {"EVENT", "SUBSCRIBED"} => m.sub \in Topics /\ m.n \in Counts
  BY MessageFields DEF Item, NoMessage
<1>5. QED
  BY <1>1, <1>2, <1>3, <1>4

LEMMA FlightSame ==
    ASSUME NEW m, m.type # "EVENT",
           \/ UNCHANGED Arriving
           \/ Arriving' = Arriving \cup {m}
           \/ Arriving = Arriving' \cup {m}
    PROVE  UNCHANGED InFlight
  BY DEF InFlight, IsEvent

\* A sequence and the same behind one more message.
LEMMA ShiftedEvents ==
    ASSUME NEW c, NEW d, Len(d) \in Nat, Len(c) = Len(d) + 1,
           \A i \in 1 .. Len(d) : c[i + 1] = d[i],
           NEW i \in 1 .. Len(d), NEW t
    PROVE  EventsAfter(c, i + 1, t) = EventsAfter(d, i, t)
<1>1. ASSUME NEW n \in EventsAfter(c, i + 1, t) PROVE n \in EventsAfter(d, i, t)
  <2>1. PICK j \in 1 .. Len(c) : i + 1 < j /\ IsEvent(c[j], t) /\ c[j].n = n
    BY <1>1 DEF EventsAfter
  <2>2. j - 1 \in 1 .. Len(d) /\ i < j - 1 /\ c[j] = d[j - 1]
    BY <2>1
  <2>3. QED
    BY <1>1, <2>1, <2>2 DEF EventsAfter
<1>2. ASSUME NEW n \in EventsAfter(d, i, t) PROVE n \in EventsAfter(c, i + 1, t)
  <2>1. PICK j \in 1 .. Len(d) : i < j /\ IsEvent(d[j], t) /\ d[j].n = n
    BY <1>2 DEF EventsAfter
  <2>2. j + 1 \in 1 .. Len(c) /\ i + 1 < j + 1 /\ c[j + 1] = d[j]
    BY <2>1
  <2>3. QED
    BY <1>2, <2>1, <2>2 DEF EventsAfter
<1>3. QED
  BY <1>1, <1>2

LEMMA WireKept == WireInv /\ UNCHANGED <<Coming, sent>> => WireInv'
  BY DEF WireInv, ComeInOrder

\* The oldest message is judged.
LEMMA WireJudged ==
    ASSUME TypeInv, WireInv, UNCHANGED sent, Len(Coming') \in Nat,
           Len(Coming) = Len(Coming') + 1,
           \A i \in 1 .. Len(Coming') : Coming[i + 1] = Coming'[i]
    PROVE  WireInv'
<1>1. ASSUME NEW t \in Topics PROVE ComeInOrder(t)'
  BY DEF WireInv, ComeInOrder
<1>2. ASSUME NEW i \in 1 .. Len(Coming')
      PROVE  i + 1 \in 1 .. Len(Coming) /\ Coming'[i] = Coming[i + 1]
             /\ \A t : EventsAfter(Coming', i, t) = EventsAfter(Coming, i + 1, t)
  BY ShiftedEvents
<1>3. QED
  BY <1>1, <1>2 DEF WireInv

\* A broken connection is met first.
LEMMA WireBroken ==
    ASSUME TypeInv, WireInv, UNCHANGED sent, Coming'[1] = [type |-> "RESET"],
           Len(Coming') = Len(Coming) + 1,
           \A i \in 1 .. Len(Coming) : Coming'[i + 1] = Coming[i]
    PROVE  WireInv'
<1>1. Len(Coming) \in Nat
  BY ArrivingType
<1>2. ASSUME NEW i \in 1 .. Len(Coming')
      PROVE  \/ Coming'[i].type = "RESET"
             \/ /\ i - 1 \in 1 .. Len(Coming) /\ Coming'[i] = Coming[i - 1]
                /\ \A t : EventsAfter(Coming', i, t) = EventsAfter(Coming, i - 1, t)
  <2>1. CASE i = 1
    BY <2>1
  <2>2. CASE i # 1
    <3>1. i - 1 \in 1 .. Len(Coming) /\ (i - 1) + 1 = i
      BY <1>1, <2>2
    <3>2. \A t : EventsAfter(Coming', (i - 1) + 1, t) = EventsAfter(Coming, i - 1, t)
      BY <1>1, <3>1, ShiftedEvents
    <3>3. QED
      BY <3>1, <3>2
  <2>3. QED
    BY <2>1, <2>2
<1>3. ASSUME NEW t \in Topics PROVE ComeInOrder(t)'
  <2>1. SUFFICES ASSUME NEW i \in 1 .. Len(Coming'), NEW j \in 1 .. Len(Coming'), i < j,
                        IsEvent(Coming'[i], t), IsEvent(Coming'[j], t)
                 PROVE  Coming'[i].n < Coming'[j].n
    BY DEF ComeInOrder
  <2>2. /\ i - 1 \in 1 .. Len(Coming) /\ Coming'[i] = Coming[i - 1]
        /\ j - 1 \in 1 .. Len(Coming) /\ Coming'[j] = Coming[j - 1]
    BY <1>2, <2>1 DEF IsEvent
  <2>3. QED
    BY <2>1, <2>2 DEF WireInv, ComeInOrder
<1>4. QED
  BY <1>2, <1>3 DEF WireInv

\* The router sends another message.
LEMMA AddedEvents ==
    ASSUME NEW m, Len(Coming) \in Nat, Len(Coming') = Len(Coming) + 1,
           Coming'[Len(Coming) + 1] = m,
           \A i \in 1 .. Len(Coming) : Coming'[i] = Coming[i], NEW t
    PROVE  /\ EventsAfter(Coming', Len(Coming'), t) = {}
           /\ \A i \in 1 .. Len(Coming) : \A n \in Counts :
                 n \in EventsAfter(Coming', i, t) <=>
                     n \in EventsAfter(Coming, i, t) \/ (IsEvent(m, t) /\ m.n = n)
<1>1. EventsAfter(Coming', Len(Coming'), t) = {}
  BY DEF EventsAfter
<1>2. ASSUME NEW i \in 1 .. Len(Coming), NEW n \in Counts
      PROVE  n \in EventsAfter(Coming', i, t) <=>
                 n \in EventsAfter(Coming, i, t) \/ (IsEvent(m, t) /\ m.n = n)
  <2>1. ASSUME NEW j \in 1 .. Len(Coming'), i < j, IsEvent(Coming'[j], t), Coming'[j].n = n
        PROVE  n \in EventsAfter(Coming, i, t) \/ (IsEvent(m, t) /\ m.n = n)
    <3>1. CASE j = Len(Coming')
      BY <2>1, <3>1
    <3>2. CASE j # Len(Coming')
      BY <2>1, <3>2 DEF EventsAfter
    <3>3. QED
      BY <3>1, <3>2
  <2>2. n \in EventsAfter(Coming, i, t) => n \in EventsAfter(Coming', i, t)
    BY DEF EventsAfter
  <2>3. IsEvent(m, t) /\ m.n = n => n \in EventsAfter(Coming', i, t)
    BY DEF EventsAfter
  <2>4. QED
    BY <2>1, <2>2, <2>3 DEF EventsAfter
<1>3. QED
  BY <1>1, <1>2

LEMMA WireMore ==
    ASSUME TypeInv, WireInv, NEW m, Coming'[Len(Coming) + 1] = m, m \in RxMessage,
           Len(Coming') = Len(Coming) + 1,
           \A i \in 1 .. Len(Coming) : Coming'[i] = Coming[i],
           m.type = "SUBSCRIBED" => m.n = sent[m.sub],
           IF m.type = "EVENT" THEN /\ m.n = sent[m.sub] + 1
                                    /\ sent' = [sent EXCEPT ![m.sub] = @ + 1]
                               ELSE UNCHANGED sent
    PROVE  WireInv'
<1>1. /\ Len(Coming) \in Nat /\ Len(Coming') \in Nat
      /\ \A i \in 1 .. Len(Coming) : Coming[i].type \in {"EVENT", "SUBSCRIBED"} =>
            Coming[i].sub \in Topics /\ Coming[i].n \in Counts
  BY ArrivingType DEF Arriving
<1>2. m.type \in {"EVENT", "SUBSCRIBED"} => m.sub \in Topics /\ m.n \in Counts
  BY MessageFields
<1>3. \A t \in Topics :
         /\ sent[t] \in Nat
         /\ sent'[t] = IF m.type = "EVENT" /\ m.sub = t THEN sent[t] + 1 ELSE sent[t]
         /\ sent'[t] \in Counts
  BY <1>2, ArrivingType DEF NetType
<1>4. ASSUME NEW t \in Topics PROVE ComeInOrder(t)'
  <2>1. SUFFICES ASSUME NEW i \in 1 .. Len(Coming'), NEW j \in 1 .. Len(Coming'), i < j,
                        IsEvent(Coming'[i], t), IsEvent(Coming'[j], t)
                 PROVE  Coming'[i].n < Coming'[j].n
    BY DEF ComeInOrder
  <2>2. i \in 1 .. Len(Coming) /\ Coming'[i] = Coming[i]
    BY <1>1, <2>1
  <2>3. CASE j \in 1 .. Len(Coming)
    BY <2>1, <2>2, <2>3 DEF WireInv, ComeInOrder
  <2>4. CASE j = Len(Coming')
    BY <1>1, <1>3, <2>1, <2>2, <2>4 DEF WireInv, IsEvent, Counts
  <2>5. QED
    BY <1>1, <2>3, <2>4
<1>5. ASSUME NEW t
      PROVE  /\ EventsAfter(Coming', Len(Coming'), t) = {}
             /\ \A i \in 1 .. Len(Coming) : \A n \in Counts :
                   n \in EventsAfter(Coming', i, t) <=>
                       n \in EventsAfter(Coming, i, t) \/ (IsEvent(m, t) /\ m.n = n)
  BY <1>1, AddedEvents
<1>6. ASSUME NEW i \in 1 .. Len(Coming'), Coming'[i].type = "SUBSCRIBED"
      PROVE  EventsAfter(Coming', i, Coming'[i].sub)
                 = Coming'[i].n + 1 .. sent'[Coming'[i].sub]
  <2>1. CASE i = Len(Coming')
    <3>1. Coming'[i] = m
      BY <1>1, <2>1
    <3>2. m.n + 1 .. sent'[m.sub] = {}
      BY <1>2, <1>3, <1>6, <3>1
    <3>3. QED
      BY <1>5, <2>1, <3>1, <3>2
  <2>2. CASE i # Len(Coming')
    <3>1. i \in 1 .. Len(Coming) /\ Coming'[i] = Coming[i]
      BY <1>1, <2>2
    <3> DEFINE t == Coming[i].sub
    <3>2. /\ t \in Topics /\ Coming[i].n \in Counts /\ Coming[i].n <= sent[t]
          /\ EventsAfter(Coming, i, t) = Coming[i].n + 1 .. sent[t]
      BY <1>1, <1>6, <3>1 DEF WireInv
    <3>3. /\ EventsAfter(Coming', i, t) \subseteq Counts
          /\ \A n \in Counts : n \in EventsAfter(Coming', i, t) <=>
                n \in EventsAfter(Coming, i, t) \/ (IsEvent(m, t) /\ m.n = n)
      BY <1>5, <3>1 DEF EventsAfter
    <3> HIDE DEF t
    <3>4. EventsAfter(Coming', i, t) = Coming[i].n + 1 .. sent'[t]
      <4>1. ASSUME NEW n \in Counts
            PROVE  n \in EventsAfter(Coming', i, t) <=> n \in Coming[i].n + 1 .. sent'[t]
        BY <1>2, <1>3, <3>2, <3>3 DEF IsEvent, Counts
      <4>2. Coming[i].n + 1 .. sent'[t] \subseteq Counts
        BY <1>3, <3>2, ClientAssumption DEF Counts
      <4>3. QED
        BY <3>3, <4>1, <4>2
    <3>5. QED
      BY <3>1, <3>4 DEF t
  <2>3. QED
    BY <2>1, <2>2
<1>7. ASSUME NEW i \in 1 .. Len(Coming'), Coming'[i].type \in {"EVENT", "SUBSCRIBED"}
      PROVE  Coming'[i].n <= sent'[Coming'[i].sub]
  BY <1>1, <1>2, <1>3, <1>7 DEF WireInv, Counts
<1>8. QED
  BY <1>4, <1>6, <1>7 DEF WireInv

\* What the listener does with what comes: it judges the oldest message, or none.
LEMMA WireListener ==
    ASSUME TypeInv, WireInv, ListenerStep \/ LStop
    PROVE  /\ WireInv' /\ UNCHANGED sent
           /\ UNCHANGED InFlight \/ (LProcess /\ lmsg.type = "EVENT")
<1>0. NetType /\ ListenType
  BY ArrivingType
<1> USE <1>0 DEF NetUnchanged, netVars
<1>1. CASE LRecv
  <2>1. UNCHANGED <<Coming, Arriving, sent>>
    BY <1>1, ComingTaken DEF LRecv
  <2>2. QED
    BY <2>1, WireKept DEF InFlight
<1>2. CASE LRecvError
  <2>1. UNCHANGED InFlight
    BY <1>2, ComingReset, FlightSame
  <2>2. QED
    BY <1>2, <2>1, ComingReset, WireBroken DEF LRecvError
<1>3. CASE LProcess
  <2>1. Verdict(lmsg, lstate) # "process"
    BY DEF Verdict
  <2>2. lpc = "process" /\ lpc' # "process" /\ UNCHANGED <<fromRouter, sent>>
    BY <1>3, <2>1 DEF LProcess
  <2>3. /\ Len(Coming) = Len(Coming') + 1 /\ Len(Coming') \in Nat
        /\ \A i \in 1 .. Len(Coming') : Coming[i + 1] = Coming'[i]
        /\ Arriving = Arriving' \cup {lmsg}
    BY <2>2, ComingJudged
  <2>4. WireInv'
    BY <2>2, <2>3, WireJudged
  <2>5. lmsg.type # "EVENT" => UNCHANGED InFlight
    BY <2>3, FlightSame
  <2>6. QED
    BY <1>3, <2>2, <2>4, <2>5
<1>4. ASSUME UNCHANGED netVars, lpc # "process", lpc' # "process"
      PROVE  WireInv' /\ UNCHANGED sent /\ UNCHANGED InFlight
  BY <1>4, ComingSame, WireKept DEF InFlight
<1>5. CASE LRecvNone \/ LWelcome \/ LGoodbye
  BY <1>4, <1>5 DEF LRecvNone, LWelcome, LGoodbye
<1>6. CASE LAbort \/ LProtocolError \/ LClosing \/ LFinal
  BY <1>4, <1>6 DEF LAbort, LProtocolError, LClosing, LFinal, SetState
<1>7. CASE LLockSend \/ LLockClose \/ LSend \/ LStopAll \/ LClose \/ LStop
  BY <1>4, <1>7 DEF LLockSend, LLockClose, Lock, LSend, LStopAll, LClose, LStop
<1>8. QED
  BY <1>1, <1>2, <1>3, <1>5, <1>6, <1>7 DEF ListenerStep

\* What the client does without its listener reads nothing.
LEMMA WireClient ==
    ASSUME WireInv, UNCHANGED <<fromRouter, sent, lmsg>>,
           UNCHANGED lpc \/ {lpc, lpc'} \subseteq {"none", "recv"}
    PROVE  WireInv' /\ UNCHANGED InFlight
<1>1. UNCHANGED <<Coming, Arriving>>
  BY ComingSame
<1>2. QED
  BY <1>1, WireKept DEF InFlight

LEMMA UserReadsNothing ==
    SpawnInv /\ (UserStep \/ UserChoice \/ \E r \in Reqs : StreamStep(r)) =>
        /\ UNCHANGED <<fromRouter, sent, lmsg, rsubs>>
        /\ UNCHANGED lpc \/ {lpc, lpc'} \subseteq {"none", "recv"}
<1> USE DEF EnvUnchanged, listenVars, netVars
<1>1. SpawnInv /\ UHello => /\ UNCHANGED <<fromRouter, sent, lmsg, rsubs>>
                            /\ UNCHANGED lpc \/ {lpc, lpc'} \subseteq {"none", "recv"}
  BY DEF SpawnInv, UHello
<1>2. UserStep => UHello \/ EnvUnchanged
  BY DEF UserStep, UJoined, UStopAll, UPoll, UWatchFails, UPend, URequest, USend, UFlush,
         USinkFails, UReply, UAddQueue, UTrack, URemoveQueue, UUntrack, UAck, UClose,
         UWriteClosed, UWaited, UDropStop, UDropListener, UDropCheck
<1>3. UserChoice => EnvUnchanged
  BY DEF UserChoice, UBeginSubscribe, UBeginUnsubscribe, StreamDropped, UBeginPublish,
         UBeginClose, UBeginWait, UBeginDrop, UCancel
<1>4. (\E r \in Reqs : StreamStep(r)) => EnvUnchanged
  BY DEF StreamStep, StreamEnds, StreamYields
<1>5. QED
  BY <1>1, <1>2, <1>3, <1>4

\* The router's messages: an EVENT goes behind all others.
LEMMA WireRouter ==
    ASSUME TypeInv, WireInv, RouterAnswer \/ EnvironmentChoice
    PROVE  /\ WireInv'
           /\ \/ UNCHANGED <<InFlight, sent>>
              \/ \E t \in Topics :
                    /\ sent' = [sent EXCEPT ![t] = sent[t] + 1]
                    /\ InFlight' = [InFlight EXCEPT ![t] = @ \cup {sent[t] + 1}]
<1> USE DEF ClientUnchanged, listenVars
<1>0. NetType /\ ListenType /\ SinkType /\ ClientUnchanged
  BY ArrivingType, EnvironmentFrame DEF TypeInv
<1>1. ASSUME NEW m \in RxMessage, Send(m), m.type # "EVENT", UNCHANGED sent,
             m.type = "SUBSCRIBED" => m.n = sent[m.sub]
      PROVE  WireInv' /\ UNCHANGED <<InFlight, sent>>
  BY <1>0, <1>1, ComingMore, WireMore, FlightSame
<1>2. ASSUME UNCHANGED <<fromRouter, sent>> PROVE WireInv' /\ UNCHANGED <<InFlight, sent>>
  BY <1>0, <1>2, WireClient
<1>3. ASSUME NEW t \in Topics, REvent(t)
      PROVE  /\ WireInv' /\ sent' = [sent EXCEPT ![t] = sent[t] + 1]
             /\ InFlight' = [InFlight EXCEPT ![t] = @ \cup {sent[t] + 1}]
  <2> DEFINE m == [type |-> "EVENT", sub |-> t, n |-> sent[t] + 1]
  <2>1. sent[t] + 1 \in Counts
    BY <1>0, <1>3, ClientAssumption DEF REvent, NetType, Counts
  <2>2. m \in RxMessage /\ Send(m) /\ sent' = [sent EXCEPT ![t] = sent[t] + 1]
    BY <1>3, <2>1, RxMessages DEF REvent
  <2>3. m.type = "EVENT" /\ m.sub = t /\ m.n = sent[t] + 1
    OBVIOUS
  <2> HIDE DEF m
  <2>4. /\ Coming'[Len(Coming) + 1] = m /\ Len(Coming') = Len(Coming) + 1
        /\ \A i \in 1 .. Len(Coming) : Coming'[i] = Coming[i]
        /\ Arriving' = Arriving \cup {m}
    BY <1>0, <2>2, ComingMore
  <2>5. WireInv'
    BY <2>2, <2>3, <2>4, WireMore
  <2>6. InFlight' = [InFlight EXCEPT ![t] = @ \cup {sent[t] + 1}]
    <3>1. ASSUME NEW u \in Topics, NEW n \in Counts
          PROVE  n \in InFlight'[u] <=> n \in InFlight[u] \/ (u = t /\ n = sent[t] + 1)
      BY <2>3, <2>4 DEF InFlight, IsEvent
    <3>2. \A u \in Topics : InFlight'[u] \subseteq Counts /\ InFlight[u] \subseteq Counts
      BY DEF InFlight
    <3>3. \A u \in Topics :
             InFlight'[u] = IF u = t THEN InFlight[t] \cup {sent[t] + 1} ELSE InFlight[u]
      BY <2>1, <3>1, <3>2
    <3>4. InFlight' = [u \in Topics |-> InFlight'[u]]
          /\ InFlight = [u \in Topics |-> InFlight[u]]
      BY DEF InFlight
    <3>5. QED
      BY <3>3, <3>4
  <2>7. QED
    BY <2>2, <2>5, <2>6
<1>4. CASE RHello
  BY <1>0, <1>1, <1>4, RxMessages, BareMessages DEF RHello, Takes
<1>5. CASE RSubscribe \/ RUnsubscribe
  <2>1. Head(toRouter).req \in Reqs /\ Head(toRouter).topic \in Topics
    BY <1>0, <1>5, TakesType, MessageFields DEF RSubscribe, RUnsubscribe
  <2>2. sent[Head(toRouter).topic] \in Counts
    BY <1>0, <2>1 DEF NetType
  <2>3. CASE RSubscribe
    BY <1>1, <2>1, <2>2, <2>3, RxMessages DEF RSubscribe, Takes
  <2>4. CASE RUnsubscribe
    BY <1>1, <2>1, <2>4, RxMessages DEF RUnsubscribe, Takes
  <2>5. QED
    BY <1>5, <2>3, <2>4
<1>6. CASE RGoodbye \/ REndsSession
  BY <1>1, <1>2, <1>6, BareMessages DEF RGoodbye, Takes, REndsSession, Goodbye
<1>7. CASE RPublish \/ RAbort \/ RDiscard
  BY <1>2, <1>7 DEF RPublish, RAbort, RDiscard, Takes
<1>8. CASE NetEnd \/ NetReset \/ NetStall
  BY <1>2, <1>8 DEF NetEnd, NetReset, NetStall
<1>9. QED
  BY <1>3, <1>4, <1>5, <1>6, <1>7, <1>8 DEF RouterAnswer, EnvironmentChoice

LEMMA WireInvariance == Spec => []WireInv
<1>1. Init => WireInv
  BY DEF Init, WireInv, ComeInOrder, Coming
<1>2. TypeInv /\ SpawnInv /\ WireInv /\ [Next]_vars => WireInv'
  <2>1. WireInv /\ UNCHANGED vars => WireInv'
    BY WireClient DEF vars, listenVars, netVars
  <2>2. QED
    BY <2>1, WireListener, WireClient, UserReadsNothing, WireRouter DEF Next
<1>3. QED
  BY <1>1, <1>2, TypeInvariance, Spawned, PTL DEF Spec

-----------------------------------------------------------------------------
(* The topics.                                                             *)
\* No stream comes into use, is made or changes its topic.
NoNewUse ==
    \A r \in Reqs :
        /\ streams'[r].status \in {"made", "live", "ended"} => InUse(r)
        /\ streams'[r].status = "made" =>
              /\ streams[r].status = "made"
              /\ upc' = upc \/ upc \notin {"addQueue", "track"}
        /\ streams'[r].sub = streams[r].sub

LEMMA StopUsesNone == TrackInv /\ StopAll /\ upc \notin {"addQueue", "track"} => NoNewUse
  BY StoppedType DEF StopAll, NoNewUse, InUse

LEMMA SameStreams ==
    UNCHANGED streams /\ (UNCHANGED upc \/ upc \notin {"addQueue", "track"}) => NoNewUse
  BY DEF NoNewUse, InUse

LEMMA UseFrame ==
    ASSUME TopicInv, UNCHANGED <<req, asked, hasQueue, rsubs>>, NoNewUse,
           Requests' \subseteq Requests, Leaving' => Leaving,
           upc' = "addQueue" <=> upc = "addQueue"
    PROVE  UseInv'
  BY DEF TopicInv, UseInv, InUse, NoNewUse

LEMMA TopicFrame ==
    ASSUME TopicInv, UNCHANGED <<req, asked, hasQueue, rsubs>>, NoNewUse,
           Requests' \subseteq Requests, Replied' \subseteq Replied,
           Leaving' => Leaving, Subscribing' => Subscribing,
           upc' = "addQueue" <=> upc = "addQueue"
    PROVE  TopicInv'
<1>1. UseInv'
  BY UseFrame
<1>2. QED
  BY <1>1 DEF TopicInv

LEMMA TopicListener == TypeInv /\ TopicInv /\ (ListenerStep \/ LStop) => TopicInv'
<1> SUFFICES ASSUME TypeInv, TopicInv, ListenerStep \/ LStop PROVE TopicInv'
  OBVIOUS
<1>1. Replied' \subseteq Replied /\ Requests' = Requests
  BY ArrivingType, RepliesListener, ListenerAsksNothing
<1>2. UNCHANGED <<userVars, hasQueue, rsubs>> /\ (UNCHANGED streams \/ StopAll)
  BY ListenerFrame
<1>3. NoNewUse
  BY <1>2, StoppedType DEF StopAll, NoNewUse, InUse, userVars, TypeInv
<1>4. QED
  BY <1>1, <1>2, <1>3, TopicFrame DEF userVars, Leaving, Subscribing

\* SUBSCRIBED is found: no other stream has the topic, and none will leave it.
LEMMA StreamMade ==
    TypeInv /\ AskInv /\ TopicInv /\ UReply => TopicInv'
<1> SUFFICES ASSUME TypeInv, AskInv, TopicInv, UReply PROVE TopicInv'
  OBVIOUS
<1>1. /\ upc = "reply" /\ Requests = {} /\ Requests' = {} /\ Replied' \subseteq Replied
      /\ UNCHANGED <<req, asked, op, hasQueue, rsubs>>
  BY ReplyTaken
<1>2. CASE /\ UNCHANGED streams /\ upc' \notin SelectPCs \cup {"new", "addQueue"}
           /\ upc' = "rmQueue" => op = "unsubscribe"
  BY <1>1, <1>2, SameStreams, TopicFrame DEF Leaving, Subscribing, SelectPCs
<1>3. ASSUME NEW m \in Replied, m.type = "SUBSCRIBED", m.req = req, req \in Reqs,
             op = "subscribe", upc' = "addQueue",
             streams' = [streams EXCEPT ![req] =
                 [status |-> "made", stop |-> FALSE, sub |-> m.sub, last |-> m.n]]
      PROVE  TopicInv'
  <2>1. Subscribing /\ m.sub = asked[req] /\ asked[req] \notin hasQueue /\ m.sub \in rsubs
    BY <1>1, <1>3 DEF Subscribing, SelectPCs, AskInv, RepliedInv, TopicInv
  <2>2. /\ streams'[req].status = "made" /\ streams'[req].sub = asked[req]
        /\ \A r \in Reqs : r # req => streams'[r] = streams[r]
    BY <1>3, <2>1 DEF TypeInv, TrackInv, TrackType
  <2>3. \A r \in Reqs : r # req /\ InUse(r) =>
           /\ streams[r].sub \in rsubs \cap hasQueue /\ streams[r].status # "made"
           /\ \A s \in Reqs : InUse(s) /\ s # r => streams[s].sub # streams[r].sub
    BY <1>1 DEF TopicInv, UseInv
  <2>4. UseInv'
    BY <1>1, <1>3, <2>1, <2>2, <2>3 DEF UseInv, InUse, Leaving
  <2>5. QED
    BY <1>1, <1>3, <2>1, <2>4 DEF TopicInv, Subscribing, Leaving, SelectPCs
<1>4. QED
  BY <1>2, <1>3, ReplyTaken

LEMMA QueueAdded == TypeInv /\ CallInv /\ TopicInv /\ UAddQueue => TopicInv'
<1> SUFFICES ASSUME TypeInv, CallInv, TopicInv, UAddQueue PROVE TopicInv'
  OBVIOUS
<1>1. /\ SinkType /\ upc = "addQueue" /\ upc' = "track" /\ op = "subscribe"
      /\ hasQueue' = hasQueue \cup {streams[req].sub}
      /\ UNCHANGED <<req, asked, op, rsubs, sinkVars, lmsg, lpc, fromRouter, received, streams>>
  BY DEF TypeInv, CallInv, UAddQueue, Go, EnvUnchanged, netVars, listenVars, trackVars
<1>2. Requests' = Requests /\ Replied' \subseteq Replied
  BY <1>1, SinkSame, RepliesUser
<1>3. UseInv'
  BY <1>1, <1>2 DEF TopicInv, UseInv, InUse, Leaving, SelectPCs
<1>4. QED
  BY <1>1, <1>2, <1>3 DEF TopicInv, Subscribing, Leaving, SelectPCs

LEMMA QueueRemoved == TypeInv /\ CallInv /\ AskInv /\ TopicInv /\ URemoveQueue => TopicInv'
<1> SUFFICES ASSUME TypeInv, CallInv, AskInv, TopicInv, URemoveQueue PROVE TopicInv'
  OBVIOUS
<1>1. /\ SinkType /\ upc = "rmQueue" /\ upc' = "untrack" /\ op = "unsubscribe"
      /\ hasQueue' = hasQueue \ {asked[req]}
      /\ UNCHANGED <<req, asked, op, rsubs, sinkVars, lmsg, lpc, fromRouter, received, streams>>
  BY DEF TypeInv, CallInv, URemoveQueue, Go, EnvUnchanged, netVars, listenVars, trackVars
<1>2. Requests' = {} /\ Replied' \subseteq Replied
  BY <1>1, SinkSame, RepliesUser DEF AskInv, WrittenInv, Settling
<1>3. UseInv'
  BY <1>1, <1>2 DEF TopicInv, UseInv, InUse, Leaving, SelectPCs
<1>4. QED
  BY <1>1, <1>2, <1>3 DEF TopicInv, Subscribing, Leaving, SelectPCs

LEMMA TopicUser ==
    TypeInv /\ SpawnInv /\ CallInv /\ AskInv /\ TopicInv /\ UserStep => TopicInv'
<1> SUFFICES ASSUME TypeInv, SpawnInv, CallInv, AskInv, TopicInv, UserStep PROVE TopicInv'
  OBVIOUS
<1>1. SinkType /\ TrackInv /\ MadeInv /\ CloseInv
  BY DEF TypeInv, UserInv
<1>2. UNCHANGED <<fromRouter, lmsg, rsubs>> /\ (UNCHANGED lpc \/ {lpc, lpc'} \subseteq {"none", "recv"})
  BY UserReadsNothing
<1>3. ASSUME received' \subseteq received PROVE Replied' \subseteq Replied
  BY <1>2, <1>3, RepliesUser
<1> USE DEF bufferVars, trackVars, sinkVars, Subscribing, Leaving, SelectPCs, Go, Return
<1>4. CASE UHello
  <2>1. Requests' = Requests
    BY <1>4, HelloAsksNothing
  <2>2. QED
    BY <1>2, <1>3, <1>4, <2>1, SameStreams, TopicFrame DEF UHello
<1>5. CASE UJoined \/ UPoll \/ UWatchFails \/ UPend \/ URequest \/ USinkFails
  BY <1>1, <1>2, <1>3, <1>5, SameStreams, SinkSame, TopicFrame
  DEF UJoined, UPoll, UWatchFails, UPend, URequest, USinkFails, CallInv
<1>6. CASE UStopAll \/ UDropStop
  <2>1. NoNewUse
    BY <1>1, <1>6, StopUsesNone DEF UStopAll, UDropStop
  <2>2. QED
    BY <1>1, <1>2, <1>3, <1>6, <2>1, SinkSame, TopicFrame DEF UStopAll, UDropStop, CallInv
<1>7. CASE USend
  <2>1. /\ UNCHANGED <<asked, op, streams, hasQueue, rsubs>> /\ upc = "send" /\ upc' = "reacquire"
        /\ req' = IF op = "publish" THEN req + 1 ELSE req
        /\ Replied' \subseteq Replied
    BY <1>2, <1>3, <1>7 DEF USend
  <2>2. /\ op \in {"subscribe", "unsubscribe"} =>
               /\ Requests' = Requests \cup {Outgoing} /\ Outgoing.topic = asked[req]
               /\ Outgoing.type = "UNSUBSCRIBE" <=> op = "unsubscribe"
        /\ op \notin {"subscribe", "unsubscribe"} => Requests' = Requests
    BY <1>7, SendAsks
  <2>3. UseInv'
    BY <2>1, <2>2 DEF TopicInv, UseInv, InUse
  <2>4. QED
    BY <2>1, <2>2, <2>3 DEF TopicInv
<1>8. CASE UFlush \/ UClose
  BY <1>1, <1>2, <1>3, <1>8, SameStreams, SinkSame, TopicFrame DEF UFlush, UClose
<1>9. CASE UTrack
  <2>1. UNCHANGED <<req, asked, hasQueue, rsubs, received, sinkVars, op>> /\ upc' = "idle"
        /\ upc = "track"
    BY <1>1, <1>2, <1>9 DEF UTrack, CallInv
  <2>2. \A r \in Reqs : /\ streams'[r].sub = streams[r].sub
                        /\ streams'[r].status = IF r = req THEN "live" ELSE streams[r].status
    BY <1>1, <1>9, StoppedType DEF UTrack, TrackInv, TrackType, Stream
  <2>3. NoNewUse
    BY <1>1, <2>1, <2>2 DEF NoNewUse, InUse, MadeInv, TopicInv, UseInv
  <2>4. QED
    BY <1>1, <1>2, <1>3, <2>1, <2>3, SinkSame, TopicFrame
<1>10. CASE UUntrack
  <2>1. NoNewUse
    BY <1>1, <1>10, StoppedType DEF UUntrack, NoNewUse, InUse
  <2>2. QED
    BY <1>1, <1>2, <1>3, <1>10, <2>1, SinkSame, TopicFrame DEF UUntrack
<1>11. CASE UAck \/ UWriteClosed \/ UWaited \/ UDropListener \/ UDropCheck
  BY <1>1, <1>2, <1>3, <1>11, SameStreams, SinkSame, TopicFrame
  DEF UAck, UWriteClosed, UWaited, UDropListener, UDropCheck
<1>12. QED
  BY <1>4, <1>5, <1>6, <1>7, <1>8, <1>9, <1>10, <1>11, StreamMade, QueueAdded, QueueRemoved
  DEF UserStep

LEMMA TopicChoice ==
    ASSUME "resubscribe" \notin UserMay
    PROVE  TypeInv /\ AskInv /\ TopicInv /\ UserChoice => TopicInv'
<1> SUFFICES ASSUME TypeInv, AskInv, TopicInv, UserChoice PROVE TopicInv'
  OBVIOUS
<1>1. SinkType /\ TrackType
  BY DEF TypeInv, TrackInv
<1>2. Replied' \subseteq Replied /\ Requests' = Requests /\ UNCHANGED <<rsubs, hasQueue>>
  <2>1. /\ UNCHANGED <<sinkVars, received, hasQueue, lmsg, lpc, fromRouter, rsubs>>
    BY DEF UserChoice, UBeginSubscribe, UBeginUnsubscribe, StreamDropped, UBeginPublish,
           UBeginClose, UBeginWait, UBeginDrop, UCancel, EnvUnchanged, listenVars, netVars,
           bufferVars
  <2>2. QED
    BY <1>1, <2>1, SinkSame, RepliesUser
<1> USE DEF trackVars, Subscribing, Leaving, SelectPCs
<1>3. ASSUME NEW topic, BeginRequest(topic), upc = "idle", req' = req + 1,
             upc' = "acquire"
      PROVE  /\ asked'[req'] = topic /\ req' \in Reqs
             /\ \A m \in Replied' : m.req # req'
  <2>1. asked' = [asked EXCEPT ![req + 1] = topic] /\ req < MaxReq
    BY <1>3, UserReq DEF BeginRequest
  <2>2. req + 1 \in Ids /\ req + 1 \in Reqs
    BY <2>1, ClientAssumption DEF TypeInv, UserInv, UserType, Ids, Reqs
  <2>3. QED
    BY <1>2, <1>3, <2>1, <2>2, UserReq, ReplyFields
    DEF TypeInv, UserInv, UserType, AskInv, RepliedInv
<1>4. ASSUME NEW topic, BeginRequest(topic), upc = "idle", upc' # "acquire"
      PROVE  upc' = "idle" /\ UNCHANGED <<req, asked>>
  BY <1>4 DEF BeginRequest
<1>5. ASSUME NEW topic, BeginRequest(topic), upc = "idle", upc' = "acquire"
      PROVE  req' = req + 1
  BY <1>5 DEF BeginRequest
<1>6. ASSUME NEW t \in Topics, UBeginSubscribe(t) PROVE TopicInv'
  <2>1. /\ BeginRequest(t) /\ upc = "idle" /\ t \notin hasQueue /\ op' = "subscribe"
        /\ UNCHANGED streams
    BY <1>6 DEF UBeginSubscribe, Begin
  <2>2. CASE upc' # "acquire"
    BY <1>2, <1>4, <2>1, <2>2, SameStreams, TopicFrame
  <2>3. CASE upc' = "acquire"
    <3>1. asked'[req'] = t /\ \A m \in Replied' : m.req # req'
      BY <1>3, <1>5, <2>1, <2>3
    <3>2. UseInv'
      BY <1>2, <2>1, <2>3 DEF TopicInv, UseInv, InUse
    <3>3. QED
      BY <1>2, <2>1, <2>3, <3>1, <3>2 DEF TopicInv
  <2>4. QED
    BY <2>2, <2>3
<1>7. ASSUME NEW r \in Reqs, UBeginUnsubscribe(r) PROVE TopicInv'
  <2>1. /\ BeginRequest(streams[r].sub) /\ upc = "idle" /\ op' = "unsubscribe"
        /\ streams[r].status \in {"live", "ended"}
        /\ streams' = [streams EXCEPT ![r].status = "gone"]
    BY <1>7 DEF UBeginUnsubscribe, Begin
  <2>2. /\ streams'[r].status = "gone" /\ streams'[r].sub = streams[r].sub
        /\ \A s \in Reqs : s # r => streams'[s] = streams[s]
    BY <1>1, <2>1 DEF TrackType, Stream
  <2>3. CASE upc' # "acquire"
    <3>1. NoNewUse
      BY <2>1, <2>2 DEF NoNewUse, InUse
    <3>2. QED
      BY <1>2, <1>4, <2>1, <2>3, <3>1, TopicFrame
  <2>4. CASE upc' = "acquire"
    <3>1. asked'[req'] = streams[r].sub
      BY <1>3, <1>5, <2>1, <2>4
    <3>2. /\ streams[r].sub \in hasQueue
          /\ \A s \in Reqs : InUse(s) /\ s # r => streams[s].sub # streams[r].sub
      BY <2>1 DEF TopicInv, UseInv, InUse
    <3>3. UseInv'
      BY <1>2, <2>1, <2>2, <2>4, <3>1, <3>2 DEF TopicInv, UseInv, InUse
    <3>4. QED
      BY <1>2, <2>1, <2>4, <3>1, <3>2, <3>3 DEF TopicInv
  <2>5. QED
    BY <2>3, <2>4
<1>8. CASE UBeginPublish \/ UBeginClose \/ UBeginWait \/ UBeginDrop
  BY <1>2, <1>8, SameStreams, TopicFrame
  DEF UBeginPublish, UBeginClose, UBeginWait, UBeginDrop, Begin
<1>9. CASE UCancel
  BY <1>2, <1>9, SameStreams, TopicFrame DEF UCancel, Return
<1>10. CASE \E r \in Reqs : StreamDropped(r)
  <2>1. NoNewUse /\ UNCHANGED userVars
    BY <1>1, <1>10 DEF StreamDropped, NoNewUse, InUse, TrackType, Stream, userVars
  <2>2. QED
    BY <1>2, <2>1, TopicFrame DEF userVars
<1>11. QED
  BY <1>6, <1>7, <1>8, <1>9, <1>10 DEF UserChoice

LEMMA TopicStream == \A r \in Reqs : TypeInv /\ TopicInv /\ StreamStep(r) => TopicInv'
<1> SUFFICES ASSUME NEW r \in Reqs, TypeInv, TopicInv, StreamStep(r) PROVE TopicInv'
  OBVIOUS
<1>1. SinkType /\ TrackType
  BY DEF TypeInv, TrackInv
<1>2. /\ UNCHANGED <<userVars, sinkVars, received, hasQueue, lmsg, lpc, fromRouter, rsubs>>
      /\ \/ streams' = [streams EXCEPT ![r].status = "ended"] /\ streams[r].status = "live"
         \/ streams' = [streams EXCEPT ![r].last = Head(queue[streams[r].sub])]
  BY DEF StreamStep, StreamEnds, StreamYields, EnvUnchanged, listenVars, netVars, bufferVars
<1>3. Replied' \subseteq Replied /\ Requests' = Requests
  BY <1>1, <1>2, SinkSame, RepliesUser
<1>4. NoNewUse
  BY <1>1, <1>2 DEF NoNewUse, InUse, TrackType, Stream, userVars
<1>5. QED
  BY <1>2, <1>3, <1>4, TopicFrame DEF userVars, Leaving, Subscribing

LEMMA TopicRouter ==
    TypeInv /\ AskInv /\ TopicInv /\ (RouterAnswer \/ EnvironmentChoice) => TopicInv'
<1> SUFFICES ASSUME TypeInv, AskInv, TopicInv, RouterAnswer \/ EnvironmentChoice PROVE TopicInv'
  OBVIOUS
<1> USE DEF ClientUnchanged, userVars, listenVars, bufferVars, trackVars
<1>1. SinkType /\ NetType /\ ListenType /\ ClientUnchanged
  BY ArrivingType, EnvironmentFrame DEF TypeInv
<1>2. NoNewUse
  BY <1>1, SameStreams
<1>3. Requests' \subseteq Requests
  <2>1. UNCHANGED toRouter \/ (toRouter # <<>> /\ toRouter' = Tail(toRouter))
    BY DEF RouterAnswer, RHello, RSubscribe, RUnsubscribe, RPublish, RGoodbye, RAbort, RDiscard,
           Takes, EnvironmentChoice, REvent, REndsSession, NetEnd, NetReset, NetStall
  <2>2. QED
    BY <1>1, <2>1, SinkSame, WrittenLess DEF sinkVars
<1>4. ASSUME Replied' \subseteq Replied, UNCHANGED rsubs PROVE TopicInv'
  BY <1>1, <1>2, <1>3, <1>4, TopicFrame DEF Leaving, Subscribing
<1>5. ASSUME NEW m \in RxMessage, Send(m)
      PROVE  Replied' = Replied \cup (IF IsReply(m) THEN {m} ELSE {})
  BY <1>1, <1>5, ComingMore DEF Replied, IsReply
<1>6. ASSUME UNCHANGED fromRouter PROVE Replied' \subseteq Replied
  BY <1>1, <1>6, RepliesUser
<1>7. CASE RHello
  BY <1>4, <1>5, <1>7, RxMessages, BareMessages DEF RHello, Takes, IsReply
<1>8. CASE RGoodbye \/ REndsSession
  BY <1>4, <1>5, <1>6, <1>8, BareMessages DEF RGoodbye, Takes, REndsSession, Goodbye, IsReply
<1>9. CASE RPublish \/ RAbort \/ RDiscard \/ NetEnd \/ NetReset \/ NetStall
  BY <1>4, <1>6, <1>9 DEF RPublish, RAbort, RDiscard, NetEnd, NetReset, NetStall
<1>10. CASE \E t \in Topics : REvent(t)
  <2>1. PICK t \in Topics : REvent(t)
    BY <1>10
  <2>2. sent[t] + 1 \in Counts
    BY <1>1, <2>1, ClientAssumption DEF REvent, NetType, Counts
  <2>3. QED
    BY <1>4, <1>5, <2>1, <2>2, RxMessages DEF REvent, IsReply
<1>11. ASSUME NEW q \in Requests, q = Head(toRouter), RSubscribe \/ RUnsubscribe PROVE TopicInv'
  <2>1. q.req \in Reqs /\ q.topic \in Topics /\ sent[q.topic] \in Counts
    BY <1>1, <1>11, WrittenType DEF NetType
  <2>2. CASE RSubscribe
    <3>1. \E m \in RxMessage :
             /\ Send(m) /\ rsubs \subseteq rsubs'
             /\ m.type = "SUBSCRIBED" => m.sub = q.topic /\ q.topic \in rsubs'
      BY <1>11, <2>1, <2>2, RxMessages DEF RSubscribe
    <3>2. /\ rsubs \subseteq rsubs'
          /\ \A m \in Replied' :
                m \in Replied \/ (m.type = "SUBSCRIBED" => m.sub = q.topic /\ q.topic \in rsubs')
      BY <1>5, <3>1
    <3>3. UseInv'
      BY <1>1, <1>3, <3>2 DEF TopicInv, UseInv, InUse, Leaving
    <3>4. QED
      BY <1>1, <1>3, <3>2, <3>3 DEF TopicInv, Leaving, Subscribing
  <2>3. CASE RUnsubscribe
    <3>1. q.type = "UNSUBSCRIBE" /\ rsubs \ {q.topic} \subseteq rsubs'
      BY <1>11, <2>3 DEF RUnsubscribe, Takes
    <3>2. Replied' \subseteq Replied
              \cup {[type |-> "UNSUBSCRIBED", req |-> q.req],
                    [type |-> "ERROR", to |-> "UNSUBSCRIBE", req |-> q.req]}
      BY <1>5, <1>11, <2>1, <2>3, RxMessages DEF RUnsubscribe, IsReply
    <3>3. UseInv'
      BY <1>1, <1>3, <3>1 DEF TopicInv, UseInv, InUse, Leaving
    <3>4. \A m \in Replied : m.type = "SUBSCRIBED" /\ Subscribing /\ m.req = req => m.sub # q.topic
      BY <3>1 DEF TopicInv, AskInv, RepliedInv
    <3>5. QED
      BY <1>1, <1>3, <3>1, <3>2, <3>3, <3>4 DEF TopicInv, Leaving, Subscribing
  <2>4. QED
    BY <1>11, <2>2, <2>3
<1>12. CASE RSubscribe \/ RUnsubscribe
  <2>1. Head(toRouter) \in Requests
    BY <1>1, <1>12, WrittenLess DEF RSubscribe, RUnsubscribe, Takes, IsRequest
  <2>2. QED
    BY <1>11, <1>12, <2>1
<1>13. QED
  BY <1>7, <1>8, <1>9, <1>10, <1>12 DEF RouterAnswer, EnvironmentChoice

LEMMA TopicInvariance ==
    ASSUME "resubscribe" \notin UserMay
    PROVE  Spec => []TopicInv
<1>1. Init => TopicInv
  <2> SUFFICES ASSUME Init PROVE TopicInv
    OBVIOUS
  <2>1. Written = <<>> /\ Coming = <<>>
    BY DEF Init, Written, Coming
  <2>2. Requests = {} /\ Replied = {}
    BY <2>1 DEF Init, Requests, Replied, Arriving
  <2>3. QED
    BY <2>2 DEF Init, TopicInv, UseInv, InUse, NoStream, Leaving, Subscribing, SelectPCs
<1>2. TypeInv /\ SpawnInv /\ SessionInv /\ AskInv /\ TopicInv /\ [Next]_vars => TopicInv'
  <2>1. TypeInv /\ TopicInv /\ UNCHANGED vars => TopicInv'
    BY SameStreams, SinkSame, RepliesUser, TopicFrame
    DEF TypeInv, vars, trackVars, sinkVars, bufferVars, listenVars, userVars, netVars, Leaving,
        Subscribing
  <2>2. QED
    BY <2>1, TopicListener, TopicUser, TopicChoice, TopicStream, TopicRouter
    DEF Next, SessionInv
<1>3. QED
  BY <1>1, <1>2, TypeInvariance, Spawned, SessionInvariance, AskInvariance, PTL DEF Spec

\* A stream that was not told to stop is backed by a subscription and a queue, of a
\* program that keeps to topics it has no queue for: no unsubscribe, cancelled or not,
\* takes the topic of another stream away (ops/unsubscribe.rs:71-90).
THEOREM StreamsBacked ==
    ASSUME "resubscribe" \notin UserMay
    PROVE  Spec => []StreamBacked
<1>1. TypeInv /\ TopicInv => StreamBacked
  BY DEF TypeInv, MadeInv, TopicInv, UseInv, InUse, StreamBacked
<1>2. QED
  BY <1>1, TypeInvariance, TopicInvariance, PTL

-----------------------------------------------------------------------------
(* The flow of events.                                                     *)
LEMMA FlowTypes ==
    ASSUME TypeInv
    PROVE  /\ \A t \in Topics : sent[t] \in Nat /\ queue[t] \in Seq(Counts) /\ Len(queue[t]) \in Nat
           /\ \A r \in Reqs : /\ streams[r].last \in Nat
                              /\ InUse(r) => streams[r].sub \in Topics
           /\ \A m \in received : m.type = "SUBSCRIBED" => m.sub \in Topics /\ m.n \in Nat
           /\ req \in Int
<1>1. Counts \subseteq Nat
  BY ClientAssumption DEF Counts
<1>2. \A t \in Topics : sent[t] \in Nat /\ queue[t] \in Seq(Counts) /\ Len(queue[t]) \in Nat
  BY ArrivingType, LenProperties DEF TypeInv, BufferType
<1>3. \A r \in Reqs : /\ streams[r].last \in Nat
                      /\ InUse(r) => streams[r].sub \in Topics
  BY <1>1 DEF TypeInv, TrackInv, TrackType, Stream, StreamInv, InUse
<1>4. QED
  BY <1>1, <1>2, <1>3, MessageFields, UserReq DEF TypeInv, BufferType

\* A queue without a gap.
Counted(q, a) == \A i \in 1 .. Len(q) : q[i] = a + i

LEMMA CountedIs ==
    ASSUME NEW q \in Seq(Counts), NEW a \in Nat
    PROVE  q = [i \in 1 .. Len(q) |-> a + i] <=> Counted(q, a)
<1>1. q \in [1 .. Len(q) -> Counts] /\ Len(q) \in Nat
  BY LenProperties
<1>2. QED
  BY <1>1 DEF Counted

LEMMA CountedSteps ==
    ASSUME NEW q \in Seq(Counts), NEW a \in Nat, Counted(q, a)
    PROVE  /\ a + Len(q) + 1 \in Counts =>
                 /\ Counted(Append(q, a + Len(q) + 1), a)
                 /\ Len(Append(q, a + Len(q) + 1)) = Len(q) + 1
           /\ q # <<>> => /\ Head(q) = a + 1 /\ Counted(Tail(q), a + 1)
                          /\ Len(Tail(q)) = Len(q) - 1 /\ Len(q) \in Nat /\ Len(q) > 0
<1>1. Len(q) \in Nat
  BY LenProperties
<1>2. ASSUME a + Len(q) + 1 \in Counts
      PROVE  /\ Counted(Append(q, a + Len(q) + 1), a)
             /\ Len(Append(q, a + Len(q) + 1)) = Len(q) + 1
  BY <1>1, <1>2, AppendProperties DEF Counted
<1>3. ASSUME q # <<>>
      PROVE  /\ Head(q) = a + 1 /\ Counted(Tail(q), a + 1)
             /\ Len(Tail(q)) = Len(q) - 1 /\ Len(q) > 0
  <2>1. Len(q) > 0 /\ Head(q) = q[1]
    BY <1>1, <1>3, EmptySeq
  <2>2. /\ Len(Tail(q)) = Len(q) - 1
        /\ \A i \in 1 .. Len(Tail(q)) : Tail(q)[i] = q[i + 1]
    BY <1>3, HeadTailProperties
  <2>3. QED
    BY <1>1, <2>1, <2>2 DEF Counted
<1>4. QED
  BY <1>1, <1>2, <1>3

\* What the listener may still read.
LEMMA HeardKept ==
    ASSUME UNCHANGED <<InFlight, sent>>, Listening' => Listening
    PROVE  \A t \in Topics : Heard[t] \subseteq Heard'[t]
  BY DEF Heard

LEMMA HeardEvent ==
    ASSUME TypeInv, NEW t \in Topics, UNCHANGED lpc,
           sent' = [sent EXCEPT ![t] = sent[t] + 1],
           InFlight' = [InFlight EXCEPT ![t] = @ \cup {sent[t] + 1}]
    PROVE  \A u \in Topics : Heard[u] \subseteq Heard'[u]
<1>1. /\ sent'[t] = sent[t] + 1 /\ sent[t] \in Nat /\ InFlight'[t] = InFlight[t] \cup {sent[t] + 1}
      /\ \A u \in Topics : u # t => sent'[u] = sent[u] /\ InFlight'[u] = InFlight[u]
  BY ArrivingType DEF NetType, InFlight
<1>2. ASSUME NEW n \in Heard[t] PROVE n \in Heard'[t]
  <2>1. n \in 0 .. sent[t] /\ (Listening => InFlight[t] = n + 1 .. sent[t])
    BY DEF Heard
  <2>2. (n + 1 .. sent[t]) \cup {sent[t] + 1} = n + 1 .. sent'[t]
    BY <1>1, <2>1
  <2>3. n \in 0 .. sent'[t]
    BY <1>1, <2>1
  <2>4. Listening' => InFlight'[t] = n + 1 .. sent'[t]
    BY <1>1, <2>1, <2>2 DEF Listening
  <2>5. QED
    BY <2>3, <2>4 DEF Heard
<1>3. QED
  BY <1>1, <1>2 DEF Heard, Listening

\* Streams in use stay what they are.
SameFlow ==
    \A r \in Reqs : streams'[r].status \in {"made", "live", "ended"} =>
        /\ InUse(r)
        /\ streams'[r].sub = streams[r].sub /\ streams'[r].last = streams[r].last

LEMMA StoppedFlow ==
    ASSUME TrackInv, NEW rs
    PROVE  \A r \in Reqs : Stopped(rs)[r].last = streams[r].last
  BY DEF Stopped, Stream, TrackInv, TrackType

LEMMA StopKeepsFlow == TrackInv /\ (UNCHANGED streams \/ StopAll) => SameFlow
  BY StoppedType, StoppedFlow DEF StopAll, SameFlow, InUse

\* A step that takes no event from the wire or a queue, and brings no SUBSCRIBED.
LEMMA FlowFrame ==
    ASSUME TypeInv, FlowInv, UNCHANGED queue, SameFlow,
           \/ /\ UNCHANGED req /\ received' \subseteq received /\ (Subscribing' => Subscribing)
              /\ upc' = "addQueue" <=> upc = "addQueue"
           \/ /\ upc # "addQueue" /\ upc' # "addQueue"
              /\ \A m \in received' : m.type = "SUBSCRIBED" /\ Subscribing' => m.req # req',
           \A t \in Topics : Heard[t] \subseteq Heard'[t]
    PROVE  FlowInv'
<1>1. \A m \in received' : m.type = "SUBSCRIBED" /\ Subscribing' /\ m.req = req'
         => m.n \in Heard'[m.sub]
  BY FlowTypes DEF FlowInv
<1>2. ASSUME NEW r \in Reqs, streams'[r].status \in {"made", "live", "ended"}
      PROVE  /\ InUse(r) /\ streams[r].sub \in Topics
             /\ streams'[r].sub = streams[r].sub /\ streams'[r].last = streams[r].last
  BY <1>2, FlowTypes DEF SameFlow
<1>3. QED
  BY <1>1, <1>2 DEF FlowInv, InUse

-----------------------------------------------------------------------------
\* The listener takes an event: the first of its topic that is on the way.
LEMMA EventFirst ==
    ASSUME TypeInv, WireInv, LProcess, lmsg.type = "EVENT"
    PROVE  /\ lmsg.sub \in Topics /\ lmsg.n \in Counts /\ lmsg.n \in Nat
           /\ UNCHANGED sent /\ lmsg.n <= sent[lmsg.sub]
           /\ InFlight[lmsg.sub] = InFlight'[lmsg.sub] \cup {lmsg.n}
           /\ \A u \in Topics : u # lmsg.sub => InFlight'[u] = InFlight[u]
           /\ \A k \in InFlight'[lmsg.sub] : k \in Nat /\ lmsg.n < k
<1> DEFINE t == lmsg.sub
           n == lmsg.n
<1>1. /\ lpc = "process" /\ lpc' # "process" /\ UNCHANGED <<fromRouter, sent>>
      /\ NetType /\ ListenType
  BY ArrivingType DEF LProcess, Verdict, NetUnchanged, netVars
<1>2. /\ Len(Coming) = Len(Coming') + 1 /\ Coming[1] = lmsg /\ Len(Coming') \in Nat
      /\ \A i \in 1 .. Len(Coming') : Coming[i + 1] = Coming'[i]
      /\ Arriving = Arriving' \cup {lmsg}
  BY <1>1, ComingJudged
<1>3. t \in Topics /\ n \in Counts /\ n \in Nat /\ lmsg \in Arriving
  BY <1>2, ArrivingType, ClientAssumption DEF Counts
<1>4. /\ InFlight[t] = InFlight'[t] \cup {n}
      /\ \A u \in Topics : u # t => InFlight'[u] = InFlight[u]
  <2>1. ASSUME NEW u \in Topics, NEW k \in Counts
        PROVE  k \in InFlight[u] <=> k \in InFlight'[u] \/ (u = t /\ k = n)
    BY <1>2 DEF InFlight, IsEvent
  <2>2. \A u \in Topics : InFlight[u] \subseteq Counts /\ InFlight'[u] \subseteq Counts
    BY DEF InFlight
  <2>3. QED
    BY <1>3, <2>1, <2>2
<1>5. \A k \in InFlight'[t] : k \in Nat /\ n < k
  <2> SUFFICES ASSUME NEW k \in InFlight'[t] PROVE k \in Nat /\ n < k
    OBVIOUS
  <2>1. PICK i \in 1 .. Len(Coming') : IsEvent(Coming'[i], t) /\ Coming'[i].n = k
    BY <1>3 DEF InFlight, Arriving
  <2>2. /\ 1 \in 1 .. Len(Coming) /\ i + 1 \in 1 .. Len(Coming) /\ 1 < i + 1
        /\ Coming[i + 1] = Coming'[i]
    BY <1>2, <2>1
  <2>3. IsEvent(Coming[1], t)
    BY <1>2 DEF IsEvent
  <2>4. k \in Nat
    BY <1>3, ClientAssumption DEF InFlight, Counts
  <2>5. QED
    BY <1>2, <1>3, <2>1, <2>2, <2>3, <2>4 DEF WireInv, ComeInOrder
<1>6. n <= sent[t]
  <2>1. 1 \in 1 .. Len(Coming)
    BY <1>2
  <2>2. QED
    BY <1>2, <2>1 DEF WireInv
<1>7. QED
  BY <1>1, <1>3, <1>4, <1>5, <1>6

\* It is the one that was due.
LEMMA EventTaken ==
    ASSUME TypeInv, WireInv, LProcess, lmsg.type = "EVENT"
    PROVE  /\ lmsg.sub \in Topics /\ lmsg.n \in Counts /\ lmsg.n \in Nat
           /\ \A a \in Heard[lmsg.sub] : lmsg.n = a + 1 /\ a + 1 \in Heard'[lmsg.sub]
           /\ \A u \in Topics : u # lmsg.sub => Heard[u] \subseteq Heard'[u]
<1> DEFINE t == lmsg.sub
           n == lmsg.n
<1>1. lpc = "process" /\ UNCHANGED sent
  BY EventFirst DEF LProcess
<1>2. t \in Topics /\ n \in Counts /\ n \in Nat
  BY EventFirst
<1>3. /\ InFlight[t] = InFlight'[t] \cup {n}
      /\ \A u \in Topics : u # t => InFlight'[u] = InFlight[u]
  BY EventFirst
<1>4. \A k \in InFlight'[t] : k \in Nat /\ n < k
  BY EventFirst
<1> HIDE DEF t, n
<1>5. ASSUME NEW a \in Heard[t] PROVE n = a + 1 /\ a + 1 \in Heard'[t]
  <2>1. /\ a \in Nat /\ a <= sent[t] /\ sent[t] \in Nat /\ sent'[t] = sent[t]
        /\ InFlight[t] = a + 1 .. sent[t]
    BY <1>1, <1>2, ArrivingType DEF Heard, Listening
  <2>2. n \in a + 1 .. sent[t]
    BY <1>3, <2>1
  <2>3. n = a + 1
    <3>1. a + 1 \in InFlight[t]
      BY <2>1, <2>2
    <3>2. QED
      BY <1>3, <1>4, <2>1, <2>2, <3>1
  <2>4. \A k : k \in InFlight'[t] <=> k \in InFlight[t] /\ k # n
    BY <1>2, <1>3, <1>4
  <2>5. InFlight'[t] = (a + 1) + 1 .. sent'[t]
    <3>1. \A k : k \in InFlight'[t] <=> k \in a + 1 .. sent[t] /\ k # a + 1
      BY <2>1, <2>3, <2>4
    <3>2. \A k : k \in (a + 1) + 1 .. sent'[t] <=> k \in a + 1 .. sent[t] /\ k # a + 1
      BY <2>1
    <3>3. QED
      BY <3>1, <3>2
  <2>6. a + 1 \in 0 .. sent'[t]
    BY <2>1, <2>2, <2>3
  <2>7. QED
    BY <1>2, <2>3, <2>5, <2>6 DEF Heard
<1>6. \A u \in Topics : u # t => Heard[u] \subseteq Heard'[u]
  BY <1>1, <1>3 DEF Heard, Listening
<1>7. QED
  BY <1>2, <1>5, <1>6 DEF t, n

\* Behind a SUBSCRIBED come all events that were sent after it.
LEMMA SubscribedFirst ==
    ASSUME TypeInv, WireInv, LProcess, lmsg.type = "SUBSCRIBED"
    PROVE  /\ lmsg.sub \in Topics /\ lmsg.n \in Nat /\ sent[lmsg.sub] \in Nat /\ UNCHANGED sent
           /\ lmsg.n <= sent[lmsg.sub] /\ InFlight'[lmsg.sub] = lmsg.n + 1 .. sent[lmsg.sub]
<1> DEFINE t == lmsg.sub
           n == lmsg.n
<1>1. /\ lpc = "process" /\ lpc' # "process" /\ UNCHANGED <<fromRouter, sent>>
      /\ NetType /\ ListenType
  BY ArrivingType DEF LProcess, Verdict, NetUnchanged, netVars
<1>2. /\ Len(Coming) = Len(Coming') + 1 /\ Coming[1] = lmsg /\ Len(Coming') \in Nat
      /\ \A i \in 1 .. Len(Coming') : Coming[i + 1] = Coming'[i]
      /\ Arriving = Arriving' \cup {lmsg}
  BY <1>1, ComingJudged
<1>3. t \in Topics /\ n \in Nat /\ sent[t] \in Nat
  BY <1>2, ArrivingType, ClientAssumption DEF Counts
<1>4. n <= sent[t] /\ EventsAfter(Coming, 1, t) = n + 1 .. sent[t]
  BY <1>2 DEF WireInv
<1>5. InFlight'[t] = EventsAfter(Coming, 1, t)
  <2>1. ASSUME NEW k \in InFlight'[t] PROVE k \in EventsAfter(Coming, 1, t)
    <3>1. PICK i \in 1 .. Len(Coming') : k \in Counts /\ IsEvent(Coming'[i], t) /\ Coming'[i].n = k
      BY <1>3, <2>1 DEF InFlight, Arriving
    <3>2. i + 1 \in 1 .. Len(Coming) /\ 1 < i + 1 /\ Coming[i + 1] = Coming'[i]
      BY <1>2
    <3>3. QED
      BY <3>1, <3>2 DEF EventsAfter
  <2>2. ASSUME NEW k \in EventsAfter(Coming, 1, t) PROVE k \in InFlight'[t]
    <3>1. PICK j \in 1 .. Len(Coming) :
             k \in Counts /\ 1 < j /\ IsEvent(Coming[j], t) /\ Coming[j].n = k
      BY <2>2 DEF EventsAfter
    <3>2. j - 1 \in 1 .. Len(Coming') /\ Coming'[j - 1] = Coming[j]
      BY <1>2, <3>1
    <3>3. QED
      BY <1>3, <3>1, <3>2 DEF InFlight, Arriving
  <2>3. QED
    BY <2>1, <2>2
<1>6. QED
  BY <1>1, <1>3, <1>4, <1>5

LEMMA SubscribedTaken ==
    TypeInv /\ WireInv /\ LProcess /\ lmsg.type = "SUBSCRIBED" => lmsg.n \in Heard'[lmsg.sub]
  BY SubscribedFirst DEF Heard

LEMMA ListenerReads ==
    (ListenerStep \/ LStop) /\ ~LProcess =>
        UNCHANGED <<received, queue>> /\ (Listening' => Listening)
<1> USE DEF bufferVars, Listening
<1>1. LRecv \/ LRecvError \/ LRecvNone \/ LWelcome \/ LGoodbye
        => UNCHANGED <<received, queue>> /\ (Listening' => Listening)
  BY DEF LRecv, LRecvError, TakeItem, LRecvNone, LWelcome, LGoodbye
<1>2. LAbort \/ LProtocolError \/ LClosing \/ LFinal
        => UNCHANGED <<received, queue>> /\ (Listening' => Listening)
  BY DEF LAbort, LProtocolError, LClosing, LFinal, SetState
<1>3. LLockSend \/ LLockClose \/ LSend \/ LClose \/ LStop \/ LStopAll
        => UNCHANGED <<received, queue>> /\ (Listening' => Listening)
  BY DEF LLockSend, LLockClose, Lock, LSend, LClose, LStop, LStopAll
<1>4. QED
  BY <1>1, <1>2, <1>3 DEF ListenerStep

\* The event goes behind those that wait for its stream.
LEMMA FlowBuffered ==
    ASSUME TypeInv, AskInv, TopicInv, WireInv, FlowInv, LProcess,
           lmsg.type = "EVENT", Verdict(lmsg, lstate) = "recv"
    PROVE  FlowInv'
<1> DEFINE t == lmsg.sub
<1>1. /\ UNCHANGED <<received, streams, upc, op, req, asked>> /\ t \in hasQueue
      /\ queue' = [queue EXCEPT ![t] = Append(@, lmsg.n)]
  BY DEF LProcess, Buffer, Verdict, OthersUnchanged, userVars, trackVars
<1>2. /\ t \in Topics /\ lmsg.n \in Counts
      /\ \A a \in Heard[t] : lmsg.n = a + 1 /\ a + 1 \in Heard'[t]
      /\ \A u \in Topics : u # t => Heard[u] \subseteq Heard'[u]
  BY EventTaken
<1> HIDE DEF t
<1>3. /\ queue'[t] = Append(queue[t], lmsg.n)
      /\ \A u \in Topics : u # t => queue'[u] = queue[u]
  BY <1>1, <1>2 DEF TypeInv, BufferType
<1>4. ASSUME NEW m \in received, m.type = "SUBSCRIBED", Subscribing, m.req = req
      PROVE  m.n \in Heard'[m.sub]
  <2>1. m.sub # t /\ m.sub \in Topics
    BY <1>1, <1>4, FlowTypes DEF AskInv, RepliedInv, Replied, IsReply, TopicInv
  <2>2. QED
    BY <1>2, <1>4, <2>1 DEF FlowInv
<1>5. ASSUME NEW r \in Reqs, InUse(r), upc = "addQueue", r = req
      PROVE  streams[r].last \in Heard'[streams[r].sub]
  <2>1. streams[r].sub # t /\ streams[r].sub \in Topics
    BY <1>1, <1>5, FlowTypes DEF AskInv, OwnersInv, InUse, TopicInv
  <2>2. QED
    BY <1>2, <1>5, <2>1 DEF FlowInv
<1>6. ASSUME NEW r \in Reqs, InUse(r), ~(upc = "addQueue" /\ r = req), streams[r].sub = t
      PROVE  /\ queue'[t] = [i \in 1 .. Len(queue'[t]) |-> streams[r].last + i]
             /\ streams[r].last + Len(queue'[t]) \in Heard'[t]
  <2> DEFINE a == streams[r].last
             q == queue[t]
  <2>1. a \in Nat /\ q \in Seq(Counts) /\ Len(q) \in Nat
    BY <1>2, FlowTypes
  <2>2. Counted(q, a) /\ a + Len(q) \in Heard[t]
    BY <1>6, <2>1, CountedIs DEF FlowInv
  <2>3. lmsg.n = a + Len(q) + 1 /\ a + Len(q) + 1 \in Heard'[t]
    BY <1>2, <2>2
  <2> HIDE DEF a, q
  <2>4. Append(q, lmsg.n) \in Seq(Counts)
    BY <1>2, <2>1, AppendProperties
  <2>5. Counted(Append(q, lmsg.n), a) /\ Len(Append(q, lmsg.n)) = Len(q) + 1
    BY <1>2, <2>1, <2>2, <2>3, CountedSteps
  <2>6. Append(q, lmsg.n) = [i \in 1 .. Len(Append(q, lmsg.n)) |-> a + i]
    BY <2>1, <2>4, <2>5, CountedIs
  <2>7. a + Len(Append(q, lmsg.n)) \in Heard'[t]
    BY <2>1, <2>3, <2>5
  <2>8. QED
    BY <1>3, <2>6, <2>7 DEF a, q
<1>7. ASSUME NEW r \in Reqs, InUse(r), ~(upc = "addQueue" /\ r = req), streams[r].sub # t
      PROVE  /\ queue'[streams[r].sub] = queue[streams[r].sub]
             /\ streams[r].last + Len(queue[streams[r].sub]) \in Heard'[streams[r].sub]
             /\ queue[streams[r].sub] =
                   [i \in 1 .. Len(queue[streams[r].sub]) |-> streams[r].last + i]
  BY <1>2, <1>3, <1>7, FlowTypes DEF FlowInv
<1>8. QED
  BY <1>1, <1>4, <1>5, <1>6, <1>7 DEF FlowInv, InUse, Subscribing

LEMMA FlowListener ==
    TypeInv /\ AskInv /\ TopicInv /\ WireInv /\ FlowInv /\ (ListenerStep \/ LStop) => FlowInv'
<1> SUFFICES ASSUME TypeInv, AskInv, TopicInv, WireInv, FlowInv, ListenerStep \/ LStop
             PROVE  FlowInv'
  OBVIOUS
<1>1. UNCHANGED <<upc, op, req>> /\ (UNCHANGED streams \/ StopAll)
  BY ListenerFrame DEF userVars
<1>2. SameFlow
  BY <1>1, StopKeepsFlow DEF TypeInv
<1>3. UNCHANGED sent /\ (UNCHANGED InFlight \/ (LProcess /\ lmsg.type = "EVENT"))
  BY WireListener
<1>4. CASE ~LProcess
  <2>1. UNCHANGED <<received, queue>> /\ (Listening' => Listening)
    BY <1>4, ListenerReads
  <2>2. \A t \in Topics : Heard[t] \subseteq Heard'[t]
    BY <1>3, <1>4, <2>1, HeardKept
  <2>3. QED
    BY <1>1, <1>2, <2>1, <2>2, FlowFrame DEF Subscribing
<1>5. CASE LProcess /\ lmsg.type = "EVENT" /\ Verdict(lmsg, lstate) # "recv"
  <2>1. UNCHANGED <<received, queue>> /\ ~Listening'
    BY <1>5 DEF LProcess, Verdict, bufferVars, Listening
  <2>2. \A t \in Topics : Heard[t] \subseteq Heard'[t]
    BY <1>3, <2>1 DEF Heard
  <2>3. QED
    BY <1>1, <1>2, <2>1, <2>2, FlowFrame DEF Subscribing
<1>6. CASE LProcess /\ lmsg.type # "EVENT"
  <2>1. \A t \in Topics : Heard[t] \subseteq Heard'[t]
    BY <1>3, <1>6, HeardKept DEF LProcess, Listening
  <2>2. UNCHANGED <<queue, streams>> /\ received' \subseteq received \cup {lmsg}
    BY <1>6 DEF LProcess, Buffer, bufferVars, trackVars
  <2>3. \A m \in received' : m.type = "SUBSCRIBED" /\ Subscribing' /\ m.req = req'
           => m.n \in Heard'[m.sub]
    BY <1>1, <1>6, <2>1, <2>2, FlowTypes, SubscribedTaken DEF FlowInv, Subscribing
  <2>4. \A r \in Reqs : InUse(r) => streams[r].sub \in Topics
    BY FlowTypes
  <2>5. QED
    BY <1>1, <2>1, <2>2, <2>3, <2>4 DEF FlowInv, InUse
<1>7. QED
  BY <1>4, <1>5, <1>6, FlowBuffered

\* The program and its calls take nothing from the wire.
LEMMA UserHears ==
    SpawnInv /\ WireInv /\ (UserStep \/ UserChoice \/ \E r \in Reqs : StreamStep(r)) =>
        UNCHANGED sent /\ \A t \in Topics : Heard[t] \subseteq Heard'[t]
<1> SUFFICES ASSUME SpawnInv, WireInv, UserStep \/ UserChoice \/ \E r \in Reqs : StreamStep(r)
             PROVE  UNCHANGED sent /\ \A t \in Topics : Heard[t] \subseteq Heard'[t]
  OBVIOUS
<1>1. /\ UNCHANGED <<fromRouter, sent, lmsg>>
      /\ UNCHANGED lpc \/ {lpc, lpc'} \subseteq {"none", "recv"}
  BY UserReadsNothing
<1>2. UNCHANGED InFlight
  BY <1>1, WireClient
<1>3. QED
  BY <1>1, <1>2, HeardKept DEF Listening

\* The new stream begins behind the event that was the last before its SUBSCRIBED.
LEMMA FlowMade ==
    ASSUME TypeInv, AskInv, FlowInv, UReply, \A t \in Topics : Heard[t] \subseteq Heard'[t]
    PROVE  FlowInv'
<1>1. /\ upc = "reply" /\ received' \subseteq received /\ UNCHANGED <<req, op, queue>>
  BY ReplyTaken
<1>2. CASE UNCHANGED streams /\ upc' \notin SelectPCs \cup {"new", "addQueue"}
  BY <1>1, <1>2, StopKeepsFlow, FlowFrame DEF TypeInv, Subscribing
<1>3. ASSUME upc' = "addQueue", op = "subscribe", req \in Reqs,
             NEW m \in received, m.type = "SUBSCRIBED", m.req = req,
             streams' = [streams EXCEPT ![req] =
                 [status |-> "made", stop |-> FALSE, sub |-> m.sub, last |-> m.n]]
      PROVE  FlowInv'
  <2>1. m.sub \in Topics /\ m.n \in Heard[m.sub]
    BY <1>1, <1>3, FlowTypes DEF FlowInv, Subscribing, SelectPCs
  <2>2. /\ streams'[req].sub = m.sub /\ streams'[req].last = m.n
        /\ \A r \in Reqs : r # req => streams'[r] = streams[r]
    BY <1>3 DEF TypeInv, TrackInv, TrackType
  <2>3. m.n \in Heard'[m.sub]
    BY <2>1
  <2>4. ASSUME NEW r \in Reqs, r # req, InUse(r)
        PROVE  /\ queue[streams[r].sub] =
                     [i \in 1 .. Len(queue[streams[r].sub]) |-> streams[r].last + i]
               /\ streams[r].last + Len(queue[streams[r].sub]) \in Heard'[streams[r].sub]
    BY <2>4, FlowTypes DEF FlowInv
  <2>5. ~Subscribing'
    BY <1>3 DEF Subscribing, SelectPCs
  <2>6. QED
    BY <1>1, <1>3, <2>2, <2>3, <2>4, <2>5 DEF FlowInv, InUse
<1>4. QED
  BY <1>2, <1>3, ReplyTaken

LEMMA FlowQueueAdded ==
    ASSUME TypeInv, TopicInv, FlowInv, UAddQueue, \A t \in Topics : Heard[t] \subseteq Heard'[t]
    PROVE  FlowInv'
<1> DEFINE t == streams[req].sub
<1>1. /\ upc = "addQueue" /\ upc' = "track" /\ UNCHANGED <<req, streams, received>>
      /\ queue' = [queue EXCEPT ![t] = <<>>] /\ req \in Reqs /\ streams[req].status = "made"
  BY DEF UAddQueue, Go, trackVars, TypeInv, MadeInv
<1>2. t \in Topics /\ streams[req].last \in Nat /\ streams[req].last \in Heard'[t]
  BY <1>1, FlowTypes DEF FlowInv, InUse
<1> HIDE DEF t
<1>3. queue'[t] = <<>> /\ \A u \in Topics : u # t => queue'[u] = queue[u]
  BY <1>1, <1>2 DEF TypeInv, BufferType
<1>4. /\ queue'[t] = [i \in 1 .. Len(queue'[t]) |-> streams[req].last + i]
      /\ streams[req].last + Len(queue'[t]) \in Heard'[t]
  BY <1>2, <1>3, EmptySeq
<1>5. ASSUME NEW r \in Reqs, r # req, InUse(r)
      PROVE  /\ queue'[streams[r].sub] = queue[streams[r].sub]
             /\ queue[streams[r].sub] =
                   [i \in 1 .. Len(queue[streams[r].sub]) |-> streams[r].last + i]
             /\ streams[r].last + Len(queue[streams[r].sub]) \in Heard'[streams[r].sub]
  <2>1. streams[r].sub # t /\ streams[r].sub \in Topics
    BY <1>1, <1>5, FlowTypes DEF TopicInv, UseInv, InUse, t
  <2>2. QED
    BY <1>3, <1>5, <2>1 DEF FlowInv
<1>6. ~Subscribing'
  BY <1>1 DEF Subscribing, SelectPCs
<1>7. ASSUME NEW r \in Reqs, InUse(r)
      PROVE  /\ queue'[streams[r].sub] =
                   [i \in 1 .. Len(queue'[streams[r].sub]) |-> streams[r].last + i]
             /\ streams[r].last + Len(queue'[streams[r].sub]) \in Heard'[streams[r].sub]
  <2>1. CASE r = req
    BY <1>4, <2>1 DEF t
  <2>2. CASE r # req
    BY <1>5, <1>7, <2>2
  <2>3. QED
    BY <2>1, <2>2
<1>8. QED
  BY <1>1, <1>6, <1>7 DEF FlowInv, InUse

\* The queue that goes is no queue of a stream in use.
LEMMA FlowQueueRemoved ==
    ASSUME TypeInv, CallInv, TopicInv, FlowInv, URemoveQueue,
           \A t \in Topics : Heard[t] \subseteq Heard'[t]
    PROVE  FlowInv'
<1>1. /\ upc = "rmQueue" /\ upc' = "untrack" /\ UNCHANGED <<req, streams, received>>
      /\ queue' = [queue EXCEPT ![asked[req]] = <<>>] /\ Leaving
  BY DEF URemoveQueue, Go, trackVars, CallInv, Leaving
<1>2. ASSUME NEW r \in Reqs, InUse(r)
      PROVE  /\ queue'[streams[r].sub] = queue[streams[r].sub]
             /\ streams[r].sub \in Topics
  BY <1>1, <1>2, FlowTypes DEF TopicInv, UseInv, TypeInv, BufferType
<1>3. ~Subscribing'
  BY <1>1 DEF Subscribing, SelectPCs
<1>4. QED
  BY <1>1, <1>2, <1>3 DEF FlowInv, InUse

LEMMA FlowUser ==
    TypeInv /\ SpawnInv /\ CallInv /\ AskInv /\ TopicInv /\ WireInv /\ FlowInv /\ UserStep
        => FlowInv'
<1> SUFFICES ASSUME TypeInv, SpawnInv, CallInv, AskInv, TopicInv, WireInv, FlowInv, UserStep
             PROVE  FlowInv'
  OBVIOUS
<1>1. \A t \in Topics : Heard[t] \subseteq Heard'[t]
  BY UserHears
<1>2. TrackInv /\ MadeInv /\ CloseInv
  BY DEF TypeInv, UserInv
<1> USE DEF bufferVars, trackVars, Subscribing, SelectPCs, Go, Return
<1>3. CASE UHello \/ UJoined \/ UPoll \/ UWatchFails \/ UPend \/ URequest \/ USinkFails
  BY <1>1, <1>2, <1>3, StopKeepsFlow, FlowFrame
  DEF UHello, UJoined, UPoll, UWatchFails, UPend, URequest, USinkFails, CallInv
<1>4. CASE UStopAll \/ UDropStop
  BY <1>1, <1>2, <1>4, StopKeepsFlow, FlowFrame DEF UStopAll, UDropStop, CallInv
<1>5. CASE USend
  BY <1>1, <1>2, <1>5, StopKeepsFlow, FlowFrame DEF USend
<1>6. CASE UFlush \/ UClose \/ UAck \/ UWriteClosed \/ UWaited \/ UDropListener \/ UDropCheck
  BY <1>1, <1>2, <1>6, StopKeepsFlow, FlowFrame
  DEF UFlush, UClose, UAck, UWriteClosed, UWaited, UDropListener, UDropCheck
<1>7. CASE UTrack
  <2>1. SameFlow
    <3>1. \A r \in Reqs : /\ streams'[r].sub = streams[r].sub /\ streams'[r].last = streams[r].last
                          /\ streams'[r].status = IF r = req THEN "live" ELSE streams[r].status
      BY <1>2, <1>7, StoppedType, StoppedFlow DEF UTrack, TrackInv, TrackType, Stream
    <3>2. QED
      BY <1>2, <1>7, <3>1 DEF UTrack, SameFlow, InUse, MadeInv
  <2>2. QED
    BY <1>1, <1>7, <2>1, FlowFrame DEF UTrack
<1>8. CASE UUntrack
  <2>1. SameFlow
    BY <1>2, <1>8, StoppedType, StoppedFlow DEF UUntrack, SameFlow, InUse
  <2>2. QED
    BY <1>1, <1>8, <2>1, FlowFrame DEF UUntrack
<1>9. QED
  BY <1>1, <1>3, <1>4, <1>5, <1>6, <1>7, <1>8, FlowMade, FlowQueueAdded, FlowQueueRemoved
  DEF UserStep

LEMMA FlowChoice ==
    TypeInv /\ SpawnInv /\ CallInv /\ AskInv /\ WireInv /\ FlowInv /\ UserChoice => FlowInv'
<1> SUFFICES ASSUME TypeInv, SpawnInv, CallInv, AskInv, WireInv, FlowInv, UserChoice
             PROVE  FlowInv'
  OBVIOUS
<1>1. \A t \in Topics : Heard[t] \subseteq Heard'[t]
  BY UserHears
<1>2. TrackInv /\ TrackType
  BY DEF TypeInv, TrackInv
<1> USE DEF bufferVars, trackVars, Subscribing, SelectPCs, Return
<1>3. ASSUME NEW t \in Topics, UBeginSubscribe(t) PROVE FlowInv'
  <2>1. /\ upc = "idle" /\ upc' # "addQueue" /\ UNCHANGED <<streams, queue, received>>
        /\ upc' = "idle" \/ req' = req + 1
    BY <1>3 DEF UBeginSubscribe, Begin, BeginRequest
  <2>2. \A m \in received' : m.type = "SUBSCRIBED" /\ Subscribing' => m.req # req'
    <3>1. \A m \in received : m.type = "SUBSCRIBED" => m.req \in Int /\ m.req <= req
      BY ReplyFields, UserReq DEF AskInv, RepliedInv, Replied, IsReply
    <3>2. QED
      BY <2>1, <3>1, UserReq
  <2>3. QED
    BY <1>1, <1>2, <2>1, <2>2, StopKeepsFlow, FlowFrame
<1>4. ASSUME NEW r \in Reqs, UBeginUnsubscribe(r) PROVE FlowInv'
  <2>1. /\ upc = "idle" /\ upc' # "addQueue" /\ op' = "unsubscribe" /\ UNCHANGED <<queue, received>>
        /\ streams' = [streams EXCEPT ![r].status = "gone"]
    BY <1>4 DEF UBeginUnsubscribe, Begin, BeginRequest
  <2>2. SameFlow
    BY <1>2, <2>1 DEF SameFlow, InUse, TrackType, Stream
  <2>3. QED
    BY <1>1, <2>1, <2>2, FlowFrame
<1>5. CASE UBeginPublish \/ UBeginClose \/ UBeginWait \/ UBeginDrop
  BY <1>1, <1>2, <1>5, StopKeepsFlow, FlowFrame
  DEF UBeginPublish, UBeginClose, UBeginWait, UBeginDrop, Begin
<1>6. CASE UCancel
  BY <1>1, <1>2, <1>6, StopKeepsFlow, FlowFrame DEF UCancel
<1>7. ASSUME NEW r \in Reqs, StreamDropped(r) PROVE FlowInv'
  <2>1. SameFlow
    BY <1>2, <1>7 DEF StreamDropped, SameFlow, InUse, TrackType, Stream
  <2>2. QED
    BY <1>1, <1>7, <2>1, FlowFrame DEF StreamDropped, userVars
<1>8. QED
  BY <1>3, <1>4, <1>5, <1>6, <1>7 DEF UserChoice

\* The event that a stream yields is the one after its last.
LEMMA Yields ==
    ASSUME TypeInv, FlowInv, MadeInv, NEW r \in Reqs, StreamYields(r)
    PROVE  LET s == streams[r]
               q == queue[s.sub]
           IN  /\ InUse(r) /\ s.sub \in Topics /\ s.last \in Nat /\ Len(q) \in Nat /\ Len(q) > 0
               /\ s.last + Len(q) \in Heard[s.sub]
               /\ streams' = [streams EXCEPT ![r].last = s.last + 1]
               /\ queue' = [queue EXCEPT ![s.sub] = Tail(q)]
               /\ Tail(q) = [i \in 1 .. Len(Tail(q)) |-> s.last + 1 + i]
               /\ s.last + 1 + Len(Tail(q)) = s.last + Len(q)
<1> DEFINE a == streams[r].last
           q == queue[streams[r].sub]
<1>1. /\ streams[r].status = "live" /\ q # <<>> /\ queue' = [queue EXCEPT ![streams[r].sub] = Tail(q)]
      /\ streams' = [streams EXCEPT ![r].last = Head(q)]
  BY DEF StreamYields
<1>2. InUse(r) /\ streams[r].sub \in Topics /\ a \in Nat /\ q \in Seq(Counts) /\ Len(q) \in Nat
  BY <1>1, FlowTypes DEF InUse
<1>3. ~(upc = "addQueue" /\ r = req)
  BY <1>1 DEF MadeInv
<1>4. Counted(q, a) /\ a + Len(q) \in Heard[streams[r].sub]
  BY <1>2, <1>3, CountedIs DEF FlowInv
<1> HIDE DEF a, q
<1>5. Head(q) = a + 1 /\ Counted(Tail(q), a + 1) /\ Len(Tail(q)) = Len(q) - 1 /\ Len(q) > 0
  BY <1>1, <1>2, <1>4, CountedSteps
<1>6. Tail(q) \in Seq(Counts) /\ a + 1 \in Nat
  BY <1>1, <1>2, HeadTailProperties
<1>7. Tail(q) = [i \in 1 .. Len(Tail(q)) |-> a + 1 + i]
  BY <1>5, <1>6, CountedIs
<1>8. a + 1 + Len(Tail(q)) = a + Len(q)
  BY <1>2, <1>5, <1>6, LenProperties
<1>9. QED
  BY <1>1, <1>2, <1>4, <1>5, <1>7, <1>8 DEF a, q

LEMMA FlowStream ==
    \A r \in Reqs : TypeInv /\ SpawnInv /\ TopicInv /\ WireInv /\ FlowInv /\ StreamStep(r) => FlowInv'
<1> SUFFICES ASSUME NEW r \in Reqs, TypeInv, SpawnInv, TopicInv, WireInv, FlowInv, StreamStep(r)
             PROVE  FlowInv'
  OBVIOUS
<1>1. \A t \in Topics : Heard[t] \subseteq Heard'[t]
  BY UserHears
<1>2. TrackInv /\ TrackType /\ MadeInv /\ UNCHANGED <<req, upc, op, received>>
  BY DEF TypeInv, TrackInv, StreamStep, StreamEnds, StreamYields, userVars, bufferVars
<1>3. CASE StreamEnds(r)
  <2>1. SameFlow
    BY <1>2, <1>3 DEF StreamEnds, SameFlow, InUse, TrackType, Stream
  <2>2. QED
    BY <1>1, <1>2, <1>3, <2>1, FlowFrame DEF StreamEnds, bufferVars, Subscribing
<1>4. CASE StreamYields(r)
  <2> DEFINE t == streams[r].sub
             a == streams[r].last
             q == queue[t]
  <2>1. /\ InUse(r) /\ t \in Topics /\ a + Len(q) \in Heard[t]
        /\ streams' = [streams EXCEPT ![r].last = a + 1] /\ queue' = [queue EXCEPT ![t] = Tail(q)]
        /\ Tail(q) = [i \in 1 .. Len(Tail(q)) |-> a + 1 + i]
        /\ a + 1 + Len(Tail(q)) = a + Len(q)
    BY <1>2, <1>4, Yields
  <2>2. /\ streams'[r].sub = t /\ streams'[r].last = a + 1 /\ queue'[t] = Tail(q)
        /\ \A s \in Reqs : s # r => streams'[s] = streams[s]
        /\ \A u \in Topics : u # t => queue'[u] = queue[u]
        /\ streams[r].status = "live"
    BY <1>2, <1>4, <2>1 DEF TrackType, Stream, TypeInv, BufferType, StreamYields
  <2> HIDE DEF a, q
  <2>3. /\ queue'[t] = [i \in 1 .. Len(queue'[t]) |-> streams'[r].last + i]
        /\ streams'[r].last + Len(queue'[t]) \in Heard'[t]
    BY <1>1, <2>1, <2>2
  <2> HIDE DEF t
  <2>4. ASSUME NEW s \in Reqs, s # r, InUse(s)
        PROVE  queue'[streams[s].sub] = queue[streams[s].sub] /\ streams[s].sub \in Topics
    BY <2>1, <2>2, <2>4, FlowTypes DEF TopicInv, UseInv, t
  <2>5. ASSUME NEW s \in Reqs, s # r, streams'[s].status \in {"made", "live", "ended"}
        PROVE  /\ upc' = "addQueue" /\ s = req' => streams'[s].last \in Heard'[streams'[s].sub]
               /\ ~(upc' = "addQueue" /\ s = req') =>
                     /\ queue'[streams'[s].sub] =
                           [i \in 1 .. Len(queue'[streams'[s].sub]) |-> streams'[s].last + i]
                     /\ streams'[s].last + Len(queue'[streams'[s].sub]) \in Heard'[streams'[s].sub]
    <3>1. InUse(s) /\ streams'[s] = streams[s]
      BY <2>2, <2>5 DEF InUse
    <3>2. queue'[streams[s].sub] = queue[streams[s].sub] /\ streams[s].sub \in Topics
      BY <2>4, <2>5, <3>1
    <3>3. QED
      BY <1>1, <1>2, <3>1, <3>2 DEF FlowInv
  <2>6. ~(upc' = "addQueue" /\ r = req')
    BY <1>2, <2>2 DEF MadeInv
  <2>7. \A m \in received' : m.type = "SUBSCRIBED" /\ Subscribing' /\ m.req = req'
           => m.n \in Heard'[m.sub]
    BY <1>1, <1>2, FlowTypes DEF FlowInv, Subscribing
  <2>8. QED
    BY <2>2, <2>3, <2>5, <2>6, <2>7 DEF FlowInv, InUse
<1>5. QED
  BY <1>3, <1>4 DEF StreamStep

LEMMA FlowRouter ==
    TypeInv /\ WireInv /\ FlowInv /\ (RouterAnswer \/ EnvironmentChoice) => FlowInv'
<1> SUFFICES ASSUME TypeInv, WireInv, FlowInv, RouterAnswer \/ EnvironmentChoice PROVE FlowInv'
  OBVIOUS
<1>1. UNCHANGED <<streams, queue, received, req, op, upc, lpc>> /\ TrackInv
  BY EnvironmentFrame
  DEF ClientUnchanged, TypeInv, trackVars, bufferVars, userVars, listenVars
<1>2. \A t \in Topics : Heard[t] \subseteq Heard'[t]
  BY <1>1, WireRouter, HeardKept, HeardEvent DEF Listening
<1>3. QED
  BY <1>1, <1>2, StopKeepsFlow, FlowFrame DEF Subscribing

LEMMA FlowInvariance ==
    ASSUME "resubscribe" \notin UserMay
    PROVE  Spec => []FlowInv
<1>1. Init => FlowInv
  BY DEF Init, FlowInv, InUse, NoStream
<1>2. TypeInv /\ SpawnInv /\ SessionInv /\ AskInv /\ TopicInv /\ WireInv /\ FlowInv
        /\ [Next]_vars => FlowInv'
  <2>1. TypeInv /\ WireInv /\ FlowInv /\ UNCHANGED vars => FlowInv'
    <3> SUFFICES ASSUME TypeInv, WireInv, FlowInv, UNCHANGED vars PROVE FlowInv'
      OBVIOUS
    <3>1. UNCHANGED <<streams, queue, received, req, op, upc, lpc, lmsg, fromRouter, sent>> /\ TrackInv
      BY DEF TypeInv, vars, trackVars, bufferVars, userVars, listenVars, netVars
    <3>2. \A t \in Topics : Heard[t] \subseteq Heard'[t]
      BY <3>1, WireClient, HeardKept DEF Listening
    <3>3. QED
      BY <3>1, <3>2, StopKeepsFlow, FlowFrame DEF Subscribing
  <2>2. QED
    BY <2>1, FlowListener, FlowUser, FlowChoice, FlowStream, FlowRouter DEF Next, SessionInv
<1>3. QED
  BY <1>1, <1>2, TypeInvariance, Spawned, SessionInvariance, AskInvariance, TopicInvariance,
     WireInvariance, PTL DEF Spec

\* Of a program that keeps to topics it has no queue for: no two streams share a topic,
\* and what a stream has yielded, its queue and the wire hold the events of its topic in
\* order and without a gap (ops/subscribe.rs:77-97, message_listener.rs:322-328).
THEOREM PubSubInvariance ==
    ASSUME "resubscribe" \notin UserMay
    PROVE  Spec => []PubSubInv
<1>1. TopicInv /\ WireInv /\ FlowInv => PubSubInv
  BY DEF PubSubInv
<1>2. QED
  BY <1>1, TopicInvariance, WireInvariance, FlowInvariance, PTL

\* No event of a session that lasts is lost between the broker and a stream, of a
\* program that keeps to topics it has no queue for: what was yielded, what is queued
\* and what is on its way leave no gap (message_listener.rs:323-338,
\* ops/subscribe.rs:88-94).
THEOREM EventsKept ==
    ASSUME "resubscribe" \notin UserMay
    PROVE  Spec => []NoEventLost
<1>1. TypeInv /\ WireInv /\ FlowInv => NoEventLost
  <2> SUFFICES ASSUME TypeInv, WireInv, FlowInv, NEW r \in Reqs, streams[r].status = "live",
                      SessionLasts
               PROVE  LET s == streams[r]
                          q == queue[s.sub]
                      IN  /\ q = [i \in 1 .. Len(q) |-> s.last + i]
                          /\ InFlight[s.sub] = s.last + Len(q) + 1 .. sent[s.sub]
                          /\ ComeInOrder(s.sub)
    BY DEF NoEventLost
  <2>1. InUse(r) /\ streams[r].sub \in Topics /\ ~(upc = "addQueue" /\ r = req) /\ Listening
    BY FlowTypes DEF InUse, TypeInv, MadeInv, SessionLasts, Listening
  <2>2. QED
    BY <2>1 DEF FlowInv, WireInv, Heard
<1>2. QED
  BY <1>1, TypeInvariance, WireInvariance, FlowInvariance, PTL

-----------------------------------------------------------------------------
(* The client implements EventStreams: the stream of each request, as the  *)
(* program sees it, makes no step that Promise does not have.              *)
SameStream(r) ==
    /\ streams'[r].status = "live" <=> streams[r].status = "live"
    /\ streams'[r].status \in {"none", "made"} <=> streams[r].status \in {"none", "made"}
    /\ streams[r].status \notin {"none", "made"} =>
          streams'[r].sub = streams[r].sub /\ streams'[r].last = streams[r].last

LEMMA StreamsStutter ==
    ASSUME UNCHANGED sent, \A r \in Reqs : SameStream(r) PROVE UNCHANGED Promise!vars
  BY DEF SameStream, Promise!vars, Began

\* A stream ends, or is given up.
LEMMA StreamCloses ==
    ASSUME TypeInv, NEW r \in Reqs, streams[r].status \in {"live", "ended"}, UNCHANGED sent,
           NEW st \in {"ended", "gone"}, streams' = [streams EXCEPT ![r].status = st]
    PROVE  Promise!Next \/ UNCHANGED Promise!vars
<1>1. /\ streams'[r].status = st /\ streams'[r].sub = streams[r].sub
      /\ streams'[r].last = streams[r].last
      /\ \A s \in Reqs : s # r => streams'[s] = streams[s]
  BY DEF TypeInv, TrackInv, TrackType, Stream
<1>2. CASE streams[r].status = "ended"
  BY <1>1, <1>2, StreamsStutter DEF SameStream
<1>3. CASE streams[r].status = "live"
  <2>1. Promise!Close(r)
    BY <1>1, <1>3 DEF Promise!Close, Began
  <2>2. QED
    BY <2>1 DEF Promise!Next
<1>4. QED
  BY <1>2, <1>3

\* The program gets its stream.
LEMMA StreamOpens ==
    ASSUME TypeInv, TopicInv, FlowInv, UTrack, UNCHANGED sent
    PROVE  Promise!Next
<1> DEFINE t == streams[req].sub
           n == streams[req].last
<1>1. upc = "track" /\ req \in Reqs /\ streams[req].status = "made" /\ InUse(req)
  BY DEF UTrack, TypeInv, MadeInv, InUse
<1>2. /\ streams'[req].status = "live" /\ streams'[req].sub = t /\ streams'[req].last = n
      /\ \A s \in Reqs : s # req =>
            /\ streams'[s].status = streams[s].status
            /\ streams'[s].sub = streams[s].sub /\ streams'[s].last = streams[s].last
  BY <1>1, StoppedType, StoppedFlow DEF UTrack, TypeInv, TrackInv, TrackType, Stream
<1>3. t \in Topics /\ n \in 0 .. sent[t]
  <2>1. t \in Topics /\ n \in Nat /\ Len(queue[t]) \in Nat /\ sent[t] \in Nat
    BY <1>1, FlowTypes
  <2>2. n + Len(queue[t]) \in 0 .. sent[t]
    BY <1>1, <2>1 DEF FlowInv, Heard
  <2>3. QED
    BY <2>1, <2>2
<1>4. \A s \in Reqs : streams[s].status = "live" => streams[s].sub # t
  BY <1>1 DEF TopicInv, UseInv, InUse
<1> HIDE DEF t, n
<1>5. ASSUME NEW i \in 0 .. sent[t], i = n PROVE Promise!Open(req, t, i)
  BY <1>1, <1>2, <1>4, <1>5 DEF Promise!Open, Began
<1>6. \E i \in 0 .. sent[t] : Promise!Open(req, t, i)
  BY <1>3, <1>5
<1>7. QED
  BY <1>1, <1>3, <1>6 DEF Promise!Next

LEMMA StreamAdvances ==
    ASSUME TypeInv, FlowInv, NEW r \in Reqs, StreamYields(r), UNCHANGED sent
    PROVE  Promise!Next
<1>1. MadeInv
  BY DEF TypeInv
<1>2. /\ streams[r].status = "live" /\ streams[r].sub \in Topics /\ streams[r].last \in Nat
      /\ streams' = [streams EXCEPT ![r].last = streams[r].last + 1]
      /\ Len(queue[streams[r].sub]) \in Nat /\ Len(queue[streams[r].sub]) > 0
      /\ streams[r].last + Len(queue[streams[r].sub]) \in 0 .. sent[streams[r].sub]
  BY <1>1, Yields DEF StreamYields, Heard
<1>3. streams[r].last < sent[streams[r].sub]
  BY <1>2, FlowTypes
<1>4. /\ streams'[r].status = "live" /\ streams'[r].sub = streams[r].sub
      /\ streams'[r].last = streams[r].last + 1
      /\ \A s \in Reqs : s # r => streams'[s] = streams[s]
  BY <1>2 DEF TypeInv, TrackInv, TrackType, Stream
<1> DEFINE Last(f) == [s \in Reqs |-> IF f[s].status \notin {"none", "made"} THEN f[s].last ELSE 0]
<1>5. Last(streams') = [Last(streams) EXCEPT ![r] = @ + 1]
  <2>1. /\ Last(streams)[r] = streams[r].last /\ Last(streams')[r] = streams[r].last + 1
        /\ \A s \in Reqs : s # r => Last(streams')[s] = Last(streams)[s]
    BY <1>2, <1>4
  <2>2. QED
    BY <2>1
<1>6. Promise!Yield(r)
  BY <1>2, <1>3, <1>4, <1>5 DEF Promise!Yield, Began
<1>7. QED
  BY <1>6 DEF Promise!Next

LEMMA StopStutters ==
    TrackInv /\ UNCHANGED sent /\ (UNCHANGED streams \/ \E rs : streams' = Stopped(rs))
        => UNCHANGED Promise!vars
  BY StoppedType, StoppedFlow, StreamsStutter DEF SameStream

LEMMA UserStreams ==
    ASSUME TypeInv, AskInv, TopicInv, FlowInv, UserStep, UNCHANGED sent
    PROVE  Promise!Next \/ UNCHANGED Promise!vars
<1>1. TrackInv
  BY DEF TypeInv
<1>2. CASE UTrack
  BY <1>2, StreamOpens
<1>3. CASE UReply
  <2>1. CASE UNCHANGED streams
    BY <1>1, <2>1, StopStutters
  <2>2. ASSUME req \in Reqs, op = "subscribe", upc = "reply",
               NEW m, streams' = [streams EXCEPT ![req] =
                   [status |-> "made", stop |-> FALSE, sub |-> m.sub, last |-> m.n]]
        PROVE  UNCHANGED Promise!vars
    <3>1. streams[req].status = "none"
      BY <2>2, UserReq DEF AskInv, OwnersInv, Subscribing, SelectPCs
    <3>2. \A r \in Reqs : SameStream(r)
      BY <1>1, <2>2, <3>1 DEF SameStream, TrackInv, TrackType
    <3>3. QED
      BY <3>2, StreamsStutter
  <2>3. QED
    BY <1>3, <2>1, <2>2, ReplyTaken
<1>4. CASE UStopAll \/ UDropStop \/ UUntrack
  BY <1>1, <1>4, StopStutters DEF UStopAll, UDropStop, StopAll, UUntrack
<1>5. CASE UHello \/ UJoined \/ UPoll \/ UWatchFails \/ UPend \/ URequest \/ USend \/ UFlush
  BY <1>1, <1>5, StopStutters
  DEF UHello, UJoined, UPoll, UWatchFails, UPend, URequest, USend, UFlush, trackVars
<1>6. CASE USinkFails \/ UAddQueue \/ URemoveQueue \/ UAck \/ UClose \/ UWriteClosed \/ UWaited
           \/ UDropListener \/ UDropCheck
  BY <1>1, <1>6, StopStutters
  DEF USinkFails, UAddQueue, URemoveQueue, UAck, UClose, UWriteClosed, UWaited,
      UDropListener, UDropCheck, trackVars
<1>7. QED
  BY <1>2, <1>3, <1>4, <1>5, <1>6 DEF UserStep

LEMMA OtherStreams ==
    ASSUME TypeInv, FlowInv, UserChoice \/ \E r \in Reqs : StreamStep(r), UNCHANGED sent
    PROVE  Promise!Next \/ UNCHANGED Promise!vars
<1>1. TrackInv
  BY DEF TypeInv
<1>2. ASSUME NEW r \in Reqs, UBeginUnsubscribe(r) \/ StreamDropped(r) \/ StreamEnds(r)
      PROVE  Promise!Next \/ UNCHANGED Promise!vars
  BY <1>2, StreamCloses DEF UBeginUnsubscribe, StreamDropped, StreamEnds
<1>3. ASSUME NEW r \in Reqs, StreamYields(r) PROVE Promise!Next
  BY <1>3, StreamAdvances
<1>4. CASE (\E t \in Topics : UBeginSubscribe(t)) \/ UBeginPublish \/ UBeginClose \/ UBeginWait
           \/ UBeginDrop \/ UCancel
  BY <1>1, <1>4, StopStutters
  DEF UBeginSubscribe, UBeginPublish, UBeginClose, UBeginWait, UBeginDrop, UCancel, trackVars
<1>5. QED
  BY <1>2, <1>3, <1>4 DEF UserChoice, StreamStep

LEMMA RouterStreams ==
    ASSUME TypeInv, WireInv, RouterAnswer \/ EnvironmentChoice
    PROVE  Promise!Next \/ UNCHANGED Promise!vars
<1>1. UNCHANGED streams /\ TrackInv
  BY EnvironmentFrame DEF ClientUnchanged, trackVars, TypeInv
<1>2. CASE UNCHANGED sent
  BY <1>1, <1>2, StopStutters
<1>3. ASSUME NEW t \in Topics, sent' = [sent EXCEPT ![t] = sent[t] + 1]
      PROVE  Promise!Next
  <2>1. Promise!Event(t)
    BY <1>1, <1>3 DEF Promise!Event, Began
  <2>2. QED
    BY <2>1 DEF Promise!Next
<1>4. QED
  BY <1>2, <1>3, WireRouter

\* Whatever ends the session, requests or streams on the way, a stream of a program
\* that keeps to topics it has no queue for never skips, repeats or reorders events
\* (client/mod.rs:316-326; message_listener.rs:323-338, ops/subscribe.rs:133-170).
THEOREM EventStreamsImplemented ==
    ASSUME "resubscribe" \notin UserMay
    PROVE  Spec => ImplementsEventStreams
<1>1. Init => Promise!Init
  BY DEF Init, NoStream, Began, Promise!Init
<1>2. TypeInv /\ SpawnInv /\ AskInv /\ TopicInv /\ WireInv /\ FlowInv /\ [Next]_vars
        => [Promise!Next]_Promise!vars
  <2> SUFFICES ASSUME TypeInv, SpawnInv, AskInv, TopicInv, WireInv, FlowInv, [Next]_vars
               PROVE  Promise!Next \/ UNCHANGED Promise!vars
    OBVIOUS
  <2>1. TrackInv
    BY DEF TypeInv
  <2>2. CASE UNCHANGED vars
    BY <2>1, <2>2, StopStutters DEF vars, trackVars, netVars
  <2>3. CASE ListenerStep \/ LStop
    BY <2>1, <2>3, ListenerFrame, WireListener, StopStutters DEF StopAll
  <2>4. CASE UserStep
    BY <2>4, UserReadsNothing, UserStreams
  <2>5. CASE UserChoice \/ \E r \in Reqs : StreamStep(r)
    BY <2>5, UserReadsNothing, OtherStreams
  <2>6. CASE RouterAnswer \/ EnvironmentChoice
    BY <2>6, RouterStreams
  <2>7. QED
    BY <2>2, <2>3, <2>4, <2>5, <2>6 DEF Next
<1>3. QED
  BY <1>1, <1>2, TypeInvariance, Spawned, AskInvariance, TopicInvariance, WireInvariance,
     FlowInvariance, PTL DEF Spec, ImplementsEventStreams, Promise!Spec

-----------------------------------------------------------------------------
(* Order, for any program. What has passed once the listener took it stays *)
(* behind all that is still to come.                                       *)
LEMMA PassedKept == UNCHANGED <<InFlight, sent>> => \A t \in Topics : Passed[t] \subseteq Passed'[t]
  BY DEF Passed

LEMMA PassedEvent ==
    ASSUME TypeInv, NEW t \in Topics, sent' = [sent EXCEPT ![t] = sent[t] + 1],
           InFlight' = [InFlight EXCEPT ![t] = @ \cup {sent[t] + 1}]
    PROVE  \A u \in Topics : Passed[u] \subseteq Passed'[u]
<1>1. /\ sent'[t] = sent[t] + 1 /\ sent[t] \in Nat /\ InFlight'[t] = InFlight[t] \cup {sent[t] + 1}
      /\ \A u \in Topics : u # t => sent'[u] = sent[u] /\ InFlight'[u] = InFlight[u]
  BY ArrivingType DEF NetType, InFlight
<1>2. ASSUME NEW n \in Passed[t] PROVE n \in Passed'[t]
  <2>1. n \in 0 .. sent[t] /\ \A k \in InFlight[t] : n < k
    BY DEF Passed
  <2>2. n \in 0 .. sent'[t] /\ n < sent[t] + 1
    BY <1>1, <2>1
  <2>3. QED
    BY <1>1, <2>1, <2>2 DEF Passed
<1>3. QED
  BY <1>1, <1>2 DEF Passed

LEMMA PassedTaken ==
    ASSUME TypeInv, WireInv, LProcess, lmsg.type = "EVENT"
    PROVE  /\ lmsg.sub \in Topics /\ lmsg.n \in Counts /\ lmsg.n \in Nat
           /\ lmsg.n \in Passed'[lmsg.sub] /\ \A a \in Passed[lmsg.sub] : a \in Nat /\ a < lmsg.n
           /\ \A u \in Topics : Passed[u] \subseteq Passed'[u]
<1> DEFINE t == lmsg.sub
           n == lmsg.n
<1>1. /\ t \in Topics /\ n \in Counts /\ n \in Nat /\ UNCHANGED sent /\ n <= sent[t]
      /\ InFlight[t] = InFlight'[t] \cup {n} /\ \A k \in InFlight'[t] : n < k
      /\ \A u \in Topics : u # t => InFlight'[u] = InFlight[u]
  BY EventFirst
<1>2. sent[t] \in Nat
  BY <1>1, ArrivingType
<1> HIDE DEF t, n
<1>3. n \in Passed'[t]
  BY <1>1, <1>2 DEF Passed
<1>4. \A a \in Passed[t] : a \in Nat /\ a < n
  BY <1>1, <1>2 DEF Passed
<1>5. ASSUME NEW u \in Topics, NEW a \in Passed[u] PROVE a \in Passed'[u]
  <2>1. InFlight'[u] \subseteq InFlight[u]
    BY <1>1
  <2>2. QED
    BY <1>1, <2>1 DEF Passed
<1>6. QED
  BY <1>1, <1>3, <1>4, <1>5 DEF t, n

LEMMA PassedSubscribed ==
    ASSUME TypeInv, WireInv, LProcess, lmsg.type = "SUBSCRIBED"
    PROVE  lmsg.n \in Passed'[lmsg.sub]
<1>1. /\ lmsg.sub \in Topics /\ lmsg.n \in Nat /\ sent[lmsg.sub] \in Nat /\ UNCHANGED sent
      /\ lmsg.n <= sent[lmsg.sub] /\ InFlight'[lmsg.sub] = lmsg.n + 1 .. sent[lmsg.sub]
  BY SubscribedFirst
<1>2. \A k \in InFlight'[lmsg.sub] : lmsg.n < k
  BY <1>1
<1>3. QED
  BY <1>1, <1>2 DEF Passed

LEMMA PassedGrows ==
    ASSUME TypeInv, SpawnInv, WireInv, [Next]_vars
    PROVE  \A t \in Topics : Passed[t] \subseteq Passed'[t]
<1>1. CASE UNCHANGED vars
  BY <1>1, WireClient, PassedKept DEF vars, listenVars, netVars
<1>2. CASE ListenerStep \/ LStop
  BY <1>2, WireListener, PassedTaken, PassedKept
<1>3. CASE UserStep \/ UserChoice \/ \E r \in Reqs : StreamStep(r)
  BY <1>3, UserReadsNothing, WireClient, PassedKept
<1>4. CASE RouterAnswer \/ EnvironmentChoice
  BY <1>4, WireRouter, PassedEvent, PassedKept
<1>5. QED
  BY <1>1, <1>2, <1>3, <1>4 DEF Next

-----------------------------------------------------------------------------
\* No stream is made, and none yields.
SameOrder ==
    \A r \in Reqs : /\ streams'[r].status # "none" => streams[r].status # "none"
                    /\ streams'[r].sub = streams[r].sub /\ streams'[r].last = streams[r].last

LEMMA StatusOrder ==
    ASSUME TrackInv, NEW r \in Reqs, streams[r].status # "none", NEW st,
           streams' = [streams EXCEPT ![r].status = st]
    PROVE  SameOrder
  BY DEF SameOrder, TrackInv, TrackType, Stream

LEMMA StoppedOrder ==
    ASSUME TrackInv, UNCHANGED streams \/ \E rs : streams' = Stopped(rs)
    PROVE  SameOrder
  BY StoppedType, StoppedFlow DEF SameOrder

\* Only a SUBSCRIBED makes a stream, and only a stream's own reader moves it.
LEMMA OrderSteps ==
    ASSUME TypeInv, [Next]_vars, ~UReply, \A r \in Reqs : ~StreamYields(r)
    PROVE  SameOrder
<1>1. TrackInv /\ MadeInv
  BY DEF TypeInv
<1> USE DEF trackVars
<1>2. CASE UNCHANGED vars
  BY <1>1, <1>2, StoppedOrder DEF vars
<1>3. CASE ListenerStep \/ LStop
  BY <1>1, <1>3, ListenerFrame, StoppedOrder DEF StopAll
<1>4. CASE RouterAnswer \/ EnvironmentChoice
  BY <1>1, <1>4, EnvironmentFrame, StoppedOrder DEF ClientUnchanged
<1>5. CASE UTrack
  BY <1>1, <1>5, StoppedType, StoppedFlow DEF UTrack, SameOrder, MadeInv, TrackInv, TrackType, Stream
<1>6. CASE UStopAll \/ UDropStop \/ UUntrack
  BY <1>1, <1>6, StoppedOrder DEF UStopAll, UDropStop, StopAll, UUntrack
<1>7. CASE UHello \/ UJoined \/ UPoll \/ UWatchFails \/ UPend \/ URequest \/ USend \/ UFlush
  BY <1>1, <1>7, StoppedOrder
  DEF UHello, UJoined, UPoll, UWatchFails, UPend, URequest, USend, UFlush
<1>8. CASE USinkFails \/ UAddQueue \/ URemoveQueue \/ UAck \/ UClose \/ UWriteClosed \/ UWaited
           \/ UDropListener \/ UDropCheck
  BY <1>1, <1>8, StoppedOrder
  DEF USinkFails, UAddQueue, URemoveQueue, UAck, UClose, UWriteClosed, UWaited,
      UDropListener, UDropCheck
<1>9. CASE UserStep
  BY <1>5, <1>6, <1>7, <1>8, <1>9 DEF UserStep
<1>10. ASSUME NEW r \in Reqs, UBeginUnsubscribe(r) \/ StreamDropped(r) \/ StreamEnds(r)
       PROVE  SameOrder
  <2>1. streams[r].status # "none" /\ \E st : streams' = [streams EXCEPT ![r].status = st]
    BY <1>10 DEF UBeginUnsubscribe, StreamDropped, StreamEnds
  <2>2. QED
    BY <1>1, <2>1, StatusOrder
<1>11. CASE (\E t \in Topics : UBeginSubscribe(t)) \/ UBeginPublish \/ UBeginClose \/ UBeginWait
            \/ UBeginDrop \/ UCancel
  BY <1>1, <1>11, StoppedOrder
  DEF UBeginSubscribe, UBeginPublish, UBeginClose, UBeginWait, UBeginDrop, UCancel
<1>12. CASE UserChoice \/ \E r \in Reqs : StreamStep(r)
  BY <1>10, <1>11, <1>12 DEF UserChoice, StreamStep
<1>13. QED
  BY <1>2, <1>3, <1>4, <1>9, <1>12 DEF Next

-----------------------------------------------------------------------------
\* A step that takes no event from the wire or a queue, and brings no SUBSCRIBED.
LEMMA OrderFrame ==
    ASSUME TypeInv, OrderInv, UNCHANGED queue, SameOrder,
           \A m \in received' : m.type = "SUBSCRIBED" => m \in received,
           upc = "addQueue" => UNCHANGED <<upc, req>>,
           \A t \in Topics : Passed[t] \subseteq Passed'[t]
    PROVE  OrderInv'
<1>1. \A m \in received' : m.type = "SUBSCRIBED" => m.n \in Passed'[m.sub]
  BY FlowTypes DEF OrderInv
<1>2. \A t \in Topics : /\ Rising(queue'[t])
                        /\ \A i \in 1 .. Len(queue'[t]) : queue'[t][i] \in Passed'[t]
  BY DEF OrderInv
<1>3. ASSUME NEW r \in Reqs, streams'[r].status # "none"
      PROVE  /\ streams'[r].last \in Passed'[streams'[r].sub]
             /\ (r = req' /\ upc' = "addQueue") \/ Follows(queue'[streams'[r].sub], streams'[r].last)
  <2>1. /\ streams[r].status # "none" /\ streams[r].sub \in Topics
        /\ streams'[r].sub = streams[r].sub /\ streams'[r].last = streams[r].last
    BY <1>3 DEF SameOrder, TypeInv, TrackInv, StreamInv
  <2>2. /\ streams[r].last \in Passed[streams[r].sub]
        /\ (r = req /\ upc = "addQueue") \/ Follows(queue[streams[r].sub], streams[r].last)
    BY <2>1 DEF OrderInv
  <2>3. QED
    BY <2>1, <2>2
<1>4. QED
  BY <1>1, <1>2, <1>3 DEF OrderInv

\* An event that the listener takes goes behind those of its topic.
LEMMA OrderBuffered ==
    ASSUME TypeInv, WireInv, OrderInv, LProcess,
           lmsg.type = "EVENT", Verdict(lmsg, lstate) = "recv"
    PROVE  OrderInv'
<1> DEFINE t == lmsg.sub
           q == queue[t]
<1>1. /\ UNCHANGED <<received, streams, upc, req>> /\ t \in hasQueue
      /\ queue' = [queue EXCEPT ![t] = Append(@, lmsg.n)]
  BY DEF LProcess, Buffer, Verdict, OthersUnchanged, userVars, trackVars
<1>2. /\ t \in Topics /\ lmsg.n \in Counts /\ lmsg.n \in Nat /\ lmsg.n \in Passed'[t]
      /\ \A a \in Passed[t] : a \in Nat /\ a < lmsg.n
      /\ \A u \in Topics : Passed[u] \subseteq Passed'[u]
  BY PassedTaken
<1>3. q \in Seq(Counts) /\ Len(q) \in Nat
  BY <1>2, FlowTypes
<1>4. /\ queue'[t] = Append(q, lmsg.n)
      /\ \A u \in Topics : u # t => queue'[u] = queue[u]
  BY <1>1, <1>2 DEF TypeInv, BufferType
<1>5. /\ Len(queue'[t]) = Len(q) + 1 /\ queue'[t][Len(q) + 1] = lmsg.n
      /\ \A i \in 1 .. Len(q) : queue'[t][i] = q[i]
  BY <1>2, <1>3, <1>4, AppendProperties
<1>6. Rising(q) /\ \A i \in 1 .. Len(q) : q[i] \in Passed[t]
  BY <1>2 DEF OrderInv
<1> HIDE DEF t, q
<1>7. ASSUME NEW i \in 1 .. Len(queue'[t])
      PROVE  \/ (i \in 1 .. Len(q) /\ queue'[t][i] = q[i])
             \/ (i = Len(q) + 1 /\ queue'[t][i] = lmsg.n)
  BY <1>3, <1>5
<1>8. Rising(queue'[t])
  <2> SUFFICES ASSUME NEW i \in 1 .. Len(queue'[t]), NEW j \in 1 .. Len(queue'[t]), i < j
               PROVE  queue'[t][i] < queue'[t][j]
    BY DEF Rising
  <2>1. i \in 1 .. Len(q) /\ queue'[t][i] = q[i] /\ q[i] \in Passed[t]
    BY <1>3, <1>5, <1>6, <1>7
  <2>2. CASE j \in 1 .. Len(q)
    BY <1>5, <1>6, <2>1, <2>2 DEF Rising
  <2>3. CASE j = Len(q) + 1
    BY <1>2, <1>5, <2>1, <2>3
  <2>4. QED
    BY <1>7, <2>2, <2>3
<1>9. \A i \in 1 .. Len(queue'[t]) : queue'[t][i] \in Passed'[t]
  BY <1>2, <1>6, <1>7
<1>10. ASSUME NEW r \in Reqs, streams[r].status # "none"
       PROVE  /\ streams[r].last \in Passed'[streams[r].sub]
              /\ (r = req /\ upc = "addQueue") \/ Follows(queue'[streams[r].sub], streams[r].last)
  <2> DEFINE u == streams[r].sub
             a == streams[r].last
  <2>1. /\ u \in Topics /\ a \in Passed[u]
        /\ (r = req /\ upc = "addQueue") \/ Follows(queue[u], a)
    BY <1>10 DEF OrderInv, TypeInv, TrackInv, StreamInv
  <2> HIDE DEF u, a
  <2>2. ASSUME u = t, Follows(queue[u], a) PROVE Follows(queue'[u], a)
    <3>1. \A i \in 1 .. Len(q) : a < q[i]
      BY <2>2 DEF Follows, q
    <3>2. a < lmsg.n
      BY <1>2, <2>1, <2>2
    <3>3. QED
      BY <1>7, <2>2, <3>1, <3>2 DEF Follows
  <2>3. QED
    BY <1>2, <1>4, <2>1, <2>2 DEF u, a
<1>11. \A u \in Topics : /\ Rising(queue'[u])
                         /\ \A i \in 1 .. Len(queue'[u]) : queue'[u][i] \in Passed'[u]
  BY <1>2, <1>4, <1>8, <1>9 DEF OrderInv
<1>12. \A m \in received : m.type = "SUBSCRIBED" => m.n \in Passed'[m.sub]
  BY <1>2, FlowTypes DEF OrderInv
<1>13. QED
  BY <1>1, <1>10, <1>11, <1>12 DEF OrderInv

LEMMA OrderListener ==
    ASSUME TypeInv, WireInv, OrderInv, ListenerStep \/ LStop, SameOrder,
           \A t \in Topics : Passed[t] \subseteq Passed'[t]
    PROVE  OrderInv'
<1>1. UNCHANGED <<upc, req>>
  BY ListenerFrame DEF userVars
<1>2. CASE ~LProcess
  BY <1>1, <1>2, ListenerReads, OrderFrame
<1>3. CASE LProcess /\ Verdict(lmsg, lstate) # "recv"
  BY <1>1, <1>3, OrderFrame DEF LProcess, bufferVars
<1>4. CASE LProcess /\ Verdict(lmsg, lstate) = "recv" /\ lmsg.type # "EVENT"
  <2>1. /\ UNCHANGED <<queue, streams>> /\ received' = received \cup {lmsg}
    BY <1>4 DEF LProcess, Buffer, trackVars
  <2>2. \A m \in received' : m.type = "SUBSCRIBED" => m.n \in Passed'[m.sub]
    BY <1>4, <2>1, FlowTypes, PassedSubscribed DEF OrderInv
  <2>3. \A r \in Reqs : streams[r].status # "none" => streams[r].sub \in Topics
    BY DEF TypeInv, TrackInv, StreamInv
  <2>4. QED
    BY <1>1, <2>1, <2>2, <2>3 DEF OrderInv
<1>5. QED
  BY <1>2, <1>3, <1>4, OrderBuffered

\* The new stream begins behind all that was sent before its SUBSCRIBED.
LEMMA OrderMade ==
    ASSUME TypeInv, AskInv, OrderInv, UReply, \A t \in Topics : Passed[t] \subseteq Passed'[t]
    PROVE  OrderInv'
<1>1. upc = "reply" /\ received' \subseteq received /\ UNCHANGED <<req, queue>> /\ TrackInv
  BY ReplyTaken DEF TypeInv
<1>2. CASE UNCHANGED streams
  BY <1>1, <1>2, StoppedOrder, OrderFrame
<1>3. ASSUME upc' = "addQueue", req \in Reqs, NEW m \in received, m.type = "SUBSCRIBED",
             streams' = [streams EXCEPT ![req] =
                 [status |-> "made", stop |-> FALSE, sub |-> m.sub, last |-> m.n]]
      PROVE  OrderInv'
  <2>1. m.sub \in Topics /\ m.n \in Passed'[m.sub]
    BY <1>3, FlowTypes DEF OrderInv
  <2>2. /\ streams'[req].sub = m.sub /\ streams'[req].last = m.n
        /\ \A r \in Reqs : r # req => streams'[r] = streams[r]
    BY <1>1, <1>3 DEF TrackInv, TrackType
  <2>3. ASSUME NEW r \in Reqs, r # req, streams[r].status # "none"
        PROVE  /\ streams[r].last \in Passed'[streams[r].sub]
               /\ Follows(queue[streams[r].sub], streams[r].last)
    BY <1>1, <2>3 DEF OrderInv, TrackInv, StreamInv
  <2>4. \A n \in received' : n.type = "SUBSCRIBED" => n.n \in Passed'[n.sub]
    BY <1>1, FlowTypes DEF OrderInv
  <2>5. \A t \in Topics : /\ Rising(queue'[t])
                          /\ \A i \in 1 .. Len(queue'[t]) : queue'[t][i] \in Passed'[t]
    BY <1>1 DEF OrderInv
  <2>6. ASSUME NEW r \in Reqs, streams'[r].status # "none"
        PROVE  /\ streams'[r].last \in Passed'[streams'[r].sub]
               /\ (r = req' /\ upc' = "addQueue") \/ Follows(queue'[streams'[r].sub], streams'[r].last)
    BY <1>1, <1>3, <2>1, <2>2, <2>3, <2>6
  <2>7. QED
    BY <2>4, <2>5, <2>6 DEF OrderInv
<1>4. QED
  BY <1>2, <1>3, ReplyTaken

\* A topic gets a new queue, or loses the one it has.
LEMMA OrderEmptied ==
    ASSUME TypeInv, OrderInv, NEW t \in Topics, queue' = [queue EXCEPT ![t] = <<>>],
           UNCHANGED <<streams, received, req>>,
           upc = "addQueue" => streams[req].sub = t,
           \A u \in Topics : Passed[u] \subseteq Passed'[u]
    PROVE  OrderInv'
<1>1. queue'[t] = <<>> /\ \A u \in Topics : u # t => queue'[u] = queue[u]
  BY DEF TypeInv, BufferType
<1>2. Len(queue'[t]) = 0
  BY <1>1
<1>3. Rising(queue'[t]) /\ \A a : Follows(queue'[t], a)
  BY <1>2 DEF Rising, Follows
<1>4. \A u \in Topics : /\ Rising(queue'[u])
                        /\ \A i \in 1 .. Len(queue'[u]) : queue'[u][i] \in Passed'[u]
  BY <1>1, <1>2, <1>3 DEF OrderInv
<1>5. ASSUME NEW r \in Reqs, streams[r].status # "none"
      PROVE  /\ streams[r].last \in Passed'[streams[r].sub]
             /\ Follows(queue'[streams[r].sub], streams[r].last)
  <2>1. /\ streams[r].sub \in Topics /\ streams[r].last \in Passed[streams[r].sub]
        /\ (r = req /\ upc = "addQueue") \/ Follows(queue[streams[r].sub], streams[r].last)
    BY <1>5 DEF OrderInv, TypeInv, TrackInv, StreamInv
  <2>2. QED
    BY <1>1, <1>3, <2>1
<1>6. \A m \in received : m.type = "SUBSCRIBED" => m.n \in Passed'[m.sub]
  BY FlowTypes DEF OrderInv
<1>7. QED
  BY <1>4, <1>5, <1>6 DEF OrderInv

LEMMA OrderUser ==
    ASSUME TypeInv, CallInv, AskInv, OrderInv, UserStep, ~UReply => SameOrder,
           \A t \in Topics : Passed[t] \subseteq Passed'[t]
    PROVE  OrderInv'
<1>1. TrackInv /\ MadeInv /\ CloseInv /\ RequestInv
  BY DEF TypeInv, UserInv
<1> USE DEF bufferVars, SelectPCs, Go, Return
<1>2. CASE UReply
  BY <1>2, OrderMade
<1>3. CASE UAddQueue
  <2>1. streams[req].sub \in Topics
    BY <1>1, <1>3 DEF UAddQueue, MadeInv, TrackInv, StreamInv
  <2>2. QED
    BY <1>3, <2>1, OrderEmptied DEF UAddQueue, trackVars
<1>4. CASE URemoveQueue
  <2>1. asked[req] \in Topics /\ upc # "addQueue"
    BY <1>1, <1>4 DEF URemoveQueue, CallInv, RequestInv, RequestPCs
  <2>2. QED
    BY <1>4, <2>1, OrderEmptied DEF URemoveQueue, trackVars
<1>5. CASE UHello \/ UJoined \/ UPoll \/ UWatchFails \/ UPend \/ URequest \/ USinkFails
  <2>1. upc # "addQueue" /\ UNCHANGED queue /\ received' \subseteq received /\ ~UReply
    BY <1>5 DEF UHello, UJoined, UPoll, UWatchFails, UPend, URequest, USinkFails, UReply, CallInv
  <2>2. QED
    BY <2>1, OrderFrame
<1>6. CASE UStopAll \/ UDropStop \/ UTrack \/ UUntrack \/ USend
  <2>1. upc # "addQueue" /\ UNCHANGED queue /\ received' \subseteq received /\ ~UReply
    BY <1>6 DEF UStopAll, UDropStop, UTrack, UUntrack, USend, UReply
  <2>2. QED
    BY <2>1, OrderFrame
<1>7. CASE UFlush \/ UClose \/ UAck \/ UWriteClosed \/ UWaited \/ UDropListener \/ UDropCheck
  <2>1. upc # "addQueue" /\ UNCHANGED queue /\ received' \subseteq received /\ ~UReply
    BY <1>7 DEF UFlush, UClose, UAck, UWriteClosed, UWaited, UDropListener, UDropCheck, UReply
  <2>2. QED
    BY <2>1, OrderFrame
<1>8. QED
  BY <1>2, <1>3, <1>4, <1>5, <1>6, <1>7 DEF UserStep

LEMMA OrderChoice ==
    ASSUME TypeInv, OrderInv, UserChoice, SameOrder,
           \A t \in Topics : Passed[t] \subseteq Passed'[t]
    PROVE  OrderInv'
<1>1. /\ UNCHANGED <<queue, received>>
      /\ upc = "addQueue" => UNCHANGED <<upc, req>>
  BY DEF UserChoice, UBeginSubscribe, UBeginUnsubscribe, StreamDropped, UBeginPublish,
         UBeginClose, UBeginWait, UBeginDrop, UCancel, Begin, bufferVars, userVars
<1>2. QED
  BY <1>1, OrderFrame

\* A stream yields: the first of its queue, which comes before the others.
LEMMA Advances ==
    ASSUME TypeInv, OrderInv, NEW r \in Reqs, StreamYields(r)
    PROVE  LET t == streams[r].sub
               q == queue[t]
           IN  /\ t \in Topics /\ Len(q) \in Nat /\ Len(q) > 0 /\ q[1] \in Passed[t]
               /\ streams' = [streams EXCEPT ![r].last = q[1]]
               /\ queue' = [queue EXCEPT ![t] = Tail(q)]
               /\ Len(Tail(q)) = Len(q) - 1 /\ \A i \in 1 .. Len(Tail(q)) : Tail(q)[i] = q[i + 1]
               /\ \A s \in Reqs : /\ streams[s].status \notin {"none", "made"}
                                  /\ streams[s].sub = t
                                  => Follows(q, streams[s].last)
<1> DEFINE t == streams[r].sub
           q == queue[t]
<1>1. /\ streams[r].status = "live" /\ q # <<>> /\ queue' = [queue EXCEPT ![t] = Tail(q)]
      /\ streams' = [streams EXCEPT ![r].last = Head(q)]
  BY DEF StreamYields
<1>2. t \in Topics /\ q \in Seq(Counts) /\ Len(q) \in Nat
  BY <1>1, FlowTypes DEF InUse
<1>3. \A s \in Reqs : streams[s].status \notin {"none", "made"} /\ streams[s].sub = t
                         => Follows(q, streams[s].last)
  BY DEF OrderInv, TypeInv, MadeInv
<1> HIDE DEF q
<1>4. Len(q) > 0 /\ Head(q) = q[1]
  BY <1>1, <1>2, EmptySeq
<1>5. Len(Tail(q)) = Len(q) - 1 /\ \A i \in 1 .. Len(Tail(q)) : Tail(q)[i] = q[i + 1]
  BY <1>1, <1>2, HeadTailProperties
<1>6. q[1] \in Passed[t]
  BY <1>2, <1>4 DEF OrderInv, q
<1>7. QED
  BY <1>1, <1>2, <1>3, <1>4, <1>5, <1>6 DEF q

LEMMA OrderYields ==
    ASSUME TypeInv, OrderInv, NEW r \in Reqs, StreamYields(r),
           \A t \in Topics : Passed[t] \subseteq Passed'[t]
    PROVE  OrderInv'
<1> DEFINE t == streams[r].sub
           q == queue[t]
<1>1. /\ t \in Topics /\ Len(q) \in Nat /\ Len(q) > 0 /\ q[1] \in Passed[t]
      /\ streams' = [streams EXCEPT ![r].last = q[1]]
      /\ queue' = [queue EXCEPT ![t] = Tail(q)]
      /\ Len(Tail(q)) = Len(q) - 1 /\ \A i \in 1 .. Len(Tail(q)) : Tail(q)[i] = q[i + 1]
  BY Advances
<1>2. streams[r].status = "live" /\ UNCHANGED <<upc, req, received>> /\ TrackInv /\ MadeInv
  BY DEF StreamYields, userVars, TypeInv
<1>3. /\ streams'[r].sub = t /\ streams'[r].last = q[1] /\ queue'[t] = Tail(q)
      /\ \A s \in Reqs : s # r => streams'[s] = streams[s]
      /\ \A u \in Topics : u # t => queue'[u] = queue[u]
  BY <1>1, <1>2 DEF TrackInv, TrackType, Stream, TypeInv, BufferType
<1>4. Rising(q) /\ \A i \in 1 .. Len(q) : q[i] \in Passed[t]
  BY <1>1 DEF OrderInv
<1>5. \A s \in Reqs : streams[s].status # "none" =>
         /\ streams[s].sub \in Topics /\ streams[s].last \in Passed[streams[s].sub]
         /\ (s = req /\ upc = "addQueue") \/ Follows(queue[streams[s].sub], streams[s].last)
  BY <1>2 DEF OrderInv, TrackInv, StreamInv
<1> DEFINE rest == Tail(q)
<1>6. queue'[t] = rest /\ Len(rest) = Len(q) - 1 /\ \A i \in 1 .. Len(rest) : rest[i] = q[i + 1]
  BY <1>1, <1>3
<1>7. \A s \in Reqs : streams[s].status # "none" /\ streams[s].sub = t =>
         (s = req /\ upc = "addQueue") \/ Follows(q, streams[s].last)
  BY <1>5
<1> HIDE DEF t, q, rest
<1>8. \A i \in 1 .. Len(rest) : i + 1 \in 1 .. Len(q) /\ 1 \in 1 .. Len(q) /\ 1 < i + 1
  BY <1>1, <1>6
<1>9. /\ Rising(rest) /\ Follows(rest, q[1]) /\ \A i \in 1 .. Len(rest) : rest[i] \in Passed[t]
      /\ \A a : Follows(q, a) => Follows(rest, a)
  <2>1. Rising(rest)
    <3> SUFFICES ASSUME NEW i \in 1 .. Len(rest), NEW j \in 1 .. Len(rest), i < j
                 PROVE  rest[i] < rest[j]
      BY DEF Rising
    <3>1. i + 1 < j + 1 /\ i + 1 \in 1 .. Len(q) /\ j + 1 \in 1 .. Len(q)
      BY <1>8
    <3>2. q[i + 1] < q[j + 1]
      BY <1>4, <3>1 DEF Rising
    <3>3. QED
      BY <1>6, <3>2
  <2>2. Follows(rest, q[1])
    BY <1>4, <1>6, <1>8 DEF Rising, Follows
  <2>3. \A i \in 1 .. Len(rest) : rest[i] \in Passed[t]
    BY <1>4, <1>6, <1>8
  <2>4. ASSUME NEW a, Follows(q, a) PROVE Follows(rest, a)
    BY <1>6, <1>8, <2>4 DEF Follows
  <2>5. QED
    BY <2>1, <2>2, <2>3, <2>4
<1>10. \A u \in Topics : /\ Rising(queue'[u])
                         /\ \A i \in 1 .. Len(queue'[u]) : queue'[u][i] \in Passed'[u]
  BY <1>1, <1>3, <1>6, <1>9 DEF OrderInv
<1>11. ASSUME NEW s \in Reqs, streams'[s].status # "none"
       PROVE  /\ streams'[s].last \in Passed'[streams'[s].sub]
              /\ (s = req' /\ upc' = "addQueue") \/ Follows(queue'[streams'[s].sub], streams'[s].last)
  <2>1. CASE s = r
    BY <1>1, <1>3, <1>6, <1>9, <2>1
  <2>2. CASE s # r
    <3>1. streams'[s] = streams[s] /\ streams[s].status # "none"
      BY <1>3, <1>11, <2>2
    <3>2. streams[s].last \in Passed'[streams[s].sub]
      BY <1>5, <3>1
    <3>3. CASE streams[s].sub = t
      BY <1>2, <1>6, <1>7, <1>9, <3>1, <3>2, <3>3
    <3>4. CASE streams[s].sub # t
      BY <1>2, <1>3, <1>5, <3>1, <3>2, <3>4
    <3>5. QED
      BY <3>3, <3>4
  <2>3. QED
    BY <2>1, <2>2
<1>12. \A m \in received' : m.type = "SUBSCRIBED" => m.n \in Passed'[m.sub]
  BY <1>2, FlowTypes DEF OrderInv
<1>13. QED
  BY <1>10, <1>11, <1>12 DEF OrderInv

LEMMA OrderInvariance == Spec => []OrderInv
<1>1. Init => OrderInv
  BY DEF Init, OrderInv, NoStream, Rising
<1>2. TypeInv /\ SpawnInv /\ SessionInv /\ AskInv /\ WireInv /\ OrderInv /\ [Next]_vars => OrderInv'
  <2> SUFFICES ASSUME TypeInv, SpawnInv, SessionInv, AskInv, WireInv, OrderInv, [Next]_vars
               PROVE  OrderInv'
    OBVIOUS
  <2>1. \A t \in Topics : Passed[t] \subseteq Passed'[t]
    BY PassedGrows
  <2>2. CASE \E r \in Reqs : StreamYields(r)
    BY <2>1, <2>2, OrderYields
  <2>3. CASE UReply
    BY <2>1, <2>3, OrderMade
  <2>4. CASE ~UReply /\ ~ \E r \in Reqs : StreamYields(r)
    <3>1. SameOrder
      BY <2>4, OrderSteps
    <3>2. CASE UNCHANGED vars
      BY <2>1, <3>1, <3>2, OrderFrame DEF vars, bufferVars, userVars
    <3>3. CASE RouterAnswer \/ EnvironmentChoice
      BY <2>1, <3>1, <3>3, EnvironmentFrame, OrderFrame DEF ClientUnchanged, bufferVars, userVars
    <3>4. CASE \E r \in Reqs : StreamEnds(r)
      BY <2>1, <3>1, <3>4, OrderFrame DEF StreamEnds, bufferVars, userVars
    <3>5. QED
      BY <2>1, <2>4, <3>1, <3>2, <3>3, <3>4, OrderListener, OrderUser, OrderChoice
      DEF Next, StreamStep, SessionInv
  <2>5. QED
    BY <2>2, <2>3, <2>4
<1>3. QED
  BY <1>1, <1>2, TypeInvariance, Spawned, SessionInvariance, AskInvariance, WireInvariance,
     PTL DEF Spec

\* No event of a topic reaches the program twice, or behind one that came later, however
\* often it subscribes to the topic and whatever ends its calls and streams
\* (message_listener.rs:323-338, ops/subscribe.rs:77-105, 133-170).
THEOREM NoneTwiceNorLate == Spec => NeverTwiceNorLate
<1>1. ASSUME TypeInv, AskInv, OrderInv, [Next]_vars, NEW r \in Reqs, NEW s \in Reqs,
             streams[r].status = "live", streams'[r].last # streams[r].last,
             Began(s), streams[s].sub = streams[r].sub
      PROVE  streams'[r].last > streams[s].last
  <2>1. TrackInv
    BY <1>1 DEF TypeInv
  <2>2. ASSUME NEW p \in Reqs, StreamYields(p) PROVE streams'[r].last > streams[s].last
    <3> DEFINE q == queue[streams[p].sub]
    <3>1. /\ Len(q) \in Nat /\ Len(q) > 0 /\ q[1] \in Passed[streams[p].sub]
          /\ streams' = [streams EXCEPT ![p].last = q[1]] /\ streams[p].sub \in Topics
          /\ \A o \in Reqs : streams[o].status \notin {"none", "made"} /\ streams[o].sub = streams[p].sub
                                => Follows(q, streams[o].last)
      BY <1>1, <2>2, Advances
    <3>2. r = p /\ streams'[r].last = q[1]
      BY <1>1, <2>1, <3>1 DEF TrackInv, TrackType, Stream
    <3>3. Follows(q, streams[s].last)
      BY <1>1, <3>1, <3>2 DEF Began
    <3>4. streams[s].last < q[1]
      BY <3>1, <3>3 DEF Follows
    <3>5. streams[s].last \in Nat /\ q[1] \in Nat
      BY <1>1, <2>1, <3>1, FlowTypes DEF Passed, Began, TrackInv, TrackType, Stream
    <3>6. QED
      BY <3>2, <3>4, <3>5
  <2>3. CASE UReply
    <3>1. ASSUME req \in Reqs, op = "subscribe", upc = "reply",
                 NEW m, streams' = [streams EXCEPT ![req] =
                     [status |-> "made", stop |-> FALSE, sub |-> m.sub, last |-> m.n]]
          PROVE  UNCHANGED streams[r].last
      <4>1. r # req
        BY <1>1, <3>1, UserReq DEF AskInv, OwnersInv, Subscribing, SelectPCs
      <4>2. QED
        BY <2>1, <3>1, <4>1 DEF TrackInv, TrackType
    <3>2. QED
      BY <1>1, <2>3, <3>1, ReplyTaken
  <2>4. CASE ~UReply /\ \A p \in Reqs : ~StreamYields(p)
    BY <1>1, <2>4, OrderSteps DEF SameOrder
  <2>5. QED
    BY <2>2, <2>3, <2>4
<1>2. TypeInv /\ AskInv /\ OrderInv /\ [Next]_vars =>
        [\A r, s \in Reqs :
            /\ streams[r].status = "live" /\ streams'[r].last # streams[r].last
            /\ Began(s) /\ streams[s].sub = streams[r].sub
            => streams'[r].last > streams[s].last]_vars
  BY <1>1
<1>3. QED
  BY <1>2, TypeInvariance, AskInvariance, OrderInvariance, PTL DEF Spec, NeverTwiceNorLate
=============================================================================

-------------------------- MODULE WampClientProofs --------------------------
(* The safety of the client for any topics, bounds and environment.        *)
EXTENDS WampClient, SequenceTheorems, TLAPS

-----------------------------------------------------------------------------
(* Types. TypeOK alone is not inductive: what a message may hold depends   *)
(* on what the call that sends it remembers.                               *)
RequestPCs == SelectPCs \cup {"addQueue", "track", "rmQueue", "untrack"}

\* A request under way has an id and asks for a topic.
RequestInv ==
    op \in {"subscribe", "unsubscribe"} /\ upc \in RequestPCs
        => req \in Reqs /\ asked[req] \in Topics

\* publish has an id left to take.
PublishInv == op = "publish" /\ upc \in {"acquire", "send"} => req < MaxReq

\* Only close comes by stopSubs.
CloseInv == upc = "stopSubs" => op = "close"

\* A stream that exists has a subscription ...
StreamInv == \A r \in Reqs : streams[r].status # "none" => streams[r].sub \in Topics

\* ... also while it is being registered.
MadeInv == upc \in {"addQueue", "track"} => req \in Reqs /\ streams[req].status = "made"

\* The listener keeps a WELCOME until it has acted on it.
WelcomeInv == lpc = "welcome" => lmsg \in [type : {"WELCOME"}, broker : BOOLEAN]

UserInv == UserType /\ RequestInv /\ PublishInv /\ CloseInv
TrackInv == TrackType /\ StreamInv
ListenInv == ListenType /\ WelcomeInv

TypeInv ==
    /\ StateType /\ LockType /\ SinkType /\ TrackInv /\ stopListener \in BOOLEAN
    /\ BufferType /\ ListenInv /\ UserInv /\ NetType /\ MadeInv

\* What an action leaves alone keeps its type.
LEMMA Frames ==
    /\ UNCHANGED stateVars => (StateType <=> StateType')
    /\ UNCHANGED lockVars => (LockType <=> LockType')
    /\ UNCHANGED sinkVars => (SinkType <=> SinkType')
    /\ UNCHANGED trackVars => (TrackInv <=> TrackInv')
    /\ UNCHANGED bufferVars => (BufferType <=> BufferType')
    /\ UNCHANGED listenVars => (ListenInv <=> ListenInv')
    /\ UNCHANGED userVars => (UserInv <=> UserInv')
    /\ UNCHANGED netVars => (NetType <=> NetType')
    /\ UNCHANGED <<trackVars, userVars>> => (MadeInv <=> MadeInv')
<1>1. UNCHANGED stateVars => (StateType <=> StateType')
  BY DEF stateVars, StateType
<1>2. UNCHANGED lockVars => (LockType <=> LockType')
  BY DEF lockVars, LockType
<1>3. UNCHANGED sinkVars => (SinkType <=> SinkType')
  BY DEF sinkVars, SinkType
<1>4. UNCHANGED trackVars => (TrackInv <=> TrackInv')
  BY DEF trackVars, TrackInv, TrackType, StreamInv
<1>5. UNCHANGED bufferVars => (BufferType <=> BufferType')
  BY DEF bufferVars, BufferType
<1>6. UNCHANGED listenVars => (ListenInv <=> ListenInv')
  BY DEF listenVars, ListenInv, ListenType, WelcomeInv
<1>7. UNCHANGED userVars => (UserInv <=> UserInv')
  BY DEF userVars, UserInv, UserType, RequestInv, PublishInv, CloseInv
<1>8. UNCHANGED netVars => (NetType <=> NetType')
  BY DEF netVars, NetType
<1>9. UNCHANGED <<trackVars, userVars>> => (MadeInv <=> MadeInv')
  BY DEF trackVars, userVars, MadeInv
<1>10. QED
  BY <1>1, <1>2, <1>3, <1>4, <1>5, <1>6, <1>7, <1>8, <1>9

LEMMA StoppedType ==
    ASSUME TrackInv, NEW rs
    PROVE  /\ Stopped(rs) \in [Reqs -> Stream]
           /\ \A r \in Reqs : /\ Stopped(rs)[r].status = streams[r].status
                              /\ Stopped(rs)[r].sub = streams[r].sub
  BY DEF Stopped, Stream, TrackInv, TrackType

\* stop_all_except_message_listener.
LEMMA StopAllType == TrackInv /\ StopAll => /\ TrackInv'
                                            /\ \A r \in Reqs : streams'[r].status = streams[r].status
<1> SUFFICES ASSUME TrackInv, StopAll
             PROVE  TrackInv' /\ \A r \in Reqs : streams'[r].status = streams[r].status
  OBVIOUS
<1>1. streams' = Stopped({tracked[t] : t \in Topics})
  BY DEF StopAll
<1>2. /\ streams' \in [Reqs -> Stream]
      /\ \A r \in Reqs : /\ streams'[r].status = streams[r].status
                         /\ streams'[r].sub = streams[r].sub
  BY <1>1, StoppedType
<1>3. tracked' \in [Topics -> Ids]
  BY ClientAssumption DEF StopAll, Ids
<1>4. QED
  BY <1>2, <1>3 DEF TrackInv, TrackType, StreamInv

\* The operations on the lock and on the sink.
LEMMA LockSteps ==
    /\ LockType /\ Release => LockType'
    /\ \A who \in Contenders : LockType /\ (Request(who) \/ Forget(who)) => LockType'
  BY DEF LockType, Release, Request, Forget, Contenders

LEMMA SinkSteps ==
    /\ SinkType /\ (Flush \/ CloseSink) => SinkType'
    /\ \A m \in TxMessage : SinkType /\ StartSend(m) => SinkType'
<1>1. SinkType => toRouter \o unsent \in Seq(TxMessage)
  BY ConcatProperties DEF SinkType
<1>2. <<>> \in Seq(TxMessage)
  BY EmptySeq
<1>3. \A m \in TxMessage : <<m>> \in Seq(TxMessage)
  OBVIOUS
<1>4. SinkType /\ (Flush \/ CloseSink) => SinkType'
  BY <1>1, <1>2 DEF SinkType, Flush, CloseSink
<1>5. \A m \in TxMessage : SinkType /\ StartSend(m) => SinkType'
  BY <1>1, <1>3 DEF SinkType, StartSend
<1>6. QED
  BY <1>4, <1>5

LEMMA BareMessages ==
    /\ \A type \in {"HELLO", "PUBLISH", "GOODBYE", "ABORT"} : [type |-> type] \in TxMessage
    /\ \A type \in {"ABORT", "GOODBYE", "RESET", "GARBAGE"} : [type |-> type] \in RxMessage
  BY DEF TxMessage, RxMessage

\* What a message of each kind holds.
LEMMA MessageFields ==
    /\ \A m \in TxMessage : m.type \in {"SUBSCRIBE", "UNSUBSCRIBE"}
           => m.req \in Reqs /\ m.topic \in Topics
    /\ \A m \in RxMessage :
           /\ m.type = "WELCOME" => m \in [type : {"WELCOME"}, broker : BOOLEAN]
           /\ m.type = "SUBSCRIBED" => m.req \in Reqs /\ m.sub \in Topics /\ m.n \in Counts
           /\ m.type = "EVENT" => m.sub \in Topics /\ m.n \in Counts
  BY DEF TxMessage, RxMessage

-----------------------------------------------------------------------------
LEMMA ListenerTypes == TypeInv /\ (ListenerStep \/ LStop) => TypeInv'
<1> SUFFICES ASSUME TypeInv, ListenerStep \/ LStop PROVE TypeInv'
  OBVIOUS
<1> USE Frames DEF TypeInv, OthersUnchanged, NetUnchanged
<1>1. ASSUME LRecv PROVE TypeInv'
  <2>1. ListenInv' /\ NetType'
    BY <1>1 DEF LRecv, TakeItem, ListenInv, ListenType, WelcomeInv, ListenerPCs, StateType,
                NetType
  <2>2. QED
    BY <1>1, <2>1 DEF LRecv, TakeItem
<1>2. ASSUME LRecvError PROVE TypeInv'
  <2>1. ListenInv'
    BY <1>2, BareMessages DEF LRecvError, TakeItem, ListenInv, ListenType, WelcomeInv,
                              ListenerPCs, StateType
  <2>2. QED
    BY <1>2, <2>1 DEF LRecvError, TakeItem
<1>3. ASSUME LRecvNone PROVE TypeInv'
  <2>1. ListenInv'
    BY <1>3 DEF LRecvNone, ListenInv, ListenType, WelcomeInv, ListenerPCs
  <2>2. QED
    BY <1>3, <2>1 DEF LRecvNone
<1>4. ASSUME LProcess PROVE TypeInv'
  <2>1. Verdict(lmsg, lstate) \in {"recv", "welcome", "abort", "goodbye", "protocolError"}
    BY DEF Verdict
  <2>2. /\ Verdict(lmsg, lstate) = "recv" => lmsg \in RxMessage
        /\ Verdict(lmsg, lstate) = "welcome" => lmsg \in RxMessage /\ lmsg.type = "WELCOME"
    BY DEF Verdict, NoMessage, ListenInv, ListenType
  <2>3. BufferType'
    <3>1. CASE Verdict(lmsg, lstate) = "recv" /\ lmsg.type = "EVENT"
      <4>1. lmsg.sub \in Topics /\ lmsg.n \in Counts
        BY <2>2, <3>1, MessageFields
      <4>2. Append(queue[lmsg.sub], lmsg.n) \in Seq(Counts)
        BY <4>1, AppendProperties DEF BufferType
      <4>3. [queue EXCEPT ![lmsg.sub] = Append(@, lmsg.n)] \in [Topics -> Seq(Counts)]
        BY <4>1, <4>2 DEF BufferType
      <4>4. QED
        BY <1>4, <3>1, <4>3 DEF LProcess, Buffer, BufferType
    <3>4. CASE Verdict(lmsg, lstate) = "recv" /\ lmsg.type # "EVENT"
      <4>1. received' = received \cup {lmsg} /\ UNCHANGED <<hasQueue, queue>>
        BY <1>4, <3>4 DEF LProcess, Buffer
      <4>2. lmsg \in RxMessage
        BY <2>2, <3>4
      <4>3. QED
        BY <4>1, <4>2 DEF BufferType
    <3>2. CASE Verdict(lmsg, lstate) # "recv"
      BY <1>4, <3>2 DEF LProcess
    <3>3. QED
      BY <3>1, <3>2, <3>4
  <2>4. ListenInv'
    BY <1>4, <2>1, <2>2, MessageFields
    DEF LProcess, ListenInv, ListenType, WelcomeInv, ListenerPCs, ClientState
  <2>5. QED
    BY <1>4, <2>3, <2>4 DEF LProcess
<1>5. ASSUME LWelcome PROVE TypeInv'
  <2>1. ListenInv' /\ StateType'
    BY <1>5 DEF LWelcome, ListenInv, ListenType, WelcomeInv, ListenerPCs, StateType, ClientState
  <2>2. QED
    BY <1>5, <2>1 DEF LWelcome
<1>6. ASSUME LAbort \/ LProtocolError \/ LClosing \/ LFinal PROVE TypeInv'
  <2>1. ListenInv' /\ StateType'
    BY <1>6 DEF LAbort, LProtocolError, LClosing, LFinal, SetState, ListenInv, ListenType,
                WelcomeInv, ListenerPCs, StateType, ClientState
  <2>2. QED
    BY <1>6, <2>1 DEF LAbort, LProtocolError, LClosing, LFinal, SetState
<1>7. ASSUME LGoodbye PROVE TypeInv'
  <2>1. ListenInv'
    BY <1>7 DEF LGoodbye, ListenInv, ListenType, WelcomeInv, ListenerPCs
  <2>2. QED
    BY <1>7, <2>1 DEF LGoodbye
<1>8. ASSUME LLockSend \/ LLockClose PROVE TypeInv'
  <2>1. ListenInv'
    BY <1>8 DEF LLockSend, LLockClose, Lock, ListenInv, ListenType, WelcomeInv, ListenerPCs
  <2>2. LockType'
    BY <1>8, LockSteps DEF LLockSend, LLockClose, Lock, Contenders
  <2>3. QED
    BY <1>8, <2>1, <2>2 DEF LLockSend, LLockClose, Lock
<1>9. ASSUME LSend PROVE TypeInv'
  <2>1. ListenInv'
    BY <1>9 DEF LSend, ListenInv, ListenType, WelcomeInv, ListenerPCs
  <2>2. [type |-> lreply] \in TxMessage
    BY BareMessages DEF ListenInv, ListenType
  <2>3. SinkType'
    <3>1. toRouter \o unsent \in Seq(TxMessage)
      BY ConcatProperties DEF SinkType
    <3>2. <<[type |-> lreply]>> \in Seq(TxMessage)
      BY <2>2
    <3>3. toRouter \o unsent \o <<[type |-> lreply]>> \in Seq(TxMessage)
      BY <3>1, <3>2, ConcatProperties
    <3>4. <<>> \in Seq(TxMessage)
      BY EmptySeq
    <3>5. QED
      BY <1>9, <3>3, <3>4 DEF LSend, SinkType, sinkVars
  <2>4. QED
    BY <1>9, <2>1, <2>3, LockSteps DEF LSend
<1>10. ASSUME LStopAll PROVE TypeInv'
  <2>1. ListenInv'
    BY <1>10 DEF LStopAll, ListenInv, ListenType, WelcomeInv, ListenerPCs
  <2>2. TrackInv' /\ \A r \in Reqs : streams'[r].status = streams[r].status
    BY <1>10, StopAllType DEF LStopAll
  <2>3. MadeInv'
    BY <1>10, <2>2 DEF LStopAll, userVars, MadeInv
  <2>4. QED
    BY <1>10, <2>1, <2>2, <2>3 DEF LStopAll
<1>11. ASSUME LClose PROVE TypeInv'
  <2>1. ListenInv'
    BY <1>11 DEF LClose, ListenInv, ListenType, WelcomeInv, ListenerPCs
  <2>2. QED
    BY <1>11, <2>1, LockSteps, SinkSteps DEF LClose
<1>12. ASSUME LStop PROVE TypeInv'
  <2>1. ListenInv'
    BY <1>12 DEF LStop, ListenInv, ListenType, WelcomeInv, ListenerPCs
  <2>2. LockType'
    BY <1>12, LockSteps DEF LStop, Contenders
  <2>3. QED
    BY <1>12, <2>1, <2>2 DEF LStop
<1>13. QED
  BY <1>1, <1>2, <1>3, <1>4, <1>5, <1>6, <1>7, <1>8, <1>9, <1>10, <1>11, <1>12
  DEF ListenerStep

-----------------------------------------------------------------------------
\* A call that returns, or goes on to a later point, keeps what it remembers.
LEMMA ReturnType ==
    ASSUME UserInv, NEW o \in Outcomes, Return(o)
    PROVE  UserInv' /\ MadeInv'
<1>1. upc' \in {"gone", "idle"}
  BY DEF Return
<1>2. UserType'
  BY <1>1 DEF Return, UserInv, UserType, UserPCs
<1>3. QED
  BY <1>1, <1>2 DEF UserInv, RequestInv, PublishInv, CloseInv, MadeInv, RequestPCs, SelectPCs

LEMMA GoType ==
    ASSUME UserInv, NEW pc \in UserPCs, Go(pc), polled' \in BOOLEAN,
           pc \in RequestPCs => upc \in RequestPCs \/ op \notin {"subscribe", "unsubscribe"},
           pc \in {"acquire", "send"} => upc \in {"acquire", "send"} \/ op # "publish",
           pc # "stopSubs"
    PROVE  UserInv'
<1>1. UserType'
  BY DEF Go, UserInv, UserType
<1>2. RequestInv' /\ PublishInv' /\ CloseInv'
  BY DEF Go, UserInv, RequestInv, PublishInv, CloseInv
<1>3. QED
  BY <1>1, <1>2 DEF UserInv

\* The replies a call waits for.
LEMMA ReplyTypes ==
    BufferType => \A m \in Replies :
        /\ m \in RxMessage /\ m \in received
        /\ m.type \in {"SUBSCRIBED", "UNSUBSCRIBED", "ERROR"}
        /\ m.type = "SUBSCRIBED" => m.sub \in Topics /\ m.n \in Counts /\ op = "subscribe"
        /\ m.type = "UNSUBSCRIBED" => op = "unsubscribe"
<1> SUFFICES ASSUME BufferType, NEW m \in Replies
             PROVE  /\ m \in RxMessage /\ m \in received
                    /\ m.type \in {"SUBSCRIBED", "UNSUBSCRIBED", "ERROR"}
                    /\ m.type = "SUBSCRIBED" => m.sub \in Topics /\ m.n \in Counts
                                                /\ op = "subscribe"
                    /\ m.type = "UNSUBSCRIBED" => op = "unsubscribe"
  OBVIOUS
<1>1. /\ m \in received
      /\ m.type \in {"SUBSCRIBED", "UNSUBSCRIBED", "ERROR"}
      /\ m.type = "SUBSCRIBED" => op = "subscribe"
      /\ m.type = "UNSUBSCRIBED" => op = "unsubscribe"
  BY DEF Replies
<1>2. m \in RxMessage
  BY <1>1 DEF BufferType
<1>3. QED
  BY <1>1, <1>2, MessageFields

LEMMA OutgoingType ==
    UserInv /\ upc = "send" => Outgoing \in TxMessage
<1> SUFFICES ASSUME UserInv, upc = "send" PROVE Outgoing \in TxMessage
  OBVIOUS
<1>1. CASE op \in {"subscribe", "unsubscribe"}
  <2>1. req \in Reqs /\ asked[req] \in Topics
    BY <1>1 DEF UserInv, RequestInv, RequestPCs, SelectPCs
  <2>2. \A r \in Reqs, t \in Topics :
            /\ [type |-> "SUBSCRIBE", req |-> r, topic |-> t] \in TxMessage
            /\ [type |-> "UNSUBSCRIBE", req |-> r, topic |-> t] \in TxMessage
    BY DEF TxMessage
  <2>3. QED
    BY <1>1, <2>1, <2>2 DEF Outgoing
<1>2. CASE op \notin {"subscribe", "unsubscribe"}
  BY <1>2, BareMessages DEF Outgoing, Goodbye
<1>3. QED
  BY <1>1, <1>2

\* The steps of the calls, once they are begun.
LEMMA CallTypes ==
    TypeInv /\ (UHello \/ UJoined \/ UStopAll \/ UPoll \/ UWatchFails \/ UPend \/ URequest
                \/ USend \/ UFlush \/ USinkFails) => TypeInv'
<1> SUFFICES ASSUME TypeInv,
                    UHello \/ UJoined \/ UStopAll \/ UPoll \/ UWatchFails \/ UPend \/ URequest
                    \/ USend \/ UFlush \/ USinkFails
             PROVE  TypeInv'
  OBVIOUS
<1> USE Frames DEF TypeInv, EnvUnchanged
<1>0. {"ok", "failed"} \subseteq Outcomes
  BY DEF Outcomes
<1>1. ASSUME UHello PROVE TypeInv'
  <2>1. CASE CanFlush /\ Go("joining") /\ UNCHANGED polled /\ lpc' = "recv"
             /\ toRouter' = Append(toRouter, [type |-> "HELLO"])
    <3>1. toRouter' \in Seq(TxMessage)
      BY <2>1, BareMessages, AppendProperties DEF SinkType
    <3>2. SinkType'
      BY <1>1, <3>1 DEF UHello, SinkType
    <3>3. ListenInv'
      BY <1>1, <2>1 DEF UHello, ListenInv, ListenType, WelcomeInv, ListenerPCs
    <3>4. UserInv' /\ MadeInv'
      BY <2>1, GoType DEF UserPCs, RequestPCs, SelectPCs, Go, MadeInv, UserInv, UserType
    <3>5. QED
      BY <1>1, <3>2, <3>3, <3>4 DEF UHello
  <2>2. CASE Return("failed") /\ UNCHANGED <<toRouter, lpc>>
    <3>1. UNCHANGED sinkVars /\ UNCHANGED listenVars
      BY <1>1, <2>2 DEF UHello, sinkVars, listenVars
    <3>2. UserInv' /\ MadeInv'
      BY <1>0, <2>2, ReturnType
    <3>3. QED
      BY <1>1, <3>1, <3>2 DEF UHello
  <2>3. QED
    BY <1>1, <2>1, <2>2 DEF UHello
<1>2. ASSUME UJoined PROVE TypeInv'
  <2>1. UserInv' /\ MadeInv'
    BY <1>0, <1>2, ReturnType DEF UJoined
  <2>2. QED
    BY <1>2, <2>1 DEF UJoined
<1>3. ASSUME UStopAll PROVE TypeInv'
  <2>1. UserInv'
    <3>1. polled' \in BOOLEAN
      BY <1>3 DEF UStopAll, UserInv, UserType
    <3>2. CASE upc = "stopSubs" /\ Go("acquire")
      BY <3>1, <3>2, GoType DEF UserPCs, RequestPCs, SelectPCs, UserInv, CloseInv
    <3>3. CASE upc = "stopAgain" /\ Go("acquireClose")
      BY <3>1, <3>3, GoType DEF UserPCs, RequestPCs, SelectPCs
    <3>4. QED
      BY <1>3, <3>2, <3>3 DEF UStopAll
  <2>2. TrackInv' /\ MadeInv'
    BY <1>3, StopAllType DEF UStopAll, Go, MadeInv
  <2>3. QED
    BY <1>3, <2>1, <2>2 DEF UStopAll
<1>4. ASSUME UPoll \/ UPend PROVE TypeInv'
  <2>1. UserInv' /\ MadeInv'
    BY <1>4 DEF UPoll, UPend, UserInv, UserType, RequestInv, PublishInv, CloseInv, MadeInv, trackVars
  <2>2. QED
    BY <1>4, <2>1 DEF UPoll, UPend
<1>5. ASSUME UWatchFails PROVE TypeInv'
  <2>1. UserInv' /\ MadeInv'
    BY <1>0, <1>5, ReturnType DEF UWatchFails
  <2>2. LockType'
    BY <1>5, LockSteps DEF UWatchFails, Contenders
  <2>3. QED
    BY <1>5, <2>1, <2>2 DEF UWatchFails
<1>6. ASSUME URequest PROVE TypeInv'
  <2>1. UserInv'
    BY <1>6, GoType DEF URequest, UserPCs, RequestPCs, SelectPCs, UserInv, UserType
  <2>2. LockType' /\ MadeInv'
    BY <1>6, LockSteps DEF URequest, Contenders, Go, MadeInv
  <2>3. QED
    BY <1>6, <2>1, <2>2 DEF URequest
<1>7. ASSUME USend PROVE TypeInv'
  <2>1. LockType' /\ SinkType'
    BY <1>7, LockSteps, SinkSteps, OutgoingType DEF USend
  <2>2. req' \in Ids
    BY <1>7, ClientAssumption DEF USend, UserInv, UserType, PublishInv, CloseInv, Ids
  <2>3. UserType'
    BY <1>7, <2>2 DEF USend, UserInv, UserType, UserPCs, SelectPCs
  <2>4. RequestInv' /\ PublishInv' /\ CloseInv' /\ MadeInv'
    BY <1>7 DEF USend, UserInv, RequestInv, PublishInv, CloseInv, MadeInv, RequestPCs, SelectPCs
  <2>5. QED
    BY <1>7, <2>1, <2>3, <2>4 DEF USend, UserInv
<1>8. ASSUME UFlush PROVE TypeInv'
  <2>1. LockType' /\ SinkType'
    BY <1>8, LockSteps, SinkSteps DEF UFlush
  <2>2. UserInv' /\ MadeInv'
    <3>1. CASE Return("ok")
      BY <1>0, <3>1, ReturnType
    <3>2. ASSUME NEW pc \in {"ack", "reply"}, Go(pc) /\ UNCHANGED polled
          PROVE  UserInv' /\ MadeInv'
      BY <1>8, <3>2, GoType
      DEF UFlush, Go, UserPCs, RequestPCs, SelectPCs, MadeInv, UserInv, UserType
    <3>3. QED
      BY <1>8, <3>1, <3>2 DEF UFlush
  <2>3. QED
    BY <1>8, <2>1, <2>2 DEF UFlush
<1>9. ASSUME USinkFails PROVE TypeInv'
  <2>1. UserInv' /\ MadeInv' /\ LockType'
    BY <1>0, <1>9, ReturnType, LockSteps DEF USinkFails
  <2>2. QED
    BY <1>9, <2>1 DEF USinkFails
<1>10. QED
  BY <1>1, <1>2, <1>3, <1>4, <1>5, <1>6, <1>7, <1>8, <1>9

\* A stream that is "made" or beyond keeps its subscription as the tracker changes.
LEMMA StreamUpdate ==
    ASSUME TrackInv, NEW r \in Reqs, NEW f \in [Reqs -> Stream], NEW st \in {"live", "ended", "gone"},
           streams[r].status # "none",
           \A i \in Reqs : f[i].status = streams[i].status /\ f[i].sub = streams[i].sub,
           streams' = [f EXCEPT ![r].status = st], tracked' \in [Topics -> Ids]
    PROVE  TrackInv'
<1>1. streams' \in [Reqs -> Stream]
  BY DEF Stream
<1>2. StreamInv'
  BY DEF TrackInv, StreamInv, Stream
<1>3. QED
  BY <1>1, <1>2 DEF TrackInv, TrackType

LEMMA ReplyStepTypes ==
    TypeInv /\ (UReply \/ UAddQueue \/ UTrack \/ URemoveQueue \/ UUntrack \/ UAck) => TypeInv'
<1> SUFFICES ASSUME TypeInv,
                    UReply \/ UAddQueue \/ UTrack \/ URemoveQueue \/ UUntrack \/ UAck
             PROVE  TypeInv'
  OBVIOUS
<1> USE Frames DEF TypeInv, EnvUnchanged
<1>0. {"ok", "failed"} \subseteq Outcomes
  BY DEF Outcomes
<1>1. ASSUME UReply PROVE TypeInv'
  <2>1. PICK m \in Replies :
          /\ received' = received \ {m}
          /\ \/ m.type = "SUBSCRIBED" /\ Go("addQueue") /\ UNCHANGED polled
             \/ m.type = "UNSUBSCRIBED" /\ Go("rmQueue") /\ UNCHANGED polled
             \/ m.type = "ERROR" /\ Return("failed")
          /\ streams' = IF m.type = "SUBSCRIBED"
                        THEN [streams EXCEPT ![req] = [status |-> "made", stop |-> FALSE,
                                                       sub |-> m.sub, last |-> m.n]]
                        ELSE streams
    BY <1>1 DEF UReply
  <2>2. /\ m \in received
        /\ m.type = "SUBSCRIBED" => m.sub \in Topics /\ m.n \in Counts /\ op = "subscribe"
        /\ m.type = "UNSUBSCRIBED" => op = "unsubscribe"
    BY ReplyTypes
  <2>3. BufferType'
    BY <1>1, <2>1 DEF UReply, BufferType
  <2>4. CASE m.type = "SUBSCRIBED"
    <3>1. Go("addQueue") /\ UNCHANGED polled
      BY <2>1, <2>4
    <3>2. req \in Reqs
      BY <1>1, <2>2, <2>4 DEF UReply, UserInv, RequestInv, RequestPCs, SelectPCs
    <3>3. [status |-> "made", stop |-> FALSE, sub |-> m.sub, last |-> m.n] \in Stream
      BY <2>2, <2>4 DEF Stream, SubIds
    <3>4. TrackInv'
      BY <1>1, <2>1, <2>2, <2>4, <3>2, <3>3
      DEF UReply, TrackInv, TrackType, StreamInv
    <3>5. UserInv'
      BY <1>1, <3>1, GoType DEF UReply, UserPCs, RequestPCs, SelectPCs, UserInv, UserType
    <3>6. MadeInv'
      BY <2>1, <2>4, <3>1, <3>2 DEF Go, MadeInv, TrackInv, TrackType
    <3>7. QED
      BY <1>1, <2>3, <3>4, <3>5, <3>6 DEF UReply
  <2>5. CASE m.type # "SUBSCRIBED"
    <3>1. UNCHANGED trackVars
      BY <1>1, <2>1, <2>5 DEF UReply, trackVars
    <3>2. CASE Go("rmQueue") /\ UNCHANGED polled
      <4>1. UserInv'
        BY <1>1, <3>2, GoType DEF UReply, UserPCs, RequestPCs, SelectPCs, UserInv, UserType
      <4>2. MadeInv'
        BY <3>2 DEF Go, MadeInv
      <4>3. QED
        BY <1>1, <2>3, <3>1, <4>1, <4>2 DEF UReply
    <3>3. CASE Return("failed")
      BY <1>0, <1>1, <2>3, <3>1, <3>3, ReturnType DEF UReply
    <3>4. QED
      BY <2>1, <2>5, <3>2, <3>3
  <2>6. QED
    BY <2>4, <2>5
<1>2. ASSUME UAddQueue PROVE TypeInv'
  <2>1. req \in Reqs /\ streams[req].status = "made"
    BY <1>2 DEF UAddQueue, MadeInv
  <2>2. streams[req].sub \in Topics
    BY <2>1 DEF TrackInv, StreamInv
  <2>3. BufferType'
    BY <1>2, <2>2, EmptySeq DEF UAddQueue, BufferType
  <2>4. UserInv'
    BY <1>2, GoType DEF UAddQueue, UserPCs, RequestPCs, SelectPCs, UserInv, UserType
  <2>5. MadeInv'
    BY <1>2, <2>1 DEF UAddQueue, Go, MadeInv, trackVars
  <2>6. QED
    BY <1>2, <2>3, <2>4, <2>5 DEF UAddQueue
<1>3. ASSUME UTrack PROVE TypeInv'
  <2>1. req \in Reqs /\ streams[req].status = "made"
    BY <1>3 DEF UTrack, MadeInv
  <2> DEFINE f == Stopped({tracked[streams[req].sub]} \ {req})
  <2>2. /\ f \in [Reqs -> Stream]
        /\ \A i \in Reqs : f[i].status = streams[i].status /\ f[i].sub = streams[i].sub
    BY StoppedType
  <2>3. tracked' \in [Topics -> Ids]
    <3>1. req \in Ids
      BY <2>1 DEF Reqs, Ids
    <3>2. QED
      BY <1>3, <3>1 DEF UTrack, TrackInv, TrackType
  <2>4. streams' = [f EXCEPT ![req].status = "live"]
    BY <1>3 DEF UTrack
  <2>5. TrackInv'
    <3> HIDE DEF f
    <3> QED
      BY <2>1, <2>2, <2>3, <2>4, StreamUpdate
  <2>6. UserInv' /\ MadeInv'
    BY <1>0, <1>3, ReturnType DEF UTrack
  <2>7. QED
    BY <1>3, <2>5, <2>6 DEF UTrack
<1>4. ASSUME URemoveQueue PROVE TypeInv'
  <2>1. BufferType'
    BY <1>4, EmptySeq DEF URemoveQueue, BufferType
  <2>2. UserInv'
    BY <1>4, GoType DEF URemoveQueue, UserPCs, RequestPCs, SelectPCs, UserInv, UserType
  <2>3. MadeInv'
    BY <1>4 DEF URemoveQueue, Go, MadeInv
  <2>4. QED
    BY <1>4, <2>1, <2>2, <2>3 DEF URemoveQueue
<1>5. ASSUME UUntrack PROVE TypeInv'
  <2>1. tracked' \in [Topics -> Ids]
    <3>1. 0 \in Ids
      BY ClientAssumption DEF Ids
    <3>2. QED
      BY <1>5, <3>1 DEF UUntrack, TrackInv, TrackType
  <2>2. TrackInv'
    BY <1>5, <2>1, StoppedType DEF UUntrack, TrackInv, TrackType, StreamInv
  <2>3. UserInv' /\ MadeInv'
    BY <1>0, <1>5, ReturnType DEF UUntrack
  <2>4. QED
    BY <1>5, <2>2, <2>3 DEF UUntrack
<1>6. ASSUME UAck PROVE TypeInv'
  <2>1. BufferType'
    BY <1>6 DEF UAck, BufferType
  <2>2. UserInv' /\ MadeInv'
    BY <1>6 DEF UAck, UserInv, UserType, UserPCs, RequestInv, PublishInv, CloseInv, RequestPCs,
                SelectPCs, MadeInv
  <2>3. QED
    BY <1>6, <2>1, <2>2 DEF UAck
<1>7. QED
  BY <1>1, <1>2, <1>3, <1>4, <1>5, <1>6

\* close, wait_for_close and drop.
LEMMA EndingTypes ==
    TypeInv /\ (UClose \/ UWriteClosed \/ UWaited \/ UDropStop \/ UDropListener
                \/ UDropCheck) => TypeInv'
<1> SUFFICES ASSUME TypeInv,
                    UClose \/ UWriteClosed \/ UWaited \/ UDropStop \/ UDropListener
                    \/ UDropCheck
             PROVE  TypeInv'
  OBVIOUS
<1> USE Frames DEF TypeInv, EnvUnchanged
<1>0. {"ok", "failed", "panicked"} \subseteq Outcomes
  BY DEF Outcomes
<1>1. ASSUME UClose PROVE TypeInv'
  <2>1. LockType' /\ SinkType'
    BY <1>1, LockSteps, SinkSteps DEF UClose
  <2>2. UserInv' /\ MadeInv'
    <3>1. CASE Return("failed")
      BY <1>0, <3>1, ReturnType
    <3>2. CASE Go("writeClosed") /\ UNCHANGED polled
      BY <3>2, GoType DEF Go, UserPCs, RequestPCs, SelectPCs, MadeInv, UserInv, UserType
    <3>3. QED
      BY <1>1, <3>1, <3>2 DEF UClose
  <2>3. QED
    BY <1>1, <2>1, <2>2 DEF UClose
<1>2. ASSUME UWriteClosed PROVE TypeInv'
  <2>1. StateType'
    BY <1>2 DEF UWriteClosed, StateType, ClientState
  <2>2. UserInv' /\ MadeInv'
    BY <1>0, <1>2, ReturnType DEF UWriteClosed
  <2>3. QED
    BY <1>2, <2>1, <2>2 DEF UWriteClosed
<1>3. ASSUME UWaited PROVE TypeInv'
  <2>1. UserInv' /\ MadeInv'
    BY <1>0, <1>3, ReturnType DEF UWaited
  <2>2. QED
    BY <1>3, <2>1 DEF UWaited
<1>4. ASSUME UDropStop PROVE TypeInv'
  <2>1. UserInv'
    BY <1>4, GoType DEF UDropStop, UserPCs, RequestPCs, SelectPCs, UserInv, UserType
  <2>2. TrackInv' /\ MadeInv'
    BY <1>4, StopAllType DEF UDropStop, Go, MadeInv
  <2>3. QED
    BY <1>4, <2>1, <2>2 DEF UDropStop
<1>5. ASSUME UDropListener PROVE TypeInv'
  <2>1. UserInv'
    BY <1>5, GoType DEF UDropListener, UserPCs, RequestPCs, SelectPCs, UserInv, UserType
  <2>2. MadeInv' /\ stopListener' \in BOOLEAN
    BY <1>5 DEF UDropListener, Go, MadeInv
  <2>3. QED
    BY <1>5, <2>1, <2>2 DEF UDropListener
<1>6. ASSUME UDropCheck PROVE TypeInv'
  <2>1. UserType'
    BY <1>0, <1>6 DEF UDropCheck, UserInv, UserType, UserPCs
  <2>2. RequestInv' /\ PublishInv' /\ CloseInv' /\ MadeInv'
    BY <1>6 DEF UDropCheck, RequestInv, PublishInv, CloseInv, MadeInv, RequestPCs, SelectPCs
  <2>3. QED
    BY <1>6, <2>1, <2>2 DEF UDropCheck, UserInv
<1>7. QED
  BY <1>1, <1>2, <1>3, <1>4, <1>5, <1>6

\* What the program begins or gives up.
LEMMA ChoiceTypes == TypeInv /\ UserChoice => TypeInv'
<1> SUFFICES ASSUME TypeInv, UserChoice PROVE TypeInv'
  OBVIOUS
<1> USE Frames DEF TypeInv, EnvUnchanged
<1>0. {"none", "rejected", "cancelled"} \subseteq Outcomes
  BY DEF Outcomes
<1>1. ASSUME NEW t \in Topics, NEW o \in {"subscribe", "unsubscribe"}, Begin(o), BeginRequest(t)
      PROVE  UserInv' /\ MadeInv'
  <2>1. CASE Accepts
    <3>1. /\ req + 1 \in Reqs /\ req' = req + 1
          /\ asked' = [asked EXCEPT ![req + 1] = t] /\ upc' = "acquire"
      BY <1>1, <2>1, ClientAssumption DEF BeginRequest, UserInv, UserType, Ids, Reqs
    <3>2. req + 1 \in Ids /\ t \in SubIds
      BY <3>1 DEF Ids, Reqs, SubIds
    <3>3. UserType'
      BY <1>0, <1>1, <2>1, <3>1, <3>2
      DEF Begin, BeginRequest, UserInv, UserType, Ops, UserPCs, SelectPCs
    <3>4. asked'[req'] = t
      BY <3>1, <3>2 DEF UserInv, UserType
    <3>5. QED
      BY <1>1, <3>1, <3>3, <3>4
      DEF Begin, UserInv, RequestInv, PublishInv, CloseInv, MadeInv
  <2>2. CASE ~Accepts
    BY <1>0, <1>1, <2>2
    DEF Begin, BeginRequest, UserInv, UserType, Ops, UserPCs, SelectPCs,
        RequestInv, PublishInv, CloseInv, MadeInv, RequestPCs
  <2>3. QED
    BY <2>1, <2>2
<1>2. ASSUME NEW t \in Topics, UBeginSubscribe(t) PROVE TypeInv'
  <2>1. UserInv' /\ MadeInv'
    BY <1>1, <1>2 DEF UBeginSubscribe
  <2>2. QED
    BY <1>2, <2>1 DEF UBeginSubscribe
<1>3. ASSUME NEW r \in Reqs, UBeginUnsubscribe(r) PROVE TypeInv'
  <2>1. streams[r].status \in {"live", "ended"}
    BY <1>3 DEF UBeginUnsubscribe
  <2>2. streams[r].sub \in Topics
    BY <2>1 DEF TrackInv, StreamInv
  <2>3. UserInv' /\ MadeInv'
    BY <1>1, <1>3, <2>2 DEF UBeginUnsubscribe
  <2>4. TrackInv'
    BY <1>3, <2>1, StreamUpdate DEF UBeginUnsubscribe, TrackInv, TrackType
  <2>5. QED
    BY <1>3, <2>3, <2>4 DEF UBeginUnsubscribe
<1>4. ASSUME NEW r \in Reqs, StreamDropped(r) PROVE TypeInv'
  <2>1. streams[r].status \in {"live", "ended"}
    BY <1>4 DEF StreamDropped
  <2>2. TrackInv'
    BY <1>4, <2>1, StreamUpdate DEF StreamDropped, TrackInv, TrackType
  <2>3. MadeInv'
    BY <1>4, <2>1 DEF StreamDropped, MadeInv, userVars, TrackInv, TrackType
  <2>4. QED
    BY <1>4, <2>2, <2>3 DEF StreamDropped
<1>5. ASSUME UBeginPublish PROVE TypeInv'
  <2>1. UserInv' /\ MadeInv'
    BY <1>0, <1>5
    DEF UBeginPublish, Begin, UserInv, UserType, Ops, UserPCs, SelectPCs,
        RequestInv, PublishInv, CloseInv, MadeInv, RequestPCs
  <2>2. QED
    BY <1>5, <2>1 DEF UBeginPublish
<1>6. ASSUME UBeginClose PROVE TypeInv'
  <2>1. StateType'
    BY <1>6 DEF UBeginClose, StateType, ClientState
  <2>2. closes' \in 0 .. MaxClose
    BY <1>6, ClientAssumption DEF UBeginClose, UserInv, UserType
  <2>3. UserInv' /\ MadeInv'
    BY <1>0, <1>6, <2>2
    DEF UBeginClose, Begin, UserInv, UserType, Ops, UserPCs, SelectPCs,
        RequestInv, PublishInv, CloseInv, MadeInv, RequestPCs
  <2>4. QED
    BY <1>6, <2>1, <2>3 DEF UBeginClose
<1>7. ASSUME UBeginWait \/ UBeginDrop PROVE TypeInv'
  <2>1. UserInv' /\ MadeInv'
    BY <1>0, <1>7
    DEF UBeginWait, UBeginDrop, Begin, UserInv, UserType, Ops, UserPCs, SelectPCs,
        RequestInv, PublishInv, CloseInv, MadeInv, RequestPCs
  <2>2. QED
    BY <1>7, <2>1 DEF UBeginWait, UBeginDrop
<1>8. ASSUME UCancel PROVE TypeInv'
  <2>1. UserInv' /\ MadeInv'
    BY <1>0, <1>8, ReturnType DEF UCancel
  <2>2. LockType'
    BY <1>8, LockSteps DEF UCancel, Contenders
  <2>3. QED
    BY <1>8, <2>1, <2>2 DEF UCancel
<1>9. QED
  BY <1>2, <1>3, <1>4, <1>5, <1>6, <1>7, <1>8 DEF UserChoice

LEMMA StreamTypes == \A r \in Reqs : TypeInv /\ StreamStep(r) => TypeInv'
<1> SUFFICES ASSUME NEW r \in Reqs, TypeInv, StreamStep(r) PROVE TypeInv'
  OBVIOUS
<1> USE Frames DEF TypeInv, EnvUnchanged
<1>1. streams[r].status = "live" /\ streams[r].sub \in Topics
  BY DEF StreamStep, StreamEnds, StreamYields, TrackInv, StreamInv
<1>2. CASE StreamEnds(r)
  <2>1. TrackInv'
    BY <1>1, <1>2, StreamUpdate DEF StreamEnds, TrackInv, TrackType
  <2>2. MadeInv'
    BY <1>1, <1>2 DEF StreamEnds, MadeInv, userVars, TrackInv, TrackType
  <2>3. QED
    BY <1>2, <2>1, <2>2 DEF StreamEnds
<1>3. CASE StreamYields(r)
  <2> DEFINE q == queue[streams[r].sub]
  <2>1. q \in Seq(Counts) /\ q # <<>>
    BY <1>1, <1>3 DEF StreamYields, BufferType
  <2>2. Head(q) \in Counts /\ Tail(q) \in Seq(Counts)
    BY <2>1, HeadTailProperties
  <2>3. BufferType'
    BY <1>1, <1>3, <2>2 DEF StreamYields, BufferType
  <2>4. TrackInv'
    <3>1. streams' = [streams EXCEPT ![r].last = Head(q)] /\ UNCHANGED tracked
      BY <1>3 DEF StreamYields
    <3>2. streams' \in [Reqs -> Stream]
      BY <2>2, <3>1 DEF TrackInv, TrackType, Stream
    <3>3. StreamInv'
      BY <3>1 DEF TrackInv, TrackType, StreamInv, Stream
    <3>4. QED
      BY <3>1, <3>2, <3>3 DEF TrackInv, TrackType
  <2>5. MadeInv'
    BY <1>1, <1>3 DEF StreamYields, MadeInv, userVars, TrackInv, TrackType, Stream
  <2>6. QED
    BY <1>3, <2>3, <2>4, <2>5 DEF StreamYields
<1>4. QED
  BY <1>2, <1>3 DEF StreamStep

-----------------------------------------------------------------------------
LEMMA RxMessages ==
    /\ \A b \in BOOLEAN : [type |-> "WELCOME", broker |-> b] \in RxMessage
    /\ \A r \in Reqs, t \in Topics, i \in Counts :
           [type |-> "SUBSCRIBED", req |-> r, sub |-> t, n |-> i] \in RxMessage
    /\ \A r \in Reqs : /\ [type |-> "UNSUBSCRIBED", req |-> r] \in RxMessage
                       /\ [type |-> "ERROR", to |-> "SUBSCRIBE", req |-> r] \in RxMessage
                       /\ [type |-> "ERROR", to |-> "UNSUBSCRIBE", req |-> r] \in RxMessage
    /\ \A t \in Topics, i \in Counts : [type |-> "EVENT", sub |-> t, n |-> i] \in RxMessage
  BY DEF RxMessage

\* What the router sends and takes keeps the connection's types.
LEMMA SendType ==
    ASSUME NetType, NEW m \in RxMessage, Send(m) PROVE fromRouter' \in Seq(RxMessage)
  BY AppendProperties DEF NetType, Send

LEMMA TakesType ==
    ASSUME SinkType, NEW type, Takes(type)
    PROVE  /\ SinkType'
           /\ Head(toRouter) \in TxMessage /\ Head(toRouter).type = type
           /\ UNCHANGED <<conn, stalled, sent>>
           /\ ClientUnchanged
<1>1. Head(toRouter) \in TxMessage /\ Tail(toRouter) \in Seq(TxMessage)
  BY HeadTailProperties DEF SinkType, Takes
<1>2. QED
  BY <1>1 DEF SinkType, Takes, ClientUnchanged

\* An action of the environment disturbs only the connection.
LEMMA ClientFrame == TypeInv /\ ClientUnchanged /\ SinkType' /\ NetType' => TypeInv'
  BY Frames DEF TypeInv, ClientUnchanged, userVars, trackVars

LEMMA RouterTypes == TypeInv /\ (RouterAnswer \/ EnvironmentChoice) => TypeInv'
<1> SUFFICES ASSUME TypeInv, RouterAnswer \/ EnvironmentChoice PROVE TypeInv'
  OBVIOUS
<1>0. SinkType /\ NetType
  BY DEF TypeInv
<1>1. ASSUME NEW type, Takes(type), fromRouter' \in Seq(RxMessage), session' \in Sessions,
             rsubs' \in SUBSET Topics
      PROVE  TypeInv'
  <2>1. SinkType' /\ ClientUnchanged /\ UNCHANGED <<conn, stalled, sent>>
    BY <1>0, <1>1, TakesType
  <2>2. NetType'
    BY <1>0, <1>1, <2>1 DEF NetType
  <2>3. QED
    BY <2>1, <2>2, ClientFrame
<1>2. CASE RHello
  <2>1. fromRouter' \in Seq(RxMessage) /\ session' \in Sessions
    BY <1>0, <1>2, SendType, RxMessages, BareMessages DEF RHello, Sessions
  <2>2. rsubs' \in SUBSET Topics /\ Takes("HELLO")
    BY <1>0, <1>2 DEF RHello, NetType
  <2>3. QED
    BY <1>1, <2>1, <2>2
<1>3. CASE RSubscribe
  <2> DEFINE m == Head(toRouter)
  <2>1. Takes("SUBSCRIBE") /\ UNCHANGED session
    BY <1>3 DEF RSubscribe
  <2>2. m.req \in Reqs /\ m.topic \in Topics
    BY <1>0, <2>1, TakesType, MessageFields
  <2>3. sent[m.topic] \in Counts
    BY <1>0, <2>2 DEF NetType
  <2>4. \/ /\ Send([type |-> "SUBSCRIBED", req |-> m.req, sub |-> m.topic,
                    n |-> sent[m.topic]])
           /\ rsubs' = rsubs \cup {m.topic}
        \/ /\ Send([type |-> "ERROR", to |-> "SUBSCRIBE", req |-> m.req])
           /\ UNCHANGED rsubs
    BY <1>3 DEF RSubscribe
  <2>5. fromRouter' \in Seq(RxMessage)
    <3> HIDE DEF m
    <3> QED
      BY <1>0, <2>2, <2>3, <2>4, SendType, RxMessages
  <2>6. rsubs' \in SUBSET Topics /\ session' \in Sessions
    BY <1>0, <2>1, <2>2, <2>4 DEF NetType
  <2>7. QED
    BY <1>1, <2>1, <2>5, <2>6
<1>4. CASE RUnsubscribe
  <2> DEFINE m == Head(toRouter)
  <2>1. Takes("UNSUBSCRIBE") /\ UNCHANGED session
    BY <1>4 DEF RUnsubscribe
  <2>2. m.req \in Reqs
    BY <1>0, <2>1, TakesType, MessageFields
  <2>3. \/ Send([type |-> "UNSUBSCRIBED", req |-> m.req]) /\ rsubs' = rsubs \ {m.topic}
        \/ Send([type |-> "ERROR", to |-> "UNSUBSCRIBE", req |-> m.req]) /\ UNCHANGED rsubs
    BY <1>4 DEF RUnsubscribe
  <2>4. fromRouter' \in Seq(RxMessage)
    <3> HIDE DEF m
    <3> QED
      BY <1>0, <2>2, <2>3, SendType, RxMessages
  <2>5. rsubs' \in SUBSET Topics /\ session' \in Sessions
    BY <1>0, <2>1, <2>3 DEF NetType
  <2>6. QED
    BY <1>1, <2>1, <2>4, <2>5
<1>5. CASE RPublish \/ RAbort \/ RDiscard
  <2>1. PICK type : Takes(type)
    BY <1>5 DEF RPublish, RAbort, RDiscard
  <2>2. fromRouter' \in Seq(RxMessage) /\ session' \in Sessions /\ rsubs' \in SUBSET Topics
    BY <1>0, <1>5 DEF RPublish, RAbort, RDiscard, NetType, Sessions
  <2>3. QED
    BY <1>1, <2>1, <2>2
<1>6. CASE RGoodbye
  <2>1. fromRouter' \in Seq(RxMessage)
    BY <1>0, <1>6, SendType, BareMessages DEF RGoodbye, Goodbye, NetType
  <2>2. session' \in Sessions /\ rsubs' \in SUBSET Topics /\ Takes("GOODBYE")
    BY <1>0, <1>6 DEF RGoodbye, NetType, Sessions
  <2>3. QED
    BY <1>1, <2>1, <2>2
<1>7. ASSUME ClientUnchanged, UNCHANGED toRouter, NetType' PROVE TypeInv'
  <2>1. SinkType'
    BY <1>0, <1>7 DEF ClientUnchanged, SinkType
  <2>2. QED
    BY <1>7, <2>1, ClientFrame
<1>8. ASSUME NEW t \in Topics, REvent(t) PROVE TypeInv'
  <2>1. sent[t] + 1 \in Counts
    BY <1>0, <1>8, ClientAssumption DEF REvent, NetType, Counts
  <2>2. fromRouter' \in Seq(RxMessage)
    BY <1>0, <1>8, <2>1, SendType, RxMessages DEF REvent
  <2>3. NetType'
    BY <1>0, <1>8, <2>1, <2>2 DEF REvent, NetType
  <2>4. QED
    BY <1>7, <1>8, <2>3 DEF REvent
<1>9. CASE REndsSession
  <2>1. fromRouter' \in Seq(RxMessage) /\ session' \in Sessions
    BY <1>0, <1>9, SendType, BareMessages DEF REndsSession, Goodbye, Sessions
  <2>2. NetType'
    BY <1>0, <1>9, <2>1 DEF REndsSession, NetType
  <2>3. QED
    BY <1>7, <1>9, <2>2 DEF REndsSession
<1>10. CASE NetEnd \/ NetReset \/ NetStall
  <2>1. NetType'
    BY <1>0, <1>10 DEF NetEnd, NetReset, NetStall, NetType, Connections
  <2>2. QED
    BY <1>7, <1>10, <2>1 DEF NetEnd, NetReset, NetStall
<1>11. QED
  BY <1>2, <1>3, <1>4, <1>5, <1>6, <1>8, <1>9, <1>10 DEF RouterAnswer, EnvironmentChoice

-----------------------------------------------------------------------------
LEMMA InitTypes == Init => TypeInv
<1> SUFFICES ASSUME Init PROVE TypeInv
  OBVIOUS
<1> USE DEF Init
<1>1. 0 \in Ids /\ 0 \in Counts /\ 0 \in 0 .. MaxClose
  BY ClientAssumption DEF Ids, Counts
<1>2. StateType /\ LockType
  BY DEF StateType, LockType, ClientState
<1>3. SinkType
  BY EmptySeq DEF SinkType
<1>4. TrackInv
  BY <1>1 DEF TrackInv, TrackType, StreamInv, NoStream, Stream, SubIds
<1>5. BufferType
  BY EmptySeq DEF BufferType
<1>6. ListenInv
  BY DEF ListenInv, ListenType, WelcomeInv, ListenerPCs, ClientState
<1>7. UserInv /\ MadeInv
  BY <1>1 DEF UserInv, UserType, UserPCs, Ops, Outcomes, SubIds, RequestInv, PublishInv,
              CloseInv, MadeInv
<1>8. NetType
  BY <1>1, EmptySeq DEF NetType, Connections, Sessions
<1>9. QED
  BY <1>2, <1>3, <1>4, <1>5, <1>6, <1>7, <1>8 DEF TypeInv

LEMMA NextTypes == TypeInv /\ [Next]_vars => TypeInv'
<1>1. ASSUME TypeInv, UNCHANGED vars PROVE TypeInv'
  <2>1. stopListener' \in BOOLEAN
    BY <1>1 DEF vars, TypeInv
  <2>2. UNCHANGED <<stateVars, lockVars, sinkVars, trackVars, bufferVars, listenVars,
                    userVars, netVars>>
    BY <1>1 DEF vars
  <2>3. QED
    BY <1>1, <2>1, <2>2, Frames DEF TypeInv
<1>2. TypeInv /\ UserStep => TypeInv'
  BY CallTypes, ReplyStepTypes, EndingTypes DEF UserStep
<1>3. QED
  BY <1>1, <1>2, ChoiceTypes, StreamTypes, ListenerTypes, RouterTypes DEF Next

LEMMA TypeInvariance == Spec => []TypeInv
  BY InitTypes, NextTypes, PTL DEF Spec

\* Type correctness of the client with its listener, router and connection.
THEOREM TypeCorrect == Spec => []TypeOK
<1>1. TypeInv => TypeOK
  BY DEF TypeInv, TypeOK, TrackInv, ListenInv, UserInv
<1>2. QED
  BY <1>1, TypeInvariance, PTL
=============================================================================

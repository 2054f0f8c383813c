----------------------- MODULE WampClientSafetyProofs -----------------------
(* Safety properties of the client that rest on the type invariant of      *)
(* WampClientProofs, for any topics, bounds and environment: the lock, the *)
(* tracker, the sink, and the session with its refinement.                 *)
EXTENDS WampClientInvariants, WampClientProofs

-----------------------------------------------------------------------------
\* The listener is spawned by new, once.
SpawnInv == upc = "new" => lpc = "none"

LEMMA SpawnListener == SpawnInv /\ (ListenerStep \/ LStop) => SpawnInv'
<1> USE DEF OthersUnchanged, userVars
<1>1. LRecv \/ LRecvError \/ LRecvNone \/ LProcess \/ LWelcome \/ LGoodbye \/ LStopAll
        => lpc # "none" /\ upc' = upc
  BY DEF LRecv, LRecvError, TakeItem, LRecvNone, LProcess, LWelcome, LGoodbye, LStopAll
<1>2. LAbort \/ LProtocolError \/ LClosing \/ LFinal => lpc # "none" /\ upc' = upc
  BY DEF LAbort, LProtocolError, LClosing, LFinal, SetState
<1>3. LLockSend \/ LLockClose \/ LSend \/ LClose \/ LStop => lpc # "none" /\ upc' = upc
  BY DEF LLockSend, LLockClose, Lock, LSend, LClose, LStop
<1>4. QED
  BY <1>1, <1>2, <1>3 DEF ListenerStep, SpawnInv

LEMMA SpawnUser == UserStep \/ UserChoice => upc' # "new" \/ UNCHANGED <<upc, lpc>>
<1> USE DEF EnvUnchanged, listenVars, Go, Return
<1>1. UHello \/ UJoined \/ UStopAll \/ UPoll \/ UPend \/ URequest \/ UWatchFails
        => upc' # "new"
  BY DEF UHello, UJoined, UStopAll, UPoll, UPend, URequest, UWatchFails, SelectPCs
<1>2. USend \/ UFlush \/ USinkFails \/ UReply \/ UAddQueue \/ UTrack => upc' # "new"
  BY DEF USend, UFlush, USinkFails, UReply, UAddQueue, UTrack
<1>3. URemoveQueue \/ UUntrack \/ UAck \/ UClose \/ UWriteClosed \/ UWaited => upc' # "new"
  BY DEF URemoveQueue, UUntrack, UAck, UClose, UWriteClosed, UWaited
<1>4. UDropStop \/ UDropListener \/ UDropCheck \/ UCancel => upc' # "new"
  BY DEF UDropStop, UDropListener, UDropCheck, UCancel
<1>5. UBeginPublish \/ UBeginClose \/ UBeginWait \/ UBeginDrop => upc' # "new"
  BY DEF UBeginPublish, UBeginClose, UBeginWait, UBeginDrop
<1>6. (\E t \in Topics : UBeginSubscribe(t)) \/ (\E r \in Reqs : UBeginUnsubscribe(r))
        => upc' # "new"
  BY DEF UBeginSubscribe, UBeginUnsubscribe, BeginRequest
<1>7. (\E r \in Reqs : StreamDropped(r)) => UNCHANGED <<upc, lpc>>
  BY DEF StreamDropped, userVars
<1>8. QED
  BY <1>1, <1>2, <1>3, <1>4, <1>5, <1>6, <1>7 DEF UserStep, UserChoice

LEMMA EnvironmentFrame == RouterAnswer \/ EnvironmentChoice => ClientUnchanged
  BY DEF RouterAnswer, RHello, RSubscribe, RUnsubscribe, RPublish, RGoodbye, RAbort, RDiscard,
         Takes, EnvironmentChoice, REvent, REndsSession, NetEnd, NetReset, NetStall

LEMMA Spawned == Spec => []SpawnInv
<1>1. Init => SpawnInv
  BY DEF Init, SpawnInv
<1>2. SpawnInv /\ [Next]_vars => SpawnInv'
  <2>1. UNCHANGED vars \/ RouterAnswer \/ EnvironmentChoice => UNCHANGED <<upc, lpc>>
    BY EnvironmentFrame DEF vars, ClientUnchanged, userVars, listenVars
  <2>2. \A r \in Reqs : StreamStep(r) => UNCHANGED <<upc, lpc>>
    BY DEF StreamStep, StreamEnds, StreamYields, EnvUnchanged, userVars, listenVars
  <2>3. QED
    BY <2>1, <2>2, SpawnListener, SpawnUser DEF Next, SpawnInv
<1>3. QED
  BY <1>1, <1>2, PTL DEF Spec

-----------------------------------------------------------------------------
(* The sender lock. LockInv is inductive by itself: a step either leaves   *)
(* the lock and the two program counters' side of it alone, or one side    *)
(* asks for the lock, or it gives up what it holds or waits for.           *)
UserAtLock == upc \in {"send", "flush", "close"}
ListenerAtLock == lpc \in {"send", "close"}

LEMMA LockFrame ==
    ASSUME LockInv, UNCHANGED lockVars, UserAtLock' <=> UserAtLock,
           ListenerAtLock' <=> ListenerAtLock
    PROVE  LockInv'
  BY DEF LockInv, lockVars, UserAtLock, ListenerAtLock

LEMMA UserAsks ==
    ASSUME LockType, LockInv, ~UserAtLock, UserAtLock', Request("user"), UNCHANGED lpc
    PROVE  LockInv'
  BY DEF LockType, Contenders, LockInv, Request, UserAtLock

LEMMA UserLeaves ==
    LockType /\ LockInv /\ ~UserAtLock' /\ UNCHANGED lpc
        /\ (Forget("user") \/ (holder = "user" /\ Release)) => LockInv'
  BY DEF LockType, Contenders, LockInv, Forget, Release, UserAtLock

LEMMA ListenerAsks ==
    ASSUME LockType, LockInv, ~ListenerAtLock, ListenerAtLock', Request("listener"),
           UNCHANGED upc
    PROVE  LockInv'
  BY DEF LockType, Contenders, LockInv, Request, ListenerAtLock

LEMMA ListenerLeaves ==
    LockType /\ LockInv /\ ~ListenerAtLock' /\ UNCHANGED upc
        /\ (Forget("listener") \/ (holder = "listener" /\ Release)) => LockInv'
  BY DEF LockType, Contenders, LockInv, Forget, Release, ListenerAtLock

LEMMA LockListener == LockType /\ LockInv /\ (ListenerStep \/ LStop) => LockInv'
<1> SUFFICES ASSUME LockType, LockInv, ListenerStep \/ LStop PROVE LockInv'
  OBVIOUS
<1> USE DEF OthersUnchanged, userVars
<1>1. CASE LLockSend \/ LLockClose
  BY <1>1, ListenerAsks DEF LLockSend, LLockClose, Lock, ListenerAtLock
<1>2. CASE LSend \/ LClose \/ LStop
  BY <1>2, ListenerLeaves DEF LSend, LClose, LStop, ListenerAtLock
<1>3. CASE LProcess
  <2>1. Verdict(lmsg, lstate) \notin {"send", "close"}
    BY DEF Verdict
  <2>2. QED
    BY <1>3, <2>1, LockFrame DEF LProcess, UserAtLock, ListenerAtLock
<1>4. CASE LRecv \/ LRecvError \/ LRecvNone \/ LWelcome \/ LGoodbye \/ LStopAll
  BY <1>4, LockFrame
  DEF LRecv, LRecvError, TakeItem, LRecvNone, LWelcome, LGoodbye, LStopAll, UserAtLock,
      ListenerAtLock
<1>5. CASE LAbort \/ LProtocolError \/ LClosing \/ LFinal
  BY <1>5, LockFrame
  DEF LAbort, LProtocolError, LClosing, LFinal, SetState, UserAtLock, ListenerAtLock
<1>6. QED
  BY <1>1, <1>2, <1>3, <1>4, <1>5 DEF ListenerStep

LEMMA LockUser == LockType /\ LockInv /\ SpawnInv /\ UserStep => LockInv'
<1> SUFFICES ASSUME LockType, LockInv, SpawnInv, UserStep PROVE LockInv'
  OBVIOUS
<1> USE DEF EnvUnchanged, listenVars, Go, Return
<1>1. CASE URequest
  BY <1>1, UserAsks DEF URequest, UserAtLock
<1>2. CASE USend \/ UFlush \/ USinkFails
  BY <1>2, UserLeaves DEF USend, UFlush, USinkFails, UserAtLock
<1>3. CASE UClose \/ UWatchFails
  BY <1>3, UserLeaves DEF UClose, UWatchFails, UserAtLock
<1>4. CASE UHello
  BY <1>4, LockFrame DEF UHello, SpawnInv, UserAtLock, ListenerAtLock
<1>5. CASE UJoined \/ UStopAll \/ UPoll \/ UPend
  BY <1>5, LockFrame DEF UJoined, UStopAll, UPoll, UPend, UserAtLock, ListenerAtLock
<1>6. CASE UReply \/ UAddQueue \/ UTrack
  BY <1>6, LockFrame DEF UReply, UAddQueue, UTrack, UserAtLock, ListenerAtLock
<1>7. CASE URemoveQueue \/ UUntrack \/ UAck \/ UWriteClosed \/ UWaited
  BY <1>7, LockFrame
  DEF URemoveQueue, UUntrack, UAck, UWriteClosed, UWaited, UserAtLock, ListenerAtLock
<1>8. CASE UDropStop \/ UDropListener \/ UDropCheck
  BY <1>8, LockFrame DEF UDropStop, UDropListener, UDropCheck, UserAtLock, ListenerAtLock
<1>9. QED
  BY <1>1, <1>2, <1>3, <1>4, <1>5, <1>6, <1>7, <1>8 DEF UserStep

LEMMA LockOthers ==
    /\ LockType /\ LockInv /\ UserChoice => LockInv'
    /\ \A r \in Reqs : LockInv /\ StreamStep(r) => LockInv'
    /\ LockInv /\ (RouterAnswer \/ EnvironmentChoice) => LockInv'
<1>1. ASSUME LockType, LockInv, UserChoice PROVE LockInv'
  <2> USE DEF EnvUnchanged, listenVars
  <2>1. CASE UCancel
    BY <1>1, <2>1, UserLeaves DEF UCancel, Return, UserAtLock
  <2>2. CASE \E t \in Topics : UBeginSubscribe(t)
    BY <1>1, <2>2, LockFrame
    DEF UBeginSubscribe, Begin, BeginRequest, UserAtLock, ListenerAtLock
  <2>3. CASE \E r \in Reqs : UBeginUnsubscribe(r)
    BY <1>1, <2>3, LockFrame
    DEF UBeginUnsubscribe, Begin, BeginRequest, UserAtLock, ListenerAtLock
  <2>4. CASE \E r \in Reqs : StreamDropped(r)
    BY <1>1, <2>4, LockFrame DEF StreamDropped, userVars, UserAtLock, ListenerAtLock
  <2>5. CASE UBeginPublish \/ UBeginClose \/ UBeginWait \/ UBeginDrop
    BY <1>1, <2>5, LockFrame
    DEF UBeginPublish, UBeginClose, UBeginWait, UBeginDrop, Begin, UserAtLock, ListenerAtLock
  <2>6. QED
    BY <1>1, <2>1, <2>2, <2>3, <2>4, <2>5 DEF UserChoice
<1>2. ASSUME NEW r \in Reqs, LockInv, StreamStep(r) PROVE LockInv'
  BY <1>2, LockFrame
  DEF StreamStep, StreamEnds, StreamYields, EnvUnchanged, listenVars, userVars, UserAtLock,
      ListenerAtLock
<1>3. ASSUME LockInv, RouterAnswer \/ EnvironmentChoice PROVE LockInv'
  BY <1>3, EnvironmentFrame, LockFrame
  DEF ClientUnchanged, listenVars, userVars, UserAtLock, ListenerAtLock
<1>4. QED
  BY <1>1, <1>2, <1>3

\* Whoever holds the sender lock or waits for it is where the code goes on to release
\* it, whatever futures are dropped (message_listener.rs:89-104, client/mod.rs:398).
THEOREM LockNeverLeaked == Spec => []LockInv
<1>1. Init => LockInv
  BY DEF Init, LockInv
<1>2. LockType /\ SpawnInv /\ LockInv /\ [Next]_vars => LockInv'
  <2>1. LockInv /\ UNCHANGED vars => LockInv'
    BY LockFrame DEF vars, listenVars, userVars, UserAtLock, ListenerAtLock
  <2>2. QED
    BY <2>1, LockListener, LockUser, LockOthers DEF Next
<1>3. TypeOK => LockType
  BY DEF TypeOK
<1>4. QED
  BY <1>1, <1>2, <1>3, TypeCorrect, Spawned, PTL DEF Spec

-----------------------------------------------------------------------------
(* The stop senders. The live streams that were not told to stop are in    *)
(* the tracker: a stream enters it as it becomes live, and leaves it only  *)
(* by being stopped.                                                       *)
Stoppable(r) == streams[r].status = "live" /\ ~streams[r].stop

\* What is live and not stopped after a step was so before, and is still tracked.
LEMMA TrackedFrame ==
    ASSUME StreamsCanBeStopped, UNCHANGED tracked,
           \A r \in Reqs : Stoppable(r)' => Stoppable(r)
    PROVE  StreamsCanBeStopped'
  BY DEF StreamsCanBeStopped, Stoppable

LEMMA StreamsUnchanged ==
    StreamsCanBeStopped /\ UNCHANGED trackVars => StreamsCanBeStopped'
  BY DEF StreamsCanBeStopped, trackVars

\* stop_all_except_message_listener leaves no stream that is not stopped.
LEMMA AllStopped ==
    ASSUME TrackInv, StreamsCanBeStopped, StopAll PROVE StreamsCanBeStopped'
<1>1. streams' = Stopped({tracked[t] : t \in Topics})
  BY DEF StopAll
<1>2. ASSUME NEW r \in Reqs PROVE ~Stoppable(r)'
  <2>1. CASE r \in {tracked[t] : t \in Topics}
    BY <1>1, <2>1 DEF Stopped, Stoppable, TrackInv, TrackType, Stream
  <2>2. CASE r \notin {tracked[t] : t \in Topics}
    <3>1. streams'[r] = streams[r]
      BY <1>1, <2>2 DEF Stopped
    <3>2. ~Stoppable(r)
      BY <2>2 DEF StreamsCanBeStopped, Stoppable
    <3>3. QED
      BY <3>1, <3>2 DEF Stoppable
  <2>3. QED
    BY <2>1, <2>2
<1>3. QED
  BY <1>2 DEF StreamsCanBeStopped, Stoppable

LEMMA StoppableTrack ==
    ASSUME TypeInv, StreamsCanBeStopped, UTrack PROVE StreamsCanBeStopped'
<1> DEFINE t == streams[req].sub
           f == Stopped({tracked[t]} \ {req})
<1>1. req \in Reqs /\ streams[req].status = "made"
  BY DEF UTrack, TypeInv, MadeInv
<1>2. t \in Topics
  BY <1>1 DEF TypeInv, TrackInv, StreamInv
<1>3. tracked' = [tracked EXCEPT ![t] = req] /\ tracked \in [Topics -> Ids]
  BY DEF UTrack, TypeInv, TrackInv, TrackType
<1>4. streams' = [f EXCEPT ![req].status = "live"] /\ DOMAIN f = Reqs
  BY DEF UTrack, Stopped
<1>5. SUFFICES ASSUME NEW r \in Reqs, Stoppable(r)'
               PROVE  \E u \in Topics : tracked'[u] = r
  BY DEF StreamsCanBeStopped, Stoppable
<1>6. CASE r = req
  BY <1>2, <1>3, <1>6
<1>7. CASE r # req /\ r = tracked[t]
  <2>1. streams'[r] = [streams[r] EXCEPT !.stop = TRUE]
    BY <1>1, <1>4, <1>7 DEF Stopped
  <2>2. streams[r] \in Stream
    BY DEF TypeInv, TrackInv, TrackType
  <2>3. QED
    BY <1>5, <2>1, <2>2 DEF Stoppable, Stream
<1>8. CASE r # req /\ r # tracked[t]
  <2>1. streams'[r] = streams[r]
    BY <1>1, <1>4, <1>8 DEF Stopped
  <2>2. PICK u \in Topics : tracked[u] = r
    BY <1>5, <2>1 DEF StreamsCanBeStopped, Stoppable
  <2>3. u # t
    BY <1>8, <2>2
  <2>4. QED
    BY <1>3, <2>2, <2>3
<1>9. QED
  BY <1>6, <1>7, <1>8

LEMMA StoppableUntrack ==
    ASSUME TypeInv, StreamsCanBeStopped, UUntrack PROVE StreamsCanBeStopped'
<1> DEFINE t == asked[req]
<1>1. /\ streams' = Stopped({tracked[t]}) /\ tracked' = [tracked EXCEPT ![t] = 0]
      /\ tracked \in [Topics -> Ids]
  BY DEF UUntrack, TypeInv, TrackInv, TrackType
<1>2. SUFFICES ASSUME NEW r \in Reqs, Stoppable(r)'
               PROVE  \E u \in Topics : tracked'[u] = r
  BY DEF StreamsCanBeStopped, Stoppable
<1>3. streams[r] \in Stream
  BY DEF TypeInv, TrackInv, TrackType
<1>4. r # tracked[t]
  BY <1>1, <1>2, <1>3 DEF Stopped, Stoppable, Stream
<1>5. streams'[r] = streams[r]
  BY <1>1, <1>4 DEF Stopped
<1>6. PICK u \in Topics : tracked[u] = r
  BY <1>2, <1>5 DEF StreamsCanBeStopped, Stoppable
<1>7. u # t
  BY <1>4, <1>6
<1>8. QED
  BY <1>1, <1>6, <1>7

LEMMA StoppableReply ==
    ASSUME TypeInv, StreamsCanBeStopped, UReply PROVE StreamsCanBeStopped'
<1>1. PICK m \in Replies :
          streams' = IF m.type = "SUBSCRIBED"
                     THEN [streams EXCEPT ![req] = [status |-> "made", stop |-> FALSE,
                                                    sub |-> m.sub, last |-> m.n]]
                     ELSE streams
  BY DEF UReply
<1>2. streams \in [Reqs -> Stream] /\ UNCHANGED tracked
  BY DEF UReply, TypeInv, TrackInv, TrackType
<1>3. \A r \in Reqs : Stoppable(r)' => Stoppable(r)
  BY <1>1, <1>2 DEF Stoppable
<1>4. QED
  BY <1>2, <1>3, TrackedFrame

\* A stream that ends, is dropped or moved into unsubscribe is no longer live.
LEMMA StoppableEnds ==
    ASSUME TypeInv, StreamsCanBeStopped, NEW r \in Reqs,
           UBeginUnsubscribe(r) \/ StreamDropped(r) \/ StreamStep(r)
    PROVE  StreamsCanBeStopped'
<1>1. UNCHANGED tracked /\ streams \in [Reqs -> Stream]
  BY DEF UBeginUnsubscribe, StreamDropped, StreamStep, StreamEnds, StreamYields, TypeInv,
         TrackInv, TrackType
<1>2. \/ \E st \in {"gone", "ended"} : streams' = [streams EXCEPT ![r].status = st]
      \/ \E n : streams' = [streams EXCEPT ![r].last = n]
  BY DEF UBeginUnsubscribe, StreamDropped, StreamStep, StreamEnds, StreamYields
<1>3. \A i \in Reqs : Stoppable(i)' => Stoppable(i)
  BY <1>1, <1>2 DEF Stoppable, Stream
<1>4. QED
  BY <1>1, <1>3, TrackedFrame

LEMMA StoppableUser == TypeInv /\ StreamsCanBeStopped /\ UserStep => StreamsCanBeStopped'
<1> SUFFICES ASSUME TypeInv, StreamsCanBeStopped, UserStep PROVE StreamsCanBeStopped'
  OBVIOUS
<1>1. CASE UStopAll \/ UDropStop
  BY <1>1, AllStopped DEF UStopAll, UDropStop, TypeInv
<1>2. CASE UTrack \/ UUntrack \/ UReply
  BY <1>2, StoppableTrack, StoppableUntrack, StoppableReply
<1>3. CASE UHello \/ UJoined \/ UPoll \/ UWatchFails \/ UPend \/ URequest \/ USend \/ UFlush
  BY <1>3, StreamsUnchanged
  DEF UHello, UJoined, UPoll, UWatchFails, UPend, URequest, USend, UFlush
<1>4. CASE USinkFails \/ UAddQueue \/ URemoveQueue \/ UAck \/ UClose \/ UWriteClosed
  BY <1>4, StreamsUnchanged
  DEF USinkFails, UAddQueue, URemoveQueue, UAck, UClose, UWriteClosed, trackVars
<1>5. CASE UWaited \/ UDropListener \/ UDropCheck
  BY <1>5, StreamsUnchanged DEF UWaited, UDropListener, UDropCheck
<1>6. QED
  BY <1>1, <1>2, <1>3, <1>4, <1>5 DEF UserStep

LEMMA StoppableOthers ==
    /\ TypeInv /\ StreamsCanBeStopped /\ UserChoice => StreamsCanBeStopped'
    /\ TypeInv /\ StreamsCanBeStopped /\ (ListenerStep \/ LStop) => StreamsCanBeStopped'
    /\ StreamsCanBeStopped /\ (RouterAnswer \/ EnvironmentChoice) => StreamsCanBeStopped'
<1>1. ASSUME TypeInv, StreamsCanBeStopped, UserChoice PROVE StreamsCanBeStopped'
  <2>1. CASE \E r \in Reqs : UBeginUnsubscribe(r) \/ StreamDropped(r)
    BY <1>1, <2>1, StoppableEnds
  <2>2. CASE \E t \in Topics : UBeginSubscribe(t)
    BY <1>1, <2>2, StreamsUnchanged DEF UBeginSubscribe
  <2>3. CASE UBeginPublish \/ UBeginClose \/ UBeginWait \/ UBeginDrop \/ UCancel
    BY <1>1, <2>3, StreamsUnchanged
    DEF UBeginPublish, UBeginClose, UBeginWait, UBeginDrop, UCancel
  <2>4. QED
    BY <1>1, <2>1, <2>2, <2>3 DEF UserChoice
<1>2. ASSUME TypeInv, StreamsCanBeStopped, ListenerStep \/ LStop PROVE StreamsCanBeStopped'
  <2>1. CASE LStopAll
    BY <1>2, <2>1, AllStopped DEF LStopAll, TypeInv
  <2>2. LRecv \/ LRecvError \/ LRecvNone \/ LProcess \/ LWelcome \/ LGoodbye
          => UNCHANGED trackVars
    BY DEF LRecv, LRecvError, TakeItem, LRecvNone, LProcess, LWelcome, LGoodbye
  <2>3. LAbort \/ LProtocolError \/ LClosing \/ LFinal => UNCHANGED trackVars
    BY DEF LAbort, LProtocolError, LClosing, LFinal, SetState
  <2>4. LLockSend \/ LLockClose \/ LSend \/ LClose \/ LStop => UNCHANGED trackVars
    BY DEF LLockSend, LLockClose, Lock, LSend, LClose, LStop
  <2>5. QED
    BY <1>2, <2>1, <2>2, <2>3, <2>4, StreamsUnchanged DEF ListenerStep
<1>3. ASSUME StreamsCanBeStopped, RouterAnswer \/ EnvironmentChoice
      PROVE  StreamsCanBeStopped'
  BY <1>3, EnvironmentFrame, StreamsUnchanged DEF ClientUnchanged
<1>4. QED
  BY <1>1, <1>2, <1>3

\* Every live stream can be stopped through the tracker, after any resubscriptions,
\* unsubscriptions, cancelled calls and stops (client/mod.rs:134-159).
THEOREM StreamsStayStoppable == Spec => []StreamsCanBeStopped
<1>1. Init => StreamsCanBeStopped
  BY DEF Init, StreamsCanBeStopped, NoStream
<1>2. TypeInv /\ StreamsCanBeStopped /\ [Next]_vars => StreamsCanBeStopped'
  <2>1. StreamsCanBeStopped /\ UNCHANGED vars => StreamsCanBeStopped'
    BY StreamsUnchanged DEF vars
  <2>2. QED
    BY <2>1, StoppableUser, StoppableOthers, StoppableEnds DEF Next
<1>3. QED
  BY <1>1, <1>2, TypeInvariance, PTL DEF Spec

-----------------------------------------------------------------------------
(* The end of the transport. TransportClosed is written in two places,     *)
(* each behind a close of the sink, and a closed sink stays closed.        *)
ClosedInv ==
    lpc = "final" \/ upc = "writeClosed" \/ state = "TransportClosed" => sink = "closed"

LEMMA ClosedFrame ==
    ASSUME ClosedInv, sink' = sink, lpc' # "final" \/ lpc' = lpc,
           upc' # "writeClosed" \/ upc' = upc, state' # "TransportClosed" \/ state' = state
    PROVE  ClosedInv'
  BY DEF ClosedInv

LEMMA ClosedListener == ClosedInv /\ (ListenerStep \/ LStop) => ClosedInv'
<1> SUFFICES ASSUME ClosedInv, ListenerStep \/ LStop PROVE ClosedInv'
  OBVIOUS
<1> USE DEF OthersUnchanged, userVars, sinkVars, stateVars
<1>1. CASE LClose
  BY <1>1 DEF LClose, CloseSink, ClosedInv
<1>2. CASE LFinal
  BY <1>2 DEF LFinal, SetState, ClosedInv
<1>3. CASE LRecv \/ LRecvError \/ LRecvNone \/ LWelcome \/ LGoodbye \/ LStopAll
  BY <1>3, ClosedFrame DEF LRecv, LRecvError, TakeItem, LRecvNone, LWelcome, LGoodbye, LStopAll
<1>4. CASE LAbort \/ LProtocolError \/ LClosing
  BY <1>4, ClosedFrame DEF LAbort, LProtocolError, LClosing, SetState
<1>5. CASE LLockSend \/ LLockClose \/ LSend \/ LStop
  BY <1>5, ClosedFrame DEF LLockSend, LLockClose, Lock, LSend, LStop
<1>6. CASE LProcess
  <2>1. Verdict(lmsg, lstate) # "final"
    BY DEF Verdict
  <2>2. QED
    BY <1>6, <2>1, ClosedFrame DEF LProcess
<1>7. QED
  BY <1>1, <1>2, <1>3, <1>4, <1>5, <1>6 DEF ListenerStep

LEMMA ClosedUser == ClosedInv /\ UserStep => ClosedInv'
<1> SUFFICES ASSUME ClosedInv, UserStep PROVE ClosedInv'
  OBVIOUS
<1> USE DEF EnvUnchanged, listenVars, sinkVars, stateVars, Go, Return
<1>1. CASE UClose
  BY <1>1 DEF UClose, CloseSink, ClosedInv
<1>2. CASE UWriteClosed
  BY <1>2 DEF UWriteClosed, ClosedInv
<1>3. CASE UHello \/ UJoined \/ UStopAll \/ UPoll \/ UWatchFails \/ UPend \/ URequest
  BY <1>3, ClosedFrame DEF UHello, UJoined, UStopAll, UPoll, UWatchFails, UPend, URequest
<1>4. CASE USend \/ UFlush \/ USinkFails
  BY <1>4, ClosedFrame DEF USend, StartSend, UFlush, Flush, USinkFails
<1>5. CASE UReply \/ UAddQueue \/ UTrack \/ URemoveQueue \/ UUntrack
  BY <1>5, ClosedFrame DEF UReply, UAddQueue, UTrack, URemoveQueue, UUntrack
<1>6. CASE UAck \/ UWaited \/ UDropStop \/ UDropListener \/ UDropCheck
  BY <1>6, ClosedFrame DEF UAck, UWaited, UDropStop, UDropListener, UDropCheck
<1>7. QED
  BY <1>1, <1>2, <1>3, <1>4, <1>5, <1>6 DEF UserStep

LEMMA ClosedOthers ==
    /\ ClosedInv /\ UserChoice => ClosedInv'
    /\ \A r \in Reqs : ClosedInv /\ StreamStep(r) => ClosedInv'
    /\ ClosedInv /\ (RouterAnswer \/ EnvironmentChoice) => ClosedInv'
<1> USE DEF EnvUnchanged, listenVars, userVars, sinkVars, stateVars
<1>1. ASSUME ClosedInv, UserChoice PROVE ClosedInv'
  <2>1. CASE UBeginClose \/ UBeginPublish \/ UBeginWait \/ UBeginDrop \/ UCancel
    BY <1>1, <2>1, ClosedFrame
    DEF UBeginClose, UBeginPublish, UBeginWait, UBeginDrop, UCancel, Return
  <2>2. CASE \E t \in Topics : UBeginSubscribe(t)
    BY <1>1, <2>2, ClosedFrame DEF UBeginSubscribe, BeginRequest
  <2>3. CASE \E r \in Reqs : UBeginUnsubscribe(r)
    BY <1>1, <2>3, ClosedFrame DEF UBeginUnsubscribe, BeginRequest
  <2>4. CASE \E r \in Reqs : StreamDropped(r)
    BY <1>1, <2>4, ClosedFrame DEF StreamDropped
  <2>5. QED
    BY <1>1, <2>1, <2>2, <2>3, <2>4 DEF UserChoice
<1>2. ASSUME NEW r \in Reqs, ClosedInv, StreamStep(r) PROVE ClosedInv'
  BY <1>2, ClosedFrame DEF StreamStep, StreamEnds, StreamYields
<1>3. ASSUME ClosedInv, RouterAnswer \/ EnvironmentChoice PROVE ClosedInv'
  BY <1>3, EnvironmentFrame, ClosedFrame DEF ClientUnchanged
<1>4. QED
  BY <1>1, <1>2, <1>3

\* TransportClosed is never read while the sink is open (client/mod.rs:56).
THEOREM ClosedAfterSink == Spec => []TransportClosedMeansClosed
<1>1. Init => ClosedInv
  BY DEF Init, ClosedInv
<1>2. ClosedInv /\ [Next]_vars => ClosedInv'
  <2>1. ClosedInv /\ UNCHANGED vars => ClosedInv'
    BY ClosedFrame DEF vars, listenVars, userVars, sinkVars, stateVars
  <2>2. QED
    BY <2>1, ClosedListener, ClosedUser, ClosedOthers DEF Next
<1>3. ClosedInv => TransportClosedMeansClosed
  BY DEF ClosedInv, TransportClosedMeansClosed
<1>4. QED
  BY <1>1, <1>2, <1>3, PTL DEF Spec

-----------------------------------------------------------------------------
(* What a message that comes or is taken changes on the wire.              *)
LEMMA WireSame == UNCHANGED fromRouter => UNCHANGED <<OnWire, Repeated>>
  BY DEF OnWire, Repeated

LEMMA WireTake ==
    ASSUME NetType, fromRouter # <<>>, fromRouter' = Tail(fromRouter)
    PROVE  /\ OnWire' \subseteq OnWire /\ Repeated' \subseteq Repeated
           /\ Head(fromRouter).type \in OnWire
           /\ Head(fromRouter).type \notin Repeated => Head(fromRouter).type \notin OnWire'
<1>1. fromRouter \in Seq(RxMessage) /\ Len(fromRouter) \in Nat /\ Len(fromRouter) > 0
  BY EmptySeq, LenProperties DEF NetType
<1>2. /\ Len(fromRouter') = Len(fromRouter) - 1
      /\ \A i \in 1 .. Len(fromRouter') : fromRouter'[i] = fromRouter[i + 1]
  BY <1>1, HeadTailProperties
<1>3. Head(fromRouter) = fromRouter[1]
  BY <1>1
<1>4. QED
  BY <1>1, <1>2, <1>3 DEF OnWire, Repeated

LEMMA WireSend ==
    ASSUME NetType, NEW m, Send(m)
    PROVE  /\ OnWire' = OnWire \cup {m.type}
           /\ Repeated' \subseteq Repeated \cup (OnWire \cap {m.type})
<1>1. fromRouter \in Seq(RxMessage) /\ Len(fromRouter) \in Nat
  BY LenProperties DEF NetType
<1>2. fromRouter \in Seq(RxMessage \cup {m}) /\ m \in RxMessage \cup {m}
  BY <1>1, SeqMonotonic
<1>3. /\ Len(fromRouter') = Len(fromRouter) + 1
      /\ \A i \in 1 .. Len(fromRouter) : fromRouter'[i] = fromRouter[i]
      /\ fromRouter'[Len(fromRouter) + 1] = m
  BY <1>1, <1>2, AppendProperties DEF Send
<1>4. OnWire' = OnWire \cup {m.type}
  BY <1>1, <1>3 DEF OnWire
<1>5. QED
  BY <1>1, <1>3, <1>4 DEF OnWire, Repeated

-----------------------------------------------------------------------------
LEMMA SessionListener == NetType /\ SessionInv /\ (ListenerStep \/ LStop) => SessionInv'
<1> SUFFICES ASSUME NetType, SessionInv, ListenerStep \/ LStop PROVE SessionInv'
  OBVIOUS
<1> USE DEF SessionInv, CallInv, JoinInv, ByeInv, StateInv, WelcomeAhead, ByeAtListener, Judged,
            Reading, CloseOkMeansGoodbye, OthersUnchanged, NetUnchanged, userVars, netVars,
            stateVars, bufferVars
<1>1. CASE LRecv
  BY <1>1, WireTake DEF LRecv, TakeItem
<1>2. CASE LRecvError \/ LRecvNone
  BY <1>2, WireSame DEF LRecvError, TakeItem, LRecvNone
<1>3. CASE LProcess
  <2>1. /\ Verdict(lmsg, lstate) \in {"abort", "welcome", "goodbye", "recv", "protocolError"}
        /\ Verdict(lmsg, lstate) = "welcome" => lmsg.type = "WELCOME"
        /\ Verdict(lmsg, lstate) = "goodbye" => lmsg.type = "GOODBYE"
    BY DEF Verdict
  <2>2. Goodbye \in received' => Goodbye \in received \/ lmsg.type = "GOODBYE"
    BY <1>3 DEF LProcess, Buffer, Goodbye
  <2>3. QED
    BY <1>3, <2>1, <2>2, WireSame DEF LProcess
<1>4. CASE LWelcome \/ LGoodbye
  BY <1>4, WireSame DEF LWelcome, LGoodbye
<1>5. CASE LAbort \/ LProtocolError \/ LClosing \/ LFinal
  BY <1>5, WireSame DEF LAbort, LProtocolError, LClosing, LFinal, SetState
<1>6. CASE LLockSend \/ LLockClose
  BY <1>6, WireSame DEF LLockSend, LLockClose, Lock
<1>7. CASE LSend \/ LStopAll \/ LClose
  BY <1>7, WireSame DEF LSend, LStopAll, LClose
<1>8. CASE LStop
  BY <1>8, WireSame DEF LStop
<1>9. QED
  BY <1>1, <1>2, <1>3, <1>4, <1>5, <1>6, <1>7, <1>8 DEF ListenerStep

LEMMA SessionUser == NetType /\ SpawnInv /\ SessionInv /\ UserStep => SessionInv'
<1> SUFFICES ASSUME NetType, SpawnInv, SessionInv, UserStep PROVE SessionInv'
  OBVIOUS
<1> USE DEF SessionInv, CallInv, JoinInv, ByeInv, StateInv, WelcomeAhead, ByeAtListener, Judged,
            Reading, CloseOkMeansGoodbye, EnvUnchanged, listenVars, netVars, stateVars,
            bufferVars, SelectPCs, Acked, Dropping, Go, Return
<1>1. CASE UHello
  BY <1>1, WireSame DEF UHello, SpawnInv
<1>2. CASE UJoined \/ UStopAll
  BY <1>2, WireSame DEF UJoined, UStopAll
<1>3. CASE UPoll \/ UWatchFails \/ UPend
  BY <1>3, WireSame DEF UPoll, UWatchFails, UPend
<1>4. CASE URequest
  BY <1>4, WireSame DEF URequest
<1>5. CASE USend \/ USinkFails
  BY <1>5, WireSame DEF USend, USinkFails
<1>6. CASE UFlush
  BY <1>6, WireSame DEF UFlush
<1>7. CASE UReply
  <2>1. PICK m \in Replies :
            /\ received' = received \ {m}
            /\ \/ m.type = "SUBSCRIBED" /\ Go("addQueue") /\ UNCHANGED polled
               \/ m.type = "UNSUBSCRIBED" /\ Go("rmQueue") /\ UNCHANGED polled
               \/ m.type = "ERROR" /\ Return("failed")
    BY <1>7 DEF UReply
  <2>2. /\ m.type = "SUBSCRIBED" => op = "subscribe"
        /\ m.type = "UNSUBSCRIBED" => op = "unsubscribe"
    BY DEF Replies
  <2>3. QED
    BY <1>7, <2>1, <2>2, WireSame DEF UReply
<1>8. CASE UAddQueue \/ UTrack \/ URemoveQueue \/ UUntrack
  BY <1>8, WireSame DEF UAddQueue, UTrack, URemoveQueue, UUntrack
<1>9. CASE UAck
  BY <1>9, WireSame DEF UAck
<1>10. CASE UClose
  BY <1>10, WireSame DEF UClose
<1>11. CASE UWriteClosed
  BY <1>11, WireSame DEF UWriteClosed, NetType, Sessions
<1>12. CASE UWaited \/ UDropStop \/ UDropListener
  BY <1>12, WireSame DEF UWaited, UDropStop, UDropListener
<1>13. CASE UDropCheck
  BY <1>13, WireSame DEF UDropCheck
<1>14. QED
  BY <1>1, <1>2, <1>3, <1>4, <1>5, <1>6, <1>7, <1>8, <1>9, <1>10, <1>11, <1>12, <1>13
  DEF UserStep

LEMMA SessionChoice == SessionInv /\ UserChoice => SessionInv'
<1> SUFFICES ASSUME SessionInv, UserChoice PROVE SessionInv'
  OBVIOUS
<1> USE DEF SessionInv, CallInv, JoinInv, ByeInv, StateInv, WelcomeAhead, ByeAtListener, Judged,
            Reading, CloseOkMeansGoodbye, EnvUnchanged, listenVars, netVars, stateVars,
            bufferVars, SelectPCs, Acked, Dropping, Begin, BeginRequest
<1>1. CASE \E t \in Topics : UBeginSubscribe(t)
  BY <1>1, WireSame DEF UBeginSubscribe
<1>2. CASE \E r \in Reqs : UBeginUnsubscribe(r)
  BY <1>2, WireSame DEF UBeginUnsubscribe
<1>3. CASE \E r \in Reqs : StreamDropped(r)
  BY <1>3, WireSame DEF StreamDropped, userVars
<1>4. CASE UBeginPublish \/ UBeginWait \/ UBeginDrop
  BY <1>4, WireSame DEF UBeginPublish, UBeginWait, UBeginDrop
<1>5. CASE UBeginClose
  BY <1>5, WireSame DEF UBeginClose
<1>6. CASE UCancel
  BY <1>6, WireSame DEF UCancel, Return
<1>7. QED
  BY <1>1, <1>2, <1>3, <1>4, <1>5, <1>6 DEF UserChoice

LEMMA SessionStream == \A r \in Reqs : SessionInv /\ StreamStep(r) => SessionInv'
<1> SUFFICES ASSUME NEW r \in Reqs, SessionInv, StreamStep(r) PROVE SessionInv'
  OBVIOUS
<1>1. UNCHANGED <<listenVars, netVars, userVars, stateVars, stopListener, received>>
  BY DEF StreamStep, StreamEnds, StreamYields, EnvUnchanged, bufferVars
<1>2. QED
  BY <1>1, WireSame
  DEF SessionInv, CallInv, JoinInv, ByeInv, StateInv, WelcomeAhead, ByeAtListener, Judged,
      Reading, CloseOkMeansGoodbye, listenVars, netVars, stateVars, userVars

LEMMA SessionRouter ==
    NetType /\ SessionInv /\ (RouterAnswer \/ EnvironmentChoice) => SessionInv'
<1> SUFFICES ASSUME NetType, SessionInv, RouterAnswer \/ EnvironmentChoice PROVE SessionInv'
  OBVIOUS
<1> USE DEF SessionInv, CallInv, JoinInv, ByeInv, StateInv, WelcomeAhead, ByeAtListener, Judged,
            Reading, CloseOkMeansGoodbye, listenVars, stateVars, bufferVars, userVars
<1>0. ClientUnchanged
  BY EnvironmentFrame
<1> USE <1>0 DEF ClientUnchanged
<1>1. CASE RHello
  BY <1>1, WireSend DEF RHello, Takes
<1>2. CASE RSubscribe
  BY <1>2, WireSend DEF RSubscribe, Takes
<1>3. CASE RUnsubscribe
  BY <1>3, WireSend DEF RUnsubscribe, Takes
<1>4. CASE RGoodbye
  BY <1>4, WireSend, WireSame DEF RGoodbye, Takes, Goodbye
<1>5. CASE RPublish \/ RAbort \/ RDiscard
  BY <1>5, WireSame DEF RPublish, RAbort, RDiscard, Takes
<1>6. CASE \E t \in Topics : REvent(t)
  BY <1>6, WireSend DEF REvent
<1>7. CASE REndsSession
  BY <1>7, WireSend DEF REndsSession, Acts, Goodbye
<1>8. CASE NetEnd \/ NetReset \/ NetStall
  BY <1>8, WireSame DEF NetEnd, NetReset, NetStall
<1>9. QED
  BY <1>1, <1>2, <1>3, <1>4, <1>5, <1>6, <1>7, <1>8 DEF RouterAnswer, EnvironmentChoice

\* One WELCOME and one GOODBYE open and close a session, wherever they are, and the
\* listener and the calls write the state accordingly (message_listener.rs:60-142,
\* client/mod.rs:384-402).
THEOREM SessionInvariance == Spec => []SessionInv
<1>1. Init => SessionInv
  BY DEF Init, SessionInv, CallInv, JoinInv, ByeInv, StateInv, OnWire, Repeated, WelcomeAhead,
         ByeAtListener, Judged, CloseOkMeansGoodbye, Acked, Dropping, Reading
<1>2. TypeInv /\ SpawnInv /\ SessionInv /\ [Next]_vars => SessionInv'
  <2>1. SessionInv /\ UNCHANGED vars => SessionInv'
    BY WireSame
    DEF vars, listenVars, netVars, stateVars, userVars, bufferVars, SessionInv, CallInv, JoinInv,
        ByeInv, StateInv, WelcomeAhead, ByeAtListener, Judged, Reading, CloseOkMeansGoodbye
  <2>2. QED
    BY <2>1, SessionListener, SessionUser, SessionChoice, SessionStream, SessionRouter
    DEF Next, TypeInv
<1>3. QED
  BY <1>1, <1>2, TypeInvariance, Spawned, PTL DEF Spec

\* close succeeds only if the router said GOODBYE: the one GOODBYE of the session is
\* found by whoever it is for, whatever else ends the session (client/mod.rs:380-400).
THEOREM CloseHeardGoodbye == Spec => []CloseOkMeansGoodbye
<1>1. SessionInv => CloseOkMeansGoodbye
  BY DEF SessionInv, ByeInv
<1>2. QED
  BY <1>1, SessionInvariance, PTL

\* No path out of the listener leaves Established behind (message_listener.rs:48-152).
THEOREM ListenerStays == Spec => []EstablishedHasListener
<1>1. TypeInv /\ SessionInv => EstablishedHasListener
  BY DEF SessionInv, StateInv, EstablishedHasListener, TypeInv, ListenInv, ListenType,
         ListenerRunning, ListenerDone
<1>2. QED
  BY <1>1, SessionInvariance, TypeInvariance, PTL

-----------------------------------------------------------------------------
(* The client implements SessionLifecycle.                                 *)
Closing == op = "close" /\ upc # "idle"
Same == UNCHANGED <<state, ListenerProgress, Closing>>

LEMMA ListenerImplements ==
    ASSUME SessionInv, ListenerStep \/ LStop
    PROVE  Lifecycle!Next \/ Same
<1> USE DEF ListenerProgress, ListenerDone, Closing, Same, OthersUnchanged, userVars, stateVars
<1>1. CASE LWelcome
  <2>1. Lifecycle!Join
    BY <1>1 DEF LWelcome, Lifecycle!Join, SessionInv, JoinInv, WelcomeAhead, Reading
  <2>2. QED
    BY <2>1 DEF Lifecycle!Next
<1>2. CASE LAbort \/ LProtocolError \/ LClosing
  <2>1. \E s \in {"Closed", "Failed", "Closing"} : Lifecycle!End(s)
    BY <1>2 DEF LAbort, LProtocolError, LClosing, SetState, Lifecycle!End, SessionInv, StateInv
  <2>2. QED
    BY <2>1 DEF Lifecycle!Next
<1>3. CASE LFinal
  <2>1. Lifecycle!Over
    BY <1>3 DEF LFinal, SetState, Lifecycle!Over
  <2>2. QED
    BY <2>1 DEF Lifecycle!Next
<1>4. CASE LRecvNone \/ LStop
  <2>1. Lifecycle!Leave
    BY <1>4 DEF LRecvNone, LStop, Lifecycle!Leave
  <2>2. QED
    BY <2>1 DEF Lifecycle!Next
<1>5. CASE LProcess
  <2>1. Verdict(lmsg, lstate) \in {"abort", "welcome", "goodbye", "recv", "protocolError"}
    BY DEF Verdict
  <2>2. QED
    BY <1>5, <2>1 DEF LProcess
<1>6. CASE LRecv \/ LRecvError \/ LGoodbye
  BY <1>6 DEF LRecv, LRecvError, TakeItem, LGoodbye
<1>7. CASE LLockSend \/ LLockClose \/ LSend \/ LStopAll \/ LClose
  BY <1>7 DEF LLockSend, LLockClose, Lock, LSend, LStopAll, LClose
<1>8. QED
  BY <1>1, <1>2, <1>3, <1>4, <1>5, <1>6, <1>7 DEF ListenerStep

LEMMA UserImplements ==
    ASSUME SpawnInv, SessionInv, UserStep
    PROVE  Lifecycle!Next \/ Same
<1> USE DEF ListenerProgress, ListenerDone, Closing, Same, EnvUnchanged, listenVars, stateVars, Go,
            Return, SessionInv, CallInv
<1>1. CASE UHello
  BY <1>1 DEF UHello, SpawnInv, JoinInv
<1>2. CASE UWriteClosed
  <2>1. Lifecycle!Finish
    BY <1>2 DEF UWriteClosed, Lifecycle!Finish, StateInv, Acked
  <2>2. QED
    BY <2>1 DEF Lifecycle!Next
<1>3. CASE UWatchFails \/ USinkFails \/ UClose
  <2>1. Lifecycle!GiveUp \/ Same
    BY <1>3 DEF UWatchFails, USinkFails, UClose, Lifecycle!GiveUp, SelectPCs
  <2>2. QED
    BY <2>1 DEF Lifecycle!Next
<1>4. CASE UJoined \/ UStopAll \/ UPoll \/ UPend \/ URequest
  BY <1>4 DEF UJoined, UStopAll, UPoll, UPend, URequest, SelectPCs, Acked
<1>5. CASE USend \/ UFlush
  BY <1>5 DEF USend, UFlush
<1>6. CASE UReply \/ UAddQueue \/ UTrack \/ URemoveQueue \/ UUntrack
  BY <1>6 DEF UReply, UAddQueue, UTrack, URemoveQueue, UUntrack
<1>7. CASE UAck \/ UWaited \/ UDropStop \/ UDropListener \/ UDropCheck
  BY <1>7 DEF UAck, UWaited, UDropStop, UDropListener, UDropCheck, Dropping
<1>8. QED
  BY <1>1, <1>2, <1>3, <1>4, <1>5, <1>6, <1>7 DEF UserStep

LEMMA ChoiceImplements ==
    ASSUME SessionInv, UserChoice
    PROVE  Lifecycle!Next \/ Same
<1> USE DEF ListenerProgress, ListenerDone, Closing, Same, EnvUnchanged, listenVars, stateVars,
            SessionInv, CallInv, Begin, BeginRequest
<1>1. CASE UBeginClose
  <2>1. Lifecycle!Shut
    BY <1>1 DEF UBeginClose, Lifecycle!Shut, JoinInv
  <2>2. QED
    BY <2>1 DEF Lifecycle!Next
<1>2. CASE UCancel
  <2>1. Lifecycle!GiveUp \/ Same
    BY <1>2 DEF UCancel, Return, Lifecycle!GiveUp
  <2>2. QED
    BY <2>1 DEF Lifecycle!Next
<1>3. CASE (\E t \in Topics : UBeginSubscribe(t)) \/ (\E r \in Reqs : UBeginUnsubscribe(r))
  BY <1>3 DEF UBeginSubscribe, UBeginUnsubscribe
<1>4. CASE UBeginPublish \/ UBeginWait \/ UBeginDrop
  BY <1>4 DEF UBeginPublish, UBeginWait, UBeginDrop
<1>5. CASE \E r \in Reqs : StreamDropped(r)
  BY <1>5 DEF StreamDropped, userVars
<1>6. QED
  BY <1>1, <1>2, <1>3, <1>4, <1>5 DEF UserChoice

\* However listener and calls race for the state, it is written as the comments on
\* ClientState tell (client/mod.rs:35-57).
THEOREM LifecycleImplemented == Spec => ImplementsLifecycle
<1>1. Init => Lifecycle!Init
  BY DEF Init, Lifecycle!Init, ListenerProgress, ListenerDone
<1>2. TypeInv /\ SpawnInv /\ SessionInv /\ [Next]_vars => [Lifecycle!Next]_Lifecycle!vars
  <2> SUFFICES ASSUME TypeInv, SpawnInv, SessionInv, [Next]_vars
               PROVE  Lifecycle!Next \/ Same
    BY DEF Lifecycle!vars, Same, Closing
  <2>1. CASE UNCHANGED vars
    BY <2>1 DEF vars, Same, Closing, ListenerProgress, listenVars, userVars, stateVars
  <2>2. CASE RouterAnswer \/ EnvironmentChoice
    BY <2>2, EnvironmentFrame
    DEF ClientUnchanged, Same, Closing, ListenerProgress, listenVars, userVars, stateVars
  <2>3. CASE \E r \in Reqs : StreamStep(r)
    BY <2>3 DEF StreamStep, StreamEnds, StreamYields, EnvUnchanged, Same, Closing,
                ListenerProgress, listenVars, userVars, stateVars
  <2>4. QED
    BY <2>1, <2>2, <2>3, ListenerImplements, UserImplements, ChoiceImplements DEF Next
<1>3. QED
  BY <1>1, <1>2, SessionInvariance, TypeInvariance, Spawned, PTL
  DEF Spec, ImplementsLifecycle, Lifecycle!Spec
=============================================================================

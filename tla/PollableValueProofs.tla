------------------------ MODULE PollableValueProofs ------------------------
(* The safety of PollableValue for any tasks, writers and values.          *)
EXTENDS PollableValue, TLAPS

LEMMA InitEstablishes == Init => IInv
  BY ValueAssumption DEF Init, IInv, TypeOK, Registered, NoLostWakeup

\* Each critical section keeps the three parts of IInv.
LEMMA StepPreserves == IInv /\ [Next]_vars => IInv'
<1> SUFFICES ASSUME IInv, [Next]_vars PROVE IInv'
  OBVIOUS
<1> USE ValueAssumption DEF IInv, TypeOK, Registered, NoLostWakeup
<1>1. ASSUME NEW t \in Tasks, Register(t) PROVE IInv'
  BY <1>1 DEF Register
<1>2. ASSUME NEW t \in Tasks, ReadValue(t) PROVE IInv'
  BY <1>2 DEF ReadValue
<1>3. ASSUME NEW t \in Tasks, WakeElsewhere(t) PROVE IInv'
  BY <1>3 DEF WakeElsewhere
<1>4. ASSUME NEW w \in Writers, WakeAll(w) PROVE IInv'
  \* Everybody who sleeps is on the list that is drained here.
  <2>1. TypeOK'
    BY <1>4 DEF WakeAll
  <2>2. \A t \in Tasks : pc'[t] # "done" => notified'[t]
    BY <1>4 DEF WakeAll
  <2>3. QED
    BY <2>1, <2>2
<1>5. ASSUME NEW w \in Writers, NEW v \in Values, Store(w, v) PROVE IInv'
  BY <1>5 DEF Store
<1>6. CASE UNCHANGED vars
  BY <1>6 DEF vars
<1>7. QED
  BY <1>1, <1>2, <1>3, <1>4, <1>5, <1>6 DEF Next

\* The inductive invariant: whoever has no owed poll is registered, and no wakeup is
\* lost, between any two accesses to the locks.
THEOREM Invariance == Spec => []IInv
  BY InitEstablishes, StepPreserves, PTL DEF Spec

\* The variables of read and write keep their types.
THEOREM TypeCorrect == Spec => []TypeOK
<1>1. IInv => TypeOK
  BY DEF IInv
<1>2. QED
  BY <1>1, Invariance, PTL

\* No interleaving of reads and writes, however many, leaves a task asleep on a value
\* it has not seen without a writer about to wake it.
THEOREM WakeupsAreKept == Spec => []NoLostWakeup
<1>1. IInv => NoLostWakeup
  BY DEF IInv
<1>2. QED
  BY <1>1, Invariance, PTL

-----------------------------------------------------------------------------
(* PollableValue implements WatchedValue.                                  *)

\* A store leaves nobody waiting: whoever has no owed poll is on the list, and a
\* writer is now about to drain it. That it does is no step of the abstract value.
LEMMA StepImplements == IInv /\ [Next]_vars => [Abstract!Next]_Abstract!vars
<1> SUFFICES ASSUME IInv, [Next]_vars PROVE [Abstract!Next]_Abstract!vars
  OBVIOUS
<1> DEFINE Done == {t \in Tasks : pc[t] = "done"}
<1> USE DEF IInv, TypeOK, Waiting
<1>1. ASSUME NEW t \in Tasks, Register(t) PROVE UNCHANGED <<val, Waiting, Done>>
  BY <1>1 DEF Register
<1>2. ASSUME NEW t \in Tasks, ReadValue(t)
      PROVE Abstract!Finish(t) \/ Abstract!Wait(t) \/ UNCHANGED <<val, Waiting, Done>>
  <2>1. CASE val \in Want[t]
    <3>1. Done' = Done \cup {t} /\ UNCHANGED <<val, Waiting>>
      BY <1>2, <2>1 DEF ReadValue
    <3>2. Abstract!Awake(t)
      BY <1>2 DEF ReadValue, Abstract!Awake
    <3>3. QED
      BY <2>1, <3>1, <3>2 DEF Abstract!Finish
  <2>2. CASE val \notin Want[t] /\ ~notified[t] /\ writing = {}
    <3>1. Waiting' = Waiting \cup {t} /\ UNCHANGED <<val, Done>>
      BY <1>2, <2>2 DEF ReadValue
    <3>2. Abstract!Awake(t)
      BY <1>2 DEF ReadValue, Abstract!Awake
    <3>3. QED
      BY <2>2, <3>1, <3>2 DEF Abstract!Wait
  <2>3. CASE val \notin Want[t] /\ (notified[t] \/ writing # {})
    BY <1>2, <2>3 DEF ReadValue, Registered
  <2>4. QED
    BY <2>1, <2>2, <2>3
<1>3. ASSUME NEW t \in Tasks, WakeElsewhere(t) PROVE Abstract!Wake(t)
  BY <1>3 DEF WakeElsewhere, Abstract!Wake
<1>4. ASSUME NEW w \in Writers, NEW v \in Values, Store(w, v) PROVE Abstract!Write(v)
  BY <1>4 DEF Store, Registered, Abstract!Write
<1>5. ASSUME NEW w \in Writers, WakeAll(w) PROVE UNCHANGED <<val, Waiting, Done>>
  <2>1. Waiting = {} /\ Waiting' = {}
    BY <1>5 DEF WakeAll, Registered
  <2>2. QED
    BY <1>5, <2>1 DEF WakeAll
<1>6. CASE UNCHANGED vars
  BY <1>6 DEF vars, Abstract!vars
<1>7. QED
  BY <1>1, <1>2, <1>3, <1>4, <1>5, <1>6 DEF Next, Abstract!Next, Abstract!vars

\* Whatever the tasks and writers do, it could have been done to a variable that is
\* read and written at single moments.
THEOREM ImplementsAbstract == Spec => ImplementsWatchedValue
<1>1. Init => Abstract!Init
  BY DEF Init, Abstract!Init, Waiting
<1>2. QED
  BY <1>1, StepImplements, Invariance, PTL DEF Spec, ImplementsWatchedValue, Abstract!Spec
=============================================================================

------------------------- MODULE PollableSetProofs -------------------------
(* The safety of PollableSet for any tasks, inserters, predicates and      *)
(* number of items.                                                        *)
EXTENDS PollableSet, TLAPS

LEMMA InitEstablishes == Init => IInv
  BY SetAssumption
  DEF Init, IInv, TypeOK, Registered, NoLostWakeup, Numbered, TakesInOrder, Matching

LEMMA StepPreserves == IInv /\ [Next]_vars => IInv'
<1> SUFFICES ASSUME IInv, [Next]_vars PROVE IInv'
  OBVIOUS
<1> USE SetAssumption
        DEF IInv, TypeOK, Items, Registered, NoLostWakeup, Numbered, TakesInOrder, Matching
<1>1. ASSUME NEW t \in Tasks, Take(t) PROVE IInv'
  \* What is left for t has a greater number than the item taken, which was the least
  \* of its kind, and no two items share a number.
  <2> PICK x \in Matching(t) :
          /\ \A y \in Matching(t) : x.id <= y.id
          /\ items' = items \ {x}
          /\ last' = [last EXCEPT ![t] = x.id]
    BY <1>1 DEF Take
  <2>1. TypeOK'
    BY <1>1 DEF Take
  <2>2. \A s \in Tasks : Matching(s)' \subseteq Matching(s)
    OBVIOUS
  <2>3. Registered' /\ NoLostWakeup'
    BY <1>1, <2>2 DEF Take
  <2>4. Numbered'
    BY <1>1 DEF Take
  <2>5. TakesInOrder'
    <3>1. \A y \in Matching(t)' : y.id > x.id
      OBVIOUS
    <3>2. QED
      BY <1>1, <2>2, <3>1 DEF Take
  <2>6. QED
    BY <2>1, <2>3, <2>4, <2>5
<1>2. ASSUME NEW t \in Tasks, Look(t) PROVE IInv'
  BY <1>2 DEF Look
<1>3. ASSUME NEW t \in Tasks, Register(t) PROVE IInv'
  BY <1>3 DEF Register
<1>4. ASSUME NEW t \in Tasks, WakeElsewhere(t) PROVE IInv'
  BY <1>4 DEF WakeElsewhere
<1>5. ASSUME NEW t \in Tasks, Drop(t) PROVE IInv'
  BY <1>5 DEF Drop
<1>6. ASSUME NEW w \in Inserters, WakeAll(w) PROVE IInv'
  <2>1. TypeOK' /\ Numbered' /\ TakesInOrder'
    BY <1>6 DEF WakeAll
  <2>2. \A t \in Tasks : pc'[t] = "asleep" => notified'[t]
    BY <1>6 DEF WakeAll
  <2>3. Registered' /\ NoLostWakeup'
    BY <1>6, <2>2 DEF WakeAll
  <2>4. QED
    BY <2>1, <2>3
<1>7. ASSUME NEW w \in Inserters, NEW k \in Kinds, Push(w, k) PROVE IInv'
  <2> DEFINE new == [id |-> inserted + 1, kind |-> k]
  <2>1. items' = items \cup {new} /\ new \in Items /\ new.id = inserted + 1
    BY <1>7 DEF Push
  <2>2. TypeOK'
    BY <1>7, <2>1 DEF Push
  <2>3. Registered' /\ NoLostWakeup'
    BY <1>7, <2>1 DEF Push, Unlocked
  <2>4. Numbered' /\ TakesInOrder'
    BY <1>7, <2>1 DEF Push
  <2>5. QED
    BY <2>2, <2>3, <2>4
<1>8. ASSUME NEW K \in SUBSET Kinds, Drain(K) PROVE IInv'
  BY <1>8 DEF Drain
<1>9. CASE UNCHANGED vars
  BY <1>9 DEF vars
<1>10. QED
  BY <1>1, <1>2, <1>3, <1>4, <1>5, <1>6, <1>7, <1>8, <1>9 DEF Next

\* The inductive invariant: whoever has no owed poll is registered, no wakeup is lost
\* and nothing wanted is older than what was taken, between any two accesses to the locks.
THEOREM Invariance == Spec => []IInv
  BY InitEstablishes, StepPreserves, PTL DEF Spec

\* The variables of poll_take, insert and drain keep their types.
THEOREM TypeCorrect == Spec => []TypeOK
<1>1. IInv => TypeOK
  BY DEF IInv
<1>2. QED
  BY <1>1, Invariance, PTL

\* However tasks, inserters and drains interleave, a task that sleeps beside an item
\* it wants is about to be woken.
THEOREM WakeupsAreKept == Spec => []NoLostWakeup
<1>1. IInv => NoLostWakeup
  BY DEF IInv
<1>2. QED
  BY <1>1, Invariance, PTL

\* Every task takes what it wants in the order of insertion.
THEOREM FirstAddedFirst == Spec => []TakesInOrder
<1>1. IInv => TakesInOrder
  BY DEF IInv
<1>2. QED
  BY <1>1, Invariance, PTL

-----------------------------------------------------------------------------
(* PollableSet implements Mailbox.                                         *)

\* A push leaves nobody waiting: no task is between its look and its registration,
\* for the items are locked, so that whoever has no owed poll is on the list, and an
\* inserter is now about to drain it. That it does is no step of the abstract set.
LEMMA StepImplements == IInv /\ [Next]_vars => [Abstract!Next]_Abstract!vars
<1> SUFFICES ASSUME IInv, [Next]_vars PROVE [Abstract!Next]_Abstract!vars
  OBVIOUS
<1> DEFINE Gone == {t \in Tasks : pc[t] = "gone"}
           Same == UNCHANGED <<items, inserted, Waiting, Gone>>
<1> USE DEF IInv, TypeOK, Waiting
<1>1. ASSUME NEW t \in Tasks, Take(t) PROVE Abstract!Take(t)
  BY <1>1 DEF Take, Matching, Abstract!Take, Abstract!Awake, Abstract!Matching
<1>2. ASSUME NEW t \in Tasks, Look(t) PROVE Abstract!Wait(t) \/ Same
  <2>1. Abstract!Awake(t) /\ Abstract!Matching(t) = {}
    BY <1>2 DEF Look, Matching, Abstract!Awake, Abstract!Matching
  <2>2. UNCHANGED <<items, inserted, Gone>>
    BY <1>2 DEF Look
  <2>3. Waiting' = Waiting \cup {t} \/ Waiting' = Waiting
    BY <1>2 DEF Look
  <2>4. QED
    BY <2>1, <2>2, <2>3 DEF Abstract!Wait
<1>3. ASSUME NEW t \in Tasks, Register(t) PROVE Abstract!Wake(t) \/ Same
  BY <1>3 DEF Register, Abstract!Wake
<1>4. ASSUME NEW t \in Tasks, WakeElsewhere(t) PROVE Abstract!Wake(t)
  BY <1>4 DEF WakeElsewhere, Abstract!Wake
<1>5. ASSUME NEW t \in Tasks, Drop(t) PROVE Abstract!Drop(t)
  BY <1>5 DEF Drop, Abstract!Drop
<1>6. ASSUME NEW w \in Inserters, NEW k \in Kinds, Push(w, k) PROVE Abstract!Insert(k)
  <2>1. Waiting' = {}
    BY <1>6 DEF Push, Unlocked, Registered
  <2>2. QED
    BY <1>6, <2>1 DEF Push, Abstract!Insert
<1>7. ASSUME NEW w \in Inserters, WakeAll(w) PROVE Same
  BY <1>7 DEF WakeAll
<1>8. ASSUME NEW K \in SUBSET Kinds, Drain(K) PROVE Abstract!Drain(K)
  BY <1>8 DEF Drain, Abstract!Drain
<1>9. CASE UNCHANGED vars
  BY <1>9 DEF vars, Abstract!vars
<1>10. QED
  BY <1>1, <1>2, <1>3, <1>4, <1>5, <1>6, <1>7, <1>8, <1>9
  DEF Next, Abstract!Next, Abstract!vars

\* Whatever tasks and inserters do, it could have been done to a set that is changed
\* at single moments.
THEOREM ImplementsAbstract == Spec => ImplementsMailbox
<1>1. Init => Abstract!Init
  BY DEF Init, Abstract!Init, Waiting
<1>2. QED
  BY <1>1, StepImplements, Invariance, PTL DEF Spec, ImplementsMailbox, Abstract!Spec
=============================================================================

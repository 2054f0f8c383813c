---------------------------- MODULE PollableSet ----------------------------
(***************************************************************************)
(* PollableSet<T> (src/src/pollable.rs): the buffer in which the message   *)
(* listener leaves replies and events, and from which tasks take the first *)
(* that satisfies their predicate, or go to sleep until one is inserted.   *)
(*                                                                         *)
(* poll_take holds the lock on the items until it has taken one or has     *)
(* registered the task; insert holds it only to push, and takes the lock   *)
(* on the wakers afterwards. Each action is one access under a lock.       *)
(***************************************************************************)
EXTENDS Integers, FiniteSets

CONSTANTS
    Tasks,       \* the tasks that take items
    Inserters,   \* the threads that insert
    Kinds,       \* what the predicates tell apart
    Wants,       \* Wants[t]: the kinds that satisfy the predicate of task t
    MaxItems     \* bound: items ever inserted

ASSUME SetAssumption ==
    /\ Wants \in [Tasks -> SUBSET Kinds]
    /\ MaxItems \in Nat

VARIABLES
    items,       \* items: Arc<RwLock<Vec<T>>>, as a set: push appends and remove keeps
                 \*   the order, so an item's number is its place
    wakers,      \* wakers: Arc<Mutex<Vec<Waker>>>, one entry per task (will_wake)
    pc,          \* pc[t]: asleep, inside poll_take with the items locked and no match
                 \*   found, or gone with its future dropped
    notified,    \* notified[t]: the executor owes task t a poll
    waking,      \* the inserters that have pushed and not yet drained the wakers
    inserted,    \* how many items were inserted
    last         \* last[t]: the number of the item task t took last, or 0

vars == <<items, wakers, pc, notified, waking, inserted, last>>

Items == [id : 1 .. MaxItems, kind : Kinds]

TypeOK ==
    /\ items \in SUBSET Items
    /\ wakers \in SUBSET Tasks
    /\ pc \in [Tasks -> {"asleep", "looked", "gone"}]
    /\ notified \in [Tasks -> BOOLEAN]
    /\ waking \in SUBSET Inserters
    /\ inserted \in 0 .. MaxItems
    /\ last \in [Tasks -> 0 .. MaxItems]

Init ==
    /\ items = {} /\ wakers = {} /\ waking = {} /\ inserted = 0
    /\ pc = [t \in Tasks |-> "asleep"]
    /\ notified = [t \in Tasks |-> TRUE]
    /\ last = [t \in Tasks |-> 0]

Matching(t) == {x \in items : x.kind \in Wants[t]}
Unlocked == \A t \in Tasks : pc[t] # "looked"

-----------------------------------------------------------------------------
\* A poll_take that takes whichever match it likes.
TakeAnyMatch(t) ==
    /\ pc[t] = "asleep" /\ notified[t] /\ Unlocked
    /\ \E x \in Matching(t) :
          /\ items' = items \ {x}
          /\ last' = [last EXCEPT ![t] = x.id]
    /\ UNCHANGED <<wakers, pc, notified, waking, inserted>>

\* poll_take finds a match: the first added leaves the set. The task goes on, and
\* polls again when it wants another.
Take(t) ==
    /\ pc[t] = "asleep" /\ notified[t] /\ Unlocked
    /\ \E x \in Matching(t) :
          /\ \A y \in Matching(t) : x.id <= y.id
          /\ items' = items \ {x}
          /\ last' = [last EXCEPT ![t] = x.id]
    /\ UNCHANGED <<wakers, pc, notified, waking, inserted>>

\* poll_take finds none: it keeps the items locked while it turns to the wakers.
Look(t) ==
    /\ pc[t] = "asleep" /\ notified[t] /\ Unlocked
    /\ Matching(t) = {}
    /\ pc' = [pc EXCEPT ![t] = "looked"]
    /\ notified' = [notified EXCEPT ![t] = FALSE]
    /\ UNCHANGED <<items, wakers, waking, inserted, last>>

\* The waker is registered unless an equivalent one is there, and poll_take returns
\* Pending.
Register(t) ==
    /\ pc[t] = "looked"
    /\ wakers' = wakers \cup {t}
    /\ pc' = [pc EXCEPT ![t] = "asleep"]
    /\ UNCHANGED <<items, notified, waking, inserted, last>>

\* Another future of the same task wakes it.
WakeElsewhere(t) ==
    /\ pc[t] = "asleep" /\ ~notified[t]
    /\ notified' = [notified EXCEPT ![t] = TRUE]
    /\ UNCHANGED <<items, wakers, pc, waking, inserted, last>>

\* The task's future is dropped. Its waker stays in the list.
Drop(t) ==
    /\ pc[t] = "asleep"
    /\ pc' = [pc EXCEPT ![t] = "gone"]
    /\ UNCHANGED <<items, wakers, notified, waking, inserted, last>>

-----------------------------------------------------------------------------
\* An insert that does not wait for the lock on the items.
PushUnlocked(w, k) ==
    /\ w \notin waking /\ inserted < MaxItems
    /\ items' = items \cup {[id |-> inserted + 1, kind |-> k]}
    /\ inserted' = inserted + 1
    /\ waking' = waking \cup {w}
    /\ UNCHANGED <<wakers, pc, notified, last>>

\* insert, first half: the item is pushed.
Push(w, k) ==
    /\ w \notin waking /\ inserted < MaxItems /\ Unlocked
    /\ items' = items \cup {[id |-> inserted + 1, kind |-> k]}
    /\ inserted' = inserted + 1
    /\ waking' = waking \cup {w}
    /\ UNCHANGED <<wakers, pc, notified, last>>

\* An insert that wakes one registered task per item.
WakeOne(w) ==
    /\ w \in waking
    /\ \/ wakers = {} /\ UNCHANGED <<wakers, notified>>
       \/ \E t \in wakers : /\ notified' = [notified EXCEPT ![t] = TRUE]
                            /\ wakers' = wakers \ {t}
    /\ waking' = waking \ {w}
    /\ UNCHANGED <<items, pc, inserted, last>>

\* insert, second half: under the lock on the wakers, every registered task is woken
\* and the list is left empty.
WakeAll(w) ==
    /\ w \in waking
    /\ notified' = [t \in Tasks |-> notified[t] \/ t \in wakers]
    /\ wakers' = {}
    /\ waking' = waking \ {w}
    /\ UNCHANGED <<items, pc, inserted, last>>

\* drain, for a predicate that K satisfies; clear is drain of everything. Nobody is
\* woken: nothing was added.
Drain(K) ==
    /\ Unlocked
    /\ items' = {x \in items : x.kind \notin K}
    /\ UNCHANGED <<wakers, pc, notified, waking, inserted, last>>

Next ==
    \/ \E t \in Tasks : Take(t) \/ Look(t) \/ Register(t) \/ WakeElsewhere(t) \/ Drop(t)
    \/ \E w \in Inserters : WakeAll(w) \/ \E k \in Kinds : Push(w, k)
    \/ \E K \in SUBSET Kinds : Drain(K)

Spec == Init /\ [][Next]_vars

\* The executor polls a task that was woken, and a thread inside insert or poll_take
\* leaves it. The lock on the items is not fair: a poll may find it taken again and
\* again, so a poll that keeps getting the chance is asked for.
Fairness ==
    /\ \A t \in Tasks : WF_vars(Register(t)) /\ SF_vars(Take(t)) /\ SF_vars(Look(t))
    /\ \A w \in Inserters : WF_vars(WakeAll(w))

FairSpec == Spec /\ Fairness

-----------------------------------------------------------------------------
\* A task that sleeps although the set holds something for it, and that nobody owes a
\* poll, is on the list of an inserter that has yet to drain it: "notification for
\* every task which has previously called poll_take and received Pending"
\* (pollable.rs:142-143), whatever other tasks take, drop or drain meanwhile.
NoLostWakeup ==
    \A t \in Tasks :
        pc[t] = "asleep" /\ ~notified[t] /\ Matching(t) # {}
            => t \in wakers /\ waking # {}

\* "If multiple values match the predicate, only the first added is returned"
\* (pollable.rs:97): nothing that a task wants is older than what it took last, so
\* that a stream never yields events out of order.
TakesInOrder == \A t \in Tasks : \A x \in Matching(t) : x.id > last[t]

\* The inductive strengthening: a task that sleeps without an owed poll is registered,
\* one that found nothing still finds nothing, for it holds the lock; and the numbers
\* of the items are distinct and count the insertions.
Registered ==
    \A t \in Tasks : /\ pc[t] = "asleep" /\ ~notified[t] => t \in wakers
                     /\ pc[t] = "looked" => Matching(t) = {}

Numbered ==
    /\ \A x \in items : x.id <= inserted /\ \A y \in items : x.id = y.id => x = y
    /\ \A t \in Tasks : last[t] <= inserted

IInv == TypeOK /\ Registered /\ NoLostWakeup /\ Numbered /\ TakesInOrder

\* No task sleeps for ever on an item that is there for it: the items a task wants are
\* taken, by it or by others, unless its future is dropped.
EventuallyTaken == \A t \in Tasks : Matching(t) # {} ~> Matching(t) = {} \/ pc[t] = "gone"

-----------------------------------------------------------------------------
(* The promise that PollableSet keeps: see Mailbox. A task waits when it   *)
(* has no owed poll and no inserter is about to give it one.               *)
Waiting ==
    {t \in Tasks : pc[t] # "gone" /\ ~notified[t] /\ (t \in wakers => waking = {})}

Abstract == INSTANCE Mailbox WITH
    waiting <- Waiting, gone <- {t \in Tasks : pc[t] = "gone"}

\* To its tasks the set with its two locks and its list of wakers is one that is
\* changed at a single moment: nobody sees an item pushed and waits all the same, takes
\* one out of turn, or finds what another took or drained (pollable.rs:93-151).
ImplementsMailbox == Abstract!Spec
=============================================================================

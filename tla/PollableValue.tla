--------------------------- MODULE PollableValue ---------------------------
(***************************************************************************)
(* PollableValue<T> (src/src/pollable.rs): a shared variable whose readers *)
(* register their task's waker, so that a later write wakes them.          *)
(*                                                                         *)
(* The value and the list of wakers sit behind two different locks, and    *)
(* neither read nor write holds both: each action below is one critical    *)
(* section, so the tasks and the writers interleave between the two.       *)
(*                                                                         *)
(* A task is a future that polls read(Some(cx)) until it sees a value in   *)
(* Want[t], as watch_for_client_state_change, initialize and               *)
(* wait_for_close do with the client's state.                              *)
(***************************************************************************)
CONSTANTS
    Tasks,       \* the tasks that poll the value
    Writers,     \* the threads that call write
    Values,      \* the values it takes
    InitVal,     \* the value given to new
    Want         \* Want[t]: the values that complete the future of task t

ASSUME ValueAssumption ==
    /\ InitVal \in Values
    /\ Want \in [Tasks -> SUBSET Values]

VARIABLES
    val,         \* val: Arc<RwLock<T>>
    wakers,      \* wakers: Arc<Mutex<Vec<Waker>>>, one entry per task (will_wake)
    pc,          \* pc[t]: where task t is: parked, or inside read before or after
                 \*   the waker is registered, or done
    notified,    \* notified[t]: the executor owes task t a poll
    seen,        \* seen[t]: the value task t read last (InitVal before that)
    writing      \* the writers that have stored a value and not yet drained wakers

vars == <<val, wakers, pc, notified, seen, writing>>

TypeOK ==
    /\ val \in Values
    /\ wakers \in SUBSET Tasks
    /\ pc \in [Tasks -> {"parked", "reading", "done"}]
    /\ notified \in [Tasks -> BOOLEAN]
    /\ seen \in [Tasks -> Values]
    /\ writing \in SUBSET Writers

\* A spawned task is polled once before anything wakes it.
Init ==
    /\ val = InitVal
    /\ wakers = {}
    /\ pc = [t \in Tasks |-> "parked"]
    /\ notified = [t \in Tasks |-> TRUE]
    /\ seen = [t \in Tasks |-> InitVal]
    /\ writing = {}

-----------------------------------------------------------------------------
\* A waker list that keeps only the first task that registered.
RegisterOnlyFirst(t) ==
    /\ pc[t] = "parked" /\ notified[t]
    /\ notified' = [notified EXCEPT ![t] = FALSE]
    /\ wakers' = IF wakers = {} THEN {t} ELSE wakers
    /\ pc' = [pc EXCEPT ![t] = "reading"]
    /\ UNCHANGED <<val, seen, writing>>

\* The executor polls task t, which enters read(Some(cx)) and registers its waker
\* unless an equivalent one is there already.
Register(t) ==
    /\ pc[t] = "parked" /\ notified[t]
    /\ notified' = [notified EXCEPT ![t] = FALSE]
    /\ wakers' = wakers \cup {t}
    /\ pc' = [pc EXCEPT ![t] = "reading"]
    /\ UNCHANGED <<val, seen, writing>>

\* The rest of read, and what the future does with the value: it completes or the
\* poll returns Pending. A wake that came in meanwhile is still owed.
ReadValue(t) ==
    /\ pc[t] = "reading"
    /\ seen' = [seen EXCEPT ![t] = val]
    /\ pc' = [pc EXCEPT ![t] = IF val \in Want[t] THEN "done" ELSE "parked"]
    /\ UNCHANGED <<val, wakers, notified, writing>>

\* Another future of the same task wakes it (select and join share one waker).
WakeElsewhere(t) ==
    /\ pc[t] = "parked" /\ ~notified[t]
    /\ notified' = [notified EXCEPT ![t] = TRUE]
    /\ UNCHANGED <<val, wakers, pc, seen, writing>>

\* write, first half: the new value is stored.
Store(w, v) ==
    /\ w \notin writing
    /\ val' = v
    /\ writing' = writing \cup {w}
    /\ UNCHANGED <<wakers, pc, notified, seen>>

\* A write that wakes one of the registered tasks instead of all of them.
WakeOne(w) ==
    /\ w \in writing
    /\ \/ /\ wakers = {}
          /\ UNCHANGED <<wakers, notified>>
       \/ \E t \in wakers :
             /\ notified' = [notified EXCEPT ![t] = TRUE]
             /\ wakers' = wakers \ {t}
    /\ writing' = writing \ {w}
    /\ UNCHANGED <<val, pc, seen>>

\* write, second half: under the lock on wakers, every registered task is woken
\* and the list is left empty.
WakeAll(w) ==
    /\ w \in writing
    /\ notified' = [t \in Tasks |-> notified[t] \/ t \in wakers]
    /\ wakers' = {}
    /\ writing' = writing \ {w}
    /\ UNCHANGED <<val, pc, seen>>

Next ==
    \/ \E t \in Tasks : Register(t) \/ ReadValue(t) \/ WakeElsewhere(t)
    \/ \E w \in Writers : WakeAll(w) \/ \E v \in Values : Store(w, v)

Spec == Init /\ [][Next]_vars

\* The executor polls a task that was woken, and a thread inside read or write
\* leaves it. Nobody is obliged to write.
Fairness ==
    /\ \A t \in Tasks : WF_vars(Register(t)) /\ WF_vars(ReadValue(t))
    /\ \A w \in Writers : WF_vars(WakeAll(w))

FairSpec == Spec /\ Fairness

-----------------------------------------------------------------------------
\* A task that sleeps, and that nobody owes a poll, either saw the current value
\* or is on the list of a writer that has yet to drain it: "the current task will
\* be notified when the value changes" (pollable.rs:7-8), whatever the order of
\* the four critical sections.
NoLostWakeup ==
    \A t \in Tasks :
        pc[t] = "parked" /\ ~notified[t] /\ seen[t] # val
            => t \in wakers /\ writing # {}

\* The inductive strengthening: a task without an owed poll is always registered.
Registered ==
    \A t \in Tasks : pc[t] # "done" /\ ~notified[t] => t \in wakers

IInv == TypeOK /\ Registered /\ NoLostWakeup

\* A future whose value stays in place completes: what wait_for_close and
\* initialize rely on (client/mod.rs:410-416, ops/initialize.rs:70-79).
EventuallyServed ==
    \A t \in Tasks : <>[](val \in Want[t]) => <>(pc[t] = "done")

-----------------------------------------------------------------------------
(* The promise that PollableValue keeps: see WatchedValue. A task waits    *)
(* when it is parked without an owed poll, and no writer is about to give  *)
(* it one.                                                                 *)
Waiting ==
    {t \in Tasks : pc[t] = "parked" /\ ~notified[t] /\ (t \in wakers => writing = {})}

Abstract == INSTANCE WatchedValue WITH
    waiting <- Waiting, done <- {t \in Tasks : pc[t] = "done"}

\* To its tasks the value with its two locks and its list of wakers is a variable that
\* is written at a single moment: nobody sleeps on a value it wants, or through a write
\* (pollable.rs:31-57).
ImplementsWatchedValue == Abstract!Spec
=============================================================================

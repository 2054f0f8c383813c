------------------------------ MODULE Mailbox ------------------------------
(***************************************************************************)
(* What PollableSet<T> (src/src/pollable.rs) promises, without its locks   *)
(* and its list of wakers: a set in which one item is put, taken or looked *)
(* for at a time. A task waits only while nothing is there for it, and an  *)
(* insertion leaves nobody waiting. The client's modules use the message   *)
(* buffer in this way; PollableSet implements it.                          *)
(***************************************************************************)
EXTENDS Integers

CONSTANTS Tasks, Kinds, Wants, MaxItems    \* as in PollableSet

VARIABLES
    items,       \* the items, numbered in the order of their insertion
    inserted,    \* how many there were
    waiting,     \* the tasks that sleep until the next insertion
    gone         \* the tasks whose future was dropped

vars == <<items, inserted, waiting, gone>>

Init == items = {} /\ inserted = 0 /\ waiting = {} /\ gone = {}

Awake(t) == t \notin waiting \cup gone
Matching(t) == {x \in items : x.kind \in Wants[t]}

\* poll_take: the first added of the items that match ...
Take(t) ==
    /\ Awake(t)
    /\ \E x \in Matching(t) :
          /\ \A y \in Matching(t) : x.id <= y.id
          /\ items' = items \ {x}
    /\ UNCHANGED <<inserted, waiting, gone>>

\* ... or, if there is none, Pending.
Wait(t) ==
    /\ Awake(t) /\ Matching(t) = {}
    /\ waiting' = waiting \cup {t}
    /\ UNCHANGED <<items, inserted, gone>>

\* The task is polled for another reason.
Wake(t) == waiting' = waiting \ {t} /\ UNCHANGED <<items, inserted, gone>>

Drop(t) ==
    /\ t \notin gone
    /\ gone' = gone \cup {t} /\ waiting' = waiting \ {t}
    /\ UNCHANGED <<items, inserted>>

\* insert: the item is there and everyone is awake, at once.
Insert(k) ==
    /\ inserted < MaxItems
    /\ inserted' = inserted + 1
    /\ items' = items \cup {[id |-> inserted + 1, kind |-> k]}
    /\ waiting' = {}
    /\ UNCHANGED gone

Drain(K) ==
    /\ items' = {x \in items : x.kind \notin K}
    /\ UNCHANGED <<inserted, waiting, gone>>

Next ==
    \/ \E t \in Tasks : Take(t) \/ Wait(t) \/ Wake(t) \/ Drop(t)
    \/ \E k \in Kinds : Insert(k)
    \/ \E K \in SUBSET Kinds : Drain(K)

Spec == Init /\ [][Next]_vars
=============================================================================

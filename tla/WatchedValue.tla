---------------------------- MODULE WatchedValue ----------------------------
(***************************************************************************)
(* What PollableValue<T> (src/src/pollable.rs) promises, without its locks *)
(* and its list of wakers: a variable that is written and read at once. A  *)
(* task waits only on a value it does not want, and a write leaves nobody  *)
(* waiting. The client's modules use the client's state in this way;       *)
(* PollableValue implements it.                                            *)
(***************************************************************************)
CONSTANTS Tasks, Values, InitVal, Want     \* as in PollableValue

VARIABLES
    val,         \* the value
    waiting,     \* the tasks that sleep until the next write
    done         \* the tasks whose future has completed

vars == <<val, waiting, done>>

Init == val = InitVal /\ waiting = {} /\ done = {}

Awake(t) == t \notin waiting \cup done

\* read, and the future completes with the value ...
Finish(t) ==
    /\ Awake(t) /\ val \in Want[t]
    /\ done' = done \cup {t}
    /\ UNCHANGED <<val, waiting>>

\* ... or returns Pending.
Wait(t) ==
    /\ Awake(t) /\ val \notin Want[t]
    /\ waiting' = waiting \cup {t}
    /\ UNCHANGED <<val, done>>

\* The task is polled for another reason.
Wake(t) == waiting' = waiting \ {t} /\ UNCHANGED <<val, done>>

\* write: the value is there and everyone is awake, at once.
Write(v) == val' = v /\ waiting' = {} /\ UNCHANGED done

Next ==
    \/ \E t \in Tasks : Finish(t) \/ Wait(t) \/ Wake(t)
    \/ \E v \in Values : Write(v)

Spec == Init /\ [][Next]_vars
=============================================================================

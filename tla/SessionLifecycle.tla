-------------------------- MODULE SessionLifecycle --------------------------
(***************************************************************************)
(* The life of a session as the comments on ClientState describe it        *)
(* (src/src/client/mod.rs): one variable, written by two sides that do not *)
(* wait for each other. The listener writes down what the router makes of  *)
(* the session, each step once and in order; close writes over whatever it *)
(* finds. WampClient implements it.                                        *)
(***************************************************************************)
VARIABLES
    state,       \* ClientState
    listener,    \* how far the listener has come: "joining", "open", "ended" (it
                 \*   wrote why), "over" (it wrote TransportClosed, or was stopped)
    closing      \* a close is under way

vars == <<state, listener, closing>>

Init == state = "Establishing" /\ listener = "joining" /\ closing = FALSE

\* WELCOME: a session opens once, and nothing goes before.
Join ==
    /\ listener = "joining" /\ state = "Establishing"
    /\ state' = "Established" /\ listener' = "open"
    /\ UNCHANGED closing

\* ABORT or a broken connection, a breach of the protocol, or the router's GOODBYE;
\* the last only ends a session that was open, and that close may just have left.
End(s) ==
    /\ listener \in {"joining", "open"}
    /\ s = "Closing" => listener = "open" /\ state \in {"Established", "ShuttingDown"}
    /\ state' = s /\ listener' = "ended"
    /\ UNCHANGED closing

\* The listener has closed the transport.
Over ==
    /\ listener = "ended"
    /\ state' = "TransportClosed" /\ listener' = "over"
    /\ UNCHANGED closing

\* It ends without a last word: the stream ended or the client was dropped.
Leave == listener' = "over" /\ UNCHANGED <<state, closing>>

\* close begins: the program has no client to close before the session is open.
Shut ==
    /\ ~closing /\ listener # "joining"
    /\ state' = "ShuttingDown" /\ closing' = TRUE
    /\ UNCHANGED listener

\* close has closed the transport, or failed, or was cancelled.
Finish ==
    /\ closing /\ state # "Established"
    /\ state' = "TransportClosed" /\ closing' = FALSE
    /\ UNCHANGED listener

GiveUp == closing' = FALSE /\ UNCHANGED <<state, listener>>

Next ==
    \/ Join \/ Over \/ Leave \/ Shut \/ Finish \/ GiveUp
    \/ \E s \in {"Closed", "Failed", "Closing"} : End(s)

Spec == Init /\ [][Next]_vars
=============================================================================

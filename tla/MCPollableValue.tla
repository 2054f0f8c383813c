-------------------------- MODULE MCPollableValue --------------------------
(* Three tasks and two writers over three values; one task waits for the   *)
(* value that another ignores, as initialize, watch_for_client_state_change *)
(* and wait_for_close do on one client state.                               *)
EXTENDS PollableValue, TLC
CONSTANTS t1, t2, t3, v0, v1, v2

MCTasks == {t1, t2, t3}
MCValues == {v0, v1, v2}
MCWant == (t1 :> {v1, v2}) @@ (t2 :> {v2}) @@ (t3 :> {v1})
=============================================================================

--------------------------- MODULE MCPollableSet ---------------------------
(* Three tasks, two of which compete for one kind of item while the third   *)
(* takes the other kind or any: as two requests and a stream would.         *)
EXTENDS PollableSet, TLC
CONSTANTS t1, t2, t3

MCTasks == {t1, t2, t3}
MCKinds == {"odd", "even"}
MCWants == (t1 :> {"odd"}) @@ (t2 :> {"odd"}) @@ (t3 :> {"odd", "even"})
=============================================================================

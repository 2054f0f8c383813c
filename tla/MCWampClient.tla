---------------------------- MODULE MCWampClient ----------------------------
(* The instances of WampClient that TLC explores: the cfg files choose the  *)
(* bounds and what the program, the router and the network may do.          *)
EXTENDS WampClientInvariants, TLC

\* Topics are interchangeable in the safety runs.
TopicSymmetry == Permutations(Topics)
=============================================================================

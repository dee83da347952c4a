----------------------------- MODULE MCDelivery ---------------------------
(***************************************************************************)
(* Instances of Delivery for TLC: which session each reply is for.         *)
(***************************************************************************)
EXTENDS Delivery, TLC

CONSTANT s1

\* Every reply is for s1; or one of them is for the session of a web agent.
ToOne == [m \in Msgs |-> s1]
ToTwo == [ToOne EXCEPT ![CHOOSE m \in Msgs : TRUE] = CHOOSE s \in WebSessions : TRUE]
=============================================================================

-------------------------- MODULE MCCloudBridge ---------------------------
(***************************************************************************)
(* Instances of CloudBridge for TLC.                                       *)
(***************************************************************************)
EXTENDS CloudBridge, TLC

CONSTANTS s1, s2, th1

OneThread == (s1 :> th1) @@ (s2 :> th1)

\* One session whose laptop connects twice; two sessions of one thread.
Alone == [sessions |-> {s1}, conns |-> 2]
Together == [sessions |-> {s1, s2}, conns |-> 1]
Cases == {Alone, Together}
=============================================================================

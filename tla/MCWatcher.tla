----------------------------- MODULE MCWatcher ----------------------------
(***************************************************************************)
(* Instances of Watcher for TLC: the situations explored.                  *)
(***************************************************************************)
EXTENDS Watcher, TLC

CONSTANTS p1, p2, s1, s2, d1, d2

Nobody == [p \in Pids |-> {}]

\* One process that moves between two sessions; two processes that share one;
\* one whose argv names a session and that opens another; processes that only
\* their directory identifies.
Moving == [hold |-> (p1 :> {s1, s2}) @@ Nobody, name |-> Nobody, windows |-> FALSE]
Sharing == [hold |-> [p \in Pids |-> {s1}], name |-> Nobody, windows |-> FALSE]
Daemon == [hold |-> (p1 :> {s2}) @@ Nobody, name |-> (p1 :> {s1}) @@ Nobody,
           windows |-> FALSE]
ByDirectory == [hold |-> Nobody, name |-> Nobody, windows |-> TRUE]
Situations == {Moving, Sharing, Daemon, ByDirectory}

TwoDirs == (s1 :> d1) @@ (s2 :> d2)
=============================================================================

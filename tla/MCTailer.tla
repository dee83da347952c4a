----------------------------- MODULE MCTailer -----------------------------
(***************************************************************************)
(* Instances of Tailer for TLC: the tree and what the agents touch in it.  *)
(***************************************************************************)
EXTENDS Tailer, TLC

CONSTANTS f1, f2, d1, d2, root

Nested == (d1 :> root) @@ (d2 :> d1)
Inside == (f1 :> d1) @@ (f2 :> d1)

\* One file that grows; one that is removed and comes back; nested directories;
\* two files where one may be open.
Growing == [touch |-> {d1, f1}, halves |-> 4, pieces |-> {1, 2}, gens |-> 1,
            limit |-> 2, stops |-> TRUE, attaches |-> TRUE]
Replaced == [touch |-> {d1, f1}, halves |-> 2, pieces |-> {2}, gens |-> 2,
            limit |-> 2, stops |-> FALSE, attaches |-> FALSE]
Nesting == [touch |-> {d1, d2}, halves |-> 1, pieces |-> {1}, gens |-> 1,
            limit |-> 2, stops |-> TRUE, attaches |-> FALSE]
Crowded == [touch |-> {d1, f1, f2}, halves |-> 1, pieces |-> {}, gens |-> 1,
            limit |-> 1, stops |-> FALSE, attaches |-> FALSE]
Cases == {Growing, Replaced, Nesting, Crowded}
=============================================================================

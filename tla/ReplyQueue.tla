----------------------------- MODULE ReplyQueue ----------------------------
(***************************************************************************)
(* What the outbox promises for an agent only its hooks reach: one durable *)
(* FIFO queue per session.  A reply is put in once, and each taking gives  *)
(* the agent the oldest one that waits: none lost, none twice, in order.   *)
(***************************************************************************)
EXTENDS Sequences

CONSTANTS Sessions, Msgs

VARIABLES
    waiting,   \* replies put in and not yet taken, oldest first
    received   \* replies taken, in the order they were taken

qvars == <<waiting, received>>

Contents(s) == waiting[s] \o received[s]

QInit ==
    /\ waiting = [s \in Sessions |-> <<>>]
    /\ received = [s \in Sessions |-> <<>>]

Put(s, m) ==
    /\ \A i \in DOMAIN Contents(s) : Contents(s)[i] # m
    /\ waiting' = [waiting EXCEPT ![s] = Append(@, m)]
    /\ UNCHANGED received

Take(s) ==
    /\ waiting[s] # <<>>
    /\ received' = [received EXCEPT ![s] = Append(@, Head(waiting[s]))]
    /\ waiting' = [waiting EXCEPT ![s] = Tail(@)]

QNext == \E s \in Sessions : Take(s) \/ \E m \in Msgs : Put(s, m)

QSpec == QInit /\ [][QNext]_qvars
=============================================================================

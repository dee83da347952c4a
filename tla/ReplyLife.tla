----------------------------- MODULE ReplyLife ----------------------------
(***************************************************************************)
(* What becomes of a reply that is sent to a relay-owned terminal, and     *)
(* what its sender is told: it goes one way, the answer is true when it is *)
(* given, and neither is ever taken back.                                  *)
(***************************************************************************)

CONSTANTS
    Replies,   \* all replies
    Tracked,   \* those whose senders are answered
    Nil        \* not answered yet

VARIABLES
    place,     \* where a reply is
    answer     \* what its sender was told

lvars == <<place, answer>>

LInit ==
    /\ place = [t \in Replies |-> "unsent"]
    /\ answer = [t \in Replies |-> Nil]

Goes(t, to) == place' = [place EXCEPT ![t] = to] /\ UNCHANGED answer

\* It is written to the terminal's connection, which may be broken, or queued;
\* not after the sender was told that it failed.
Leave(t) ==
    /\ place[t] = "unsent" /\ answer[t] = Nil
    /\ \E to \in {"underway", "lost", "queued"} : Goes(t, to)

\* The agent takes it for a turn, or for a part of one.
Submit(t) == place[t] = "underway" /\ Goes(t, "turn")

\* A connection breaks and takes replies with it.
Break(gone) ==
    /\ gone # {} /\ \A t \in gone : place[t] = "underway"
    /\ place' = [t \in Replies |-> IF t \in gone THEN "lost" ELSE place[t]]
    /\ UNCHANGED answer

Fate(at) ==
    CASE at = "unsent" -> "failed"
      [] at = "queued" -> "queued"
      [] at \in {"underway", "turn", "lost"} -> "delivered"

Tell(t) ==
    /\ answer[t] = Nil
    /\ answer' = [answer EXCEPT ![t] = Fate(place[t])]
    /\ UNCHANGED place

LNext ==
    \/ \E t \in Replies : Leave(t) \/ Submit(t)
    \/ \E gone \in SUBSET Replies : Break(gone)
    \/ \E t \in Tracked : Tell(t)

LSpec == LInit /\ [][LNext]_lvars
=============================================================================

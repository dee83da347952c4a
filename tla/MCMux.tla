------------------------------- MODULE MCMux ------------------------------
(***************************************************************************)
(* Instances of Mux for TLC.                                               *)
(***************************************************************************)
EXTENDS Mux, TLC

\* Every producer observes every session: hooks and the transcript tailer
\* both report a Claude session, each from its own goroutine.
AllFeeds == Producers \X Sessions

\* Types that reach every state but one; few types that start and end a
\* turn, one of them collapsed; and one that makes a session and starts no
\* turn, where replies start them.
CoreTypes == {"session_start", "user_prompt", "stop", "session_end"}
FlowTypes == {"user_prompt", "tool_use", "session_end"}
StartTypes == {"session_start"}

\* Objects, callbacks and producers are only ever compared with themselves.
SymmetryP == Permutations(Objs) \cup Permutations(Callbacks) \cup Permutations(Producers)

\* What the next step of the mux depends on, with the relay's mirror: the
\* other histories are written and never read, so a run whose properties do
\* not mention them may tell states apart by the rest alone.
WithMirror ==
    <<sessions, threads, recent, heap, task, victims, closed, registered, mirror, crossed>>
=============================================================================

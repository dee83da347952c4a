----------------------------- MODULE Delivery -----------------------------
(***************************************************************************)
(* How a reply reaches an agent: inject.SendInputResult, the per-session   *)
(* outbox file, the immediate adapters, and the drainers of the outbox     *)
(* (src/host/internal/inject, src/host/internal/delivery, and the tickers  *)
(* and hooks that call them).                                              *)
(*                                                                         *)
(* The outbox mutex covers one read or one read-modify-write of the file,  *)
(* so each action is one such critical section, or one write to the agent. *)
(* writeQueue replaces the file in two steps, remove then rename, between  *)
(* which the process may crash.  A reply is a model value; its text        *)
(* matters only in that some replies answer a permission prompt.           *)
(***************************************************************************)
EXTENDS Integers, Sequences, FiniteSets

CONSTANTS
    Sessions,    \* session ids
    Msgs,        \* replies; each is sent at most once
    To,          \* To[m]: the session the reply is for
    Answers,     \* the replies permissionBehavior understands (yes, no, ...)
    Senders,     \* goroutines that call SendInputResult (one per HUD client)
    Tickers,     \* goroutines that call FlushPending every 3 s
    Notifiers,   \* goroutines that call RetryPending when a session is seen live
    Hooks,       \* HTTP handlers that answer an agent's hook
    WebSessions, \* sessions whose agent is "web": always queued
    Reachable,   \* sessions a terminal adapter may reach now and then
    PTYs,        \* sessions a relay-owned PTY may register for
    MaxRetry,    \* messages one RetryPending handles (32)
    MaxFaults,   \* failures in a behaviour: to write the temporary file, or
                 \* to send a hook's answer
    MaxCrashes,  \* crashes of the host in a behaviour
    None

Procs == Senders \cup Tickers \cup Notifiers \cup Hooks

ASSUME DeliveryAssumption ==
    /\ To \in [Msgs -> Sessions]
    /\ Answers \subseteq Msgs
    /\ WebSessions \subseteq Sessions /\ Reachable \subseteq Sessions
    /\ PTYs \subseteq Sessions
    /\ MaxRetry \in Nat /\ MaxCrashes \in Nat /\ MaxFaults \in Nat
    /\ None \notin Sessions /\ None \notin Msgs /\ None \notin Procs
ASSUME DistinctRoles ==
    /\ Senders \cap (Tickers \cup Notifiers \cup Hooks) = {}
    /\ Tickers \cap (Notifiers \cup Hooks) = {}
    /\ Notifiers \cap Hooks = {}
ASSUME FiniteAssumption == IsFiniteSet(Msgs) /\ IsFiniteSet(Procs)

VARIABLES
    queue,    \* the pending file of a session (<<>>: no file)
    writing,  \* writeQueue between its remove and its rename
    up,       \* sessions whose endpoint the adapters reach at the moment
    pty,      \* sessions with a registered PTY writer
    task,     \* what each goroutine is doing
    status,   \* what the sender of a reply was told
    typed,    \* history: the replies the agent received, in order
    before,   \* history: the replies already delivered, queued or refused when
              \* the send of m began
    spilled,  \* history: the replies of a session that a crash or a failed
              \* answer took out of the outbox's hands
    faults,   \* failures so far
    crashes   \* crashes so far

env == <<up, pty>>
history == <<typed, before, spilled>>
file == <<queue, writing, faults>>
vars == <<file, env, task, status, history, crashes>>

NoWrite == [who |-> None, sid |-> None, rows |-> <<>>]
Ready == [pc |-> "ready", sid |-> None, msg |-> None, n |-> 0, todo |-> {}]

(***************************************************************************)
(* Helpers.                                                                *)
(***************************************************************************)

\* The mutex is free; p itself is not inside writeQueue.
Unlocked == writing = NoWrite
Runs(p, pc) == task[p].pc = pc /\ writing.who # p

Goto(p, pc) == task' = [task EXCEPT ![p].pc = pc]

\* The contents of the file once a write under way is done.
Stored(s) == IF writing.sid = s THEN writing.rows ELSE queue[s]

\* writeQueue: no rows, remove the file; else write it aside and remove it.
Write(p, s, rows) ==
    /\ queue' = [queue EXCEPT ![s] = <<>>]
    /\ writing' = IF rows = <<>> THEN NoWrite
                  ELSE [who |-> p, sid |-> s, rows |-> rows]
    /\ UNCHANGED faults

\* ... or fail before anything was touched.
WriteFails ==
    /\ faults < MaxFaults
    /\ faults' = faults + 1
    /\ UNCHANGED <<queue, writing>>

Type(s, m) == typed' = [typed EXCEPT ![s] = Append(@, m)]

\* Replies a hook handler has taken off the queue and not yet answered with.
InHand(s) == {p \in Procs : task[p].sid = s /\ task[p].pc = "answer"}

\* Fault: the file is taken for empty.
PendingUnseen(s) == FALSE

HasPending(s) == queue[s] # <<>>

\* Fault: a file with one row is taken for an empty one.
ListedFull == {s \in Sessions : Len(queue[s]) > 1}

\* ListPendingIDs reads the directory without the mutex: a file that is just
\* being replaced is not there.
Listed == {s \in Sessions : queue[s] # <<>>}

Init ==
    /\ queue = [s \in Sessions |-> <<>>]
    /\ writing = NoWrite
    /\ up \in SUBSET Reachable
    /\ pty \in SUBSET PTYs
    /\ task = [p \in Procs |-> Ready]
    /\ status = [m \in Msgs |-> "unsent"]
    /\ typed = [s \in Sessions |-> <<>>]
    /\ before = [m \in Msgs |-> {}]
    /\ spilled = [s \in Sessions |-> 0]
    /\ faults = 0
    /\ crashes = 0

(***************************************************************************)
(* SendInputResult and DeliverWithResult.                                  *)
(***************************************************************************)

\* The Status of the Result, or its error.
Report(m, outcome) == status' = [status EXCEPT ![m] = outcome]

\* Fault: the newest reply goes first.
Prepended(rows, m) == <<m>> \o rows

\* rows = append(rows, msg).
Enqueued(rows, m) == Append(rows, m)

Settled == {m \in Msgs : status[m] \in {"delivered", "queued", "refused"}}

Send(p, m) ==
    /\ p \in Senders /\ Runs(p, "ready")
    /\ status[m] = "unsent"
    /\ status' = [status EXCEPT ![m] = "sending"]
    /\ before' = [before EXCEPT ![m] = Settled]
    /\ task' = [task EXCEPT ![p] = [Ready EXCEPT !.pc = "pty", !.sid = To[m], !.msg = m]]
    /\ UNCHANGED <<file, env, typed, spilled, crashes>>

\* The PTY comes first, before any look at the outbox; a write to it returns
\* at once, without FlushPending.  (pty: its write succeeds; a writer whose
\* child has gone is as good as none.)
SendPTY(p) ==
    /\ Runs(p, "pty")
    /\ \/ /\ task[p].sid \in pty
          /\ Type(task[p].sid, task[p].msg)
          /\ Report(task[p].msg, "delivered")
          /\ task' = [task EXCEPT ![p] = Ready]
       \/ /\ task[p].sid \notin pty
          /\ Goto(p, "check")
          /\ UNCHANGED <<typed, status>>
    /\ UNCHANGED <<file, env, before, spilled, crashes>>

\* "web" agents are always queued; else HasPending decides.
CheckPending(p) ==
    LET s == task[p].sid
    IN  /\ Runs(p, "check") /\ Unlocked
        /\ Goto(p, IF s \in WebSessions \/ HasPending(s) THEN "enqueue" ELSE "attempt")
        /\ UNCHANGED <<file, env, status, history, crashes>>

\* TryImmediate on behalf of the sender.
SendImmediate(p) ==
    /\ Runs(p, "attempt")
    /\ \/ /\ task[p].sid \in up
          /\ Type(task[p].sid, task[p].msg)
          /\ Report(task[p].msg, "delivered")
          /\ Goto(p, "flush")
       \/ /\ task[p].sid \notin up
          /\ Goto(p, "enqueue")
          /\ UNCHANGED <<typed, status>>
    /\ UNCHANGED <<file, env, before, spilled, crashes>>

Enqueue(p) ==
    LET s == task[p].sid
        m == task[p].msg
    IN  /\ Runs(p, "enqueue") /\ Unlocked
        /\ \/ /\ Write(p, s, Enqueued(queue[s], m))
              /\ Report(m, "queued")
           \/ /\ WriteFails
              /\ Report(m, "refused")
        /\ Goto(p, "flush")
        /\ UNCHANGED <<env, history, crashes>>

(***************************************************************************)
(* FlushPending and RetryPending: run by the ticker, by every sender after *)
(* its own delivery, and by the process watcher for a session seen live.   *)
(***************************************************************************)

StartTicker(p) ==
    /\ p \in Tickers /\ Runs(p, "ready")
    /\ Goto(p, "flush")
    /\ UNCHANGED <<file, env, status, history, crashes>>

StartNotifier(p, s) ==
    /\ p \in Notifiers /\ Runs(p, "ready") /\ s \in up
    /\ task' = [task EXCEPT ![p] = [Ready EXCEPT !.pc = "next", !.todo = {s}]]
    /\ UNCHANGED <<file, env, status, history, crashes>>

List(p) ==
    /\ Runs(p, "flush")
    /\ task' = [task EXCEPT ![p] = [Ready EXCEPT !.pc = "next", !.todo = Listed]]
    /\ UNCHANGED <<file, env, status, history, crashes>>

\* RetryPending for the next session, or the end of the round.
NextSession(p) ==
    /\ Runs(p, "next") /\ Unlocked
    /\ \/ /\ task[p].todo = {}
          /\ task' = [task EXCEPT ![p] = Ready]
       \/ \E s \in task[p].todo :
             task' = [task EXCEPT ![p] =
                        [pc |-> IF queue[s] = <<>> THEN "next" ELSE "peek", sid |-> s,
                         msg |-> None, n |-> 0, todo |-> @.todo \ {s}]]
    /\ UNCHANGED <<file, env, status, history, crashes>>

Counted(n) == n + 1

Peek(p) ==
    LET s == task[p].sid
    IN  /\ Runs(p, "peek") /\ Unlocked
        /\ task' = [task EXCEPT ![p] =
                      IF queue[s] = <<>> \/ @.n = MaxRetry
                      THEN [@ EXCEPT !.pc = "next", !.msg = None]
                      ELSE [@ EXCEPT !.pc = "try", !.msg = Head(queue[s])]]
        /\ UNCHANGED <<file, env, status, history, crashes>>

\* Faults: the error of TryImmediate is ignored, or retried at once.
AlwaysDequeue(reached) == "dequeue"
RetryAtOnce(reached) == IF reached THEN "dequeue" ELSE "try"

AfterAttempt(reached) == IF reached THEN "dequeue" ELSE "mark"

\* TryImmediate for the reply peeked at, outside the mutex.
RetryImmediate(p) ==
    LET s == task[p].sid
    IN  /\ Runs(p, "try")
        /\ IF s \in up THEN Type(s, task[p].msg) ELSE UNCHANGED typed
        /\ Goto(p, AfterAttempt(s \in up))
        /\ UNCHANGED <<file, env, status, before, spilled, crashes>>

\* MarkAttempt rewrites the file if the reply is still in it.  It ends
\* RetryPending for the session.
MarkAttempt(p) ==
    LET s == task[p].sid
    IN  /\ Runs(p, "mark") /\ Unlocked
        /\ \/ /\ \E i \in DOMAIN queue[s] : queue[s][i] = task[p].msg
              /\ Write(p, s, queue[s]) \/ WriteFails
           \/ /\ \A i \in DOMAIN queue[s] : queue[s][i] # task[p].msg
              /\ UNCHANGED file
        /\ task' = [task EXCEPT ![p].pc = "next", ![p].msg = None]
        /\ UNCHANGED <<env, status, history, crashes>>

\* Fault: the newest row is removed, not the oldest.
ButNewest(rows) == SubSeq(rows, 1, Len(rows) - 1)

\* rows[1:].
ButOldest(rows) == Tail(rows)

\* Dequeue takes the head, whichever reply that is by now.
DequeueHead(p, s) ==
    \/ queue[s] # <<>> /\ Write(p, s, ButOldest(queue[s]))
    \/ queue[s] # <<>> /\ WriteFails
    \/ queue[s] = <<>> /\ UNCHANGED file

RetryDequeue(p) ==
    /\ Runs(p, "dequeue") /\ Unlocked
    /\ DequeueHead(p, task[p].sid)
    /\ task' = [task EXCEPT ![p].pc = "peek", ![p].n = Counted(@), ![p].msg = None]
    /\ UNCHANGED <<env, status, history, crashes>>

(***************************************************************************)
(* HookResponse: peek, compose the answer, dequeue, answer.                *)
(***************************************************************************)

\* A permission request is answered only by a reply that means yes or no.
Consumes(kind, m) ==
    \/ kind \in {"Stop", "SubagentStop", "UserPromptSubmit"}
    \/ kind = "PermissionRequest" /\ m \in Answers

HookPeek(p, s, kind) ==
    /\ p \in Hooks /\ Runs(p, "ready") /\ Unlocked
    /\ queue[s] # <<>> /\ Consumes(kind, Head(queue[s]))
    /\ task' = [task EXCEPT ![p] = [Ready EXCEPT !.pc = "take", !.sid = s,
                                                 !.msg = Head(queue[s])]]
    /\ UNCHANGED <<file, env, status, history, crashes>>

HookDequeue(p) ==
    /\ Runs(p, "take") /\ Unlocked
    /\ DequeueHead(p, task[p].sid)
    /\ Goto(p, "answer")
    /\ UNCHANGED <<env, status, history, crashes>>

HookAnswer(p) ==
    LET s == task[p].sid
    IN  /\ Runs(p, "answer")
        /\ Type(s, task[p].msg)
        /\ task' = [task EXCEPT ![p] = Ready]
        /\ UNCHANGED <<file, env, status, before, spilled, crashes>>

\* The agent has hung up: the error of Encode is dropped, and the reply with it.
LoseAnswer(p) ==
    /\ Runs(p, "answer")
    /\ faults < MaxFaults /\ faults' = faults + 1
    /\ task' = [task EXCEPT ![p] = Ready]
    /\ spilled' = [spilled EXCEPT ![task[p].sid] = @ + 1]
    /\ UNCHANGED <<queue, writing, env, status, typed, before, crashes>>

(***************************************************************************)
(* The second half of writeQueue; the environment; crash and restart.      *)
(***************************************************************************)

Rename ==
    /\ writing # NoWrite
    /\ queue' = [queue EXCEPT ![writing.sid] = writing.rows]
    /\ writing' = NoWrite
    /\ UNCHANGED <<faults, env, task, status, history, crashes>>

EndpointChanges(s) ==
    /\ s \in Reachable
    /\ up' = IF s \in up THEN up \ {s} ELSE up \cup {s}
    /\ UNCHANGED <<file, pty, task, status, history, crashes>>

PTYChanges(s) ==
    /\ s \in PTYs
    /\ pty' = IF s \in pty THEN pty \ {s} ELSE pty \cup {s}
    /\ UNCHANGED <<file, up, task, status, history, crashes>>

\* The registry and the PTY table live in memory; the files stay.  A
\* temporary file not yet renamed is never read again.
Crash ==
    /\ crashes < MaxCrashes
    /\ crashes' = crashes + 1
    /\ task' = [p \in Procs |-> Ready]
    /\ writing' = NoWrite
    /\ up' = {} /\ pty' = {}
    /\ status' = [m \in Msgs |-> IF status[m] = "sending" THEN "unknown" ELSE status[m]]
    /\ spilled' = [s \in Sessions |->
                     spilled[s] + Cardinality(InHand(s))
                     + (IF writing.sid = s THEN Len(writing.rows) ELSE 0)]
    /\ UNCHANGED <<queue, faults, typed, before>>

SenderStep(p) == SendPTY(p) \/ CheckPending(p) \/ SendImmediate(p) \/ Enqueue(p)
DrainStep(p) ==
    \/ List(p) \/ NextSession(p) \/ Peek(p) \/ RetryImmediate(p)
    \/ MarkAttempt(p) \/ RetryDequeue(p)
HookStep(p) == HookDequeue(p) \/ HookAnswer(p) \/ LoseAnswer(p)

Kinds == {"Stop", "SubagentStop", "UserPromptSubmit", "PermissionRequest"}

Next ==
    \/ \E p \in Procs, m \in Msgs : Send(p, m)
    \/ \E p \in Procs : SenderStep(p) \/ DrainStep(p) \/ HookStep(p) \/ StartTicker(p)
    \/ \E p \in Procs, s \in Sessions : StartNotifier(p, s)
    \/ \E p \in Procs, s \in Sessions, kind \in Kinds : HookPeek(p, s, kind)
    \/ Rename
    \/ \E s \in Sessions : EndpointChanges(s) \/ PTYChanges(s)
    \/ Crash

Spec == Init /\ [][Next]_vars

\* Goroutines run, writes end, and the 3 s ticker ticks for ever.  The mutex
\* is held for single actions, so a waiting goroutine gets it again and again:
\* Go's mutex does not starve, hence strong fairness.
Fairness ==
    /\ \A p \in Procs : SF_vars(SenderStep(p) \/ DrainStep(p) \/ HookStep(p))
    /\ \A p \in Tickers : WF_vars(StartTicker(p))
    /\ WF_vars(Rename)

FairSpec == Spec /\ Fairness

(***************************************************************************)
(* Type invariant.                                                         *)
(***************************************************************************)

Pcs == {"ready", "pty", "check", "attempt", "enqueue", "flush", "next", "peek",
        "try", "mark", "dequeue", "take", "answer"}

TypeOK ==
    /\ queue \in [Sessions -> Seq(Msgs)]
    /\ writing \in [who : Procs, sid : Sessions, rows : Seq(Msgs)] \cup {NoWrite}
    /\ up \in SUBSET Reachable
    /\ pty \in SUBSET PTYs
    /\ task \in [Procs -> [pc : Pcs, sid : Sessions \cup {None}, msg : Msgs \cup {None},
                           n : 0..MaxRetry, todo : SUBSET Sessions]]
    /\ status \in [Msgs -> {"unsent", "sending", "delivered", "queued", "refused",
                            "unknown"}]
    /\ typed \in [Sessions -> Seq(Msgs)]
    /\ before \in [Msgs -> SUBSET Msgs]
    /\ spilled \in [Sessions -> Nat]
    /\ faults \in 0..MaxFaults
    /\ crashes \in 0..MaxCrashes

(***************************************************************************)
(* Safety.                                                                 *)
(***************************************************************************)

Members(seq) == {seq[i] : i \in DOMAIN seq}

\* The file keeps send order and holds no reply twice, however many clients
\* send while drainers rewrite it ("preserving send order", outbox.go:82).
FileInSendOrder ==
    \A s \in Sessions : \A i, j \in DOMAIN Stored(s) :
        i < j => /\ Stored(s)[i] # Stored(s)[j]
                 /\ Stored(s)[j] \notin before[Stored(s)[i]]

\* The replies the agent got or is about to get from a hook handler.
Handed(s) == Members(typed[s]) \cup {task[p].msg : p \in InHand(s)}

\* Replies whose sender was told "queued" and that are nowhere any more.
Lost(s) == {m \in Msgs : /\ To[m] = s /\ status[m] = "queued"
                         /\ m \notin Members(Stored(s)) \cup Handed(s)}

\* The outbox is "a durable FIFO queue per session_id" (outbox.go:51): what
\* was queued stays in the file until it is with the agent or in a hand.
NothingLost == \A s \in Sessions : Lost(s) = {}

\* However drainers race (deliver.go:165-185, hooks.go:10-45), each reply the
\* queue loses was paid for by another one the agent got twice, was in a file
\* that a crash caught between remove and rename (outbox.go:173-174), or was
\* the answer of a hook that did not get through: a drainer removes one row
\* for each reply it hands over, never more.
LossNeedsDuplicate ==
    \A s \in Sessions :
        Cardinality(Lost(s)) <=
            Len(typed[s]) + Cardinality(InHand(s)) - Cardinality(Handed(s)) + spilled[s]

\* "preserving FIFO order and avoiding a queued retry racing with a newer
\* immediate send" (deliver.go:69-70): what a terminal adapter types or a hook
\* answers never passes a reply that was queued before its send began and is
\* still there.  Only a relay-owned PTY is written to without that look
\* (inject.go:63).
OnlyPTYOvertakes ==
    [][\A s \in Sessions, m \in Msgs :
          typed'[s] = Append(typed[s], m) =>
              \/ \E p \in Senders : SendPTY(p)
              \/ before[m] \cap Members(Stored(s)) = {}]_vars

(***************************************************************************)
(* Refinement: with one hook handler and no other way to the agent, the    *)
(* outbox is a ReplyQueue.                                                 *)
(***************************************************************************)

\* What the agent has, and after it what the hook handler is answering with.
Received(s) ==
    typed[s] \o (IF InHand(s) = {} THEN <<>>
                 ELSE <<task[CHOOSE p \in InHand(s) : TRUE].msg>>)

Queue == INSTANCE ReplyQueue
    WITH waiting <- [s \in Sessions |-> Stored(s)],
         received <- [s \in Sessions |-> Received(s)]

\* Senders, the ticker that rewrites the file after each vain attempt, and the
\* hook handler together are one FIFO queue: "stores a durable FIFO queue per
\* session_id.  Producers drain via hooks" (outbox.go:51-52).
ImplementsQueue == Queue!QSpec

(***************************************************************************)
(* Liveness.                                                               *)
(***************************************************************************)

\* Queued replies do not wait for ever for an agent that stays reachable
\* (main.go:623-636).
QueueDrains ==
    \A s \in Sessions : \/ []<>(s \notin up)
                        \/ []<>(Stored(s) = <<>>)

\* Every SendInputResult returns, the flush it ends with included: no
\* HUD client waits for an agent to be reachable (deliver.go:165-185).
SendsReturn == \A p \in Senders : task[p].pc # "ready" ~> task[p].pc = "ready"
=============================================================================

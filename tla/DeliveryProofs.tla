--------------------------- MODULE DeliveryProofs -------------------------
(***************************************************************************)
(* Proofs about Delivery, for any number of sessions, replies, senders,    *)
(* drainers and hooks: the outbox file keeps send order; one hook handler  *)
(* alone makes of it a FIFO queue; and what is lost in the races of the    *)
(* drainers was paid for by a reply given twice.                           *)
(***************************************************************************)
EXTENDS Delivery, FiniteSetTheorems, SequenceTheorems, TLAPS

USE DeliveryAssumption

(***************************************************************************)
(* The invariant.                                                          *)
(***************************************************************************)

\* The record a goroutine keeps.
Task == [pc : Pcs, sid : Sessions \cup {None}, msg : Msgs \cup {None},
         n : 0..MaxRetry, todo : SUBSET Sessions]

Sending == {"pty", "check", "attempt", "enqueue"}

\* What a goroutine is about at each place of its code.
Frame(p) ==
    /\ task[p].pc \in Sending =>
           /\ p \in Senders /\ task[p].msg \in Msgs /\ task[p].sid = To[task[p].msg]
           /\ status[task[p].msg] = "sending"
    /\ task[p].pc \in {"try", "mark", "dequeue"} => task[p].n # MaxRetry
    /\ task[p].pc \in {"try", "mark", "dequeue", "take", "answer"} => task[p].msg \in Msgs
    /\ task[p].pc \in {"peek", "try", "mark", "dequeue", "take", "answer"} =>
           task[p].sid \in Sessions

Frames ==
    /\ \A p \in Procs : Frame(p)
    /\ \A p, q \in Procs : /\ task[p].pc \in Sending /\ task[q].pc \in Sending
                           /\ task[p].msg = task[q].msg
                           => p = q

\* The file is not there while it is being written.
Absent == writing # NoWrite => queue[writing.sid] = <<>>

\* The rows of a file are replies whose senders were told so.
RowsQueued ==
    \A s \in Sessions : \A i \in DOMAIN Stored(s) :
        status[Stored(s)[i]] = "queued" /\ To[Stored(s)[i]] = s

BeforeSettled == \A m \in Msgs : before[m] \subseteq Settled

IInv ==
    /\ TypeOK /\ Frames /\ Absent /\ RowsQueued /\ BeforeSettled
    /\ FileInSendOrder

(***************************************************************************)
(* The file.                                                               *)
(***************************************************************************)

LEMMA StoredType == TypeOK => \A s \in Sessions : Stored(s) \in Seq(Msgs)
  BY DEF TypeOK, Stored, NoWrite

LEMMA StoredUnlocked == Unlocked => \A s \in Sessions : Stored(s) = queue[s]
  BY DEF Unlocked, Stored, NoWrite

LEMMA StoredKept == UNCHANGED <<queue, writing>> => \A s : Stored(s)' = Stored(s)
  BY DEF Stored

\* A write makes of the file what it was to make of it, once it is done.
LEMMA Written ==
    ASSUME TypeOK, Unlocked, NEW p \in Procs, NEW s \in Sessions,
           NEW contents \in Seq(Msgs), Write(p, s, contents)
    PROVE  /\ Stored(s)' = contents /\ \A u \in Sessions \ {s} : Stored(u)' = Stored(u)
           /\ queue' \in [Sessions -> Seq(Msgs)]
           /\ writing' \in [who : Procs, sid : Sessions, rows : Seq(Msgs)] \cup {NoWrite}
           /\ Absent' /\ faults' = faults
  <1>1. queue \in [Sessions -> Seq(Msgs)] /\ <<>> \in Seq(Msgs)
    BY EmptySeq DEF TypeOK
  <1>2. CASE contents = <<>>
    BY <1>1, <1>2 DEF Write, Unlocked, Stored, NoWrite, Absent
  <1>3. CASE contents # <<>>
    <2>1. /\ writing' = [who |-> p, sid |-> s, rows |-> contents]
          /\ queue' = [queue EXCEPT ![s] = <<>>] /\ faults' = faults
      BY <1>3 DEF Write
    <2> QED BY <1>1, <2>1 DEF Unlocked, Stored, NoWrite, Absent
  <1> QED BY <1>2, <1>3

LEMMA Failed ==
    ASSUME TypeOK, WriteFails
    PROVE  faults' \in 0..MaxFaults /\ UNCHANGED <<queue, writing>>
  BY DEF TypeOK, WriteFails

LEMMA Renamed ==
    ASSUME TypeOK, Rename
    PROVE  /\ \A s \in Sessions : Stored(s)' = Stored(s)
           /\ queue' \in [Sessions -> Seq(Msgs)]
           /\ writing' = NoWrite
  <1>1. writing \in [who : Procs, sid : Sessions, rows : Seq(Msgs)]
    BY DEF TypeOK, Rename
  <1> QED BY <1>1 DEF TypeOK, Rename, Stored, NoWrite

\* A row that is removed is the first; the others stay as they are.
Shrinks ==
    \A s \in Sessions :
        \/ Stored(s)' = Stored(s)
        \/ Stored(s) # <<>> /\ Stored(s)' = Tail(Stored(s))

FileTypes ==
    /\ queue \in [Sessions -> Seq(Msgs)]
    /\ writing \in [who : Procs, sid : Sessions, rows : Seq(Msgs)] \cup {NoWrite}
    /\ faults \in 0..MaxFaults
    /\ Absent

HistoryTypes ==
    /\ typed \in [Sessions -> Seq(Msgs)]
    /\ spilled \in [Sessions -> Nat]

LEMMA FileKept ==
    ASSUME TypeOK, Absent, UNCHANGED file PROVE Shrinks /\ FileTypes'
  BY StoredKept DEF TypeOK, file, Shrinks, FileTypes, Absent

LEMMA FailedWrite ==
    ASSUME TypeOK, Absent, WriteFails PROVE Shrinks /\ FileTypes'
  BY StoredKept, Failed DEF TypeOK, Shrinks, FileTypes, Absent

LEMMA DequeuedHead ==
    ASSUME TypeOK, Absent, Unlocked, NEW p \in Procs, NEW s \in Sessions, DequeueHead(p, s)
    PROVE  Shrinks /\ FileTypes'
  <1>1. CASE queue[s] # <<>> /\ Write(p, s, ButOldest(queue[s]))
    <2>1. queue[s] \in Seq(Msgs) /\ ButOldest(queue[s]) = Tail(queue[s])
      BY DEF TypeOK, ButOldest
    <2>2. Tail(queue[s]) \in Seq(Msgs)
      BY <1>1, <2>1, HeadTailProperties
    <2> QED BY <1>1, <2>1, <2>2, Written, StoredUnlocked DEF Shrinks, FileTypes, TypeOK
  <1>2. CASE WriteFails
    BY <1>2, FailedWrite
  <1>3. CASE UNCHANGED file
    BY <1>3, FileKept
  <1> QED BY <1>1, <1>2, <1>3 DEF DequeueHead

(***************************************************************************)
(* The rows: they are appended as they are queued, and removed from the    *)
(* front.                                                                  *)
(***************************************************************************)

LEMMA RowsShrink ==
    ASSUME IInv, Shrinks, before' = before,
           \A m \in Msgs : status[m] = "queued" => status'[m] = "queued"
    PROVE  RowsQueued' /\ FileInSendOrder'
  <1> SUFFICES ASSUME NEW s \in Sessions
               PROVE  /\ \A i \in DOMAIN Stored(s)' :
                             status'[Stored(s)'[i]] = "queued" /\ To[Stored(s)'[i]] = s
                      /\ \A i, j \in DOMAIN Stored(s)' :
                             i < j => /\ Stored(s)'[i] # Stored(s)'[j]
                                      /\ Stored(s)'[j] \notin before[Stored(s)'[i]]
    BY DEF RowsQueued, FileInSendOrder
  <1> DEFINE old == Stored(s)
             new == Stored(s)'
  <1>1. /\ old \in Seq(Msgs) /\ Len(old) \in Nat /\ DOMAIN old = 1..Len(old)
        /\ \A i \in DOMAIN old : old[i] \in Msgs /\ status[old[i]] = "queued" /\ To[old[i]] = s
        /\ \A i, j \in DOMAIN old : i < j => old[i] # old[j] /\ old[j] \notin before[old[i]]
    BY StoredType, LenProperties, ElementOfSeq DEF IInv, RowsQueued, FileInSendOrder
  <1>2. CASE new = old
    BY <1>1, <1>2
  <1>3. CASE old # <<>> /\ new = Tail(old)
    <2>1. /\ DOMAIN new = 1..(Len(old) - 1)
          /\ \A i \in DOMAIN new : i \in Nat /\ i + 1 \in DOMAIN old /\ new[i] = old[i + 1]
      BY <1>1, <1>3, HeadTailProperties, LenProperties
    <2> HIDE DEF old, new
    <2> QED BY <1>1, <2>1 DEF old, new
  <1> QED BY <1>2, <1>3 DEF Shrinks

(***************************************************************************)
(* The steps.                                                              *)
(***************************************************************************)

LEMMA InitIInv == Init => IInv
  <1> SUFFICES ASSUME Init PROVE IInv
    OBVIOUS
  <1>1. \A s \in Sessions : Stored(s) = <<>>
    BY DEF Init, Stored, NoWrite
  <1>2. RowsQueued /\ FileInSendOrder
    BY <1>1 DEF RowsQueued, FileInSendOrder
  <1>3. Frames /\ Absent /\ BeforeSettled
    BY DEF Init, Frames, Frame, Ready, Sending, Absent, BeforeSettled
  <1>4. TypeOK
    <2>1. queue \in [Sessions -> Seq(Msgs)] /\ typed \in [Sessions -> Seq(Msgs)]
      BY EmptySeq DEF Init
    <2>2. task \in [Procs -> Task]
      BY DEF Init, Ready, Task, Pcs
    <2>3. up \in SUBSET Reachable /\ pty \in SUBSET PTYs /\ writing = NoWrite
      BY DEF Init
    <2>4. faults \in 0..MaxFaults /\ crashes \in 0..MaxCrashes
      BY DEF Init
    <2>5. before \in [Msgs -> SUBSET Msgs] /\ spilled \in [Sessions -> Nat]
      BY DEF Init
    <2>6. status \in [Msgs -> {"unsent", "sending", "delivered", "queued", "refused",
                               "unknown"}]
      BY DEF Init
    <2> QED BY <2>1, <2>2, <2>3, <2>4, <2>5, <2>6 DEF TypeOK, Task
  <1> QED BY <1>2, <1>3, <1>4 DEF IInv

\* A step of a drainer, of a hook, or of a sender that does not decide about its
\* reply.
LEMMA WorkStep ==
    ASSUME IInv, NEW p \in Procs,
           task' = [task EXCEPT ![p] = task'[p]], task'[p] \in Task, Frame(p)',
           task'[p].pc \in Sending =>
               task[p].pc \in Sending /\ task'[p].msg = task[p].msg,
           UNCHANGED <<status, before, crashes, up, pty>>,
           HistoryTypes', Shrinks, FileTypes'
    PROVE  IInv'
  <1> USE DEF IInv
  <1>1. TypeOK'
    <2>1. task' \in [Procs -> Task]
      BY DEF TypeOK, Task
    <2> QED BY <2>1 DEF TypeOK, FileTypes, HistoryTypes, Task
  <1>2. Frames'
    <2>1. \A q \in Procs \ {p} : task'[q] = task[q]
      BY DEF TypeOK
    <2>2. ASSUME NEW q \in Procs PROVE Frame(q)'
      BY <2>1 DEF Frames, Frame
    <2>3. ASSUME NEW q \in Procs, NEW r \in Procs, task'[q].pc \in Sending,
                 task'[r].pc \in Sending, task'[q].msg = task'[r].msg
          PROVE  q = r
      <3>1. /\ task[q].pc \in Sending /\ task[q].msg = task'[q].msg
            /\ task[r].pc \in Sending /\ task[r].msg = task'[r].msg
        BY <2>1, <2>3
      <3> QED BY <2>3, <3>1 DEF Frames
    <2> QED BY <2>2, <2>3 DEF Frames
  <1>3. RowsQueued' /\ FileInSendOrder'
    BY RowsShrink
  <1>4. Absent' /\ BeforeSettled'
    BY DEF FileTypes, BeforeSettled, Settled
  <1> QED BY <1>1, <1>2, <1>3, <1>4

LEMMA TaskSet == TypeOK => task \in [Procs -> Task]
  BY DEF TypeOK, Task

LEMMA ReadyTask == Ready \in Task
  BY DEF Ready, Task, Pcs

LEMMA CheckPendingStep == ASSUME IInv, NEW p \in Procs, CheckPending(p) PROVE IInv'
  <1>1. Shrinks /\ FileTypes'
    BY FileKept DEF CheckPending, IInv
  <1>2. /\ task' = [task EXCEPT ![p] = task'[p]] /\ task'[p] \in Task
        /\ task'[p].pc \in Sending /\ task[p].pc \in Sending
        /\ task'[p].pc \in {"enqueue", "attempt"}
        /\ task'[p].msg = task[p].msg /\ task'[p].sid = task[p].sid
    BY TaskSet DEF CheckPending, Goto, Runs, IInv, Task, Pcs, Sending
  <1>3. Frame(p)'
    BY <1>2 DEF Frame, Frames, IInv, CheckPending, env
  <1>4. HistoryTypes' /\ UNCHANGED <<status, before, crashes, up, pty>>
    BY DEF CheckPending, env, history, IInv, TypeOK, HistoryTypes
  <1> QED BY <1>1, <1>2, <1>3, <1>4, WorkStep
LEMMA StartTickerStep == ASSUME IInv, NEW p \in Procs, StartTicker(p) PROVE IInv'
  <1>1. Shrinks /\ FileTypes'
    BY FileKept DEF StartTicker, IInv
  <1>2. /\ task' = [task EXCEPT ![p] = task'[p]] /\ task'[p] \in Task
        /\ task'[p].pc = "flush"
    BY TaskSet DEF StartTicker, Runs, IInv, Task, Pcs, Goto
  <1>3. Frame(p)' /\ task'[p].pc \notin Sending
    BY <1>2 DEF Frame, Sending
  <1>4. HistoryTypes' /\ UNCHANGED <<status, before, crashes, up, pty>>
    BY DEF StartTicker, env, history, IInv, TypeOK, HistoryTypes
  <1> QED BY <1>1, <1>2, <1>3, <1>4, WorkStep

LEMMA StartNotifierStep == ASSUME IInv, NEW p \in Procs, NEW s \in Sessions, StartNotifier(p, s) PROVE IInv'
  <1>1. Shrinks /\ FileTypes'
    BY FileKept DEF StartNotifier, IInv
  <1>2. /\ task' = [task EXCEPT ![p] = task'[p]] /\ task'[p] \in Task
        /\ task'[p].pc = "next"
    <2>1. [Ready EXCEPT !.pc = "next", !.todo = {s}] \in Task
      BY ReadyTask DEF Task, Pcs
    <2> QED BY <2>1, TaskSet DEF StartNotifier, Ready, IInv
  <1>3. Frame(p)' /\ task'[p].pc \notin Sending
    BY <1>2 DEF Frame, Sending
  <1>4. HistoryTypes' /\ UNCHANGED <<status, before, crashes, up, pty>>
    BY DEF StartNotifier, env, history, IInv, TypeOK, HistoryTypes
  <1> QED BY <1>1, <1>2, <1>3, <1>4, WorkStep

LEMMA ListStep == ASSUME IInv, NEW p \in Procs, List(p) PROVE IInv'
  <1>1. Shrinks /\ FileTypes'
    BY FileKept DEF List, IInv
  <1>2. /\ task' = [task EXCEPT ![p] = task'[p]] /\ task'[p] \in Task
        /\ task'[p].pc = "next"
    <2>1. [Ready EXCEPT !.pc = "next", !.todo = Listed] \in Task
      BY ReadyTask DEF Listed, Task, Pcs
    <2> QED BY <2>1, TaskSet DEF List, Ready, IInv
  <1>3. Frame(p)' /\ task'[p].pc \notin Sending
    BY <1>2 DEF Frame, Sending
  <1>4. HistoryTypes' /\ UNCHANGED <<status, before, crashes, up, pty>>
    BY DEF List, env, history, IInv, TypeOK, HistoryTypes
  <1> QED BY <1>1, <1>2, <1>3, <1>4, WorkStep

LEMMA NextSessionStep == ASSUME IInv, NEW p \in Procs, NextSession(p) PROVE IInv'
  <1>1. Shrinks /\ FileTypes'
    BY FileKept DEF NextSession, IInv
  <1>2. /\ task' = [task EXCEPT ![p] = task'[p]] /\ task'[p] \in Task
        /\ task'[p].pc \in {"ready", "next", "peek"}
        /\ task'[p].pc = "peek" => task'[p].sid \in Sessions
    <2>1. task \in [Procs -> Task] /\ task[p] \in Task
      BY TaskSet DEF IInv
    <2>2. CASE task' = [task EXCEPT ![p] = Ready]
      BY <2>1, <2>2 DEF Ready, Task, Pcs
    <2>3. ASSUME NEW s \in task[p].todo,
                 task' = [task EXCEPT ![p] =
                            [pc |-> IF queue[s] = <<>> THEN "next" ELSE "peek", sid |-> s,
                             msg |-> None, n |-> 0, todo |-> @.todo \ {s}]]
          PROVE  /\ task' = [task EXCEPT ![p] = task'[p]] /\ task'[p] \in Task
                 /\ task'[p].pc \in {"ready", "next", "peek"}
                 /\ task'[p].pc = "peek" => task'[p].sid \in Sessions
      BY <2>1, <2>3 DEF Task, Pcs
    <2> QED BY <2>2, <2>3 DEF NextSession
  <1>3. Frame(p)' /\ task'[p].pc \notin Sending
    BY <1>2 DEF Frame, Sending
  <1>4. HistoryTypes' /\ UNCHANGED <<status, before, crashes, up, pty>>
    BY DEF NextSession, env, history, IInv, TypeOK, HistoryTypes
  <1> QED BY <1>1, <1>2, <1>3, <1>4, WorkStep

LEMMA PeekStep == ASSUME IInv, NEW p \in Procs, Peek(p) PROVE IInv'
  <1>1. Shrinks /\ FileTypes'
    BY FileKept DEF Peek, IInv
  <1>2. /\ task[p].sid \in Sessions /\ queue[task[p].sid] \in Seq(Msgs)
        /\ queue[task[p].sid] # <<>> => Head(queue[task[p].sid]) \in Msgs
    BY HeadTailProperties DEF IInv, TypeOK, Frames, Frame, Peek, Runs
  <1>3. /\ task' = [task EXCEPT ![p] = task'[p]] /\ task'[p] \in Task
        /\ \/ task'[p].pc = "next"
           \/ /\ task'[p].pc = "try" /\ task'[p].n # MaxRetry
              /\ task'[p].msg \in Msgs /\ task'[p].sid \in Sessions
    <2>1. task \in [Procs -> Task] /\ task[p] \in Task
      BY TaskSet DEF IInv
    <2>2. CASE queue[task[p].sid] = <<>> \/ task[p].n = MaxRetry
      <3>1. task' = [task EXCEPT ![p] = [@ EXCEPT !.pc = "next", !.msg = None]]
        BY <2>2 DEF Peek
      <3> QED BY <2>1, <3>1 DEF Task, Pcs
    <2>3. CASE ~(queue[task[p].sid] = <<>> \/ task[p].n = MaxRetry)
      <3>1. task' = [task EXCEPT ![p] = [@ EXCEPT !.pc = "try",
                                                  !.msg = Head(queue[task[p].sid])]]
        BY <2>3 DEF Peek
      <3> QED BY <1>2, <2>1, <2>3, <3>1 DEF Task, Pcs
    <2> QED BY <2>2, <2>3
  <1>4. Frame(p)' /\ task'[p].pc \notin Sending
    BY <1>3 DEF Frame, Sending
  <1>5. HistoryTypes' /\ UNCHANGED <<status, before, crashes, up, pty>>
    BY DEF Peek, env, history, IInv, TypeOK, HistoryTypes
  <1> QED BY <1>1, <1>3, <1>4, <1>5, WorkStep

\* What the agent gets is a reply.
LEMMA TypedType ==
    ASSUME TypeOK, NEW s \in Sessions, NEW m \in Msgs, Type(s, m)
    PROVE  typed' \in [Sessions -> Seq(Msgs)]
  BY AppendProperties DEF TypeOK, Type

LEMMA RetryImmediateStep == ASSUME IInv, NEW p \in Procs, RetryImmediate(p) PROVE IInv'
  <1>1. Shrinks /\ FileTypes'
    BY FileKept DEF RetryImmediate, IInv
  <1>2. /\ task[p].pc = "try" /\ task[p].n # MaxRetry
        /\ task[p].msg \in Msgs /\ task[p].sid \in Sessions
    BY DEF IInv, Frames, Frame, RetryImmediate, Runs
  <1>3. /\ task' = [task EXCEPT ![p] = task'[p]] /\ task'[p] \in Task
        /\ task'[p].pc \in {"dequeue", "mark"} /\ task'[p].n = task[p].n
        /\ task'[p].msg = task[p].msg /\ task'[p].sid = task[p].sid
    BY TaskSet DEF RetryImmediate, AfterAttempt, Goto, IInv, Task, Pcs
  <1>4. Frame(p)' /\ task'[p].pc \notin Sending
    BY <1>2, <1>3 DEF Frame, Sending
  <1>5. HistoryTypes' /\ UNCHANGED <<status, before, crashes, up, pty>>
    BY <1>2, TypedType DEF RetryImmediate, env, IInv, TypeOK, HistoryTypes
  <1> QED BY <1>1, <1>3, <1>4, <1>5, WorkStep

LEMMA Marked ==
    ASSUME NEW p \in Procs, MarkAttempt(p)
    PROVE  /\ task' = [task EXCEPT ![p].pc = "next", ![p].msg = None]
           /\ UNCHANGED <<env, status, history, crashes>>
  BY DEF MarkAttempt

LEMMA MarkAttemptStep == ASSUME IInv, NEW p \in Procs, MarkAttempt(p) PROVE IInv'
  <1> DEFINE s == task[p].sid
  <1>1. s \in Sessions /\ Unlocked /\ queue[s] \in Seq(Msgs)
    BY DEF IInv, TypeOK, Frames, Frame, MarkAttempt, Runs
  <1>2. ASSUME Write(p, s, queue[s]) PROVE Shrinks /\ FileTypes'
    <2> HIDE DEF s
    <2>1. \A u \in Sessions : Stored(u)' = Stored(u)
      BY <1>1, <1>2, Written, StoredUnlocked DEF IInv
    <2> QED BY <1>1, <1>2, <2>1, Written DEF IInv, Shrinks, FileTypes, TypeOK
  <1>3. Shrinks /\ FileTypes'
    BY <1>2, FailedWrite, FileKept DEF MarkAttempt, IInv
  <1>4. /\ task' = [task EXCEPT ![p] = task'[p]] /\ task'[p] \in Task
        /\ task'[p].pc = "next"
    <2>1. task' = [task EXCEPT ![p].pc = "next", ![p].msg = None]
      BY Marked
    <2>2. task \in [Procs -> Task] /\ "next" \in Pcs
      BY TaskSet DEF IInv, Pcs
    <2>3. [task[p] EXCEPT !.pc = "next", !.msg = None] \in Task
      <3>1. task[p] \in Task
        BY <2>2
      <3> QED BY <2>2, <3>1 DEF Task
    <2> QED BY <2>1, <2>2, <2>3 DEF Task
  <1>5. Frame(p)' /\ task'[p].pc \notin Sending
    BY <1>4 DEF Frame, Sending
  <1>6. HistoryTypes' /\ UNCHANGED <<status, before, crashes, up, pty>>
    BY DEF MarkAttempt, env, history, IInv, TypeOK, HistoryTypes
  <1> QED BY <1>3, <1>4, <1>5, <1>6, WorkStep

LEMMA RetryDequeueStep == ASSUME IInv, NEW p \in Procs, RetryDequeue(p) PROVE IInv'
  <1>1. /\ task[p].pc = "dequeue" /\ task[p].n # MaxRetry /\ task[p].sid \in Sessions
        /\ Unlocked
    BY DEF IInv, Frames, Frame, RetryDequeue, Runs
  <1>2. Shrinks /\ FileTypes'
    BY <1>1, DequeuedHead DEF RetryDequeue, IInv
  <1>3. /\ task' = [task EXCEPT ![p] = task'[p]] /\ task'[p] \in Task
        /\ task'[p].pc = "peek" /\ task'[p].sid = task[p].sid
    <2>1. task \in [Procs -> Task] /\ task[p] \in Task /\ task[p].n + 1 \in 0..MaxRetry
      BY <1>1, TaskSet DEF IInv, Task
    <2> QED BY <2>1 DEF RetryDequeue, Counted, Task, Pcs
  <1>4. Frame(p)' /\ task'[p].pc \notin Sending
    BY <1>1, <1>3 DEF Frame, Sending
  <1>5. HistoryTypes' /\ UNCHANGED <<status, before, crashes, up, pty>>
    BY DEF RetryDequeue, env, history, IInv, TypeOK, HistoryTypes
  <1> QED BY <1>2, <1>3, <1>4, <1>5, WorkStep
LEMMA HookPeekStep ==
    ASSUME IInv, NEW p \in Procs, NEW s \in Sessions, NEW kind \in Kinds, HookPeek(p, s, kind)
    PROVE  IInv'
  <1>1. Shrinks /\ FileTypes'
    BY FileKept DEF HookPeek, IInv
  <1>2. Head(queue[s]) \in Msgs
    BY HeadTailProperties DEF IInv, TypeOK, HookPeek
  <1>3. /\ task' = [task EXCEPT ![p] = task'[p]] /\ task'[p] \in Task
        /\ task'[p].pc = "take" /\ task'[p].sid = s /\ task'[p].msg \in Msgs
    <2>1. [Ready EXCEPT !.pc = "take", !.sid = s, !.msg = Head(queue[s])] \in Task
      BY <1>2, ReadyTask DEF Task, Pcs
    <2> QED BY <1>2, <2>1, TaskSet DEF HookPeek, Ready, IInv
  <1>4. Frame(p)' /\ task'[p].pc \notin Sending
    BY <1>3 DEF Frame, Sending
  <1>5. HistoryTypes' /\ UNCHANGED <<status, before, crashes, up, pty>>
    BY DEF HookPeek, env, history, IInv, TypeOK, HistoryTypes
  <1> QED BY <1>1, <1>3, <1>4, <1>5, WorkStep

LEMMA HookDequeueStep == ASSUME IInv, NEW p \in Procs, HookDequeue(p) PROVE IInv'
  <1>1. /\ task[p].pc = "take" /\ task[p].sid \in Sessions /\ task[p].msg \in Msgs
        /\ Unlocked
    BY DEF IInv, Frames, Frame, HookDequeue, Runs
  <1>2. Shrinks /\ FileTypes'
    BY <1>1, DequeuedHead DEF HookDequeue, IInv
  <1>3. /\ task' = [task EXCEPT ![p] = task'[p]] /\ task'[p] \in Task
        /\ task'[p].pc = "answer"
        /\ task'[p].sid = task[p].sid /\ task'[p].msg = task[p].msg
    BY TaskSet DEF HookDequeue, Goto, IInv, Task, Pcs
  <1>4. Frame(p)' /\ task'[p].pc \notin Sending
    BY <1>1, <1>3 DEF Frame, Sending
  <1>5. HistoryTypes' /\ UNCHANGED <<status, before, crashes, up, pty>>
    BY DEF HookDequeue, env, history, IInv, TypeOK, HistoryTypes
  <1> QED BY <1>2, <1>3, <1>4, <1>5, WorkStep

LEMMA HookAnswerStep == ASSUME IInv, NEW p \in Procs, HookAnswer(p) PROVE IInv'
  <1>1. Shrinks /\ FileTypes'
    BY FileKept DEF HookAnswer, IInv
  <1>2. task[p].msg \in Msgs /\ task[p].sid \in Sessions
    BY DEF IInv, Frames, Frame, HookAnswer, Runs
  <1>3. /\ task' = [task EXCEPT ![p] = task'[p]] /\ task'[p] \in Task
        /\ task'[p].pc = "ready"
    BY TaskSet DEF HookAnswer, Ready, IInv, Task, Pcs
  <1>4. Frame(p)' /\ task'[p].pc \notin Sending
    BY <1>3 DEF Frame, Sending
  <1>5. HistoryTypes' /\ UNCHANGED <<status, before, crashes, up, pty>>
    BY <1>2, TypedType DEF HookAnswer, env, IInv, TypeOK, HistoryTypes
  <1> QED BY <1>1, <1>3, <1>4, <1>5, WorkStep

LEMMA LoseAnswerStep == ASSUME IInv, NEW p \in Procs, LoseAnswer(p) PROVE IInv'
  <1>1. WriteFails
    BY DEF LoseAnswer, WriteFails
  <1>2. Shrinks /\ FileTypes'
    BY <1>1, FailedWrite DEF IInv
  <1>3. /\ task' = [task EXCEPT ![p] = task'[p]] /\ task'[p] \in Task
        /\ task'[p].pc = "ready"
    BY TaskSet DEF LoseAnswer, Ready, IInv, Task, Pcs
  <1>4. Frame(p)' /\ task'[p].pc \notin Sending
    BY <1>3 DEF Frame, Sending
  <1>5. HistoryTypes' /\ UNCHANGED <<status, before, crashes, up, pty>>
    <2>1. task[p].sid \in Sessions
      BY DEF LoseAnswer, Runs, IInv, Frames, Frame
    <2>2. spilled \in [Sessions -> Nat] /\ spilled[task[p].sid] + 1 \in Nat
      BY <2>1 DEF IInv, TypeOK
    <2>3. spilled' \in [Sessions -> Nat]
      BY <2>1, <2>2 DEF LoseAnswer
    <2> QED BY <2>3 DEF LoseAnswer, env, IInv, TypeOK, HistoryTypes
  <1> QED BY <1>2, <1>3, <1>4, <1>5, WorkStep

Statuses == {"unsent", "sending", "delivered", "queued", "refused", "unknown"}

\* A sender is done with its reply without putting it into the file.
LEMMA SettledStep ==
    ASSUME IInv, NEW p \in Procs, task[p].pc \in Sending,
           NEW r \in Task, r.pc \notin Sending, task' = [task EXCEPT ![p] = r],
           r.pc \in {"ready", "flush"},
           NEW outcome \in {"delivered", "refused"},
           status' = [status EXCEPT ![task[p].msg] = outcome],
           UNCHANGED <<before, crashes, up, pty>>,
           HistoryTypes', Shrinks, FileTypes'
    PROVE  IInv'
  <1> DEFINE m == task[p].msg
  <1>1. m \in Msgs /\ status[m] = "sending"
    BY DEF IInv, Frames, Frame
  <1>2. \A u \in Msgs : u # m => status'[u] = status[u]
    BY DEF IInv, TypeOK
  <1>3. TypeOK'
    <2>1. task' \in [Procs -> Task]
      BY TaskSet DEF IInv
    <2>2. status' \in [Msgs -> Statuses]
      BY <1>1 DEF IInv, TypeOK, Statuses
    <2> QED BY <2>1, <2>2 DEF IInv, TypeOK, FileTypes, HistoryTypes, Task, Statuses
  <1>4. Frames'
    BY <1>1, <1>2, TaskSet DEF IInv, Frames, Frame
  <1>5. RowsQueued' /\ FileInSendOrder'
    BY <1>1, <1>2, RowsShrink
  <1>6. Absent' /\ BeforeSettled'
    BY <1>1, <1>2 DEF IInv, FileTypes, BeforeSettled, Settled, TypeOK
  <1> QED BY <1>3, <1>4, <1>5, <1>6 DEF IInv

\* A sender takes a reply that is in no file up, or is done with it.
LEMMA SendStep ==
    ASSUME IInv, NEW p \in Procs, NEW m \in Msgs, Send(p, m) PROVE IInv'
  <1>1. Shrinks /\ FileTypes'
    BY FileKept DEF Send, IInv
  <1>2. /\ task' = [task EXCEPT ![p] = task'[p]] /\ task'[p] \in Task
        /\ task'[p].pc = "pty" /\ task'[p].sid = To[m] /\ task'[p].msg = m
    <2>1. [Ready EXCEPT !.pc = "pty", !.sid = To[m], !.msg = m] \in Task
      BY ReadyTask DEF Task, Pcs
    <2> QED BY <2>1, TaskSet DEF Send, Ready, IInv
  <1>3. /\ p \in Senders /\ status[m] = "unsent" /\ status' = [status EXCEPT ![m] = "sending"]
        /\ before' = [before EXCEPT ![m] = Settled] /\ m \notin Settled
        /\ UNCHANGED <<typed, spilled, crashes, up, pty>>
    BY DEF Send, env, Settled
  <1>4. TypeOK'
    <2>1. task' \in [Procs -> Task]
      BY <1>2, TaskSet DEF IInv
    <2>2. before' \in [Msgs -> SUBSET Msgs]
      BY <1>3 DEF Settled, IInv, TypeOK
    <2>3. status' \in [Msgs -> Statuses]
      BY <1>3 DEF IInv, TypeOK, Statuses
    <2> QED BY <1>1, <1>3, <2>1, <2>2, <2>3 DEF IInv, TypeOK, FileTypes, Task, Statuses
  <1>5. Frames'
    <2>1. \A q \in Procs \ {p} : task'[q] = task[q]
      BY <1>2, TaskSet DEF IInv
    <2>2. \A q \in Procs \ {p} : task[q].pc \in Sending =>
              task[q].msg # m /\ status'[task[q].msg] = status[task[q].msg]
      BY <1>3 DEF IInv, Frames, Frame, TypeOK
    <2>3. Frame(p)' /\ status'[m] = "sending"
      BY <1>2, <1>3 DEF Frame, Sending, IInv, TypeOK
    <2> QED BY <1>2, <2>1, <2>2, <2>3 DEF IInv, Frames, Frame
  <1>6. \A s \in Sessions : Stored(s)' = Stored(s)
    BY StoredKept DEF Send, file
  <1>7. \A s \in Sessions : \A i \in DOMAIN Stored(s) : Stored(s)[i] # m /\ Stored(s)[i] \in Msgs
    BY <1>3, StoredType, ElementOfSeq, LenProperties DEF IInv, RowsQueued
  <1>8. RowsQueued'
    BY <1>3, <1>6, <1>7 DEF IInv, RowsQueued, TypeOK
  <1>9. FileInSendOrder'
    BY <1>3, <1>6, <1>7 DEF IInv, FileInSendOrder, TypeOK
  <1>10. Absent' /\ BeforeSettled'
    BY <1>1, <1>3 DEF IInv, FileTypes, BeforeSettled, Settled, TypeOK
  <1> QED BY <1>4, <1>5, <1>8, <1>9, <1>10 DEF IInv

LEMMA SendPTYStep == ASSUME IInv, NEW p \in Procs, SendPTY(p) PROVE IInv'
  <1> DEFINE m == task[p].msg
  <1>1. Shrinks /\ FileTypes'
    BY FileKept DEF SendPTY, IInv
  <1>2. /\ task[p].pc \in Sending /\ task[p].sid \in Sessions /\ m \in Msgs
        /\ status[m] = "sending"
    BY DEF SendPTY, Runs, Sending, IInv, Frames, Frame
  <1>3. UNCHANGED <<before, spilled, crashes, up, pty>>
    BY DEF SendPTY, env
  <1>4. CASE Goto(p, "check") /\ UNCHANGED <<typed, status>>
    <2>1. /\ task' = [task EXCEPT ![p] = task'[p]] /\ task'[p] \in Task
          /\ task'[p].pc = "check"
          /\ task'[p].sid = task[p].sid /\ task'[p].msg = task[p].msg
      BY <1>4, TaskSet DEF Goto, IInv, Task, Pcs
    <2>2. Frame(p)' /\ HistoryTypes'
      BY <1>2, <1>3, <1>4, <2>1 DEF Frame, Frames, IInv, Sending, TypeOK, HistoryTypes
    <2> QED BY <1>1, <1>2, <1>3, <1>4, <2>1, <2>2, WorkStep
  <1>5. CASE /\ Type(task[p].sid, m) /\ Report(m, "delivered")
             /\ task' = [task EXCEPT ![p] = Ready]
    <2>1. task'[p].pc = "ready" /\ Ready \in Task
      BY <1>5, TaskSet DEF IInv, Ready, Task, Pcs
    <2>2. status' = [status EXCEPT ![task[p].msg] = "delivered"]
      BY <1>5 DEF Report
    <2>3. HistoryTypes' /\ Ready.pc = "ready"
      BY <1>2, <1>3, <1>5, TypedType DEF IInv, TypeOK, HistoryTypes, Ready
    <2>4. task' = [task EXCEPT ![p] = Ready]
      BY <1>5
    <2> QED BY <1>1, <1>2, <1>3, <2>1, <2>2, <2>3, <2>4, SettledStep DEF Sending
  <1> QED BY <1>4, <1>5 DEF SendPTY
LEMMA SendImmediateStep == ASSUME IInv, NEW p \in Procs, SendImmediate(p) PROVE IInv'
  <1> DEFINE m == task[p].msg
  <1>1. Shrinks /\ FileTypes'
    BY FileKept DEF SendImmediate, IInv
  <1>2. /\ task[p].pc \in Sending /\ task[p].sid \in Sessions /\ m \in Msgs
        /\ status[m] = "sending"
    BY DEF SendImmediate, Runs, Sending, IInv, Frames, Frame
  <1>3. UNCHANGED <<before, spilled, crashes, up, pty>>
    BY DEF SendImmediate, env
  <1>4. CASE Goto(p, "enqueue") /\ UNCHANGED <<typed, status>>
    <2>1. /\ task' = [task EXCEPT ![p] = task'[p]] /\ task'[p] \in Task
          /\ task'[p].pc = "enqueue"
          /\ task'[p].sid = task[p].sid /\ task'[p].msg = task[p].msg
      BY <1>4, TaskSet DEF Goto, IInv, Task, Pcs
    <2>2. Frame(p)' /\ HistoryTypes'
      BY <1>2, <1>3, <1>4, <2>1 DEF Frame, Frames, IInv, Sending, TypeOK, HistoryTypes
    <2> QED BY <1>1, <1>2, <1>3, <1>4, <2>1, <2>2, WorkStep
  <1>5. CASE Type(task[p].sid, m) /\ Report(m, "delivered") /\ Goto(p, "flush")
    <2>1. /\ task' = [task EXCEPT ![p] = task'[p]] /\ task'[p] \in Task
          /\ task'[p].pc = "flush"
      BY <1>5, TaskSet DEF Goto, IInv, Task, Pcs
    <2>2. status' = [status EXCEPT ![task[p].msg] = "delivered"]
      BY <1>5 DEF Report
    <2>3. HistoryTypes'
      BY <1>2, <1>3, <1>5, TypedType DEF IInv, TypeOK, HistoryTypes
    <2> QED BY <1>1, <1>2, <1>3, <2>1, <2>2, <2>3, SettledStep DEF Sending
  <1> QED BY <1>4, <1>5 DEF SendImmediate

\* The reply comes last in the file: no other can have been sent after it was
\* settled and stand before it.
LEMMA EnqueueStep == ASSUME IInv, NEW p \in Procs, Enqueue(p) PROVE IInv'
  <1>0. PICK m, s : m = task[p].msg /\ s = task[p].sid
    OBVIOUS
  <1>1. /\ task[p].pc \in Sending /\ s \in Sessions /\ m \in Msgs /\ To[m] = s
        /\ status[m] = "sending" /\ Unlocked /\ queue[s] \in Seq(Msgs)
    BY <1>0 DEF Enqueue, Runs, Sending, IInv, Frames, Frame, TypeOK
  <1>2. UNCHANGED <<typed, spilled, before, crashes, up, pty>> /\ HistoryTypes'
    BY DEF Enqueue, env, history, IInv, TypeOK, HistoryTypes
  <1>3. /\ task' = [task EXCEPT ![p] = task'[p]] /\ task'[p] \in Task
        /\ task'[p].pc = "flush"
    BY TaskSet DEF Enqueue, Goto, IInv, Task, Pcs
  <1>4. CASE WriteFails /\ Report(m, "refused")
    <2>1. Shrinks /\ FileTypes'
      BY <1>4, FailedWrite DEF IInv
    <2>2. status' = [status EXCEPT ![task[p].msg] = "refused"]
      BY <1>0, <1>4 DEF Report
    <2> QED BY <1>0, <1>1, <1>2, <1>3, <2>1, <2>2, SettledStep DEF Sending
  <1>5. CASE Write(p, s, Enqueued(queue[s], m)) /\ Report(m, "queued")
    <2>1. Enqueued(queue[s], m) = Append(Stored(s), m) /\ Stored(s) = queue[s]
      BY <1>1, StoredUnlocked DEF Enqueued
    <2>2. /\ Append(Stored(s), m) \in Seq(Msgs)
          /\ Len(Stored(s)) \in Nat
          /\ DOMAIN Stored(s) = 1..Len(Stored(s))
          /\ DOMAIN Append(Stored(s), m) = 1..(Len(Stored(s)) + 1)
          /\ \A i \in DOMAIN Stored(s) : Append(Stored(s), m)[i] = Stored(s)[i]
          /\ Append(Stored(s), m)[Len(Stored(s)) + 1] = m
      BY <1>1, <2>1, AppendProperties, LenProperties
    <2>3. /\ Stored(s)' = Append(Stored(s), m)
          /\ \A u \in Sessions \ {s} : Stored(u)' = Stored(u)
          /\ FileTypes'
      <3>1. Write(p, s, Append(Stored(s), m))
        BY <1>5, <2>1
      <3> QED BY <1>1, <2>2, <3>1, Written DEF FileTypes, IInv, TypeOK
    <2>4. /\ status' = [status EXCEPT ![m] = "queued"]
          /\ status'[m] = "queued" /\ \A u \in Msgs \ {m} : status'[u] = status[u]
      BY <1>1, <1>5 DEF Report, IInv, TypeOK
    <2>5. \A u \in Sessions : \A i \in DOMAIN Stored(u) :
              Stored(u)[i] \in Msgs /\ Stored(u)[i] # m
      BY <1>1, StoredType, ElementOfSeq, LenProperties DEF IInv, RowsQueued
    <2>6. TypeOK'
      <3>1. task' \in [Procs -> Task]
        BY <1>3, TaskSet DEF IInv
      <3>2. status' \in [Msgs -> Statuses]
        BY <2>4 DEF IInv, TypeOK, Statuses
      <3> QED BY <1>2, <2>3, <3>1, <3>2 DEF IInv, TypeOK, FileTypes, Task, Statuses
    <2>7. Frames'
      <3>1. \A q \in Procs \ {p} : task'[q] = task[q]
        BY <1>3, TaskSet DEF IInv
      <3>2. \A q \in Procs \ {p} : task[q].pc \in Sending =>
                status'[task[q].msg] = status[task[q].msg]
        BY <1>0, <1>1, <2>4 DEF IInv, Frames, Frame
      <3>3. Frame(p)' /\ task'[p].pc \notin Sending
        BY <1>3 DEF Frame, Sending
      <3> QED BY <3>1, <3>2, <3>3 DEF IInv, Frames, Frame
    <2>12. \A u \in Sessions : \A i \in DOMAIN Stored(u)' :
               \/ u = s /\ i = Len(Stored(s)) + 1
               \/ i \in DOMAIN Stored(u) /\ Stored(u)'[i] = Stored(u)[i]
      <3> SUFFICES ASSUME NEW u \in Sessions, NEW i \in DOMAIN Stored(u)'
                   PROVE  \/ u = s /\ i = Len(Stored(s)) + 1
                          \/ i \in DOMAIN Stored(u) /\ Stored(u)'[i] = Stored(u)[i]
        OBVIOUS
      <3>1. CASE u = s
        <4> DEFINE old == Stored(s)
                   new == Stored(u)'
        <4>1. /\ new = Append(old, m) /\ old = Stored(u)
              /\ Len(old) \in Nat /\ DOMAIN old = 1..Len(old)
              /\ DOMAIN Append(old, m) = 1..(Len(old) + 1)
              /\ \A k \in DOMAIN old : Append(old, m)[k] = old[k]
          BY <2>2, <2>3, <3>1
        <4> HIDE DEF old, new
        <4>2. i \in DOMAIN new
          BY DEF new
        <4>3. i = Len(old) + 1 \/ (i \in DOMAIN old /\ new[i] = old[i])
          BY <4>1, <4>2
        <4> QED BY <3>1, <4>1, <4>3 DEF old, new
      <3>2. CASE u # s
        BY <2>3, <3>2
      <3> QED BY <3>1, <3>2
    <2>8. RowsQueued'
      <3> SUFFICES ASSUME NEW u \in Sessions, NEW i \in DOMAIN Stored(u)'
                   PROVE  status'[Stored(u)'[i]] = "queued" /\ To[Stored(u)'[i]] = u
        BY DEF RowsQueued
      <3>1. CASE u = s /\ i = Len(Stored(s)) + 1
        <4>1. Stored(u)'[i] = m
          BY <2>2, <2>3, <3>1
        <4> QED BY <1>1, <2>4, <3>1, <4>1
      <3>2. CASE u # s \/ i # Len(Stored(s)) + 1
        <4>1. i \in DOMAIN Stored(u) /\ Stored(u)'[i] = Stored(u)[i]
          BY <2>12, <3>2
        <4> QED BY <2>4, <2>5, <4>1 DEF IInv, RowsQueued
      <3> QED BY <3>1, <3>2
    <2>9. m \notin Settled /\ \A u \in Msgs : m \notin before[u]
      BY <1>1 DEF IInv, BeforeSettled, Settled
    <2>10. FileInSendOrder'
      <3> SUFFICES ASSUME NEW u \in Sessions,
                          NEW i \in DOMAIN Stored(u)', NEW j \in DOMAIN Stored(u)', i < j
                   PROVE  /\ Stored(u)'[i] # Stored(u)'[j]
                          /\ Stored(u)'[j] \notin before[Stored(u)'[i]]
        BY <1>2 DEF FileInSendOrder
      <3>3. i \in DOMAIN Stored(u) /\ Stored(u)'[i] = Stored(u)[i]
        <4>1. CASE u = s
          <5>1. j \in 1..(Len(Stored(s)) + 1) /\ i \in 1..(Len(Stored(s)) + 1)
            BY <2>2, <2>3, <4>1
          <5>2. i # Len(Stored(s)) + 1
            BY <2>2, <5>1
          <5> QED BY <2>12, <4>1, <5>2
        <4>2. CASE u # s
          BY <2>12, <4>2
        <4> QED BY <4>1, <4>2
      <3>1. CASE u = s /\ j = Len(Stored(s)) + 1
        <4>1. i \in DOMAIN Stored(s) /\ Stored(u)'[i] = Stored(s)[i] /\ Stored(u)'[j] = m
          BY <2>2, <2>3, <3>1, <3>3
        <4> QED BY <2>5, <2>9, <4>1, <1>1
      <3>2. CASE u # s \/ j # Len(Stored(s)) + 1
        <4>1. /\ i \in DOMAIN Stored(u) /\ Stored(u)'[i] = Stored(u)[i]
              /\ j \in DOMAIN Stored(u) /\ Stored(u)'[j] = Stored(u)[j]
          BY <2>2, <2>12, <3>2, <3>3
        <4> QED BY <4>1 DEF IInv, FileInSendOrder
      <3> QED BY <3>1, <3>2
    <2>11. Absent' /\ BeforeSettled'
      BY <1>2, <2>3, <2>4 DEF IInv, FileTypes, BeforeSettled, Settled
    <2> QED BY <2>6, <2>7, <2>8, <2>10, <2>11 DEF IInv
  <1> QED BY <1>0, <1>4, <1>5 DEF Enqueue

LEMMA RenameStep == ASSUME IInv, Rename PROVE IInv'
  <1>1. Shrinks /\ UNCHANGED <<faults, up, pty, task, status, typed, before, spilled, crashes>>
    BY Renamed DEF Rename, env, history, Shrinks, IInv
  <1>2. TypeOK' /\ Absent'
    BY <1>1, Renamed DEF IInv, TypeOK, Absent
  <1>3. RowsQueued' /\ FileInSendOrder'
    BY <1>1, RowsShrink
  <1>4. Frames' /\ BeforeSettled'
    BY <1>1 DEF IInv, Frames, Frame, BeforeSettled, Settled
  <1> QED BY <1>2, <1>3, <1>4 DEF IInv

LEMMA EnvironmentStep ==
    ASSUME IInv, UNCHANGED <<file, task, status, history, crashes>>,
           up' \in SUBSET Reachable, pty' \in SUBSET PTYs
    PROVE  IInv'
  <1>1. Shrinks /\ FileTypes' /\ UNCHANGED <<typed, before, spilled>>
    BY FileKept DEF IInv, history
  <1>2. TypeOK' /\ Absent'
    BY <1>1 DEF IInv, TypeOK, FileTypes
  <1>3. RowsQueued' /\ FileInSendOrder'
    BY <1>1, RowsShrink
  <1>4. Frames' /\ BeforeSettled'
    BY <1>1 DEF IInv, Frames, Frame, BeforeSettled, Settled
  <1> QED BY <1>2, <1>3, <1>4 DEF IInv

\* A file that was being replaced is gone; the others are what they were.
LEMMA CrashStep == ASSUME IInv, Crash PROVE IInv'
  <1>1. /\ queue' = queue /\ faults' = faults /\ writing' = NoWrite /\ before' = before
        /\ typed' = typed /\ crashes' \in 0..MaxCrashes
        /\ up' \in SUBSET Reachable /\ pty' \in SUBSET PTYs
        /\ task' = [p \in Procs |-> Ready]
        /\ \A m \in Msgs : status'[m] = IF status[m] = "sending" THEN "unknown" ELSE status[m]
    BY DEF Crash, IInv, TypeOK
  <1>2. TypeOK'
    <2>1. task' \in [Procs -> Task]
      BY <1>1, ReadyTask
    <2>2. status' \in [Msgs -> Statuses]
      BY DEF Crash, IInv, TypeOK, Statuses
    <2>3. spilled' \in [Sessions -> Nat]
      <3> SUFFICES ASSUME NEW s \in Sessions PROVE spilled'[s] \in Nat
        BY DEF Crash
      <3>1. spilled[s] \in Nat
        BY DEF IInv, TypeOK
      <3>2. Cardinality(InHand(s)) \in Nat
        BY FiniteAssumption, FS_Subset, FS_CardinalityType DEF InHand
      <3>3. writing.sid = s => Len(writing.rows) \in Nat
        BY LenProperties DEF IInv, TypeOK, NoWrite
      <3> QED BY <3>1, <3>2, <3>3 DEF Crash
    <2> QED BY <1>1, <2>1, <2>2, <2>3 DEF IInv, TypeOK, Task, Statuses
  <1>3. \A s \in Sessions : Stored(s)' = Stored(s) \/ Stored(s)' = <<>>
    BY <1>1 DEF Stored, NoWrite, IInv, Absent
  <1>4. \A s \in Sessions : \A i \in DOMAIN Stored(s) : Stored(s)[i] \in Msgs
    BY StoredType, ElementOfSeq, LenProperties DEF IInv
  <1>5. RowsQueued' /\ FileInSendOrder'
    BY <1>1, <1>3, <1>4 DEF IInv, RowsQueued, FileInSendOrder
  <1>6. Frames' /\ Absent' /\ BeforeSettled'
    BY <1>1 DEF IInv, Frames, Frame, Ready, Sending, Absent, BeforeSettled, Settled
  <1> QED BY <1>2, <1>5, <1>6 DEF IInv
LEMMA NextIInv == IInv /\ [Next]_vars => IInv'
  <1> SUFFICES ASSUME IInv, [Next]_vars PROVE IInv'
    OBVIOUS
  <1>1. ASSUME NEW p \in Procs, NEW m \in Msgs, Send(p, m) PROVE IInv'
    BY <1>1, SendStep
  <1>2. ASSUME NEW p \in Procs, SenderStep(p) PROVE IInv'
    BY <1>2, SendPTYStep, CheckPendingStep, SendImmediateStep, EnqueueStep DEF SenderStep
  <1>3. ASSUME NEW p \in Procs, DrainStep(p) PROVE IInv'
    BY <1>3, ListStep, NextSessionStep, PeekStep, RetryImmediateStep, MarkAttemptStep,
       RetryDequeueStep DEF DrainStep
  <1>4. ASSUME NEW p \in Procs, HookStep(p) \/ StartTicker(p) PROVE IInv'
    BY <1>4, HookDequeueStep, HookAnswerStep, LoseAnswerStep, StartTickerStep DEF HookStep
  <1>5. ASSUME NEW p \in Procs, NEW s \in Sessions, StartNotifier(p, s) PROVE IInv'
    BY <1>5, StartNotifierStep
  <1>6. ASSUME NEW p \in Procs, NEW s \in Sessions, NEW kind \in Kinds, HookPeek(p, s, kind)
        PROVE  IInv'
    BY <1>6, HookPeekStep
  <1>7. ASSUME NEW s \in Sessions, EndpointChanges(s) \/ PTYChanges(s) PROVE IInv'
    BY <1>7, EnvironmentStep DEF EndpointChanges, PTYChanges, IInv, TypeOK
  <1>8. CASE UNCHANGED vars
    BY <1>8, EnvironmentStep DEF vars, env, IInv, TypeOK
  <1>9. CASE Rename \/ Crash
    BY <1>9, RenameStep, CrashStep
  <1> QED BY <1>1, <1>2, <1>3, <1>4, <1>5, <1>6, <1>7, <1>8, <1>9 DEF Next

LEMMA InvHolds == Spec => []IInv
  BY InitIInv, NextIInv, PTL DEF Spec

(***************************************************************************)
(* The theorems.                                                           *)
(***************************************************************************)

\* Files, frames and statuses keep their types; RetryPending stays within its
\* bound.
THEOREM TypeCorrect == Spec => []TypeOK
  <1>1. IInv => TypeOK
    BY DEF IInv
  <1> QED BY <1>1, InvHolds, PTL

\* The outbox file of a session holds no reply twice and never one before a
\* reply that was settled when its send began, whatever drainers, hooks, failing
\* writes and crashes do in between (outbox.go:82-141).
THEOREM FileKeepsSendOrder == Spec => []FileInSendOrder
  <1>1. IInv => FileInSendOrder
    BY DEF IInv
  <1> QED BY <1>1, InvHolds, PTL

(***************************************************************************)
(* One hook handler and no other way to the agent: the outbox is a         *)
(* ReplyQueue.                                                             *)
(***************************************************************************)

OnlyHook ==
    /\ Reachable = {} /\ PTYs = {} /\ MaxFaults = 0 /\ MaxCrashes = 0
    /\ \E k : Hooks = {k}

Taking == {"take", "answer"}

\* No drainer gets as far as removing a row, so the row the handler has looked at
\* is still the first.
AtHook ==
    /\ \A p \in Procs : task[p].pc # "dequeue"
    /\ \A p \in Procs : task[p].pc \in Taking => p \in Hooks /\ status[task[p].msg] = "queued"
    /\ \A p \in Procs, s \in Sessions : task[p].pc = "take" /\ task[p].sid = s =>
           Stored(s) # <<>> /\ Head(Stored(s)) = task[p].msg
    /\ \A s \in Sessions : \A i \in DOMAIN typed[s] : status[typed[s][i]] = "queued"

LEMMA InitAtHook == Init => AtHook
  BY DEF Init, AtHook, Ready, Taking

\* What the handler is answering with counts as received.
LEMMA ReceivedIs ==
    ASSUME TypeOK, AtHook, NEW k, Hooks = {k}, NEW s \in Sessions
    PROVE  Received(s) = IF task[k].pc = "answer" /\ task[k].sid = s
                         THEN Append(typed[s], task[k].msg) ELSE typed[s]
  <1>0. k \in Procs /\ typed[s] \in Seq(Msgs)
    BY DEF Procs, TypeOK
  <1>1. \A p \in Procs : p \in InHand(s) => p = k
    BY DEF InHand, AtHook, Taking
  <1>2. CASE task[k].pc = "answer" /\ task[k].sid = s
    <2>1. InHand(s) = {k}
      BY <1>0, <1>1, <1>2 DEF InHand
    <2>2. Received(s) = typed[s] \o <<task[k].msg>>
      BY <2>1 DEF Received
    <2>3. task[k].msg \in Msgs \cup {None}
      BY <1>0 DEF TypeOK
    <2>4. typed[s] \in Seq(Msgs \cup {None})
      BY <1>0, SeqMonotonic
    <2> QED BY <1>2, <2>2, <2>3, <2>4, AppendIsConcat
  <1>3. CASE ~(task[k].pc = "answer" /\ task[k].sid = s)
    <2>1. InHand(s) = {}
      BY <1>0, <1>1, <1>3 DEF InHand
    <2> QED BY <1>0, <1>3, <2>1, ConcatEmptySeq DEF Received
  <1> QED BY <1>2, <1>3

LEMMA ReceivedWillBe ==
    ASSUME TypeOK', AtHook', NEW k, Hooks = {k}, NEW s \in Sessions
    PROVE  Received(s)' = IF task'[k].pc = "answer" /\ task'[k].sid = s
                          THEN Append(typed'[s], task'[k].msg) ELSE typed'[s]
  <1>0. k \in Procs /\ typed'[s] \in Seq(Msgs)
    BY DEF Procs, TypeOK
  <1>1. \A p \in Procs : p \in InHand(s)' => p = k
    BY DEF InHand, AtHook, Taking
  <1>2. CASE task'[k].pc = "answer" /\ task'[k].sid = s
    <2>1. InHand(s)' = {k}
      BY <1>0, <1>1, <1>2 DEF InHand
    <2>2. Received(s)' = typed'[s] \o <<task'[k].msg>>
      BY <2>1 DEF Received
    <2>3. task'[k].msg \in Msgs \cup {None}
      BY <1>0 DEF TypeOK
    <2>4. typed'[s] \in Seq(Msgs \cup {None})
      BY <1>0, SeqMonotonic
    <2> QED BY <1>2, <2>2, <2>3, <2>4, AppendIsConcat
  <1>3. CASE ~(task'[k].pc = "answer" /\ task'[k].sid = s)
    <2>1. InHand(s)' = {}
      BY <1>0, <1>1, <1>3 DEF InHand
    <2> QED BY <1>0, <1>3, <2>1, ConcatEmptySeq DEF Received
  <1> QED BY <1>2, <1>3

\* Steps that leave the rows, the agent and the handler's answer alone.
StandStill ==
    /\ \A s \in Sessions : Stored(s)' = Stored(s)
    /\ typed' = typed
    /\ \A m \in Msgs : status[m] = "queued" => status'[m] = "queued"
    /\ \A p \in Procs : task'[p].pc # "dequeue"
    /\ \A p \in Procs : task'[p].pc \in Taking => task'[p] = task[p]
    /\ \A p \in Procs : task[p].pc = "answer" => task'[p] = task[p]

LEMMA StandingStill ==
    ASSUME IInv, IInv', AtHook, OnlyHook, StandStill
    PROVE  AtHook' /\ UNCHANGED Queue!qvars
  <1>1. PICK k : Hooks = {k}
    BY DEF OnlyHook
  <1>2. \A p \in Procs : task[p].pc \in Taking => task[p].msg \in Msgs
    BY DEF IInv, Frames, Frame, Taking
  <1>3. \A s \in Sessions : \A i \in DOMAIN typed[s] : typed[s][i] \in Msgs
    BY ElementOfSeq, LenProperties DEF IInv, TypeOK
  <1>4. AtHook'
    BY <1>2, <1>3 DEF AtHook, StandStill, Taking
  <1>5. \A s \in Sessions : Received(s)' = Received(s)
    <2> SUFFICES ASSUME NEW s \in Sessions PROVE Received(s)' = Received(s)
      OBVIOUS
    <2>1. k \in Procs
      BY <1>1 DEF Procs
    <2>2. Received(s) = IF task[k].pc = "answer" /\ task[k].sid = s
                        THEN Append(typed[s], task[k].msg) ELSE typed[s]
      BY <1>1, ReceivedIs DEF IInv
    <2>3. Received(s)' = IF task'[k].pc = "answer" /\ task'[k].sid = s
                         THEN Append(typed'[s], task'[k].msg) ELSE typed'[s]
      BY <1>1, <1>4, ReceivedWillBe DEF IInv
    <2> QED BY <2>1, <2>2, <2>3 DEF StandStill, Taking
  <1>6. [s \in Sessions |-> Stored(s)]' = [s \in Sessions |-> Stored(s)]
    BY DEF StandStill
  <1>7. [s \in Sessions |-> Received(s)]' = [s \in Sessions |-> Received(s)]
    BY <1>5
  <1> QED BY <1>4, <1>6, <1>7 DEF Queue!qvars

\* Nothing reaches the agent but its hook, and no write fails.
LEMMA Unreached ==
    ASSUME TypeOK, OnlyHook
    PROVE  /\ up = {} /\ pty = {} /\ ~WriteFails /\ ~Crash
           /\ \A p \in Procs : ~LoseAnswer(p)
  BY DEF TypeOK, OnlyHook, WriteFails, LoseAnswer, Crash

\* A step of one goroutine, neither into nor out of the handler's hands.
LEMMA OneStandsStill ==
    ASSUME TypeOK, NEW p \in Procs, task' = [task EXCEPT ![p] = task'[p]],
           task[p].pc # "answer", task'[p].pc \notin Taking \cup {"dequeue"}, AtHook,
           \A s \in Sessions : Stored(s)' = Stored(s), UNCHANGED typed,
           \A m \in Msgs : status[m] = "queued" => status'[m] = "queued"
    PROVE  StandStill
  <1>1. \A q \in Procs \ {p} : task'[q] = task[q]
    BY DEF TypeOK
  <1> QED BY <1>1 DEF StandStill, AtHook

LEMMA SendersStandStill ==
    ASSUME IInv, AtHook, OnlyHook, NEW p \in Procs,
           \/ \E m \in Msgs : Send(p, m)
           \/ SendPTY(p) \/ CheckPending(p) \/ SendImmediate(p) \/ StartTicker(p)
    PROVE  StandStill
  <1>0. up = {} /\ pty = {}
    BY Unreached DEF IInv
  <1>1. UNCHANGED <<queue, writing, typed>>
    BY <1>0 DEF Send, SendPTY, CheckPending, SendImmediate, StartTicker, file, history
  <1>2. \A m \in Msgs : status[m] = "queued" => status'[m] = "queued"
    BY <1>0 DEF Send, SendPTY, CheckPending, SendImmediate, StartTicker, IInv, TypeOK
  <1>3. /\ task' = [task EXCEPT ![p] = task'[p]]
        /\ task[p].pc # "answer" /\ task'[p].pc \notin Taking \cup {"dequeue"}
    <2>0. task \in [Procs -> Task]
      BY TaskSet DEF IInv
    <2>1. ASSUME NEW m \in Msgs, Send(p, m)
          PROVE  /\ task' = [task EXCEPT ![p] = task'[p]]
                 /\ task[p].pc # "answer" /\ task'[p].pc \notin Taking \cup {"dequeue"}
      BY <2>0, <2>1 DEF Send, Runs, Ready, Taking
    <2>2. ASSUME SendPTY(p)
          PROVE  /\ task' = [task EXCEPT ![p] = task'[p]]
                 /\ task[p].pc # "answer" /\ task'[p].pc \notin Taking \cup {"dequeue"}
      BY <1>0, <2>0, <2>2 DEF SendPTY, Goto, Runs, Taking, Task
    <2>3. ASSUME CheckPending(p)
          PROVE  /\ task' = [task EXCEPT ![p] = task'[p]]
                 /\ task[p].pc # "answer" /\ task'[p].pc \notin Taking \cup {"dequeue"}
      BY <2>0, <2>3 DEF CheckPending, Goto, Runs, Taking, Task
    <2>4. ASSUME SendImmediate(p) \/ StartTicker(p)
          PROVE  /\ task' = [task EXCEPT ![p] = task'[p]]
                 /\ task[p].pc # "answer" /\ task'[p].pc \notin Taking \cup {"dequeue"}
      BY <1>0, <2>0, <2>4 DEF SendImmediate, StartTicker, Goto, Runs, Taking, Task
    <2> QED BY <2>1, <2>2, <2>3, <2>4
  <1> QED BY <1>1, <1>2, <1>3, StoredKept, OneStandsStill DEF IInv

LEMMA DrainersStandStill ==
    ASSUME IInv, AtHook, OnlyHook, NEW p \in Procs,
           List(p) \/ NextSession(p) \/ Peek(p) \/ RetryImmediate(p)
    PROVE  StandStill
  <1>0. up = {}
    BY Unreached DEF IInv
  <1>1. UNCHANGED <<queue, writing, typed, status>>
    BY <1>0 DEF List, NextSession, Peek, RetryImmediate, file, history
  <1>2. /\ task' = [task EXCEPT ![p] = task'[p]]
        /\ task[p].pc # "answer" /\ task'[p].pc \notin Taking \cup {"dequeue"}
    <2>0. task \in [Procs -> Task]
      BY TaskSet DEF IInv
    <2>1. ASSUME List(p)
          PROVE  /\ task' = [task EXCEPT ![p] = task'[p]]
                 /\ task[p].pc # "answer" /\ task'[p].pc \notin Taking \cup {"dequeue"}
      BY <2>0, <2>1 DEF List, Runs, Ready, Taking
    <2>2. ASSUME NextSession(p)
          PROVE  /\ task' = [task EXCEPT ![p] = task'[p]]
                 /\ task[p].pc # "answer" /\ task'[p].pc \notin Taking \cup {"dequeue"}
      BY <2>0, <2>2 DEF NextSession, Runs, Ready, Taking
    <2>3. ASSUME Peek(p)
          PROVE  /\ task' = [task EXCEPT ![p] = task'[p]]
                 /\ task[p].pc # "answer" /\ task'[p].pc \notin Taking \cup {"dequeue"}
      BY <2>0, <2>3 DEF Peek, Runs, Taking, Task
    <2>4. ASSUME RetryImmediate(p)
          PROVE  /\ task' = [task EXCEPT ![p] = task'[p]]
                 /\ task[p].pc # "answer" /\ task'[p].pc \notin Taking \cup {"dequeue"}
      BY <1>0, <2>0, <2>4 DEF RetryImmediate, AfterAttempt, Goto, Runs, Taking, Task
    <2> QED BY <2>1, <2>2, <2>3, <2>4
  <1> QED BY <1>1, <1>2, StoredKept, OneStandsStill DEF IInv

\* The file that MarkAttempt rewrites stays the same.
LEMMA MarkStandsStill ==
    ASSUME IInv, AtHook, OnlyHook, NEW p \in Procs, MarkAttempt(p) PROVE StandStill
  <1>0. PICK s : s = task[p].sid
    OBVIOUS
  <1>1. s \in Sessions /\ Unlocked /\ queue[s] \in Seq(Msgs)
    BY <1>0 DEF IInv, TypeOK, Frames, Frame, MarkAttempt, Runs
  <1>2. Write(p, s, queue[s]) \/ UNCHANGED file
    BY <1>0, Unreached DEF MarkAttempt, IInv
  <1>3. \A u \in Sessions : Stored(u)' = Stored(u)
    BY <1>1, <1>2, Written, StoredUnlocked, StoredKept DEF IInv, file
  <1>4. /\ task' = [task EXCEPT ![p] = task'[p]]
        /\ task[p].pc # "answer" /\ task'[p].pc \notin Taking \cup {"dequeue"}
        /\ UNCHANGED <<status, typed>>
    <2>1. /\ task' = [task EXCEPT ![p].pc = "next", ![p].msg = None]
          /\ task[p].pc = "mark" /\ UNCHANGED <<status, typed>>
      BY DEF MarkAttempt, Runs, history
    <2>2. task \in [Procs -> Task]
      BY TaskSet DEF IInv
    <2> QED BY <2>1, <2>2 DEF Taking, Task
  <1> QED BY <1>3, <1>4, OneStandsStill DEF IInv

LEMMA OthersStandStill ==
    ASSUME IInv, AtHook, OnlyHook, Rename \/ UNCHANGED vars PROVE StandStill
  <1>1. \A s \in Sessions : Stored(s)' = Stored(s)
    BY Renamed, StoredKept DEF vars, file, IInv
  <1>2. UNCHANGED <<task, typed, status>>
    BY DEF Rename, vars, history
  <1> QED BY <1>1, <1>2 DEF StandStill, AtHook

\* The handler looks at the first row; nothing is taken yet.
LEMMA PeekIsStutter ==
    ASSUME IInv, IInv', AtHook, OnlyHook, NEW p \in Procs, NEW s \in Sessions,
           NEW kind \in Kinds, HookPeek(p, s, kind)
    PROVE  AtHook' /\ UNCHANGED Queue!qvars
  <1>1. PICK k : Hooks = {k}
    BY DEF OnlyHook
  <1>2. /\ p = k /\ Unlocked /\ queue[s] # <<>> /\ UNCHANGED <<queue, writing, typed, status>>
    BY <1>1 DEF HookPeek, file, history
  <1>3. /\ \A q \in Procs \ {p} : task'[q] = task[q]
        /\ task[p].pc = "ready"
        /\ task'[p].pc = "take" /\ task'[p].sid = s /\ task'[p].msg = Head(queue[s])
    BY TaskSet DEF HookPeek, Runs, Ready, IInv
  <1>4. \A u \in Sessions : Stored(u)' = Stored(u) /\ Stored(u) = queue[u]
    BY <1>2, StoredKept, StoredUnlocked
  <1>5. status[Head(queue[s])] = "queued"
    <2>1. 1 \in DOMAIN Stored(s) /\ Head(Stored(s)) = Stored(s)[1]
      BY <1>2, <1>4, StoredType, EmptySeq, LenProperties, HeadTailProperties DEF IInv
    <2> QED BY <1>4, <2>1 DEF IInv, RowsQueued
  <1>6. AtHook'
    BY <1>1, <1>2, <1>3, <1>4, <1>5 DEF AtHook, Taking
  <1>7. \A u \in Sessions : Received(u)' = Received(u)
    <2> SUFFICES ASSUME NEW u \in Sessions PROVE Received(u)' = Received(u)
      OBVIOUS
    <2>1. Received(u) = typed[u]
      BY <1>1, <1>2, <1>3, ReceivedIs DEF IInv
    <2>2. Received(u)' = typed'[u]
      BY <1>1, <1>2, <1>3, <1>6, ReceivedWillBe DEF IInv
    <2> QED BY <1>2, <2>1, <2>2
  <1>8. [u \in Sessions |-> Stored(u)]' = [u \in Sessions |-> Stored(u)]
    BY <1>4
  <1>9. [u \in Sessions |-> Received(u)]' = [u \in Sessions |-> Received(u)]
    BY <1>7
  <1> QED BY <1>6, <1>8, <1>9 DEF Queue!qvars

\* A reply that is in the file or with the agent was queued before, so this one
\* is in neither.
LEMMA EnqueueIsPut ==
    ASSUME IInv, IInv', AtHook, OnlyHook, NEW p \in Procs, Enqueue(p)
    PROVE  AtHook' /\ Queue!QNext
  <1>0. PICK k : Hooks = {k}
    BY DEF OnlyHook
  <1>1. PICK m, s : m = task[p].msg /\ s = task[p].sid
    OBVIOUS
  <1>2. /\ s \in Sessions /\ m \in Msgs /\ status[m] = "sending" /\ Unlocked
        /\ Stored(s) \in Seq(Msgs) /\ Stored(s) = queue[s]
        /\ k \in Procs /\ p # k /\ typed \in [Sessions -> Seq(Msgs)] /\ typed' = typed
    <2>1. /\ p \in Senders /\ s \in Sessions /\ m \in Msgs /\ status[m] = "sending"
          /\ Unlocked
      BY <1>1 DEF Enqueue, Runs, Sending, IInv, Frames, Frame
    <2>2. k \in Procs /\ p # k
      BY <1>0, <2>1, DistinctRoles DEF Procs
    <2>3. typed \in [Sessions -> Seq(Msgs)] /\ typed' = typed
      BY DEF Enqueue, history, IInv, TypeOK
    <2> QED BY <2>1, <2>2, <2>3, StoredUnlocked, StoredType DEF IInv
  <1>3. Write(p, s, Append(Stored(s), m)) /\ Report(m, "queued")
    BY <1>1, <1>2, Unreached DEF Enqueue, Enqueued, IInv
  <1>4. Append(Stored(s), m) \in Seq(Msgs)
    BY <1>2, AppendProperties
  <1>5. /\ Stored(s)' = Append(Stored(s), m)
        /\ \A u \in Sessions \ {s} : Stored(u)' = Stored(u)
    BY <1>2, <1>3, <1>4, Written DEF IInv
  <1>6. /\ \A q \in Procs \ {p} : task'[q] = task[q]
        /\ task'[p].pc = "flush" /\ task[p].pc = "enqueue"
    BY TaskSet DEF Enqueue, Goto, Runs, IInv, Task
  <1>7. status'[m] = "queued" /\ \A u \in Msgs \ {m} : status'[u] = status[u]
    BY <1>2, <1>3 DEF Report, IInv, TypeOK
  <1>8. \A q \in Procs : task[q].pc \in Taking => task[q].msg \in Msgs
    BY DEF IInv, Frames, Frame, Taking
  <1>9. \A u \in Sessions : \A i \in DOMAIN typed[u] : typed[u][i] \in Msgs
    BY ElementOfSeq, LenProperties DEF IInv, TypeOK
  <1>10. Stored(s) # <<>> => Append(Stored(s), m) # <<>>
                             /\ Head(Append(Stored(s), m)) = Head(Stored(s))
    <2>1. Append(Stored(s), m) # <<>>
      <3> DEFINE rows == Stored(s)
      <3>1. rows \in Seq(Msgs) /\ m \in Msgs
        BY <1>2
      <3> HIDE DEF rows
      <3>2. Append(rows, m) # <<>>
        BY <3>1, AppendProperties
      <3> QED BY <3>2 DEF rows
    <2>2. Head(Append(Stored(s), m)) = IF Stored(s) = <<>> THEN m ELSE Head(Stored(s))
      BY <1>2, HeadTailAppend
    <2> QED BY <2>1, <2>2
  <1>11. AtHook'
    <2>1. /\ \A q \in Procs : task'[q].pc # "dequeue"
          /\ \A q \in Procs : task'[q].pc \in Taking =>
                 q \in Hooks /\ status'[task'[q].msg] = "queued"
      BY <1>6, <1>7, <1>8 DEF AtHook, Taking
    <2>2. ASSUME NEW q \in Procs, NEW u \in Sessions, task'[q].pc = "take", task'[q].sid = u
          PROVE  Stored(u)' # <<>> /\ Head(Stored(u)') = task'[q].msg
      <3>1. /\ task'[q] = task[q]
            /\ Stored(u) # <<>> /\ Head(Stored(u)) = task[q].msg
        BY <1>6, <2>2 DEF AtHook
      <3>2. CASE u = s
        BY <1>5, <1>10, <3>1, <3>2 DEF Stored
      <3>3. CASE u # s
        BY <1>5, <3>1, <3>3
      <3> QED BY <3>2, <3>3
    <2>3. \A u \in Sessions : \A i \in DOMAIN typed'[u] : status'[typed'[u][i]] = "queued"
      BY <1>2, <1>7, <1>9 DEF AtHook
    <2> QED BY <2>1, <2>2, <2>3 DEF AtHook
  <1>12. ASSUME NEW u \in Sessions PROVE Received(u)' = Received(u)
    <2>1. Received(u) = IF task[k].pc = "answer" /\ task[k].sid = u
                        THEN Append(typed[u], task[k].msg) ELSE typed[u]
      BY <1>0, ReceivedIs DEF IInv
    <2>2. Received(u)' = IF task'[k].pc = "answer" /\ task'[k].sid = u
                         THEN Append(typed'[u], task'[k].msg) ELSE typed'[u]
      BY <1>0, <1>11, ReceivedWillBe DEF IInv
    <2> QED BY <1>2, <1>6, <2>1, <2>2
  <1>13. \A i \in DOMAIN (Stored(s) \o Received(s)) : (Stored(s) \o Received(s))[i] # m
    <2>1. \A i \in DOMAIN Stored(s) : Stored(s)[i] # m
      BY <1>2 DEF IInv, RowsQueued
    <2>2. Received(s) \in Seq(Msgs) /\ \A i \in DOMAIN Received(s) : Received(s)[i] # m
      <3>1. Received(s) = IF task[k].pc = "answer" /\ task[k].sid = s
                          THEN Append(typed[s], task[k].msg) ELSE typed[s]
        BY <1>0, <1>2, ReceivedIs DEF IInv
      <3>2. typed[s] \in Seq(Msgs) /\ \A i \in DOMAIN typed[s] : typed[s][i] # m
        BY <1>2 DEF AtHook
      <3>3. CASE task[k].pc = "answer" /\ task[k].sid = s
        <4>1. task[k].msg \in Msgs /\ task[k].msg # m
          BY <1>2, <1>8, <3>3 DEF AtHook, Taking
        <4> QED BY <3>1, <3>2, <3>3, <4>1, AppendProperties, LenProperties
      <3>4. CASE ~(task[k].pc = "answer" /\ task[k].sid = s)
        BY <3>1, <3>2, <3>4
      <3> QED BY <3>3, <3>4
    <2>3. PICK old, got : old = Stored(s) /\ got = Received(s)
      OBVIOUS
    <2>4. /\ old \in Seq(Msgs) /\ got \in Seq(Msgs)
          /\ Len(old) \in Nat /\ Len(got) \in Nat
          /\ DOMAIN old = 1..Len(old) /\ DOMAIN got = 1..Len(got)
          /\ DOMAIN (old \o got) = 1..(Len(old) + Len(got))
          /\ \A i \in 1..(Len(old) + Len(got)) :
                 (old \o got)[i] = IF i <= Len(old) THEN old[i] ELSE got[i - Len(old)]
      BY <1>2, <2>2, <2>3, ConcatProperties, LenProperties
    <2> QED BY <2>1, <2>2, <2>3, <2>4
  <1>14. Queue!Put(s, m)
    <2>1. [u \in Sessions |-> Stored(u)]' =
              [[u \in Sessions |-> Stored(u)] EXCEPT ![s] = Append(@, m)]
      BY <1>2, <1>5 DEF Stored
    <2>2. [u \in Sessions |-> Received(u)]' = [u \in Sessions |-> Received(u)]
      BY <1>12
    <2> QED BY <1>2, <1>13, <2>1, <2>2 DEF Queue!Put, Queue!Contents
  <1> QED BY <1>2, <1>11, <1>14 DEF Queue!QNext

\* The row that is removed is the one the handler has looked at.
LEMMA DequeueIsTake ==
    ASSUME IInv, IInv', AtHook, OnlyHook, NEW p \in Procs, HookDequeue(p)
    PROVE  AtHook' /\ Queue!QNext
  <1>0. PICK k : Hooks = {k}
    BY DEF OnlyHook
  <1>1. PICK m, s : m = task[p].msg /\ s = task[p].sid
    OBVIOUS
  <1>2. /\ p = k /\ task[p].pc = "take" /\ s \in Sessions /\ m \in Msgs
        /\ status[m] = "queued" /\ Unlocked
        /\ Stored(s) # <<>> /\ Head(Stored(s)) = m
    BY <1>0, <1>1 DEF HookDequeue, Runs, IInv, Frames, Frame, AtHook, Taking
  <1>3. Stored(s) = queue[s] /\ Stored(s) \in Seq(Msgs) /\ Tail(Stored(s)) \in Seq(Msgs)
    BY <1>2, StoredUnlocked, StoredType, HeadTailProperties DEF IInv
  <1>4. Write(p, s, Tail(Stored(s)))
    BY <1>1, <1>2, <1>3, Unreached DEF HookDequeue, DequeueHead, ButOldest, IInv
  <1>5. /\ Stored(s)' = Tail(Stored(s))
        /\ \A u \in Sessions \ {s} : Stored(u)' = Stored(u)
    BY <1>2, <1>3, <1>4, Written DEF IInv
  <1>6. /\ \A q \in Procs \ {p} : task'[q] = task[q]
        /\ task'[p].pc = "answer" /\ task'[p].sid = s /\ task'[p].msg = m
        /\ UNCHANGED <<typed, status>>
    BY <1>1, TaskSet DEF HookDequeue, Goto, history, IInv, Task
  <1>7. AtHook'
    BY <1>0, <1>2, <1>6 DEF AtHook, Taking
  <1>8. ASSUME NEW u \in Sessions
        PROVE  Received(u)' = IF u = s THEN Append(Received(u), m) ELSE Received(u)
    <2>1. Received(u) = typed[u]
      BY <1>0, <1>2, ReceivedIs DEF IInv
    <2>2. Received(u)' = IF task'[k].pc = "answer" /\ task'[k].sid = u
                         THEN Append(typed'[u], task'[k].msg) ELSE typed'[u]
      BY <1>0, <1>7, ReceivedWillBe DEF IInv
    <2> QED BY <1>2, <1>6, <2>1, <2>2
  <1>9. Queue!Take(s)
    <2>1. [u \in Sessions |-> Stored(u)]' =
              [[u \in Sessions |-> Stored(u)] EXCEPT ![s] = Tail(@)]
      BY <1>2, <1>5 DEF Stored
    <2>2. [u \in Sessions |-> Received(u)]' =
              [[u \in Sessions |-> Received(u)] EXCEPT ![s] = Append(@, Head(Stored(s)))]
      BY <1>2, <1>8
    <2> QED BY <1>2, <2>1, <2>2 DEF Queue!Take
  <1> QED BY <1>2, <1>7, <1>9 DEF Queue!QNext

\* What was being answered with has been received.
LEMMA AnswerIsStutter ==
    ASSUME IInv, IInv', AtHook, OnlyHook, NEW p \in Procs, HookAnswer(p)
    PROVE  AtHook' /\ UNCHANGED Queue!qvars
  <1>0. PICK k : Hooks = {k}
    BY DEF OnlyHook
  <1>1. PICK m, s : m = task[p].msg /\ s = task[p].sid
    OBVIOUS
  <1>2. /\ p = k /\ task[p].pc = "answer" /\ s \in Sessions /\ m \in Msgs
        /\ status[m] = "queued" /\ typed \in [Sessions -> Seq(Msgs)]
    BY <1>0, <1>1 DEF HookAnswer, Runs, IInv, TypeOK, Frames, Frame, AtHook, Taking
  <1>3. /\ \A q \in Procs \ {p} : task'[q] = task[q]
        /\ task'[p].pc = "ready" /\ typed' = [typed EXCEPT ![s] = Append(@, m)]
        /\ UNCHANGED <<queue, writing, status>>
    BY <1>1, TaskSet DEF HookAnswer, Type, Ready, file, IInv
  <1>4. \A u \in Sessions : Stored(u)' = Stored(u)
    BY <1>3, StoredKept
  <1>5. \A u \in Sessions : \A i \in DOMAIN typed'[u] : status[typed'[u][i]] = "queued"
    <2> SUFFICES ASSUME NEW u \in Sessions, NEW i \in DOMAIN typed'[u]
                 PROVE  status[typed'[u][i]] = "queued"
      OBVIOUS
    <2>1. CASE u # s
      BY <1>2, <1>3, <2>1 DEF AtHook
    <2>2. CASE u = s
      <3>1. /\ typed'[u] = Append(typed[s], m) /\ typed[s] \in Seq(Msgs)
            /\ \A j \in DOMAIN typed[s] : status[typed[s][j]] = "queued"
        BY <1>2, <1>3, <2>2 DEF AtHook
      <3> QED BY <1>2, <3>1, AppendProperties, LenProperties
    <2> QED BY <2>1, <2>2
  <1>6. AtHook'
    <2>1. \A q \in Procs : task'[q].pc \notin {"take", "answer", "dequeue"}
      BY <1>0, <1>2, <1>3 DEF AtHook, Taking
    <2> QED BY <1>3, <1>5, <2>1 DEF AtHook, Taking
  <1>7. \A u \in Sessions : Received(u)' = Received(u)
    <2> SUFFICES ASSUME NEW u \in Sessions PROVE Received(u)' = Received(u)
      OBVIOUS
    <2>1. Received(u) = IF task[k].pc = "answer" /\ task[k].sid = u
                        THEN Append(typed[u], task[k].msg) ELSE typed[u]
      BY <1>0, ReceivedIs DEF IInv
    <2>2. Received(u)' = typed'[u]
      BY <1>0, <1>2, <1>3, <1>6, ReceivedWillBe DEF IInv
    <2> QED BY <1>1, <1>2, <1>3, <2>1, <2>2
  <1>8. [u \in Sessions |-> Stored(u)]' = [u \in Sessions |-> Stored(u)]
    BY <1>4
  <1>9. [u \in Sessions |-> Received(u)]' = [u \in Sessions |-> Received(u)]
    BY <1>7
  <1> QED BY <1>6, <1>8, <1>9 DEF Queue!qvars

LEMMA QueueStep ==
    ASSUME IInv, IInv', AtHook, OnlyHook, [Next]_vars
    PROVE  AtHook' /\ [Queue!QNext]_(Queue!qvars)
  <1>1. ASSUME NEW p \in Procs, NEW m \in Msgs, Send(p, m)
        PROVE  AtHook' /\ UNCHANGED Queue!qvars
    BY <1>1, SendersStandStill, StandingStill
  <1>2. ASSUME NEW p \in Procs, SenderStep(p) \/ StartTicker(p)
        PROVE  AtHook' /\ [Queue!QNext]_(Queue!qvars)
    BY <1>2, SendersStandStill, StandingStill, EnqueueIsPut DEF SenderStep
  <1>3. ASSUME NEW p \in Procs, DrainStep(p) PROVE AtHook' /\ UNCHANGED Queue!qvars
    <2>1. ~RetryDequeue(p)
      BY DEF RetryDequeue, Runs, AtHook
    <2> QED BY <1>3, <2>1, DrainersStandStill, MarkStandsStill, StandingStill DEF DrainStep
  <1>4. ASSUME NEW p \in Procs, HookStep(p)
        PROVE  AtHook' /\ [Queue!QNext]_(Queue!qvars)
    BY <1>4, DequeueIsTake, AnswerIsStutter, Unreached DEF HookStep, IInv
  <1>5. \A p \in Procs, s \in Sessions : ~StartNotifier(p, s)
    BY Unreached DEF StartNotifier, IInv
  <1>6. ASSUME NEW p \in Procs, NEW s \in Sessions, NEW kind \in Kinds, HookPeek(p, s, kind)
        PROVE  AtHook' /\ UNCHANGED Queue!qvars
    BY <1>6, PeekIsStutter
  <1>7. \A s \in Sessions : ~EndpointChanges(s) /\ ~PTYChanges(s)
    BY DEF EndpointChanges, PTYChanges, OnlyHook
  <1>8. CASE Rename \/ UNCHANGED vars
    BY <1>8, OthersStandStill, StandingStill
  <1>9. ~Crash
    BY Unreached DEF IInv
  <1> QED BY <1>1, <1>2, <1>3, <1>4, <1>5, <1>6, <1>7, <1>8, <1>9 DEF Next

LEMMA InitQueue == ASSUME Init PROVE Queue!QInit
  <1>1. \A s \in Sessions : Stored(s) = <<>>
    BY DEF Init, Stored, NoWrite
  <1>2. ASSUME NEW s \in Sessions PROVE Received(s) = <<>>
    <2>1. InHand(s) = {} /\ typed[s] = <<>>
      BY DEF Init, InHand, Ready
    <2> QED BY <2>1, ConcatEmptySeq, EmptySeq DEF Received
  <1> QED BY <1>1, <1>2 DEF Queue!QInit

\* For an agent that one hook handler answers, and nothing else reaches, senders,
\* the ticker that retries and rewrites the file, and the handler are together
\* one FIFO queue: no reply lost, none given twice, all in order, while no write
\* fails and the host stays up (outbox.go:51-52, hooks.go:10-45).
THEOREM OutboxIsQueue == OnlyHook => (Spec => ImplementsQueue)
  <1> SUFFICES ASSUME OnlyHook PROVE Spec => ImplementsQueue
    OBVIOUS
  <1>1. Init => AtHook /\ Queue!QInit
    BY InitAtHook, InitQueue
  <1>2. IInv /\ IInv' /\ AtHook /\ [Next]_vars => AtHook' /\ [Queue!QNext]_(Queue!qvars)
    BY QueueStep
  <1> QED BY <1>1, <1>2, InvHolds, PTL DEF Spec, ImplementsQueue, Queue!QSpec

(***************************************************************************)
(* The books of the outbox: what was removed from a file was handed over.  *)
(***************************************************************************)

Queued(u) == {m \in Msgs : To[m] = u /\ status[m] = "queued"}
Direct(u) == {m \in Msgs : To[m] = u /\ status[m] = "delivered"}
Gone(u) == Queued(u) \ Members(Stored(u))

\* Drainers that have handed a row over and are about to remove one for it.
Owing(u) == {p \in Procs : task[p].sid = u /\ task[p].pc = "dequeue"}

Peeking == {"try", "dequeue", "take"}
Peeked(u) == {task[p].msg : p \in {q \in Procs : task[q].sid = u /\ task[q].pc \in Peeking}}

\* Each row gone, each reply that went past the file and each row about to be
\* removed was handed over for, or spilled by a crash or a failed answer.
Spent(u) == Cardinality(Gone(u)) + Cardinality(Direct(u)) + Cardinality(Owing(u))
Given(u) == Len(typed[u]) + Cardinality(InHand(u)) + spilled[u]

\* Only the first row was ever looked at; if it was handed over already, somebody
\* is about to remove it, or failed to, which left something over.
Booked(u) ==
    /\ \A m \in Handed(u) : m \in Queued(u) \cup Direct(u)
    /\ \A i \in DOMAIN Stored(u) : i # 1 => Stored(u)[i] \notin Handed(u) \cup Peeked(u)
    /\ Spent(u) <= Given(u)
    /\ 1 \in DOMAIN Stored(u) /\ Stored(u)[1] \in Handed(u) =>
           Spent(u) < Given(u) \/ \E p \in Owing(u) : task[p].msg = Stored(u)[1]

\* What a drainer or a hook has in its hands was queued for its session.
Ahead ==
    \A p \in Procs : task[p].pc \in Peeking \cup {"answer"} =>
        task[p].msg \in Queued(task[p].sid)

Ledger == Ahead /\ \A u \in Sessions : Booked(u)

LEMMA InitLedger == Init => Ledger
  <1> SUFFICES ASSUME Init PROVE Ledger
    OBVIOUS
  <1>1. Ahead
    BY DEF Init, Ahead, Peeking, Ready
  <1>2. ASSUME NEW u \in Sessions PROVE Booked(u)
    <2>1. Stored(u) = <<>> /\ typed[u] = <<>>
      BY <1>2 DEF Init, Stored, NoWrite
    <2>2. Handed(u) = {} /\ InHand(u) = {} /\ Owing(u) = {}
      BY <2>1 DEF Init, Handed, InHand, Owing, Ready, Members
    <2>3. Gone(u) = {} /\ Direct(u) = {}
      BY DEF Init, Gone, Queued, Direct
    <2>4. Spent(u) = 0 /\ Given(u) = 0
      BY <2>1, <2>2, <2>3, FS_EmptySet DEF Init, Spent, Given
    <2> QED BY <2>1, <2>2, <2>4 DEF Booked
  <1> QED BY <1>1, <1>2 DEF Ledger

LEMMA Rows ==
    ASSUME IInv, NEW u \in Sessions
    PROVE  /\ Stored(u) \in Seq(Msgs) /\ Len(Stored(u)) \in Nat
           /\ DOMAIN Stored(u) = 1..Len(Stored(u))
           /\ \A i \in DOMAIN Stored(u) : Stored(u)[i] \in Queued(u)
           /\ \A i, j \in DOMAIN Stored(u) : Stored(u)[i] = Stored(u)[j] => i = j
  <1>1. /\ Stored(u) \in Seq(Msgs) /\ Len(Stored(u)) \in Nat
        /\ DOMAIN Stored(u) = 1..Len(Stored(u))
    BY StoredType, LenProperties DEF IInv
  <1>2. \A i \in DOMAIN Stored(u) : Stored(u)[i] \in Queued(u)
    BY <1>1, ElementOfSeq DEF IInv, RowsQueued, Queued
  <1>3. ASSUME NEW i \in DOMAIN Stored(u), NEW j \in DOMAIN Stored(u),
               Stored(u)[i] = Stored(u)[j]
        PROVE  i = j
    <2>1. ~(i < j) /\ ~(j < i)
      BY <1>3 DEF IInv, FileInSendOrder
    <2> QED BY <1>1, <2>1
  <1> QED BY <1>1, <1>2, <1>3

LEMMA Finite ==
    ASSUME TypeOK, NEW u \in Sessions
    PROVE  /\ IsFiniteSet(Gone(u)) /\ Cardinality(Gone(u)) \in Nat
           /\ IsFiniteSet(Direct(u)) /\ Cardinality(Direct(u)) \in Nat
           /\ IsFiniteSet(Owing(u)) /\ Cardinality(Owing(u)) \in Nat
           /\ IsFiniteSet(InHand(u)) /\ Cardinality(InHand(u)) \in Nat
           /\ Len(typed[u]) \in Nat /\ spilled[u] \in Nat
  <1>1. Gone(u) \subseteq Msgs /\ Direct(u) \subseteq Msgs
    BY DEF Gone, Queued, Direct
  <1>2. Owing(u) \subseteq Procs /\ InHand(u) \subseteq Procs
    BY DEF Owing, InHand
  <1>3. Len(typed[u]) \in Nat /\ spilled[u] \in Nat
    BY LenProperties DEF TypeOK
  <1>4. /\ IsFiniteSet(Gone(u)) /\ IsFiniteSet(Direct(u))
        /\ IsFiniteSet(Owing(u)) /\ IsFiniteSet(InHand(u))
    BY <1>1, <1>2, FiniteAssumption, FS_Subset
  <1> QED BY <1>3, <1>4, FS_CardinalityType

LEMMA Sums ==
    ASSUME TypeOK, NEW u \in Sessions
    PROVE  Spent(u) \in Nat /\ Given(u) \in Nat
  <1>1. /\ Cardinality(Gone(u)) \in Nat /\ Cardinality(Direct(u)) \in Nat
        /\ Cardinality(Owing(u)) \in Nat /\ Cardinality(InHand(u)) \in Nat
        /\ Len(typed[u]) \in Nat /\ spilled[u] \in Nat
    BY Finite
  <1>2. Spent(u) \in Nat
    BY <1>1 DEF Spent
  <1>3. Given(u) \in Nat
    BY <1>1 DEF Given
  <1> QED BY <1>2, <1>3

LEMMA UnionBound ==
    ASSUME NEW S, IsFiniteSet(S), NEW T, IsFiniteSet(T)
    PROVE  /\ IsFiniteSet(S \cup T) /\ Cardinality(S \cup T) \in Nat
           /\ Cardinality(S \cup T) <= Cardinality(S) + Cardinality(T)
           /\ S \cap T = {} => Cardinality(S \cup T) = Cardinality(S) + Cardinality(T)
  <1>1. /\ IsFiniteSet(S \cup T)
        /\ Cardinality(S \cup T) = Cardinality(S) + Cardinality(T) - Cardinality(S \cap T)
    BY FS_Union
  <1>2. IsFiniteSet(S \cap T)
    BY FS_Intersection
  <1>3. /\ Cardinality(S) \in Nat /\ Cardinality(T) \in Nat
        /\ Cardinality(S \cap T) \in Nat /\ Cardinality(S \cup T) \in Nat
    BY <1>1, <1>2, FS_CardinalityType
  <1>4. S \cap T = {} => Cardinality(S \cap T) = 0
    BY FS_EmptySet
  <1> QED BY <1>1, <1>3, <1>4

\* The books imply what they are kept for.
LEMMA BooksShow == ASSUME IInv, Ledger PROVE LossNeedsDuplicate
  <1> SUFFICES ASSUME NEW u \in Sessions
               PROVE  Cardinality(Lost(u)) <=
                          Len(typed[u]) + Cardinality(InHand(u)) - Cardinality(Handed(u))
                          + spilled[u]
    BY DEF LossNeedsDuplicate
  <1>0. TypeOK /\ Booked(u)
    BY DEF IInv, Ledger
  <1> DEFINE both == Handed(u) \cap Members(Stored(u))
             all == Gone(u) \cup Direct(u) \cup both
  <1>1. Lost(u) = Gone(u) \ Handed(u)
    BY DEF Lost, Gone, Queued
  <1>2. Lost(u) \cup Handed(u) \subseteq all /\ Lost(u) \cap Handed(u) = {}
    BY <1>0, <1>1 DEF Booked, Gone
  <1>3. Spent(u) + Cardinality(both) <= Given(u) + Cardinality(Owing(u)) /\ IsFiniteSet(both)
        /\ Cardinality(both) \in Nat
    <2>1. \A m \in both : /\ 1 \in DOMAIN Stored(u) /\ m = Stored(u)[1]
                          /\ Stored(u)[1] \in Handed(u)
      BY <1>0 DEF Booked, Members
    <2> HIDE DEF both
    <2>2. CASE both = {}
      <3>1. Cardinality(both) = 0 /\ IsFiniteSet(both)
        BY <2>2, FS_EmptySet
      <3> QED BY <1>0, <3>1, Sums, Finite DEF Booked
    <2>3. CASE both # {}
      <3>1. both = {Stored(u)[1]} /\ 1 \in DOMAIN Stored(u) /\ Stored(u)[1] \in Handed(u)
        BY <2>1, <2>3
      <3>2. Cardinality(both) = 1 /\ IsFiniteSet(both)
        BY <3>1, FS_Singleton
      <3>3. CASE Spent(u) < Given(u)
        BY <1>0, <3>2, <3>3, Sums, Finite
      <3>4. CASE Owing(u) # {}
        <4>1. Cardinality(Owing(u)) # 0
          BY <1>0, <3>4, Finite, FS_EmptySet
        <4>2. Spent(u) <= Given(u) /\ Cardinality(both) <= Cardinality(Owing(u))
          BY <1>0, <3>2, <4>1, Finite DEF Booked
        <4> QED BY <1>0, <3>2, <4>2, Sums, Finite
      <3> QED BY <1>0, <3>1, <3>3, <3>4 DEF Booked
    <2> QED BY <2>2, <2>3
  <1> HIDE DEF both
  <1>4. /\ IsFiniteSet(all)
        /\ Cardinality(all) <= Cardinality(Gone(u)) + Cardinality(Direct(u)) + Cardinality(both)
    <2>1. /\ IsFiniteSet(Gone(u) \cup Direct(u))
          /\ Cardinality(Gone(u) \cup Direct(u)) <= Cardinality(Gone(u)) + Cardinality(Direct(u))
          /\ Cardinality(Gone(u) \cup Direct(u)) \in Nat
      BY <1>0, Finite, UnionBound
    <2>2. /\ IsFiniteSet(all) /\ Cardinality(all) \in Nat
          /\ Cardinality(all) <= Cardinality(Gone(u) \cup Direct(u)) + Cardinality(both)
      BY <1>3, <2>1, UnionBound
    <2> HIDE DEF all
    <2> QED BY <1>0, <1>3, <2>1, <2>2, Finite
  <1> HIDE DEF all
  <1>5. IsFiniteSet(Lost(u)) /\ IsFiniteSet(Handed(u))
    BY <1>2, <1>4, FS_Subset
  <1>6. /\ Cardinality(Lost(u)) \in Nat /\ Cardinality(Handed(u)) \in Nat
        /\ Cardinality(Lost(u) \cup Handed(u)) = Cardinality(Lost(u)) + Cardinality(Handed(u))
    BY <1>2, <1>5, UnionBound, FS_CardinalityType
  <1>7. /\ Cardinality(Lost(u) \cup Handed(u)) <= Cardinality(all)
        /\ Cardinality(all) \in Nat
    BY <1>2, <1>4, FS_Subset, FS_CardinalityType
  <1>8. Given(u) = Len(typed[u]) + Cardinality(InHand(u)) + spilled[u]
    BY DEF Given
  <1>9. /\ Cardinality(Gone(u)) \in Nat /\ Cardinality(Direct(u)) \in Nat
        /\ Cardinality(Owing(u)) \in Nat
    BY <1>0, Finite
  <1>10. Len(typed[u]) \in Nat /\ Cardinality(InHand(u)) \in Nat /\ spilled[u] \in Nat
    BY <1>0, Finite
  <1>11. Given(u) \in Nat
    BY <1>8, <1>10
  <1>12. Cardinality(all) <= Given(u)
    <2>1. Spent(u) = Cardinality(Gone(u)) + Cardinality(Direct(u)) + Cardinality(Owing(u))
      BY DEF Spent
    <2>2. Cardinality(Gone(u)) + Cardinality(Direct(u)) + Cardinality(both) <= Given(u)
      BY <1>3, <1>9, <1>11, <2>1
    <2> QED BY <1>3, <1>4, <1>7, <1>9, <1>11, <2>2
  <1>13. Cardinality(Lost(u)) + Cardinality(Handed(u)) <= Given(u)
    BY <1>6, <1>7, <1>11, <1>12
  <1>14. Cardinality(Lost(u)) <= Given(u) - Cardinality(Handed(u))
    BY <1>6, <1>11, <1>13
  <1> QED BY <1>6, <1>8, <1>10, <1>14

\* The replies the books of u speak of.
SameReplies(u) ==
    \A m \in Msgs : To[m] = u /\ {status[m], status'[m]} \cap {"queued", "delivered"} # {} =>
        status'[m] = status[m]

\* Nothing happens that the books of u have to do with, but that somebody stops
\* looking at the first row.
LEMMA StillBooks ==
    ASSUME NEW u, Booked(u), Stored(u)' = Stored(u), typed'[u] = typed[u], spilled'[u] = spilled[u],
           SameReplies(u),
           Owing(u)' = Owing(u), InHand(u)' = InHand(u), Peeked(u)' \subseteq Peeked(u),
           \A p \in Owing(u) \cup InHand(u) : task'[p].msg = task[p].msg
    PROVE  Booked(u)'
  <1>1. Queued(u)' = Queued(u) /\ Direct(u)' = Direct(u)
    BY DEF SameReplies, Queued, Direct
  <1>2. Gone(u)' = Gone(u)
    BY <1>1 DEF Gone, Members
  <1>3. Handed(u)' = Handed(u)
    BY DEF Handed, Members
  <1>4. Spent(u)' = Spent(u) /\ Given(u)' = Given(u)
    BY <1>1, <1>2 DEF Spent, Given
  <1> QED BY <1>1, <1>3, <1>4 DEF Booked

\* A goroutine p that does not look into the file of u, unless it stops to.
LEMMA Elsewhere ==
    ASSUME TypeOK, NEW u, Booked(u), NEW p \in Procs, task' = [task EXCEPT ![p] = task'[p]],
           Stored(u)' = Stored(u), typed'[u] = typed[u], spilled'[u] = spilled[u],
           SameReplies(u),
           task[p].sid = u => task[p].pc \notin {"dequeue", "take", "answer"},
           task'[p].sid = u => task'[p].pc \notin Peeking \cup {"answer"}
    PROVE  Booked(u)'
  <1>1. \A q \in Procs \ {p} : task'[q] = task[q]
    BY DEF TypeOK
  <1>2. p \notin Owing(u) \cup InHand(u) /\ p \notin Owing(u)' \cup InHand(u)'
    BY DEF Owing, InHand, Peeking
  <1>3. Owing(u)' = Owing(u) /\ InHand(u)' = InHand(u)
    BY <1>1, <1>2 DEF Owing, InHand
  <1>4. Peeked(u)' \subseteq Peeked(u)
    BY <1>1 DEF Peeked
  <1>5. \A q \in Owing(u) \cup InHand(u) : task'[q].msg = task[q].msg
    BY <1>1, <1>2 DEF Owing, InHand
  <1> QED BY <1>3, <1>4, <1>5, StillBooks

LEMMA StillAhead ==
    ASSUME IInv, Ahead, NEW p \in Procs, task' = [task EXCEPT ![p] = task'[p]],
           \A m \in Msgs : status[m] = "queued" => status'[m] = "queued",
           task'[p].pc \in Peeking \cup {"answer"} =>
               task'[p].msg \in Msgs /\ To[task'[p].msg] = task'[p].sid
               /\ status'[task'[p].msg] = "queued"
    PROVE  Ahead'
  <1>1. \A q \in Procs \ {p} : task'[q] = task[q]
    BY DEF IInv, TypeOK
  <1> QED BY <1>1 DEF Ahead, Queued

\* Steps of p that leave all the books alone.
LEMMA QuietStep ==
    ASSUME IInv, Ledger, NEW p \in Procs, task' = [task EXCEPT ![p] = task'[p]],
           \A u \in Sessions : Stored(u)' = Stored(u) /\ SameReplies(u),
           UNCHANGED <<typed, spilled>>,
           task[p].pc \notin {"dequeue", "take", "answer"},
           task'[p].pc \notin Peeking \cup {"answer"}
    PROVE  Ledger'
  <1>1. \A m \in Msgs : status[m] = "queued" => status'[m] = "queued"
    BY DEF SameReplies
  <1>2. Ahead'
    BY <1>1, StillAhead DEF Ledger
  <1>3. \A u \in Sessions : Booked(u)'
    BY Elsewhere DEF Ledger, IInv
  <1> QED BY <1>2, <1>3 DEF Ledger

LEMMA LedgerKept ==
    ASSUME Ledger, UNCHANGED <<task, typed, spilled, status>>,
           \A u \in Sessions : Stored(u)' = Stored(u)
    PROVE  Ledger'
  <1>1. Ahead'
    BY DEF Ledger, Ahead, Queued
  <1>2. \A u \in Sessions : Booked(u)'
    BY StillBooks DEF Ledger, SameReplies, Owing, InHand, Peeked
  <1> QED BY <1>1, <1>2 DEF Ledger

\* Somebody looks at the first row.
LEMMA LookStep ==
    ASSUME IInv, Ledger, NEW p \in Procs, NEW s \in Sessions,
           task' = [task EXCEPT ![p] = task'[p]], UNCHANGED <<typed, spilled, status>>,
           \A u \in Sessions : Stored(u)' = Stored(u),
           task[p].pc \notin {"dequeue", "take", "answer"},
           task'[p].pc \in {"try", "take"}, task'[p].sid = s,
           1 \in DOMAIN Stored(s), task'[p].msg = Stored(s)[1]
    PROVE  Ledger'
  <1>1. \A q \in Procs \ {p} : task'[q] = task[q]
    BY DEF IInv, TypeOK
  <1>2. Ahead'
    BY Rows, StillAhead DEF Ledger, Queued
  <1>3. ASSUME NEW u \in Sessions, u # s PROVE Booked(u)'
    BY <1>3, Elsewhere DEF Ledger, IInv, SameReplies
  <1>4. Booked(s)'
    <2>1. p \notin Owing(s) \cup InHand(s) /\ p \notin Owing(s)' \cup InHand(s)'
      BY DEF Owing, InHand
    <2>2. Owing(s)' = Owing(s) /\ InHand(s)' = InHand(s)
      BY <1>1, <2>1 DEF Owing, InHand
    <2>3. Queued(s)' = Queued(s) /\ Direct(s)' = Direct(s) /\ Gone(s)' = Gone(s)
      BY DEF Queued, Direct, Gone, Members
    <2>4. Handed(s)' = Handed(s)
      BY <1>1, <2>1, <2>2 DEF Handed, Members, InHand
    <2>5. Peeked(s)' \subseteq Peeked(s) \cup {Stored(s)[1]}
      BY <1>1 DEF Peeked
    <2>6. Spent(s)' = Spent(s) /\ Given(s)' = Given(s)
      BY <2>2, <2>3 DEF Spent, Given
    <2>7. \A q \in Owing(s) : task'[q] = task[q]
      BY <1>1, <2>1 DEF Owing
    <2>8. \A i \in DOMAIN Stored(s) : i # 1 => Stored(s)[i] # Stored(s)[1]
      BY Rows
    <2> QED BY <2>2, <2>3, <2>4, <2>5, <2>6, <2>7, <2>8 DEF Booked, Ledger
  <1> QED BY <1>2, <1>3, <1>4 DEF Ledger

LEMMA Appended ==
    ASSUME NEW rows \in Seq(Msgs), NEW m \in Msgs
    PROVE  /\ Len(rows) \in Nat /\ DOMAIN rows = 1..Len(rows)
           /\ DOMAIN Append(rows, m) = 1..(Len(rows) + 1)
           /\ Len(Append(rows, m)) = Len(rows) + 1
           /\ \A i \in 1..Len(rows) : Append(rows, m)[i] = rows[i]
           /\ Append(rows, m)[Len(rows) + 1] = m
           /\ Members(Append(rows, m)) = Members(rows) \cup {m}
  <1>1. /\ Len(rows) \in Nat /\ DOMAIN rows = 1..Len(rows)
        /\ Len(Append(rows, m)) = Len(rows) + 1
        /\ DOMAIN Append(rows, m) = 1..(Len(rows) + 1)
        /\ \A i \in 1..Len(rows) : Append(rows, m)[i] = rows[i]
        /\ Append(rows, m)[Len(rows) + 1] = m
    BY AppendProperties, LenProperties
  <1>2. \A x \in Members(Append(rows, m)) : x \in Members(rows) \cup {m}
    BY <1>1 DEF Members
  <1>3. \A x \in Members(rows) : x \in Members(Append(rows, m))
    BY <1>1 DEF Members
  <1>4. m \in Members(Append(rows, m))
    BY <1>1 DEF Members
  <1> QED BY <1>1, <1>2, <1>3, <1>4

\* What the agent receives is handed over.
LEMMA Typing ==
    ASSUME TypeOK, NEW s \in Sessions, NEW m \in Msgs, Type(s, m)
    PROVE  /\ \A u \in Sessions \ {s} : typed'[u] = typed[u]
           /\ Members(typed'[s]) = Members(typed[s]) \cup {m}
           /\ Len(typed'[s]) = Len(typed[s]) + 1
  <1>1. typed' = [typed EXCEPT ![s] = Append(typed[s], m)] /\ typed \in [Sessions -> Seq(Msgs)]
    BY DEF TypeOK, Type
  <1> QED BY <1>1, Appended

\* Somebody not in the middle of an answer types m.
LEMMA HandedMore ==
    ASSUME IInv, NEW s \in Sessions, NEW m \in Msgs, Type(s, m), UNCHANGED spilled,
           InHand(s)' = InHand(s), \A q \in InHand(s) : task'[q] = task[q]
    PROVE  Handed(s)' = Handed(s) \cup {m} /\ Given(s)' = Given(s) + 1 /\ Given(s) \in Nat
  <1>1. Members(typed'[s]) = Members(typed[s]) \cup {m} /\ Len(typed'[s]) = Len(typed[s]) + 1
    BY Typing DEF IInv
  <1>2. {task[q].msg : q \in InHand(s)}' = {task[q].msg : q \in InHand(s)}
    OBVIOUS
  <1>3. Handed(s)' = Members(typed'[s]) \cup {task[q].msg : q \in InHand(s)}'
    BY DEF Handed
  <1>4. Handed(s)' = Handed(s) \cup {m}
    BY <1>1, <1>2, <1>3 DEF Handed
  <1>5. Given(s)' = Len(typed'[s]) + Cardinality(InHand(s)') + spilled[s]
    BY DEF Given
  <1>6. Len(typed[s]) \in Nat /\ Cardinality(InHand(s)) \in Nat /\ spilled[s] \in Nat
    BY Finite DEF IInv
  <1>7. Given(s) = Len(typed[s]) + Cardinality(InHand(s)) + spilled[s]
    BY DEF Given
  <1>8. Given(s)' = (Len(typed[s]) + 1) + Cardinality(InHand(s)) + spilled[s]
    BY <1>1, <1>5
  <1>9. Given(s)' = Given(s) + 1 /\ Given(s) \in Nat
    BY <1>6, <1>7, <1>8
  <1> QED BY <1>4, <1>9

\* A sender reaches the agent past the file.
LEMMA DirectStep ==
    ASSUME IInv, Ledger, NEW p \in Procs, NEW s \in Sessions, NEW m \in Msgs,
           task' = [task EXCEPT ![p] = task'[p]], task[p].pc \in Sending,
           m = task[p].msg, s = task[p].sid, task'[p].pc \notin Peeking \cup {"answer"},
           \A u \in Sessions : Stored(u)' = Stored(u), Type(s, m), Report(m, "delivered"),
           UNCHANGED spilled
    PROVE  Ledger'
  <1>0. To[m] = s /\ status[m] = "sending"
    BY DEF IInv, Frames, Frame
  <1>1. \A q \in Procs \ {p} : task'[q] = task[q]
    BY DEF IInv, TypeOK
  <1>2. status'[m] = "delivered" /\ \A x \in Msgs \ {m} : status'[x] = status[x]
    BY DEF Report, IInv, TypeOK
  <1>3. Ahead'
    BY <1>0, <1>2, StillAhead DEF Ledger
  <1>4. ASSUME NEW u \in Sessions, u # s PROVE Booked(u)'
    <2>1. SameReplies(u) /\ typed'[u] = typed[u]
      BY <1>0, <1>2, <1>4, Typing DEF SameReplies, IInv
    <2> QED BY <1>4, <2>1, Elsewhere DEF Ledger, IInv, Sending
  <1>5. Booked(s)'
    <2>1. p \notin Owing(s) \cup InHand(s) /\ p \notin Owing(s)' \cup InHand(s)'
      BY DEF Owing, InHand, Sending, Peeking
    <2>2. Owing(s)' = Owing(s) /\ InHand(s)' = InHand(s)
      BY <1>1, <2>1 DEF Owing, InHand
    <2>0. \A q \in InHand(s) : task'[q] = task[q]
      BY <1>1, <2>1 DEF InHand
    <2>3. Queued(s)' = Queued(s) /\ Direct(s)' = Direct(s) \cup {m} /\ m \notin Direct(s)
      BY <1>0, <1>2 DEF Queued, Direct
    <2>4. Gone(s)' = Gone(s)
      BY <2>3 DEF Gone, Members
    <2>5. Handed(s)' = Handed(s) \cup {m}
      BY <2>0, <2>2, HandedMore
    <2>6. Peeked(s)' \subseteq Peeked(s)
      BY <1>1 DEF Peeked
    <2>7. Cardinality(Direct(s)') = Cardinality(Direct(s)) + 1
      BY <2>3, Finite, FS_AddElement DEF IInv
    <2>8. Spent(s)' = Spent(s) + 1 /\ Given(s)' = Given(s) + 1
      <3>1. /\ Cardinality(Gone(s)) \in Nat /\ Cardinality(Direct(s)) \in Nat
            /\ Cardinality(Owing(s)) \in Nat
        BY Finite DEF IInv
      <3>2. Spent(s)' = Cardinality(Gone(s)') + Cardinality(Direct(s)') + Cardinality(Owing(s)')
        BY DEF Spent
      <3>3. Spent(s)' = Spent(s) + 1
        BY <3>1, <3>2, <2>2, <2>4, <2>7 DEF Spent
      <3> QED BY <3>3, <2>0, <2>2, HandedMore
    <2>9. Spent(s) \in Nat /\ Given(s) \in Nat
      BY Sums DEF IInv
    <2>10. \A q \in Owing(s) : task'[q] = task[q]
      BY <1>1, <2>1 DEF Owing
    <2>11. \A i \in DOMAIN Stored(s) : Stored(s)[i] # m
      BY <1>0, Rows DEF Queued
    <2> QED BY <2>2, <2>3, <2>5, <2>6, <2>8, <2>9, <2>10, <2>11 DEF Booked, Ledger
  <1> QED BY <1>3, <1>4, <1>5 DEF Ledger

\* A drainer reaches the agent with the row it looked at, and owes a removal.
LEMMA HandStep ==
    ASSUME IInv, Ledger, NEW p \in Procs, NEW s \in Sessions, NEW m \in Msgs,
           task' = [task EXCEPT ![p] = task'[p]], task[p].pc = "try",
           m = task[p].msg, s = task[p].sid,
           task'[p].pc = "dequeue", task'[p].msg = m, task'[p].sid = s,
           \A u \in Sessions : Stored(u)' = Stored(u), Type(s, m),
           UNCHANGED <<status, spilled>>
    PROVE  Ledger'
  <1>0. To[m] = s /\ status[m] = "queued"
    BY DEF Ledger, Ahead, Queued, Peeking
  <1>1. \A q \in Procs \ {p} : task'[q] = task[q]
    BY DEF IInv, TypeOK
  <1>2. Ahead'
    BY <1>0, StillAhead DEF Ledger
  <1>3. ASSUME NEW u \in Sessions, u # s PROVE Booked(u)'
    <2>1. SameReplies(u) /\ typed'[u] = typed[u]
      BY <1>3, Typing DEF SameReplies, IInv
    <2> QED BY <1>3, <2>1, Elsewhere DEF Ledger, IInv
  <1>4. Booked(s)'
    <2>1. p \notin Owing(s) \cup InHand(s) /\ p \notin InHand(s)'
      BY DEF Owing, InHand
    <2>2. Owing(s)' = Owing(s) \cup {p} /\ InHand(s)' = InHand(s)
      BY <1>1, <2>1 DEF Owing, InHand
    <2>0. \A q \in InHand(s) : task'[q] = task[q]
      BY <1>1, <2>1 DEF InHand
    <2>3. Queued(s)' = Queued(s) /\ Direct(s)' = Direct(s) /\ Gone(s)' = Gone(s)
      BY DEF Queued, Direct, Gone, Members
    <2>4. Handed(s)' = Handed(s) \cup {m}
      BY <2>0, <2>2, HandedMore
    <2>5. Peeked(s)' \subseteq Peeked(s) /\ m \in Peeked(s)
      BY <1>1 DEF Peeked, Peeking
    <2>6. Cardinality(Owing(s)') = Cardinality(Owing(s)) + 1
      <3>1. IsFiniteSet(Owing(s)) /\ p \notin Owing(s)
        BY <2>1, Finite DEF IInv
      <3>2. Cardinality(Owing(s) \cup {p}) = Cardinality(Owing(s)) + 1
        BY <3>1, FS_AddElement
      <3> QED BY <2>2, <3>2
    <2>7. Spent(s)' = Spent(s) + 1 /\ Given(s)' = Given(s) + 1
      <3>1. /\ Cardinality(Gone(s)) \in Nat /\ Cardinality(Direct(s)) \in Nat
            /\ Cardinality(Owing(s)) \in Nat
        BY Finite DEF IInv
      <3>2. Spent(s)' = Cardinality(Gone(s)') + Cardinality(Direct(s)') + Cardinality(Owing(s)')
        BY DEF Spent
      <3>3. Spent(s)' = Spent(s) + 1
        BY <3>1, <3>2, <2>2, <2>3, <2>6 DEF Spent
      <3> QED BY <3>3, <2>0, <2>2, HandedMore
    <2>8. Spent(s) \in Nat /\ Given(s) \in Nat
      BY Sums DEF IInv
    <2>9. p \in Owing(s)' /\ \A q \in Owing(s) : q \in Owing(s)' /\ task'[q] = task[q]
      BY <1>1, <2>1, <2>2 DEF Owing
    <2>10. /\ \A x \in Handed(s)' : x \in Queued(s)' \cup Direct(s)'
           /\ \A i \in DOMAIN Stored(s)' : i # 1 => Stored(s)'[i] \notin Handed(s)' \cup Peeked(s)'
           /\ Spent(s)' <= Given(s)'
      BY <1>0, <2>3, <2>4, <2>5, <2>7, <2>8 DEF Booked, Ledger, Queued
    <2>11. ASSUME 1 \in DOMAIN Stored(s), Stored(s)[1] \in Handed(s)'
           PROVE  Spent(s)' < Given(s)' \/ \E q \in Owing(s)' : task'[q].msg = Stored(s)[1]
      BY <2>4, <2>7, <2>8, <2>9, <2>11 DEF Booked, Ledger
    <2> QED BY <2>10, <2>11 DEF Booked
  <1> QED BY <1>2, <1>3, <1>4 DEF Ledger

\* A sender's reply goes into the file.
LEMMA AddStep ==
    ASSUME IInv, Ledger, NEW p \in Procs, NEW s \in Sessions, NEW m \in Msgs,
           task' = [task EXCEPT ![p] = task'[p]], task[p].pc \in Sending,
           m = task[p].msg, s = task[p].sid, task'[p].pc \notin Peeking \cup {"answer"},
           UNCHANGED <<typed, spilled>>, Report(m, "queued"), Stored(s)' = Append(Stored(s), m),
           \A u \in Sessions \ {s} : Stored(u)' = Stored(u)
    PROVE  Ledger'
  <1>0. To[m] = s /\ status[m] = "sending"
    BY DEF IInv, Frames, Frame
  <1>1. \A q \in Procs \ {p} : task'[q] = task[q]
    BY DEF IInv, TypeOK
  <1>2. status'[m] = "queued" /\ \A x \in Msgs \ {m} : status'[x] = status[x]
    BY DEF Report, IInv, TypeOK
  <1>3. Ahead'
    BY <1>0, <1>2, StillAhead DEF Ledger
  <1>4. ASSUME NEW u \in Sessions, u # s PROVE Booked(u)'
    <2>1. SameReplies(u) /\ typed'[u] = typed[u] /\ Stored(u)' = Stored(u)
      BY <1>0, <1>2, <1>4 DEF SameReplies
    <2> QED BY <1>4, <2>1, Elsewhere DEF Ledger, IInv, Sending
  <1>5. Booked(s)'
    <2>1. p \notin Owing(s) \cup InHand(s) /\ p \notin Owing(s)' \cup InHand(s)'
      BY DEF Owing, InHand, Sending, Peeking
    <2>2. /\ Owing(s)' = Owing(s) /\ InHand(s)' = InHand(s)
          /\ \A q \in Owing(s) \cup InHand(s) : task'[q] = task[q]
      BY <1>1, <2>1 DEF Owing, InHand
    <2>3. /\ Queued(s)' = Queued(s) \cup {m} /\ Direct(s)' = Direct(s)
          /\ m \notin Queued(s) \cup Direct(s)
      BY <1>0, <1>2 DEF Queued, Direct
    <2>4. /\ Len(Stored(s)) \in Nat /\ DOMAIN Stored(s) = 1..Len(Stored(s))
          /\ DOMAIN Stored(s)' = 1..(Len(Stored(s)) + 1)
          /\ \A i \in 1..Len(Stored(s)) : Stored(s)'[i] = Stored(s)[i]
          /\ Stored(s)'[Len(Stored(s)) + 1] = m
          /\ Members(Stored(s)') = Members(Stored(s)) \cup {m}
      BY Rows, Appended
    <2>5. Gone(s)' = Gone(s)
      <3>1. Gone(s)' = Queued(s)' \ Members(Stored(s)')
        BY DEF Gone
      <3> QED BY <2>3, <2>4, <3>1 DEF Gone
    <2>6. Handed(s)' = Handed(s)
      BY <2>2 DEF Handed, Members
    <2>7. Peeked(s)' \subseteq Peeked(s) /\ Peeked(s) \subseteq Queued(s)
      BY <1>1 DEF Peeked, Ledger, Ahead
    <2>8. m \notin Handed(s)' \cup Peeked(s)'
      BY <2>3, <2>6, <2>7 DEF Ledger, Booked
    <2>9. Spent(s)' = Spent(s) /\ Given(s)' = Given(s)
      BY <2>2, <2>3, <2>5 DEF Spent, Given
    <2>10. \A x \in Handed(s)' : x \in Queued(s)' \cup Direct(s)'
      BY <2>3, <2>6 DEF Ledger, Booked
    <2>11. ASSUME NEW i \in DOMAIN Stored(s)', i # 1
           PROVE  Stored(s)'[i] \notin Handed(s)' \cup Peeked(s)'
      <3>1. CASE i = Len(Stored(s)) + 1
        BY <2>4, <2>8, <3>1
      <3>2. CASE i # Len(Stored(s)) + 1
        <4>1. i \in DOMAIN Stored(s) /\ Stored(s)'[i] = Stored(s)[i]
          BY <2>4, <3>2
        <4> QED BY <2>6, <2>7, <2>11, <4>1 DEF Ledger, Booked
      <3> QED BY <3>1, <3>2
    <2>12. ASSUME 1 \in DOMAIN Stored(s)', Stored(s)'[1] \in Handed(s)'
           PROVE  1 \in DOMAIN Stored(s) /\ Stored(s)'[1] = Stored(s)[1]
      BY <2>4, <2>8, <2>12
    <2> QED BY <2>2, <2>6, <2>9, <2>10, <2>11, <2>12 DEF Ledger, Booked
  <1> QED BY <1>3, <1>4, <1>5 DEF Ledger

\* The first row goes.
LEMMA FirstGone ==
    ASSUME IInv, NEW s \in Sessions, Stored(s) # <<>>, Stored(s)' = Tail(Stored(s))
    PROVE  /\ \A i \in DOMAIN Stored(s)' : /\ i \in Nat /\ i + 1 \in DOMAIN Stored(s)
                                           /\ Stored(s)'[i] = Stored(s)[i + 1]
           /\ Stored(s)[1] \in Members(Stored(s)) /\ Stored(s)[1] \notin Members(Stored(s)')
           /\ Members(Stored(s)) = Members(Stored(s)') \cup {Stored(s)[1]}
  <1>1. /\ DOMAIN Stored(s)' = 1..(Len(Stored(s)) - 1)
        /\ \A i \in 1..(Len(Stored(s)) - 1) : Stored(s)'[i] = Stored(s)[i + 1]
        /\ Len(Stored(s)) \in Nat /\ Len(Stored(s)) # 0
        /\ DOMAIN Stored(s) = 1..Len(Stored(s))
    BY Rows, HeadTailProperties, LenProperties, EmptySeq
  <1>2. \A i \in DOMAIN Stored(s)' : /\ i \in Nat /\ i + 1 \in DOMAIN Stored(s)
                                     /\ Stored(s)'[i] = Stored(s)[i + 1] /\ i + 1 # 1
    BY <1>1
  <1>3. 1 \in DOMAIN Stored(s)
    BY <1>1
  <1>4. Stored(s)[1] \in Members(Stored(s)) /\ Stored(s)[1] \notin Members(Stored(s)')
    BY <1>2, <1>3, Rows DEF Members
  <1>5. \A x \in Members(Stored(s)) : x \in Members(Stored(s)') \cup {Stored(s)[1]}
    <2> SUFFICES ASSUME NEW i \in DOMAIN Stored(s), i # 1
                 PROVE  Stored(s)[i] \in Members(Stored(s)')
      BY DEF Members
    <2>1. i - 1 \in DOMAIN Stored(s)' /\ Stored(s)'[i - 1] = Stored(s)[i]
      BY <1>1
    <2> QED BY <2>1 DEF Members
  <1>6. \A x \in Members(Stored(s)') : x \in Members(Stored(s))
    BY <1>2 DEF Members
  <1> QED BY <1>2, <1>4, <1>5, <1>6

\* What DequeueHead makes of the files.
Removed(s) ==
    /\ \A u \in Sessions \ {s} : Stored(u)' = Stored(u)
    /\ \/ Stored(s)' = Stored(s)
       \/ Stored(s) # <<>> /\ Stored(s)' = Tail(Stored(s))

LEMMA HeadRemoved ==
    ASSUME IInv, Unlocked, NEW p \in Procs, NEW s \in Sessions, DequeueHead(p, s)
    PROVE  Removed(s)
  <1>1. CASE queue[s] # <<>> /\ Write(p, s, ButOldest(queue[s]))
    <2>1. queue[s] \in Seq(Msgs) /\ ButOldest(queue[s]) = Tail(queue[s])
      BY DEF IInv, TypeOK, ButOldest
    <2>2. Tail(queue[s]) \in Seq(Msgs)
      BY <1>1, <2>1, HeadTailProperties
    <2> QED BY <1>1, <2>1, <2>2, Written, StoredUnlocked DEF Removed, IInv
  <1>2. CASE WriteFails
    BY <1>2, Failed, StoredKept DEF Removed, IInv
  <1>3. CASE UNCHANGED file
    BY <1>3, StoredKept DEF file, Removed
  <1> QED BY <1>1, <1>2, <1>3 DEF DequeueHead

\* A row may go when one reply more was handed over than is owed for.
LEMMA RemovalBooked ==
    ASSUME IInv, Ledger, NEW s \in Sessions, Removed(s), UNCHANGED status,
           Peeked(s)' \subseteq Peeked(s), Handed(s)' \subseteq Handed(s) \cup Peeked(s),
           Cardinality(Owing(s)') \in Nat, Given(s)' \in Nat,
           Given(s)' + Cardinality(Owing(s)) = Given(s) + Cardinality(Owing(s)') + 1
    PROVE  Booked(s)'
  <1>1. Queued(s)' = Queued(s) /\ Direct(s)' = Direct(s)
    BY DEF Queued, Direct
  <1>2. \A x \in Handed(s)' : x \in Queued(s)' \cup Direct(s)'
    BY <1>1 DEF Ledger, Booked, Ahead, Peeked
  <1>3. /\ Cardinality(Gone(s)) \in Nat /\ Cardinality(Direct(s)) \in Nat
        /\ Cardinality(Owing(s)) \in Nat /\ Given(s) \in Nat /\ Booked(s)
    <2>1. /\ Len(typed[s]) \in Nat /\ Cardinality(InHand(s)) \in Nat /\ spilled[s] \in Nat
          /\ Cardinality(Gone(s)) \in Nat /\ Cardinality(Direct(s)) \in Nat
          /\ Cardinality(Owing(s)) \in Nat
      BY Finite DEF IInv
    <2>2. Given(s) = Len(typed[s]) + Cardinality(InHand(s)) + spilled[s]
      BY DEF Given
    <2>3. Given(s) \in Nat
      BY <2>1, <2>2
    <2>4. Booked(s)
      BY DEF Ledger
    <2> QED BY <2>1, <2>3, <2>4
  <1>4. Spent(s)' = Cardinality(Gone(s)') + Cardinality(Direct(s)') + Cardinality(Owing(s)')
    BY DEF Spent
  <1>5. CASE Stored(s)' = Stored(s)
    <2>1. Gone(s)' = Gone(s)
      BY <1>1, <1>5 DEF Gone, Members
    <2>2. Spent(s)' < Given(s)'
      <3>1. Spent(s) <= Given(s)
        BY <1>3 DEF Booked
      <3> QED BY <1>1, <1>3, <1>4, <2>1, <3>1 DEF Spent
    <2>3. Spent(s)' \in Nat
      BY <1>1, <1>3, <1>4, <2>1
    <2> QED BY <1>2, <1>3, <1>5, <2>2, <2>3 DEF Booked
  <1>6. CASE Stored(s) # <<>> /\ Stored(s)' = Tail(Stored(s))
    <2> DEFINE first == Stored(s)[1]
    <2>1. first \in Queued(s) /\ first \in Members(Stored(s))
      <3>1. Stored(s)[1] \in Members(Stored(s))
        BY <1>6, FirstGone
      <3> QED BY <3>1, Rows DEF Members
    <2>2. Gone(s)' = Gone(s) \cup {first} /\ first \notin Gone(s)
      <3>1. Gone(s)' = Queued(s)' \ Members(Stored(s)')
        BY DEF Gone
      <3>2. /\ Members(Stored(s)) = Members(Stored(s)') \cup {first}
            /\ first \notin Members(Stored(s)')
        BY <1>6, FirstGone
      <3> QED BY <1>1, <2>1, <3>1, <3>2 DEF Gone
    <2>3. Cardinality(Gone(s)') = Cardinality(Gone(s)) + 1
      BY <2>2, Finite, FS_AddElement DEF IInv
    <2>4. Spent(s)' <= Given(s)'
      <3>1. Spent(s) <= Given(s)
        BY <1>3 DEF Booked
      <3> QED BY <1>1, <1>3, <1>4, <2>3, <3>1 DEF Spent
    <2>5. ASSUME NEW i \in DOMAIN Stored(s)'
          PROVE  Stored(s)'[i] \notin Handed(s)' \cup Peeked(s)'
      <3>1. i + 1 \in DOMAIN Stored(s) /\ Stored(s)'[i] = Stored(s)[i + 1] /\ i + 1 # 1
        <4>1. \A k \in DOMAIN Stored(s)' : /\ k \in Nat /\ k + 1 \in DOMAIN Stored(s)
                                           /\ Stored(s)'[k] = Stored(s)[k + 1]
          BY <1>6, FirstGone
        <4>2. DOMAIN Stored(s)' = 1..Len(Stored(s)')
          BY Rows, <1>6, HeadTailProperties, LenProperties
        <4> QED BY <4>1, <4>2
      <3> QED BY <1>3, <3>1 DEF Booked
    <2> QED BY <1>2, <2>4, <2>5 DEF Booked
  <1> QED BY <1>5, <1>6 DEF Removed

\* The drainer removes what it takes for the row it handed over.
LEMMA RemoveStep ==
    ASSUME IInv, Ledger, NEW p \in Procs, NEW s \in Sessions, Removed(s),
           task' = [task EXCEPT ![p] = task'[p]], UNCHANGED <<typed, spilled, status>>,
           task[p].pc = "dequeue", task[p].sid = s,
           task'[p].pc \notin Peeking \cup {"answer"}
    PROVE  Ledger'
  <1>1. \A q \in Procs \ {p} : task'[q] = task[q]
    BY DEF IInv, TypeOK
  <1>2. Ahead'
    BY StillAhead DEF Ledger
  <1>3. ASSUME NEW u \in Sessions, u # s PROVE Booked(u)'
    <2>1. SameReplies(u) /\ typed'[u] = typed[u] /\ Stored(u)' = Stored(u)
      BY <1>3 DEF SameReplies, Removed
    <2> QED BY <1>3, <2>1, Elsewhere DEF Ledger, IInv
  <1>4. Booked(s)'
    <2>1. p \in Owing(s) /\ Owing(s)' = Owing(s) \ {p}
      BY <1>1 DEF Owing, Peeking
    <2>2. InHand(s)' = InHand(s) /\ \A q \in InHand(s) : task'[q] = task[q]
      BY <1>1 DEF InHand
    <2>3. Handed(s)' = Handed(s)
      BY <2>2 DEF Handed, Members
    <2>4. Peeked(s)' \subseteq Peeked(s)
      BY <1>1 DEF Peeked
    <2>5. Given(s)' = Given(s) /\ Given(s) \in Nat
      BY <2>2, Finite DEF Given, IInv
    <2>6. Cardinality(Owing(s)') = Cardinality(Owing(s)) - 1 /\ Cardinality(Owing(s)) \in Nat
          /\ Cardinality(Owing(s)') \in Nat
      <3>1. IsFiniteSet(Owing(s)) /\ Cardinality(Owing(s)) \in Nat
        BY Finite DEF IInv
      <3>2. IsFiniteSet(Owing(s) \ {p})
        BY <3>1, FS_RemoveElement
      <3>3. Cardinality(Owing(s) \ {p}) = Cardinality(Owing(s)) - 1
        BY <2>1, <3>1, FS_RemoveElement
      <3>4. Cardinality(Owing(s) \ {p}) \in Nat
        BY <3>2, FS_CardinalityType
      <3> QED BY <2>1, <3>1, <3>3, <3>4
    <2> QED BY <2>3, <2>4, <2>5, <2>6, RemovalBooked
  <1> QED BY <1>2, <1>3, <1>4 DEF Ledger

\* The hook removes what it takes for the row it is going to answer with.
LEMMA TakeStep ==
    ASSUME IInv, Ledger, NEW p \in Procs, NEW s \in Sessions, Removed(s),
           task' = [task EXCEPT ![p] = task'[p]], UNCHANGED <<typed, spilled, status>>,
           task[p].pc = "take", task[p].sid = s,
           task'[p].pc = "answer", task'[p].sid = s, task'[p].msg = task[p].msg
    PROVE  Ledger'
  <1>1. \A q \in Procs \ {p} : task'[q] = task[q]
    BY DEF IInv, TypeOK
  <1>2. Ahead'
    <2>1. task[p].msg \in Msgs /\ To[task[p].msg] = s /\ status[task[p].msg] = "queued"
      BY DEF Ledger, Ahead, Peeking, Queued
    <2> QED BY <2>1, StillAhead DEF Ledger
  <1>3. ASSUME NEW u \in Sessions, u # s PROVE Booked(u)'
    <2>1. SameReplies(u) /\ typed'[u] = typed[u] /\ Stored(u)' = Stored(u)
      BY <1>3 DEF SameReplies, Removed
    <2> QED BY <1>3, <2>1, Elsewhere DEF Ledger, IInv
  <1>4. Booked(s)'
    <2>1. Owing(s)' = Owing(s)
      BY <1>1 DEF Owing
    <2>2. /\ InHand(s)' = InHand(s) \cup {p} /\ p \notin InHand(s)
          /\ \A q \in InHand(s) : task'[q] = task[q]
      BY <1>1 DEF InHand
    <2>3. Handed(s)' \subseteq Handed(s) \cup {task[p].msg} /\ task[p].msg \in Peeked(s)
      BY <2>2 DEF Handed, Members, Peeked, Peeking
    <2>4. Peeked(s)' \subseteq Peeked(s)
      BY <1>1 DEF Peeked, Peeking
    <2>5. Given(s)' = Given(s) + 1 /\ Given(s) \in Nat
      <3>1. Cardinality(InHand(s) \cup {p}) = Cardinality(InHand(s)) + 1
        BY <2>2, Finite, FS_AddElement DEF IInv
      <3>2. Given(s)' = Len(typed'[s]) + Cardinality(InHand(s)') + spilled[s]
        BY DEF Given
      <3>3. /\ Len(typed[s]) \in Nat /\ Cardinality(InHand(s)) \in Nat
            /\ spilled[s] \in Nat
        BY Finite DEF IInv
      <3> QED BY <2>2, <3>1, <3>2, <3>3 DEF Given
    <2>6. Cardinality(Owing(s)) \in Nat
      BY Finite DEF IInv
    <2> QED BY <2>1, <2>3, <2>4, <2>5, <2>6, RemovalBooked
  <1> QED BY <1>2, <1>3, <1>4 DEF Ledger

\* The hook answers with the reply in its hand.
LEMMA AnswerStep ==
    ASSUME IInv, Ledger, NEW p \in Procs, NEW s \in Sessions, NEW m \in Msgs,
           task' = [task EXCEPT ![p] = task'[p]], UNCHANGED <<status, spilled>>,
           task[p].pc = "answer", task[p].sid = s, task[p].msg = m, Type(s, m),
           task'[p].pc \notin Peeking \cup {"answer"},
           \A u \in Sessions : Stored(u)' = Stored(u)
    PROVE  Ledger'
  <1>1. \A q \in Procs \ {p} : task'[q] = task[q]
    BY DEF IInv, TypeOK
  <1>2. Ahead'
    BY StillAhead DEF Ledger
  <1>3. ASSUME NEW u \in Sessions, u # s PROVE Booked(u)'
    <2>1. SameReplies(u) /\ typed'[u] = typed[u]
      BY <1>3, Typing DEF SameReplies, IInv
    <2> QED BY <1>3, <2>1, Elsewhere DEF Ledger, IInv
  <1>4. Booked(s)'
    <2>1. Owing(s)' = Owing(s) /\ \A q \in Owing(s) : task'[q] = task[q]
      BY <1>1 DEF Owing, Peeking
    <2>2. /\ InHand(s)' = InHand(s) \ {p} /\ p \in InHand(s)
          /\ \A q \in InHand(s) \ {p} : task'[q] = task[q]
      BY <1>1 DEF InHand
    <2>3. /\ Members(typed'[s]) = Members(typed[s]) \cup {m}
          /\ Len(typed'[s]) = Len(typed[s]) + 1
      BY Typing DEF IInv
    <2>4. Handed(s)' = Handed(s)
      <3>1. {task[q].msg : q \in InHand(s)}' = {task[q].msg : q \in InHand(s) \ {p}}
        BY <2>2
      <3>2. Handed(s)' = Members(typed'[s]) \cup {task[q].msg : q \in InHand(s)}'
        BY DEF Handed
      <3>3. {task[q].msg : q \in InHand(s)} = {task[q].msg : q \in InHand(s) \ {p}} \cup {m}
        BY <2>2
      <3> QED BY <2>3, <3>1, <3>2, <3>3 DEF Handed
    <2>5. Given(s)' = Given(s)
      <3>1. /\ IsFiniteSet(InHand(s)) /\ Cardinality(InHand(s)) \in Nat
            /\ Len(typed[s]) \in Nat /\ spilled[s] \in Nat
        BY Finite DEF IInv
      <3>2. Cardinality(InHand(s) \ {p}) = Cardinality(InHand(s)) - 1
        BY <2>2, <3>1, FS_RemoveElement
      <3>3. Given(s)' = Len(typed'[s]) + Cardinality(InHand(s)') + spilled[s]
        BY DEF Given
      <3> QED BY <2>2, <2>3, <3>1, <3>2, <3>3 DEF Given
    <2>6. Queued(s)' = Queued(s) /\ Direct(s)' = Direct(s) /\ Gone(s)' = Gone(s)
      BY DEF Queued, Direct, Gone, Members
    <2>7. Spent(s)' = Spent(s)
      BY <2>1, <2>6 DEF Spent
    <2>8. Peeked(s)' \subseteq Peeked(s)
      BY <1>1 DEF Peeked
    <2> QED BY <2>1, <2>4, <2>5, <2>6, <2>7, <2>8 DEF Ledger, Booked
  <1> QED BY <1>2, <1>3, <1>4 DEF Ledger

\* The reply in the hook's hand is spilled.
LEMMA SpillStep ==
    ASSUME IInv, Ledger, NEW p \in Procs, NEW s \in Sessions,
           task' = [task EXCEPT ![p] = task'[p]], UNCHANGED <<status, typed>>,
           task[p].pc = "answer", task[p].sid = s,
           spilled' = [spilled EXCEPT ![s] = @ + 1],
           task'[p].pc \notin Peeking \cup {"answer"},
           \A u \in Sessions : Stored(u)' = Stored(u)
    PROVE  Ledger'
  <1>1. \A q \in Procs \ {p} : task'[q] = task[q]
    BY DEF IInv, TypeOK
  <1>2. Ahead'
    BY StillAhead DEF Ledger
  <1>3. /\ spilled'[s] = spilled[s] + 1 /\ \A u \in Sessions \ {s} : spilled'[u] = spilled[u]
    BY DEF IInv, TypeOK
  <1>4. ASSUME NEW u \in Sessions, u # s PROVE Booked(u)'
    BY <1>3, <1>4, Elsewhere DEF Ledger, IInv, SameReplies
  <1>5. Booked(s)'
    <2>1. Owing(s)' = Owing(s) /\ \A q \in Owing(s) : task'[q] = task[q]
      BY <1>1 DEF Owing, Peeking
    <2>2. /\ InHand(s)' = InHand(s) \ {p} /\ p \in InHand(s)
          /\ \A q \in InHand(s) \ {p} : task'[q] = task[q]
      BY <1>1 DEF InHand
    <2>3. Handed(s)' \subseteq Handed(s)
      <3>1. {task[q].msg : q \in InHand(s)}' = {task[q].msg : q \in InHand(s) \ {p}}
        BY <2>2
      <3>2. Handed(s)' = Members(typed'[s]) \cup {task[q].msg : q \in InHand(s)}'
        BY DEF Handed
      <3> QED BY <3>1, <3>2 DEF Handed
    <2>4. Given(s)' = Given(s)
      <3>1. /\ IsFiniteSet(InHand(s)) /\ Cardinality(InHand(s)) \in Nat
            /\ Len(typed[s]) \in Nat /\ spilled[s] \in Nat
        BY Finite DEF IInv
      <3>2. Cardinality(InHand(s) \ {p}) = Cardinality(InHand(s)) - 1
        BY <2>2, <3>1, FS_RemoveElement
      <3>3. Given(s)' = Len(typed[s]) + Cardinality(InHand(s)') + spilled'[s]
        BY DEF Given
      <3>4. Cardinality(InHand(s)') = Cardinality(InHand(s)) - 1 /\ spilled'[s] = spilled[s] + 1
        BY <1>3, <2>2, <3>2
      <3>5. typed'[s] = typed[s]
        OBVIOUS
      <3>6. Given(s) = Len(typed[s]) + Cardinality(InHand(s)) + spilled[s]
        BY DEF Given
      <3> HIDE DEF IInv
      <3> QED BY <3>1, <3>3, <3>4, <3>5, <3>6
    <2>5. Queued(s)' = Queued(s) /\ Direct(s)' = Direct(s) /\ Gone(s)' = Gone(s)
      BY DEF Queued, Direct, Gone, Members
    <2>6. Spent(s)' = Spent(s)
      BY <2>1, <2>5 DEF Spent
    <2>7. Peeked(s)' \subseteq Peeked(s)
      BY <1>1 DEF Peeked
    <2> QED BY <2>1, <2>3, <2>4, <2>5, <2>6, <2>7 DEF Ledger, Booked
  <1> QED BY <1>2, <1>4, <1>5 DEF Ledger

\* A step of p that neither hands anything over nor looks at a row.
LEMMA IdleStep ==
    ASSUME IInv, Ledger, NEW p \in Procs, task' = [task EXCEPT ![p] = task'[p]],
           UNCHANGED <<queue, writing, status, typed, spilled>>,
           task[p].pc \notin {"dequeue", "take", "answer"},
           task'[p].pc \notin Peeking \cup {"answer"}
    PROVE  Ledger'
  BY StoredKept, QuietStep DEF SameReplies

LEMMA SendBooks ==
    ASSUME IInv, Ledger, NEW p \in Procs, NEW m \in Msgs, Send(p, m) PROVE Ledger'
  <1>1. /\ task' = [task EXCEPT ![p] = task'[p]] /\ task[p].pc = "ready"
        /\ task'[p].pc = "pty"
    BY TaskSet DEF Send, Runs, Ready, IInv
  <1>2. /\ status[m] = "unsent" /\ status' = [status EXCEPT ![m] = "sending"]
        /\ UNCHANGED <<typed, spilled>>
    BY DEF Send
  <1>3. \A u \in Sessions : Stored(u)' = Stored(u) /\ SameReplies(u)
    BY <1>2, StoredKept DEF Send, file, SameReplies, IInv, TypeOK
  <1> QED BY <1>1, <1>2, <1>3, QuietStep DEF Peeking

LEMMA SenderBooks ==
    ASSUME IInv, Ledger, NEW p \in Procs, SenderStep(p) PROVE Ledger'
  <1>0. PICK m, s : m = task[p].msg /\ s = task[p].sid
    OBVIOUS
  <1>1. /\ task[p].pc \in Sending /\ s \in Sessions /\ m \in Msgs
        /\ status[m] = "sending" /\ task \in [Procs -> Task]
        /\ task[p].pc \notin {"dequeue", "take", "answer"}
    BY <1>0, TaskSet
       DEF SenderStep, SendPTY, CheckPending, SendImmediate, Enqueue, Runs, Sending, IInv,
           Frames, Frame
  <1>2. /\ task' = [task EXCEPT ![p] = task'[p]]
        /\ task'[p].pc \notin Peeking \cup {"answer"}
    BY <1>1 DEF SenderStep, SendPTY, CheckPending, SendImmediate, Enqueue, Goto, Ready,
                Peeking, Task
  <1>3. ASSUME UNCHANGED <<queue, writing, status, typed, spilled>> PROVE Ledger'
    BY <1>1, <1>2, <1>3, IdleStep
  <1>4. ASSUME UNCHANGED <<queue, writing, spilled>>, Type(s, m), Report(m, "delivered")
        PROVE  Ledger'
    BY <1>0, <1>1, <1>2, <1>4, StoredKept, DirectStep
  <1>5. CASE SendPTY(p)
    BY <1>0, <1>3, <1>4, <1>5 DEF SendPTY, file
  <1>6. CASE CheckPending(p)
    BY <1>3, <1>6 DEF CheckPending, file, history
  <1>7. CASE SendImmediate(p)
    BY <1>0, <1>3, <1>4, <1>7 DEF SendImmediate, file
  <1>8. CASE Enqueue(p)
    <2>1. /\ Unlocked /\ UNCHANGED <<typed, spilled>>
          /\ queue[s] \in Seq(Msgs) /\ Stored(s) = queue[s]
      BY <1>1, <1>8, StoredUnlocked DEF Enqueue, history, IInv, TypeOK
    <2>2. CASE Write(p, s, Enqueued(queue[s], m)) /\ Report(m, "queued")
      <3>1. Append(queue[s], m) \in Seq(Msgs)
        BY <1>1, <2>1, AppendProperties
      <3>2. Stored(s)' = Append(Stored(s), m) /\ \A u \in Sessions \ {s} : Stored(u)' = Stored(u)
        BY <1>1, <2>1, <2>2, <3>1, Written DEF Enqueued, IInv
      <3> QED BY <1>0, <1>1, <1>2, <2>1, <2>2, <3>2, AddStep
    <2>3. CASE WriteFails /\ Report(m, "refused")
      <3>1. \A u \in Sessions : Stored(u)' = Stored(u) /\ SameReplies(u)
        BY <1>1, <2>3, StoredKept DEF WriteFails, Report, SameReplies, IInv, TypeOK
      <3> QED BY <1>1, <1>2, <2>1, <3>1, QuietStep
    <2> QED BY <1>0, <1>8, <2>2, <2>3 DEF Enqueue
  <1> QED BY <1>5, <1>6, <1>7, <1>8 DEF SenderStep

LEMMA StartBooks ==
    ASSUME IInv, Ledger, NEW p \in Procs,
           StartTicker(p) \/ (\E s \in Sessions : StartNotifier(p, s)) \/ List(p) \/ NextSession(p)
    PROVE  Ledger'
  <1>0. task \in [Procs -> Task]
    BY TaskSet DEF IInv
  <1>1. /\ task' = [task EXCEPT ![p] = task'[p]]
        /\ task[p].pc \notin {"dequeue", "take", "answer"}
        /\ task'[p].pc \notin Peeking \cup {"answer"}
    <2>1. CASE StartTicker(p)
      BY <1>0, <2>1 DEF StartTicker, Goto, Runs, Peeking, Task
    <2>2. ASSUME NEW s \in Sessions, StartNotifier(p, s)
          PROVE  /\ task' = [task EXCEPT ![p] = task'[p]]
                 /\ task[p].pc = "ready" /\ task'[p].pc = "next"
      BY <1>0, <2>2 DEF StartNotifier, Runs, Ready
    <2>3. CASE List(p)
      BY <1>0, <2>3 DEF List, Runs, Ready, Peeking
    <2>4. ASSUME NextSession(p)
          PROVE  /\ task' = [task EXCEPT ![p] = task'[p]]
                 /\ task[p].pc = "next" /\ task'[p].pc \in {"ready", "next", "peek"}
      <3>1. CASE task' = [task EXCEPT ![p] = Ready]
        BY <1>0, <2>4, <3>1 DEF NextSession, Runs, Ready
      <3>2. ASSUME NEW s \in task[p].todo,
                   task' = [task EXCEPT ![p] =
                              [pc |-> IF queue[s] = <<>> THEN "next" ELSE "peek", sid |-> s,
                               msg |-> None, n |-> 0, todo |-> @.todo \ {s}]]
            PROVE  /\ task' = [task EXCEPT ![p] = task'[p]]
                   /\ task'[p].pc \in {"ready", "next", "peek"}
        BY <1>0, <3>2
      <3> QED BY <2>4, <3>1, <3>2 DEF NextSession, Runs, Ready
    <2> QED BY <2>1, <2>2, <2>3, <2>4 DEF Peeking
  <1>2. UNCHANGED <<queue, writing, status, typed, spilled>>
    BY DEF StartTicker, StartNotifier, List, NextSession, file, history
  <1> QED BY <1>1, <1>2, IdleStep

LEMMA HeadIsFirst ==
    ASSUME IInv, Unlocked, NEW s \in Sessions, queue[s] # <<>>
    PROVE  1 \in DOMAIN Stored(s) /\ Head(queue[s]) = Stored(s)[1]
  <1>1. queue[s] \in Seq(Msgs) /\ Stored(s) = queue[s]
    BY StoredUnlocked DEF IInv, TypeOK
  <1> QED BY <1>1, HeadTailProperties, LenProperties, EmptySeq

LEMMA PeekBooks == ASSUME IInv, Ledger, NEW p \in Procs, Peek(p) PROVE Ledger'
  <1>0. PICK s : s = task[p].sid
    OBVIOUS
  <1>1. /\ task[p].pc = "peek" /\ s \in Sessions /\ Unlocked /\ task \in [Procs -> Task]
        /\ UNCHANGED <<queue, writing, status, typed, spilled>>
    BY <1>0, TaskSet DEF Peek, Runs, file, history, IInv, Frames, Frame
  <1>2. /\ task' = [task EXCEPT ![p] = task'[p]]
        /\ \/ task'[p].pc = "next"
           \/ /\ queue[s] # <<>> /\ task'[p].pc = "try"
              /\ task'[p].sid = s /\ task'[p].msg = Head(queue[s])
    BY <1>0, <1>1 DEF Peek, Task
  <1>3. CASE task'[p].pc = "next"
    BY <1>1, <1>2, <1>3, IdleStep DEF Peeking
  <1>4. CASE /\ queue[s] # <<>> /\ task'[p].pc = "try"
             /\ task'[p].sid = s /\ task'[p].msg = Head(queue[s])
    BY <1>1, <1>2, <1>4, HeadIsFirst, StoredKept, LookStep
  <1> QED BY <1>2, <1>3, <1>4

LEMMA RetryBooks == ASSUME IInv, Ledger, NEW p \in Procs, RetryImmediate(p) PROVE Ledger'
  <1>0. PICK m, s : m = task[p].msg /\ s = task[p].sid
    OBVIOUS
  <1>1. /\ task[p].pc = "try" /\ s \in Sessions /\ m \in Msgs /\ task \in [Procs -> Task]
        /\ UNCHANGED <<queue, writing, status, spilled>>
    BY <1>0, TaskSet DEF RetryImmediate, Runs, file, IInv, Frames, Frame
  <1>2. /\ task' = [task EXCEPT ![p] = task'[p]]
        /\ task'[p].sid = s /\ task'[p].msg = m
        /\ \/ task'[p].pc = "dequeue" /\ Type(s, m)
           \/ task'[p].pc = "mark" /\ typed' = typed
    BY <1>0, <1>1 DEF RetryImmediate, AfterAttempt, Goto, Task
  <1>3. CASE task'[p].pc = "mark" /\ typed' = typed
    BY <1>1, <1>2, <1>3, IdleStep DEF Peeking
  <1>4. CASE task'[p].pc = "dequeue" /\ Type(s, m)
    BY <1>0, <1>1, <1>2, <1>4, StoredKept, HandStep
  <1> QED BY <1>2, <1>3, <1>4

LEMMA MarkBooks == ASSUME IInv, Ledger, NEW p \in Procs, MarkAttempt(p) PROVE Ledger'
  <1>0. PICK s : s = task[p].sid
    OBVIOUS
  <1>1. /\ task[p].pc = "mark" /\ s \in Sessions /\ Unlocked /\ queue[s] \in Seq(Msgs)
        /\ task' = [task EXCEPT ![p] = task'[p]] /\ task'[p].pc = "next"
        /\ UNCHANGED <<status, typed, spilled>>
    <2>1. task \in [Procs -> Task] /\ queue \in [Sessions -> Seq(Msgs)]
      BY TaskSet DEF IInv, TypeOK
    <2>2. /\ task[p].pc = "mark" /\ s \in Sessions /\ Unlocked /\ UNCHANGED <<status, typed, spilled>>
      BY <1>0 DEF MarkAttempt, Runs, history, IInv, Frames, Frame
    <2>3. task' = [task EXCEPT ![p].pc = "next", ![p].msg = None]
      BY Marked
    <2>4. task' = [task EXCEPT ![p] = task'[p]] /\ task'[p].pc = "next"
      <3>1. task[p] \in Task /\ DOMAIN task = Procs
        BY <2>1
      <3>2. task' = [task EXCEPT ![p] = [task[p] EXCEPT !.pc = "next", !.msg = None]]
        BY <2>3
      <3>3. task'[p] = [task[p] EXCEPT !.pc = "next", !.msg = None]
        BY <3>1, <3>2
      <3>4. task'[p].pc = "next"
        BY <3>1, <3>3 DEF Task
      <3> QED BY <3>2, <3>3, <3>4
    <2> QED BY <2>1, <2>2, <2>4
  <1>2. \A u \in Sessions : Stored(u)' = Stored(u)
    <2>1. CASE Write(p, s, queue[s])
      BY <1>1, <2>1, Written, StoredUnlocked DEF IInv
    <2>2. CASE WriteFails \/ UNCHANGED file
      BY <2>2, StoredKept DEF WriteFails, file
    <2> QED BY <1>0, <2>1, <2>2 DEF MarkAttempt
  <1> QED BY <1>1, <1>2, QuietStep DEF SameReplies, Peeking

LEMMA RetryDequeueBooks ==
    ASSUME IInv, Ledger, NEW p \in Procs, RetryDequeue(p) PROVE Ledger'
  <1>0. PICK s : s = task[p].sid
    OBVIOUS
  <1>1. /\ task[p].pc = "dequeue" /\ s \in Sessions /\ Unlocked /\ DequeueHead(p, s)
        /\ task' = [task EXCEPT ![p] = task'[p]] /\ task'[p].pc = "peek"
        /\ UNCHANGED <<status, typed, spilled>>
    BY <1>0, TaskSet DEF RetryDequeue, Runs, history, IInv, Frames, Frame, Task
  <1> QED BY <1>0, <1>1, HeadRemoved, RemoveStep DEF Peeking

LEMMA HookBooks ==
    ASSUME IInv, Ledger, NEW p \in Procs,
           HookStep(p) \/ \E s \in Sessions, kind \in Kinds : HookPeek(p, s, kind)
    PROVE  Ledger'
  <1>1. ASSUME NEW s \in Sessions, NEW kind \in Kinds, HookPeek(p, s, kind) PROVE Ledger'
    <2>1. /\ task[p].pc = "ready" /\ Unlocked /\ queue[s] # <<>>
          /\ task' = [task EXCEPT ![p] = task'[p]] /\ task'[p].pc = "take"
          /\ task'[p].sid = s /\ task'[p].msg = Head(queue[s])
          /\ UNCHANGED <<queue, writing, status, typed, spilled>>
      BY <1>1, TaskSet DEF HookPeek, Runs, Ready, file, history, IInv
    <2> QED BY <2>1, HeadIsFirst, StoredKept, LookStep
  <1>0. PICK m, s : m = task[p].msg /\ s = task[p].sid
    OBVIOUS
  <1>2. CASE HookDequeue(p)
    <2>1. /\ task[p].pc = "take" /\ s \in Sessions /\ Unlocked /\ DequeueHead(p, s)
          /\ task' = [task EXCEPT ![p] = task'[p]] /\ task'[p].pc = "answer"
          /\ task'[p].sid = s /\ task'[p].msg = m
          /\ UNCHANGED <<status, typed, spilled>>
      BY <1>0, <1>2, TaskSet DEF HookDequeue, Runs, Goto, history, IInv, Frames, Frame, Task
    <2> QED BY <1>0, <2>1, HeadRemoved, TakeStep
  <1>3. CASE HookAnswer(p)
    <2>1. /\ task[p].pc = "answer" /\ s \in Sessions /\ m \in Msgs
          /\ task' = [task EXCEPT ![p] = task'[p]] /\ task'[p].pc = "ready"
          /\ UNCHANGED <<queue, writing, status, spilled>> /\ Type(s, m)
      BY <1>0, <1>3, TaskSet DEF HookAnswer, Runs, Ready, file, IInv, Frames, Frame
    <2> QED BY <1>0, <2>1, StoredKept, AnswerStep DEF Peeking
  <1>4. CASE LoseAnswer(p)
    <2>1. /\ task[p].pc = "answer" /\ s \in Sessions
          /\ task' = [task EXCEPT ![p] = task'[p]] /\ task'[p].pc = "ready"
          /\ UNCHANGED <<queue, writing, status, typed>>
          /\ spilled' = [spilled EXCEPT ![s] = @ + 1]
      BY <1>0, <1>4, TaskSet DEF LoseAnswer, Runs, Ready, IInv, Frames, Frame
    <2> QED BY <1>0, <2>1, StoredKept, SpillStep DEF Peeking
  <1> QED BY <1>1, <1>2, <1>3, <1>4 DEF HookStep

\* However rows came to a file, there are not more replies in it than rows.
LEMMA FewerThanRows ==
    ASSUME NEW rows \in Seq(Msgs)
    PROVE  /\ IsFiniteSet(Members(rows)) /\ Cardinality(Members(rows)) \in Nat
           /\ Cardinality(Members(rows)) <= Len(rows)
  <1>1. Len(rows) \in Nat /\ DOMAIN rows = 1..Len(rows)
    BY LenProperties
  <1>2. IsFiniteSet(1..Len(rows)) /\ Cardinality(1..Len(rows)) = Len(rows)
    <2>1. PICK n \in Nat : n = Len(rows)
      BY <1>1
    <2>2. IsFiniteSet(1..n) /\ Cardinality(1..n) = IF 1 > n THEN 0 ELSE n - 1 + 1
      BY FS_Interval
    <2> QED BY <2>1, <2>2
  <1> DEFINE f == [i \in 1..Len(rows) |-> rows[i]]
  <1>3. f \in Surjection(1..Len(rows), Members(rows))
    BY <1>1 DEF Members, Surjection
  <1> HIDE DEF f
  <1> QED BY <1>2, <1>3, FS_Surjection, FS_CardinalityType

\* A crash spills what was in a hand and the file that was being replaced.
LEMMA CrashBooks == ASSUME IInv, Ledger, Crash PROVE Ledger'
  <1>1. /\ task' = [p \in Procs |-> Ready] /\ writing' = NoWrite
        /\ queue' = queue /\ typed' = typed
        /\ \A m \in Msgs : status'[m] = IF status[m] = "sending" THEN "unknown" ELSE status[m]
    BY DEF Crash
  <1>2. Ahead'
    BY <1>1 DEF Ahead, Peeking, Ready
  <1>3. ASSUME NEW u \in Sessions PROVE Booked(u)'
    <2>1. Owing(u)' = {} /\ InHand(u)' = {} /\ Peeked(u)' = {}
      BY <1>1 DEF Owing, InHand, Peeked, Peeking, Ready
    <2>2. Queued(u)' = Queued(u) /\ Direct(u)' = Direct(u)
      BY <1>1 DEF Queued, Direct
    <2>3. Handed(u)' = Members(typed[u]) /\ Members(typed[u]) \subseteq Handed(u)
      <3>1. Handed(u)' = Members(typed'[u]) \cup {task[p].msg : p \in InHand(u)}'
        BY DEF Handed
      <3> QED BY <1>1, <2>1, <3>1 DEF Handed
    <2>4. Cardinality(Owing(u)') = 0 /\ Cardinality(InHand(u)') = 0
      BY <2>1, FS_EmptySet
    <2>6. /\ IsFiniteSet(Gone(u)) /\ Cardinality(Gone(u)) \in Nat
          /\ Cardinality(Direct(u)) \in Nat /\ Cardinality(Owing(u)) \in Nat
          /\ Cardinality(InHand(u)) \in Nat
          /\ spilled[u] \in Nat /\ Booked(u)
      BY Finite DEF IInv, Ledger
    <2>11. PICK n \in Nat : n = Len(typed[u])
      BY Finite DEF IInv
    <2>5. /\ Cardinality(Gone(u)') \in Nat =>
                 Spent(u)' = Cardinality(Gone(u)') + Cardinality(Direct(u))
          /\ spilled'[u] \in Nat => Given(u)' = n + spilled'[u]
      <3>1. Spent(u)' = Cardinality(Gone(u)') + Cardinality(Direct(u)') + Cardinality(Owing(u)')
        BY DEF Spent
      <3>2. Given(u)' = Len(typed'[u]) + Cardinality(InHand(u)') + spilled'[u]
        BY DEF Given
      <3> QED BY <1>1, <2>2, <2>4, <2>6, <2>11, <3>1, <3>2
    <2>7. /\ Spent(u) <= Given(u)
          /\ Spent(u) = Cardinality(Gone(u)) + Cardinality(Direct(u)) + Cardinality(Owing(u))
          /\ Given(u) = n + Cardinality(InHand(u)) + spilled[u]
      BY <2>6, <2>11 DEF Booked, Spent, Given
    <2>8. \A m \in Handed(u)' : m \in Queued(u)' \cup Direct(u)'
      BY <2>2, <2>3, <2>6 DEF Booked
    <2>9. CASE writing.sid = u
      <3>1. writing \in [who : Procs, sid : Sessions, rows : Seq(Msgs)] /\ queue[u] = <<>>
        BY <2>9 DEF IInv, TypeOK, NoWrite, Absent
      <3>2. Stored(u)' = <<>> /\ Stored(u) = writing.rows
        BY <1>1, <2>9, <3>1 DEF Stored, NoWrite
      <3>0. PICK r \in Nat : r = Len(writing.rows)
        BY <3>1, LenProperties
      <3>3. /\ IsFiniteSet(Members(Stored(u))) /\ Cardinality(Members(Stored(u))) \in Nat
            /\ Cardinality(Members(Stored(u))) <= r /\ r \in Nat
        BY <3>0, <3>1, <3>2, FewerThanRows
      <3>4. Gone(u)' \subseteq Gone(u) \cup Members(Stored(u))
        BY <2>2 DEF Gone
      <3>5. /\ Cardinality(Gone(u)') <= Cardinality(Gone(u)) + Cardinality(Members(Stored(u)))
            /\ Cardinality(Gone(u)') \in Nat
        <4>1. /\ IsFiniteSet(Gone(u) \cup Members(Stored(u)))
              /\ Cardinality(Gone(u) \cup Members(Stored(u))) \in Nat
              /\ Cardinality(Gone(u) \cup Members(Stored(u)))
                     <= Cardinality(Gone(u)) + Cardinality(Members(Stored(u)))
          BY <2>6, <3>3, UnionBound
        <4>2. /\ IsFiniteSet(Gone(u)')
              /\ Cardinality(Gone(u)') <= Cardinality(Gone(u) \cup Members(Stored(u)))
          BY <3>4, <4>1, FS_Subset
        <4>3. Cardinality(Gone(u)') \in Nat
          BY <4>2, FS_CardinalityType
        <4> QED BY <2>6, <3>3, <4>1, <4>2, <4>3
      <3>6. spilled'[u] = spilled[u] + Cardinality(InHand(u)) + r
        BY <2>9, <3>0 DEF Crash
      <3>7. Spent(u)' <= Given(u)'
        <4>1. spilled'[u] \in Nat
          BY <2>6, <3>3, <3>6
        <4>2. Given(u)' = Given(u) + r /\ Given(u) \in Nat /\ Given(u)' \in Nat
          BY <2>5, <2>6, <2>7, <3>3, <3>6, <4>1
        <4>3. Spent(u)' <= Spent(u) + r /\ Spent(u)' \in Nat /\ Spent(u) \in Nat
          BY <2>5, <2>6, <2>7, <3>3, <3>5
        <4> QED BY <2>7, <3>3, <4>2, <4>3
      <3> QED BY <2>8, <3>2, <3>7 DEF Booked
    <2>10. CASE writing.sid # u
      <3>1. Stored(u)' = Stored(u)
        BY <1>1, <2>10 DEF Stored, NoWrite
      <3>2. Gone(u)' = Gone(u)
        BY <2>2, <3>1 DEF Gone, Members
      <3>3. spilled'[u] = spilled[u] + Cardinality(InHand(u))
        BY <2>6, <2>10 DEF Crash
      <3>4. Given(u)' = Given(u) /\ Spent(u)' + Cardinality(Owing(u)) = Spent(u)
        BY <2>5, <2>6, <2>7, <3>2, <3>3
      <3>5. Spent(u) \in Nat /\ Given(u) \in Nat /\ Spent(u)' \in Nat
        BY <2>5, <2>6, <2>7, <3>2
      <3>6. ASSUME NEW p \in Owing(u) PROVE Spent(u)' < Given(u)'
        <4>1. Cardinality(Owing(u)) # 0
          BY <2>6, <3>6, Finite, FS_EmptySet DEF IInv
        <4> QED BY <2>6, <2>7, <3>4, <3>5, <4>1
      <3>7. /\ Spent(u)' <= Given(u)'
            /\ Spent(u) < Given(u) => Spent(u)' < Given(u)'
        BY <2>6, <2>7, <3>4, <3>5
      <3>8. \A i \in DOMAIN Stored(u)' :
                i # 1 => Stored(u)'[i] \notin Handed(u)' \cup Peeked(u)'
        BY <2>1, <2>3, <2>6, <3>1 DEF Booked
      <3>9. 1 \in DOMAIN Stored(u)' /\ Stored(u)'[1] \in Handed(u)' => Spent(u)' < Given(u)'
        BY <2>3, <2>6, <3>1, <3>6, <3>7 DEF Booked
      <3> QED BY <2>8, <3>7, <3>8, <3>9 DEF Booked
    <2> QED BY <2>9, <2>10
  <1> QED BY <1>2, <1>3 DEF Ledger

LEMMA LedgerStep ==
    ASSUME IInv, Ledger, [Next]_vars PROVE Ledger'
  <1>1. ASSUME NEW p \in Procs, NEW m \in Msgs, Send(p, m) PROVE Ledger'
    BY <1>1, SendBooks
  <1>2. ASSUME NEW p \in Procs, SenderStep(p) \/ DrainStep(p) \/ HookStep(p) \/ StartTicker(p)
        PROVE  Ledger'
    BY <1>2, SenderBooks, StartBooks, PeekBooks, RetryBooks, MarkBooks, RetryDequeueBooks,
       HookBooks DEF DrainStep
  <1>3. ASSUME NEW p \in Procs, NEW s \in Sessions, StartNotifier(p, s) PROVE Ledger'
    BY <1>3, StartBooks
  <1>4. ASSUME NEW p \in Procs, NEW s \in Sessions, NEW kind \in Kinds, HookPeek(p, s, kind)
        PROVE  Ledger'
    BY <1>4, HookBooks
  <1>5. CASE Rename
    <2>1. UNCHANGED <<task, typed, spilled, status>>
      BY <1>5 DEF Rename, history
    <2> QED BY <1>5, <2>1, Renamed, LedgerKept DEF IInv
  <1>6. ASSUME NEW s \in Sessions, EndpointChanges(s) \/ PTYChanges(s) PROVE Ledger'
    BY <1>6, StoredKept, LedgerKept DEF EndpointChanges, PTYChanges, file, history
  <1>7. CASE UNCHANGED vars
    BY <1>7, StoredKept, LedgerKept DEF vars, file, history
  <1>8. CASE Crash
    BY <1>8, CrashBooks
  <1> QED BY <1>1, <1>2, <1>3, <1>4, <1>5, <1>6, <1>7, <1>8 DEF Next

LEMMA LedgerHolds == Spec => []Ledger
  BY InitLedger, LedgerStep, InvHolds, PTL DEF Spec

\* However many senders, tickers, notifiers and hooks race for the outbox, and
\* wherever the host crashes, a reply that was queued and is nowhere any more was
\* paid for by another the agent got twice, was in a file caught between the remove
\* and the rename of writeQueue, or was in the hands of a hook that did not get
\* through with it (deliver.go:165-185, hooks.go:10-45, outbox.go:173-174).
THEOREM LossIsPaidFor == Spec => []LossNeedsDuplicate
  <1>1. IInv /\ Ledger => LossNeedsDuplicate
    BY BooksShow
  <1> QED BY <1>1, InvHolds, LedgerHolds, PTL

(***************************************************************************)
(* Nothing but a PTY passes a reply that waits in the file.                *)
(***************************************************************************)

\* Where a goroutine has looked at the file and is about to reach the agent.
Passing == {"attempt", "try", "take", "answer"}

NoneEarlier ==
    /\ \A m \in Msgs : m \notin before[m]
    /\ \A p \in Procs, s \in Sessions, m \in Msgs :
           task[p].pc \in Passing /\ task[p].sid = s /\ task[p].msg = m =>
               before[m] \cap Members(Stored(s)) = {}

\* A row that was not in the file is that of a reply whose sender is still busy
\* with it.
LEMMA OnlyEnqueueAdds ==
    ASSUME IInv, [Next]_vars, NEW s \in Sessions, NEW m \in Members(Stored(s)')
    PROVE  m \in Members(Stored(s)) \/ status[m] = "sending"
  <1>1. ASSUME Stored(s)' = Stored(s) PROVE m \in Members(Stored(s))
    BY <1>1 DEF Members
  <1>2. ASSUME UNCHANGED <<queue, writing>> PROVE m \in Members(Stored(s))
    BY <1>1, <1>2, StoredKept
  <1>3. ASSUME NEW u \in Sessions, Removed(u) PROVE m \in Members(Stored(s))
    <2>1. CASE Stored(s)' = Stored(s)
      BY <1>1, <2>1
    <2>2. CASE Stored(s) # <<>> /\ Stored(s)' = Tail(Stored(s))
      BY <2>2, FirstGone
    <2> QED BY <1>3, <2>1, <2>2 DEF Removed
  <1>4. ASSUME NEW p \in Procs, Enqueue(p)
        PROVE  m \in Members(Stored(s)) \/ status[m] = "sending"
    <2>1. PICK r, u : r = task[p].msg /\ u = task[p].sid
      OBVIOUS
    <2>2. /\ u \in Sessions /\ r \in Msgs /\ status[r] = "sending" /\ Unlocked
          /\ Stored(u) \in Seq(Msgs) /\ Stored(u) = queue[u]
      BY <1>4, <2>1, StoredUnlocked, StoredType
         DEF Enqueue, Runs, Sending, IInv, Frames, Frame
    <2>3. CASE Write(p, u, Append(Stored(u), r))
      <3>1. Append(Stored(u), r) \in Seq(Msgs)
        BY <2>2, AppendProperties
      <3>2. Stored(u)' = Append(Stored(u), r) /\ \A v \in Sessions \ {u} : Stored(v)' = Stored(v)
        BY <2>2, <2>3, <3>1, Written DEF IInv
      <3>3. Members(Append(Stored(u), r)) = Members(Stored(u)) \cup {r}
        BY <2>2, Appended
      <3> QED BY <1>1, <2>2, <3>2, <3>3
    <2>4. CASE WriteFails
      BY <1>2, <2>4 DEF WriteFails
    <2> QED BY <1>4, <2>1, <2>2, <2>3, <2>4 DEF Enqueue, Enqueued
  <1>5. ASSUME NEW p \in Procs, MarkAttempt(p) PROVE m \in Members(Stored(s))
    <2>1. PICK u : u = task[p].sid
      OBVIOUS
    <2>2. u \in Sessions /\ Unlocked /\ queue[u] \in Seq(Msgs)
      BY <1>5, <2>1 DEF MarkAttempt, Runs, IInv, TypeOK, Frames, Frame
    <2>3. CASE Write(p, u, queue[u])
      <3>1. \A v \in Sessions : Stored(v)' = Stored(v)
        BY <2>2, <2>3, Written, StoredUnlocked DEF IInv
      <3> QED BY <1>1, <3>1
    <2>4. CASE WriteFails \/ UNCHANGED file
      BY <1>2, <2>4 DEF WriteFails, file
    <2> QED BY <1>5, <2>1, <2>3, <2>4 DEF MarkAttempt
  <1>6. ASSUME NEW p \in Procs, RetryDequeue(p) \/ HookDequeue(p)
        PROVE  m \in Members(Stored(s))
    <2>1. PICK u : u = task[p].sid
      OBVIOUS
    <2>2. u \in Sessions /\ Unlocked /\ DequeueHead(p, u)
      BY <1>6, <2>1 DEF RetryDequeue, HookDequeue, Runs, IInv, Frames, Frame
    <2> QED BY <1>3, <2>2, HeadRemoved
  <1>7. ASSUME NEW p \in Procs,
               \/ SenderStep(p) /\ ~Enqueue(p)
               \/ DrainStep(p) /\ ~MarkAttempt(p) /\ ~RetryDequeue(p)
               \/ HookStep(p) /\ ~HookDequeue(p)
               \/ StartTicker(p)
               \/ \E r \in Msgs : Send(p, r)
               \/ \E u \in Sessions : StartNotifier(p, u)
               \/ \E u \in Sessions, kind \in Kinds : HookPeek(p, u, kind)
        PROVE  UNCHANGED <<queue, writing>>
    BY <1>7 DEF SenderStep, SendPTY, CheckPending, SendImmediate, DrainStep, List, NextSession,
                Peek, RetryImmediate, HookStep, HookAnswer, LoseAnswer, StartTicker, Send,
                StartNotifier, HookPeek, file
  <1>8. CASE Rename
    BY <1>1, <1>8, Renamed DEF IInv
  <1>9. CASE Crash
    <2>1. Stored(s)' = Stored(s) \/ Stored(s)' = <<>>
      BY <1>9 DEF Crash, Stored, NoWrite, IInv, Absent
    <2> QED BY <1>1, <2>1 DEF Members
  <1>10. ASSUME NEW u \in Sessions, EndpointChanges(u) \/ PTYChanges(u)
         PROVE  UNCHANGED <<queue, writing>>
    BY <1>10 DEF EndpointChanges, PTYChanges, file
  <1>11. CASE UNCHANGED vars
    BY <1>2, <1>11 DEF vars, file
  <1> QED BY <1>2, <1>4, <1>5, <1>6, <1>7, <1>8, <1>9, <1>10, <1>11 DEF Next

\* What was settled before a send is noted once, when the send begins.
LEMMA BeforeFixed ==
    ASSUME IInv, [Next]_vars, NEW m \in Msgs
    PROVE  \/ before'[m] = before[m]
           \/ status[m] = "unsent" /\ before'[m] = Settled
  <1>1. ASSUME NEW p \in Procs, NEW r \in Msgs, Send(p, r)
        PROVE  \/ before'[m] = before[m]
               \/ status[m] = "unsent" /\ before'[m] = Settled
    BY <1>1 DEF Send, IInv, TypeOK
  <1>2. CASE \A p \in Procs, r \in Msgs : ~Send(p, r)
    <2>1. before' = before
      BY <1>2 DEF Next, SenderStep, SendPTY, CheckPending, SendImmediate, Enqueue, DrainStep,
                  List, NextSession, Peek, RetryImmediate, MarkAttempt, RetryDequeue, HookStep,
                  HookDequeue, HookAnswer, LoseAnswer, StartTicker, StartNotifier, HookPeek,
                  Rename, EndpointChanges, PTYChanges, Crash, vars, history
    <2> QED BY <2>1
  <1> QED BY <1>1, <1>2

\* Who gets to reach the agent was about to already, or has found the file empty, or
\* has taken its first row up.
Looks(p) ==
    \/ /\ task[p].pc \in Passing
       /\ task'[p].msg = task[p].msg /\ task'[p].sid = task[p].sid
    \/ /\ UNCHANGED <<queue, writing>> /\ Stored(task'[p].sid) = <<>>
       /\ status[task'[p].msg] = "sending"
    \/ /\ UNCHANGED <<queue, writing>> /\ 1 \in DOMAIN Stored(task'[p].sid)
       /\ task'[p].msg = Stored(task'[p].sid)[1]

LEMMA LooksOfOne ==
    ASSUME IInv, Ledger, NEW p \in Procs, task'[p].pc \in Passing,
           \/ SenderStep(p) \/ DrainStep(p) \/ HookStep(p) \/ StartTicker(p)
           \/ \E m \in Msgs : Send(p, m)
           \/ \E s \in Sessions : StartNotifier(p, s)
           \/ \E s \in Sessions, kind \in Kinds : HookPeek(p, s, kind)
    PROVE  Looks(p) /\ task'[p].sid \in Sessions /\ task'[p].msg \in Msgs
  <1>0. task \in [Procs -> Task] /\ task[p] \in Task
    BY TaskSet DEF IInv
  <1>1. PICK m, s : m = task[p].msg /\ s = task[p].sid
    OBVIOUS
  <1>2. CASE CheckPending(p)
    <2>1. /\ task[p].pc = "check" /\ Unlocked /\ UNCHANGED <<queue, writing>>
          /\ task' = [task EXCEPT ![p].pc =
                         IF s \in WebSessions \/ HasPending(s) THEN "enqueue" ELSE "attempt"]
      BY <1>1, <1>2 DEF CheckPending, Runs, Goto, file
    <2>2. task'[p].msg = m /\ task'[p].sid = s /\ ~HasPending(s)
      BY <1>0, <1>1, <2>1 DEF Passing, Task
    <2>3. m \in Msgs /\ s \in Sessions /\ status[m] = "sending"
      BY <1>1, <2>1 DEF IInv, Frames, Frame, Sending
    <2>4. Stored(s) = <<>>
      BY <2>1, <2>2, <2>3, StoredUnlocked DEF HasPending
    <2> QED BY <2>1, <2>2, <2>3, <2>4 DEF Looks
  <1>3. CASE Peek(p)
    <2>1. /\ task[p].pc = "peek" /\ s \in Sessions /\ Unlocked /\ UNCHANGED <<queue, writing>>
      BY <1>1, <1>3 DEF Peek, Runs, file, IInv, Frames, Frame
    <2>2. queue[s] # <<>> /\ task'[p].sid = s /\ task'[p].msg = Head(queue[s])
      BY <1>0, <1>1, <1>3 DEF Peek, Passing, Task
    <2>3. 1 \in DOMAIN Stored(s) /\ Head(queue[s]) = Stored(s)[1]
      BY <2>1, <2>2, HeadIsFirst
    <2>4. Stored(s)[1] \in Msgs
      BY <2>1, <2>3, Rows DEF Queued
    <2> QED BY <2>1, <2>2, <2>3, <2>4 DEF Looks
  <1>4. ASSUME NEW u \in Sessions, NEW kind \in Kinds, HookPeek(p, u, kind)
        PROVE  Looks(p) /\ task'[p].sid \in Sessions /\ task'[p].msg \in Msgs
    <2>1. /\ Unlocked /\ queue[u] # <<>> /\ UNCHANGED <<queue, writing>>
          /\ task'[p].sid = u /\ task'[p].msg = Head(queue[u])
      BY <1>0, <1>4 DEF HookPeek, Ready, file
    <2>2. 1 \in DOMAIN Stored(u) /\ Head(queue[u]) = Stored(u)[1]
      BY <2>1, HeadIsFirst
    <2>3. Stored(u)[1] \in Msgs
      BY <2>2, Rows DEF Queued
    <2> QED BY <2>1, <2>2, <2>3 DEF Looks
  <1>5. CASE HookDequeue(p)
    <2>1. task[p].pc = "take" /\ task' = [task EXCEPT ![p].pc = "answer"]
      BY <1>5 DEF HookDequeue, Runs, Goto
    <2>2. task'[p].msg = m /\ task'[p].sid = s /\ m \in Msgs /\ s \in Sessions
      BY <1>0, <1>1, <2>1 DEF Task, IInv, Frames, Frame
    <2> QED BY <1>1, <2>1, <2>2 DEF Looks, Passing
  <1>6. CASE SendPTY(p) \/ SendImmediate(p) \/ Enqueue(p) \/ StartTicker(p)
    BY <1>0, <1>6 DEF SendPTY, SendImmediate, Enqueue, StartTicker, Goto, Ready, Passing, Task
  <1>7. CASE List(p) \/ RetryImmediate(p) \/ MarkAttempt(p) \/ RetryDequeue(p)
    <2>1. CASE List(p)
      BY <1>0, <2>1 DEF List, Passing
    <2>2. CASE RetryImmediate(p)
      <3>1. task' = [task EXCEPT ![p].pc = AfterAttempt(task[p].sid \in up)]
        BY <2>2 DEF RetryImmediate, Goto
      <3>2. task'[p].pc \in {"dequeue", "mark"}
        BY <1>0, <3>1 DEF AfterAttempt, Task
      <3> QED BY <3>2 DEF Passing
    <2>3. CASE MarkAttempt(p)
      <3>1. task' = [task EXCEPT ![p].pc = "next", ![p].msg = None]
        BY <2>3 DEF MarkAttempt
      <3> QED BY <1>0, <3>1 DEF Passing, Task
    <2>4. CASE RetryDequeue(p)
      <3>1. task' = [task EXCEPT ![p].pc = "peek", ![p].n = Counted(@), ![p].msg = None]
        BY <2>4 DEF RetryDequeue
      <3> QED BY <1>0, <3>1 DEF Passing, Task
    <2> QED BY <1>7, <2>1, <2>2, <2>3, <2>4
  <1>8. CASE HookAnswer(p) \/ LoseAnswer(p)
    BY <1>0, <1>8 DEF HookAnswer, LoseAnswer, Ready, Passing
  <1>9. CASE NextSession(p)
    <2>1. task'[p].pc \in {"ready", "next", "peek"}
      <3>1. CASE task' = [task EXCEPT ![p] = Ready]
        BY <1>0, <3>1 DEF Ready
      <3>2. ASSUME NEW u \in task[p].todo,
                   task' = [task EXCEPT ![p] =
                              [pc |-> IF queue[u] = <<>> THEN "next" ELSE "peek", sid |-> u,
                               msg |-> None, n |-> 0, todo |-> @.todo \ {u}]]
            PROVE  task'[p].pc \in {"ready", "next", "peek"}
        BY <1>0, <3>2
      <3> QED BY <1>9, <3>1, <3>2 DEF NextSession
    <2> QED BY <2>1 DEF Passing
  <1>10. ASSUME NEW r \in Msgs, Send(p, r) PROVE FALSE
    BY <1>0, <1>10 DEF Send, Ready, Passing
  <1>11. ASSUME NEW u \in Sessions, StartNotifier(p, u) PROVE FALSE
    BY <1>0, <1>11 DEF StartNotifier, Ready, Passing
  <1> QED BY <1>2, <1>3, <1>4, <1>5, <1>6, <1>7, <1>8, <1>9, <1>10, <1>11
          DEF SenderStep, DrainStep, HookStep

\* One goroutine moves at a time.
LEMMA OneMoves ==
    ASSUME IInv, [Next]_vars, ~Crash
    PROVE  \/ UNCHANGED task
           \/ \E q \in Procs :
                 /\ \A p \in Procs \ {q} : task'[p] = task[p]
                 /\ \/ SenderStep(q) \/ DrainStep(q) \/ HookStep(q) \/ StartTicker(q)
                    \/ \E m \in Msgs : Send(q, m)
                    \/ \E s \in Sessions : StartNotifier(q, s)
                    \/ \E s \in Sessions, kind \in Kinds : HookPeek(q, s, kind)
  <1>0. task \in [Procs -> Task]
    BY TaskSet DEF IInv
  <1>1. ASSUME NEW q \in Procs, SenderStep(q) \/ StartTicker(q)
        PROVE  \A p \in Procs \ {q} : task'[p] = task[p]
    BY <1>0, <1>1 DEF SenderStep, SendPTY, CheckPending, SendImmediate, Enqueue, StartTicker, Goto
  <1>2. ASSUME NEW q \in Procs, DrainStep(q)
        PROVE  \A p \in Procs \ {q} : task'[p] = task[p]
    BY <1>0, <1>2 DEF DrainStep, List, NextSession, Peek, RetryImmediate, MarkAttempt,
                      RetryDequeue, Goto
  <1>3. ASSUME NEW q \in Procs, HookStep(q)
        PROVE  \A p \in Procs \ {q} : task'[p] = task[p]
    BY <1>0, <1>3 DEF HookStep, HookDequeue, HookAnswer, LoseAnswer, Goto
  <1>4. ASSUME NEW q \in Procs,
               \/ \E m \in Msgs : Send(q, m)
               \/ \E s \in Sessions : StartNotifier(q, s)
               \/ \E s \in Sessions, kind \in Kinds : HookPeek(q, s, kind)
        PROVE  \A p \in Procs \ {q} : task'[p] = task[p]
    BY <1>0, <1>4 DEF Send, StartNotifier, HookPeek
  <1>5. ASSUME Rename \/ UNCHANGED vars \/ \E s \in Sessions : EndpointChanges(s) \/ PTYChanges(s)
        PROVE  UNCHANGED task
    BY <1>5 DEF Rename, vars, EndpointChanges, PTYChanges
  <1> QED BY <1>1, <1>2, <1>3, <1>4, <1>5 DEF Next

LEMMA NoneEarlierStep ==
    ASSUME IInv, IInv', Ledger, NoneEarlier, [Next]_vars PROVE NoneEarlier'
  <1>1. ASSUME NEW m \in Msgs PROVE m \notin before'[m]
    BY BeforeFixed DEF NoneEarlier, Settled
  <1>2. ASSUME NEW p \in Procs, NEW s \in Sessions, NEW m \in Msgs,
               task'[p].pc \in Passing, task'[p].sid = s, task'[p].msg = m,
               NEW n, n \in before'[m], n \in Members(Stored(s)')
        PROVE  FALSE
    <2>0. m = task'[p].msg /\ s = task'[p].sid
      BY <1>2
    <2>1. ASSUME task'[p] = task[p] PROVE Looks(p)
      BY <1>2, <2>1 DEF Looks
    <2>2. Looks(p)
      <3>1. ~Crash
        BY <1>2 DEF Crash, Ready, Passing
      <3>2. CASE UNCHANGED task
        BY <2>1, <3>2
      <3>3. ASSUME NEW q \in Procs, \A r \in Procs \ {q} : task'[r] = task[r],
                   \/ SenderStep(q) \/ DrainStep(q) \/ HookStep(q) \/ StartTicker(q)
                   \/ \E r \in Msgs : Send(q, r)
                   \/ \E u \in Sessions : StartNotifier(q, u)
                   \/ \E u \in Sessions, kind \in Kinds : HookPeek(q, u, kind)
            PROVE  Looks(p)
        <4>1. CASE p = q
          BY <1>2, <3>3, <4>1, LooksOfOne
        <4> QED BY <2>1, <3>3, <4>1
      <3> QED BY <3>1, <3>2, <3>3, OneMoves
    <2>3. n \in Msgs /\ n \in before'[m] /\ n \in Members(Stored(s)')
      BY <1>2 DEF IInv, TypeOK
    <2>4. n \in Members(Stored(s)) \/ status[n] = "sending"
      BY <2>2, <2>3, OnlyEnqueueAdds
    <2>5. CASE /\ task[p].pc \in Passing
               /\ task'[p].msg = task[p].msg /\ task'[p].sid = task[p].sid
      <3>1. status[m] # "unsent"
        <4>1. task[p].pc = "attempt" => status[m] = "sending"
          BY <2>0, <2>5 DEF IInv, Frames, Frame, Sending
        <4>2. task[p].pc # "attempt" => status[m] = "queued"
          BY <2>0, <2>5 DEF Ledger, Ahead, Passing, Peeking, Queued
        <4> QED BY <4>1, <4>2
      <3>2. n \in before[m]
        BY <2>2, <2>3, <3>1, BeforeFixed
      <3>3. status[n] # "sending"
        BY <2>2, <3>2 DEF IInv, BeforeSettled, Settled
      <3> QED BY <2>0, <2>4, <2>5, <3>2, <3>3 DEF NoneEarlier
    <2>6. CASE UNCHANGED <<queue, writing>> /\ Stored(s) = <<>>
      BY <2>3, <2>6, StoredKept DEF Members
    <2>7. CASE /\ UNCHANGED <<queue, writing>> /\ 1 \in DOMAIN Stored(s)
               /\ m = Stored(s)[1]
      <3>1. Stored(s)' = Stored(s)
        BY <2>7, StoredKept
      <3>2. PICK i \in DOMAIN Stored(s) : n = Stored(s)[i]
        BY <2>3, <3>1 DEF Members
      <3>3. status[m] = "queued" /\ before'[m] = before[m]
        BY <2>2, <2>7, Rows, BeforeFixed DEF Queued
      <3>4. i # 1
        BY <2>2, <2>3, <2>7, <3>2, <3>3 DEF NoneEarlier
      <3>5. 1 < i
        BY <2>2, <3>2, <3>4, Rows
      <3> QED BY <2>2, <2>3, <2>7, <3>2, <3>3, <3>5 DEF IInv, FileInSendOrder
    <2> QED BY <2>0, <2>2, <2>5, <2>6, <2>7 DEF Looks
  <1>3. ASSUME NEW p \in Procs, NEW s \in Sessions, NEW m \in Msgs,
               task'[p].pc \in Passing, task'[p].sid = s, task'[p].msg = m
        PROVE  before'[m] \cap Members(Stored(s)') = {}
    BY <1>2, <1>3
  <1>4. \A s \in Sessions : Members(Stored(s)') = Members(Stored(s))'
    BY DEF Members
  <1> QED BY <1>1, <1>3, <1>4 DEF NoneEarlier

LEMMA AppendTells ==
    ASSUME NEW q \in Seq(Msgs), NEW m \in Msgs
    PROVE  /\ Append(q, m) # q
           /\ \A n \in Msgs : Append(q, n) = Append(q, m) => n = m
  BY AppendProperties, LenProperties

\* Past the PTY, the agent gets what a goroutine was about to give it.
LEMMA TypedFrom ==
    ASSUME IInv, [Next]_vars, NEW s \in Sessions, NEW m \in Msgs,
           typed'[s] = Append(typed[s], m)
    PROVE  \/ \E p \in Senders : SendPTY(p)
           \/ \E p \in Procs : task[p].pc \in Passing /\ task[p].msg = m /\ task[p].sid = s
  <1>0. typed \in [Sessions -> Seq(Msgs)] /\ typed'[s] # typed[s]
    BY AppendTells DEF IInv, TypeOK
  <1>1. ASSUME NEW u \in Sessions, NEW n \in Msgs, Type(u, n) PROVE u = s /\ n = m
    <2>1. typed' = [typed EXCEPT ![u] = Append(typed[u], n)]
      BY <1>1 DEF Type
    <2>2. u = s
      BY <1>0, <2>1
    <2>3. Append(typed[s], n) = Append(typed[s], m)
      BY <1>0, <2>1, <2>2
    <2> QED BY <1>0, <2>2, <2>3, AppendTells
  <1>2. ASSUME NEW p \in Procs, SendPTY(p) PROVE p \in Senders
    BY <1>2 DEF SendPTY, Runs, IInv, Frames, Frame, Sending
  <1>3. ASSUME NEW p \in Procs, SendImmediate(p) \/ RetryImmediate(p) \/ HookAnswer(p)
        PROVE  task[p].pc \in Passing /\ task[p].msg = m /\ task[p].sid = s
    <2>1. task[p].pc \in {"attempt", "try", "answer"}
      BY <1>3 DEF SendImmediate, RetryImmediate, HookAnswer, Runs
    <2>2. task[p].msg \in Msgs /\ task[p].sid \in Sessions
      BY <2>1 DEF IInv, Frames, Frame, Sending
    <2>3. Type(task[p].sid, task[p].msg)
      BY <1>0, <1>3 DEF SendImmediate, RetryImmediate, HookAnswer
    <2> QED BY <1>1, <2>1, <2>2, <2>3 DEF Passing
  <1>4. ASSUME \A p \in Procs : /\ ~SendPTY(p) /\ ~SendImmediate(p)
                                /\ ~RetryImmediate(p) /\ ~HookAnswer(p)
        PROVE  FALSE
    <2>1. typed' = typed
      BY <1>4 DEF Next, Send, SenderStep, CheckPending, Enqueue, DrainStep, List, NextSession,
                  Peek, MarkAttempt, RetryDequeue, HookStep, HookDequeue, LoseAnswer,
                  StartTicker, StartNotifier, HookPeek, Rename, EndpointChanges, PTYChanges,
                  Crash, vars, history
    <2> QED BY <1>0, <2>1
  <1> QED BY <1>2, <1>3, <1>4

LEMMA NoneEarlierHolds == Spec => []NoneEarlier
  <1>1. Init => NoneEarlier
    BY DEF Init, NoneEarlier, Ready, Passing
  <1>2. IInv /\ IInv' /\ Ledger /\ NoneEarlier /\ [Next]_vars => NoneEarlier'
    BY NoneEarlierStep
  <1> QED BY <1>1, <1>2, InvHolds, LedgerHolds, PTL DEF Spec

\* What a terminal adapter types or a hook answers never passes a reply that was
\* queued before its own send began and still waits, whoever drains the file
\* meanwhile; only a write to a PTY does (deliver.go:69-81, inject.go:63).
THEOREM NonePassed == Spec => OnlyPTYOvertakes
  <1>1. ASSUME IInv, NoneEarlier, [Next]_vars,
               NEW s \in Sessions, NEW m \in Msgs, typed'[s] = Append(typed[s], m)
        PROVE  \/ \E p \in Senders : SendPTY(p)
               \/ before[m] \cap Members(Stored(s)) = {}
    <2>1. ASSUME NEW p \in Procs, task[p].pc \in Passing, task[p].msg = m, task[p].sid = s
          PROVE  before[m] \cap Members(Stored(s)) = {}
      BY <1>1, <2>1 DEF NoneEarlier
    <2>2. \/ \E p \in Senders : SendPTY(p)
          \/ \E p \in Procs : task[p].pc \in Passing /\ task[p].msg = m /\ task[p].sid = s
      BY <1>1, TypedFrom
    <2> QED BY <2>1, <2>2
  <1>2. IInv /\ NoneEarlier /\ [Next]_vars =>
            [\A s \in Sessions, m \in Msgs :
                typed'[s] = Append(typed[s], m) =>
                    \/ \E p \in Senders : SendPTY(p)
                    \/ before[m] \cap Members(Stored(s)) = {}]_vars
    BY <1>1
  <1> QED BY <1>2, InvHolds, NoneEarlierHolds, PTL DEF Spec, OnlyPTYOvertakes
=============================================================================

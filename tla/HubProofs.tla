----------------------------- MODULE HubProofs ----------------------------
(***************************************************************************)
(* Proofs about Hub, for any number of clients, producers, threads and     *)
(* broadcasts: a hello and the live stream after it leave no gap; every    *)
(* variable keeps its type; and a client that has read everything shows    *)
(* the threads that are live.                                              *)
(***************************************************************************)
EXTENDS Hub, FiniteSetTheorems, SequenceTheorems, TLAPS

Phases == {"away", "registered", "listed", "headed", "running"}
Rows == [th : Threads \cup {Nil}, kind : Kinds \cup {Nil}]
Tasks == [pc : {"idle", "changed", "appended", "fanning"}, th : Threads \cup {Nil},
          kind : Kinds \cup {Nil}, seq : Nat, targets : SUBSET Clients]

\* Of the type only what the argument needs: the queues play no part in it.
Shape ==
    /\ journal \in Seq(Rows)
    /\ task \in [Producers -> Tasks]
    /\ registered \subseteq Clients
    /\ conn \in [Clients -> Phases]
    /\ head \in [Clients -> Nat]
    /\ got \in [Clients -> SUBSET Nat]

\* A client is in the hub's table from before its hello is put together until
\* it is closed.
Enrolled == \A c \in Clients : conn[c] # "away" => c \in registered

\* Only a producer that has appended holds a sequence number.
Numbered == \A p \in Producers : task[p].pc \in {"idle", "changed"} => task[p].seq = 0

\* Row n will still be put into the queue of c by a producer.
Coming(c, n) ==
    \E p \in Producers : /\ task[p].seq = n
                         /\ task[p].pc = "fanning" => c \in task[p].targets

\* Row n is no gap for c.
Covered(c, n) == n \in got[c] \/ ~Replayed(n) \/ Coming(c, n)

IInv == Shape /\ Enrolled /\ Numbered /\ NoGap

AllCovered ==
    \A c \in Clients : conn[c] \in {"headed", "running"} =>
        \A n \in (head[c] + 1)..Len(journal) : Covered(c, n)

LEMMA CoveredIsNoGap == (NoGap <=> AllCovered) /\ (NoGap' <=> AllCovered')
  BY DEF NoGap, AllCovered, Covered, Coming

\* What the steps that leave journal, producers and clients' phases alone see.
Seen == <<debug, journal, task, registered, conn, head, got>>

LEMMA InitIInv == Init => IInv
  <1> SUFFICES ASSUME Init PROVE IInv
    OBVIOUS
  <1>1. Shape
    BY DEF Init, Shape, Phases, Tasks, Idle
  <1>2. Enrolled /\ Numbered /\ NoGap
    BY DEF Init, Enrolled, Numbered, NoGap, Idle
  <1> QED BY <1>1, <1>2 DEF IInv

LEMMA SeenStep == ASSUME IInv, UNCHANGED Seen PROVE IInv'
  BY DEF IInv, Seen, Shape, Enrolled, Numbered, NoGap, Replayed

(***************************************************************************)
(* The producers' steps.                                                   *)
(***************************************************************************)

LEMMA ChangeStep ==
    ASSUME IInv, NEW p \in Producers, NEW th \in Threads, NEW kind \in Kinds,
           Change(p, th, kind)
    PROVE  IInv'
  <1> USE DEF IInv, Change, hub, client, history
  <1>1. Shape'
    BY DEF Shape, Tasks, Idle
  <1>2. Enrolled' /\ Numbered'
    BY DEF Shape, Enrolled, Numbered, Tasks, Idle
  <1>3. \A c \in Clients : \A n \in (head[c] + 1)..Len(journal) : Coming(c, n) => Coming(c, n)'
    BY DEF Shape, Numbered, Tasks, Idle, Coming
  <1>4. NoGap'
    BY <1>3, CoveredIsNoGap DEF AllCovered, Covered, Replayed
  <1> QED BY <1>1, <1>2, <1>4

\* The new row is in the hands of the producer that has appended it, or is one
\* that relay debug holds back.
LEMMA AppendStep ==
    ASSUME IInv, NEW p \in Producers, AppendToJournal(p) PROVE IInv'
  <1> DEFINE row == [th |-> task[p].th, kind |-> task[p].kind]
             last == Len(journal) + 1
  <1> USE DEF IInv, AppendToJournal, Appended, JournalHead, hub, client, history
  <1>1. /\ journal \in Seq(Rows) /\ row \in Rows
        /\ task \in [Producers -> Tasks] /\ task[p].pc = "changed"
    BY DEF Shape, Tasks, Rows
  <1>2. /\ Len(journal') = last /\ journal' \in Seq(Rows)
        /\ journal'[last] = row /\ last \in Nat
        /\ \A n \in 1..Len(journal) : journal'[n] = journal[n]
    BY <1>1
  <1>3. Shape'
    <2>1. task' \in [Producers -> Tasks]
      <3>1. [task[p] EXCEPT !.pc = "appended", !.seq = last] \in Tasks /\ Idle \in Tasks
        BY <1>1, <1>2 DEF Tasks, Idle
      <3> QED BY <1>1, <3>1
    <2> QED BY <1>2, <2>1 DEF Shape
  <1>4. Enrolled' /\ Numbered'
    BY <1>1, <1>2 DEF Enrolled, Numbered, Idle, Tasks
  <1>5. ASSUME NEW c \in Clients, NEW n \in (head[c] + 1)..Len(journal), Covered(c, n)
        PROVE  Covered(c, n)'
    <2>1. head[c] \in Nat /\ n \in 1..Len(journal)
      BY <1>1 DEF Shape
    <2>2. ~Replayed(n) => ~Replayed(n)'
      BY <1>2, <2>1 DEF Replayed
    <2>3. Coming(c, n) => Coming(c, n)'
      BY <1>1, <2>1 DEF Coming, Numbered, Tasks, Idle
    <2> QED BY <1>5, <2>2, <2>3 DEF Covered
  <1>6. ASSUME NEW c \in Clients, NEW n \in Nat, n = last PROVE Covered(c, n)'
    <2>1. CASE debug /\ AutoRelay(task[p].kind)
      <3>1. journal'[n].kind = task[p].kind
        BY <1>2, <1>6
      <3> QED BY <2>1, <3>1 DEF Covered, Replayed
    <2>2. CASE ~(debug /\ AutoRelay(task[p].kind))
      <3>1. task'[p].pc = "appended" /\ task'[p].seq = n
        BY <1>1, <1>6, <2>2 DEF Tasks
      <3> QED BY <3>1 DEF Covered, Coming
    <2> QED BY <2>1, <2>2
  <1>7. NoGap'
    <2> SUFFICES ASSUME NEW c \in Clients, conn[c] \in {"headed", "running"},
                        NEW n \in (head[c] + 1)..last
                 PROVE  Covered(c, n)'
      BY <1>2, CoveredIsNoGap DEF AllCovered
    <2>1. head[c] \in Nat /\ n \in Nat /\ (n = last \/ n \in (head[c] + 1)..Len(journal))
      BY <1>1, <1>2 DEF Shape
    <2>2. n \in (head[c] + 1)..Len(journal) => Covered(c, n)
      BY CoveredIsNoGap DEF AllCovered
    <2> QED BY <2>1, <2>2, <1>5, <1>6
  <1> QED BY <1>3, <1>4, <1>7

\* Whoever has a hello with an older cursor is in the table that is copied.
LEMMA TakeTargetsStep ==
    ASSUME IInv, NEW p \in Producers, TakeTargets(p) PROVE IInv'
  <1> USE DEF IInv, TakeTargets, Targets, hub, client, history
  <1>1. Shape' /\ Enrolled' /\ Numbered'
    BY ZenonT(180) DEF Shape, Enrolled, Numbered, Tasks
  <1>2. ASSUME NEW c \in Clients, conn[c] \in {"headed", "running"}, NEW n \in Nat,
               Covered(c, n)
        PROVE  Covered(c, n)'
    <2>1. c \in registered
      BY <1>2 DEF Enrolled
    <2>2. Coming(c, n) => Coming(c, n)'
      BY <2>1 DEF Coming, Shape, Tasks
    <2> QED BY <1>2, <2>2 DEF Covered, Replayed
  <1>3. NoGap'
    BY <1>2, CoveredIsNoGap DEF AllCovered, Shape
  <1> QED BY <1>1, <1>3

LEMMA FanStep ==
    ASSUME IInv, NEW p \in Producers, NEW k \in Clients, Fan(p, k) PROVE IInv'
  <1> USE DEF IInv, Fan, client
  <1>1. Shape' /\ Enrolled' /\ Numbered'
    BY ZenonT(180) DEF Shape, Enrolled, Numbered, Tasks
  <1>2. ASSUME NEW c \in Clients, NEW n \in Nat, Covered(c, n) PROVE Covered(c, n)'
    <2>1. Coming(c, n) => n \in got'[c] \/ Coming(c, n)'
      BY DEF Coming, Shape, Tasks
    <2>2. got[c] \subseteq got'[c]
      BY DEF Shape
    <2> QED BY <1>2, <2>1, <2>2 DEF Covered, Replayed
  <1>3. NoGap'
    BY <1>2, CoveredIsNoGap DEF AllCovered, Shape
  <1> QED BY <1>1, <1>3

LEMMA EndBroadcastStep ==
    ASSUME IInv, NEW p \in Producers, EndBroadcast(p) PROVE IInv'
  <1> USE DEF IInv, EndBroadcast, hub, client, history
  <1>1. Shape' /\ Enrolled' /\ Numbered'
    BY DEF Shape, Enrolled, Numbered, Tasks, Idle
  <1>2. ASSUME NEW c \in Clients, NEW n \in Nat, Covered(c, n) PROVE Covered(c, n)'
    BY <1>2 DEF Covered, Replayed, Coming, Shape, Tasks
  <1>3. NoGap'
    BY <1>2, CoveredIsNoGap DEF AllCovered, Shape
  <1> QED BY <1>1, <1>3

(***************************************************************************)
(* The clients' steps.                                                     *)
(***************************************************************************)

LEMMA ConnectStep ==
    ASSUME IInv, NEW c \in Clients, Connect(c) PROVE IInv'
  BY DEF IInv, Connect, Registered, Shape, Phases, Enrolled, Numbered, NoGap, Replayed,
         client, history

LEMMA ListThreadsStep ==
    ASSUME IInv, NEW c \in Clients, ListThreads(c) PROVE IInv'
  BY DEF IInv, ListThreads, Shape, Phases, Enrolled, Numbered, NoGap, Replayed,
         client, history

\* The cursor is the head of the journal: there is nothing after it yet.
LEMMA ReadHeadStep ==
    ASSUME IInv, NEW c \in Clients, ReadHead(c) PROVE IInv'
  <1> USE DEF IInv, ReadHead, JournalHead, client, history
  <1>1. Shape' /\ Enrolled' /\ Numbered'
    BY DEF Shape, Phases, Enrolled, Numbered
  <1>2. head'[c] = Len(journal) /\ Len(journal) \in Nat
    BY DEF Shape
  <1>3. NoGap'
    BY <1>2 DEF Shape, Phases, NoGap, Replayed
  <1> QED BY <1>1, <1>3

LEMMA GreetStep ==
    ASSUME IInv, NEW c \in Clients, Greet(c) PROVE IInv'
  BY DEF IInv, Greet, Shape, Phases, Enrolled, Numbered, NoGap, Replayed, client, history

\* The client that goes is owed nothing; the others keep what is coming.
LEMMA UnregisterStep ==
    ASSUME IInv, NEW k \in Clients, Unregister(k) PROVE IInv'
  <1> USE DEF IInv, Unregister
  <1>1. Shape' /\ Enrolled' /\ Numbered'
    BY ZenonT(180) DEF Shape, Phases, Enrolled, Numbered, Tasks
  <1>2. ASSUME NEW c \in Clients \ {k}, NEW n \in Nat, Covered(c, n) PROVE Covered(c, n)'
    <2>1. \A p \in Producers : /\ task'[p].seq = task[p].seq /\ task'[p].pc = task[p].pc
                               /\ task'[p].targets = task[p].targets \ {k}
      BY DEF Shape, Tasks
    <2>2. Coming(c, n) => Coming(c, n)'
      BY <2>1 DEF Coming
    <2> QED BY <1>2, <2>2 DEF Covered, Replayed, Shape
  <1>3. NoGap'
    BY <1>2, CoveredIsNoGap DEF AllCovered, Shape, Phases
  <1> QED BY <1>1, <1>3

LEMMA NextIInv == IInv /\ [Next]_vars => IInv'
  <1> SUFFICES ASSUME IInv, [Next]_vars PROVE IInv'
    OBVIOUS
  <1>1. CASE \E p \in Producers, th \in Threads, kind \in Kinds : Change(p, th, kind)
    BY <1>1, ChangeStep
  <1>2. CASE \E p \in Producers : Broadcast(p)
    BY <1>2, AppendStep, TakeTargetsStep, FanStep, EndBroadcastStep DEF Broadcast
  <1>3. CASE \E c \in Clients : Connect(c) \/ Serve(c)
    BY <1>3, ConnectStep, ListThreadsStep, ReadHeadStep, GreetStep, UnregisterStep
       DEF Serve
  <1>4. CASE \E c \in Clients : Write(c) \/ ReplayRow(c) \/ Fail(c)
    <2>1. UNCHANGED Seen
      BY <1>4 DEF Write, ReplayRow, Fail, Seen, client, history
    <2> QED BY <2>1, SeenStep
  <1>5. CASE \E c \in Clients, since \in 0..MaxSeq : Subscribe(c, since)
    <2>1. UNCHANGED Seen
      BY <1>5 DEF Subscribe, Seen, client, history
    <2> QED BY <2>1, SeenStep
  <1>6. CASE UNCHANGED vars
    BY <1>6, SeenStep DEF vars, hub, client, history, Seen
  <1> QED BY <1>1, <1>2, <1>3, <1>4, <1>5, <1>6 DEF Next

(***************************************************************************)
(* The theorem.                                                            *)
(***************************************************************************)

\* What is journalled after the cursor of a hello has been or will be put into
\* the client's queue, whatever connections, broadcasts and replays overlap:
\* ServeHTTP registers before it reads the cursor (ws.go:329-334).
THEOREM NothingBetween == Spec => []NoGap
  <1>1. IInv => NoGap
    BY DEF IInv
  <1> QED BY <1>1, InitIInv, NextIInv, PTL DEF Spec

(***************************************************************************)
(* The types, with what they rest on: a producer in a broadcast has a      *)
(* thread and a row, and the journal has room for the changes under way.   *)
(***************************************************************************)

USE ClientsAssumption, BoundAssumption, NilAssumption

JournalRows == [th : Threads, kind : Kinds]
Frames == BroadcastFrames \cup HelloFrames
TaskType == [pc : {"idle", "changed", "appended", "fanning"},
             th : Threads \cup {Nil}, kind : Kinds \cup {Nil},
             seq : 0..MaxSeq, targets : SUBSET Clients]

\* The types in parts, as the steps change them.
WorldOK ==
    /\ debug \in Debugging /\ live \subseteq Threads
    /\ journal \in Seq(JournalRows) /\ Len(journal) <= MaxSeq

TasksOK == task \in [Producers -> TaskType]

QueuesOK ==
    /\ open \in [Clients -> BOOLEAN]
    /\ queue \in [Clients -> Seq(Frames)]
    /\ \A c \in Clients : Len(queue[c]) <= Depth

ServingOK ==
    /\ registered \subseteq Clients
    /\ conn \in [Clients -> Phases]
    /\ hello \in [Clients -> SUBSET Threads] /\ head \in [Clients -> 0..MaxSeq]
    /\ replay \in [Clients -> Seq(1..MaxSeq)]

ViewsOK ==
    /\ shown \in [Clients -> SUBSET Threads] /\ cursor \in [Clients -> 0..MaxSeq]
    /\ got \in [Clients -> SUBSET (1..MaxSeq)] /\ crossed \in [Clients -> SUBSET Threads]

LEMMA Parts ==
    /\ TypeOK <=> WorldOK /\ TasksOK /\ QueuesOK /\ ServingOK /\ ViewsOK
    /\ TypeOK' <=> WorldOK' /\ TasksOK' /\ QueuesOK' /\ ServingOK' /\ ViewsOK'
  BY DEF TypeOK, WorldOK, TasksOK, QueuesOK, ServingOK, ViewsOK, JournalRows, Frames,
         TaskType, Phases

\* A producer knows what it broadcasts, and which row of the journal that is.
Busy(p) ==
    /\ task[p].pc # "idle" => task[p].th \in Threads /\ task[p].kind \in Kinds
    /\ task[p].pc \in {"appended", "fanning"} =>
           /\ task[p].seq \in 1..Len(journal)
           /\ journal[task[p].seq] = [th |-> task[p].th, kind |-> task[p].kind]

ReplaysRows == \A c \in Clients : \A i \in DOMAIN replay[c] : replay[c][i] \in 1..Len(journal)

Room == Len(journal) + Cardinality(Pending) <= MaxSeq

TInv == TypeOK /\ (\A p \in Producers : Busy(p)) /\ ReplaysRows /\ Room

LEMMA PendingFinite == IsFiniteSet(Pending) /\ Cardinality(Pending) \in Nat
  <1>1. IsFiniteSet(Pending)
    BY FiniteAssumption, FS_Subset DEF Pending
  <1> QED BY <1>1, FS_CardinalityType

LEMMA IdleTask == Idle \in TaskType
  BY DEF Idle, TaskType

\* A row of the journal as a frame.
LEMMA EntryType ==
    ASSUME WorldOK, NEW n \in 1..Len(journal)
    PROVE  /\ Entry(n) \in BroadcastFrames /\ n \in 1..MaxSeq
           /\ journal[n].th \in Threads /\ journal[n].kind \in Kinds
  <1>1. Len(journal) \in Nat /\ n \in 1..MaxSeq
    BY LenProperties DEF WorldOK
  <1>2. journal[n] \in JournalRows
    BY ElementOfSeq DEF WorldOK
  <1> QED BY <1>1, <1>2 DEF Entry, JournalRows, BroadcastFrames

\* What enqueue makes of a client's queue.
LEMMA Enqueued ==
    ASSUME QueuesOK, NEW c \in Clients, NEW frame \in Frames, Enqueue(c, frame)
    PROVE  /\ QueuesOK'
           /\ \A d \in Clients \ {c} : queue'[d] = queue[d] /\ open'[d] = open[d]
           /\ open'[c] => open[c] /\ queue'[c] = Append(queue[c], frame)
  <1>1. CASE ~open[c]
    BY <1>1 DEF Enqueue, QueuesOK
  <1>2. CASE open[c] /\ Full(c)
    BY <1>2 DEF Enqueue, QueuesOK
  <1>3. CASE open[c] /\ ~Full(c)
    <2>1. queue' = [queue EXCEPT ![c] = Append(queue[c], frame)] /\ open' = open
      BY <1>3 DEF Enqueue
    <2>2. queue[c] \in Seq(Frames) /\ Len(queue[c]) \in Nat /\ Len(queue[c]) < Depth
      BY <1>3, LenProperties DEF QueuesOK, Full
    <2>3. Append(queue[c], frame) \in Seq(Frames) /\ Len(Append(queue[c], frame)) <= Depth
      BY <2>2, AppendProperties
    <2> QED BY <1>3, <2>1, <2>3 DEF QueuesOK
  <1> QED BY <1>1, <1>2, <1>3

LEMMA InitTInv == Init => TInv
  <1> SUFFICES ASSUME Init PROVE TInv
    OBVIOUS
  <1>1. WorldOK /\ QueuesOK /\ ServingOK /\ ViewsOK
    BY EmptySeq DEF Init, WorldOK, QueuesOK, ServingOK, ViewsOK, Phases
  <1>2. TasksOK
    BY IdleTask DEF Init, TasksOK
  <1>3. ReplaysRows /\ \A p \in Producers : Busy(p)
    BY DEF Init, ReplaysRows, Busy, Idle
  <1>4. Pending = {}
    BY DEF Init, Pending, Idle
  <1>5. Room
    BY <1>4, FS_EmptySet DEF Init, Room
  <1> QED BY <1>1, <1>2, <1>3, <1>5, Parts DEF TInv

\* Steps that leave the journal and the producers alone.
LEMMA TypesKept ==
    ASSUME TInv, UNCHANGED <<debug, live, journal, task>>,
           QueuesOK', ServingOK', ViewsOK', ReplaysRows'
    PROVE  TInv'
  <1>1. WorldOK' /\ TasksOK'
    BY Parts DEF TInv, WorldOK, TasksOK
  <1>2. Room' /\ \A p \in Producers : Busy(p)'
    BY DEF TInv, Room, Pending, Busy
  <1> QED BY <1>1, <1>2, Parts DEF TInv

LEMMA ChangeTypes ==
    ASSUME TInv, NEW p \in Producers, NEW th \in Threads, NEW kind \in Kinds,
           Change(p, th, kind)
    PROVE  TInv'
  <1> USE DEF TInv
  <1>1. task' = [task EXCEPT ![p] = [Idle EXCEPT !.pc = "changed", !.th = th, !.kind = kind]]
        /\ [Idle EXCEPT !.pc = "changed", !.th = th, !.kind = kind] \in TaskType
        /\ task \in [Producers -> TaskType] /\ task[p].pc = "idle"
    BY Parts, IdleTask DEF Change, TasksOK, TaskType
  <1>2. TasksOK'
    BY <1>1 DEF TasksOK
  <1>3. WorldOK' /\ UNCHANGED <<journal, replay>>
    BY Parts DEF Change, WorldOK, Kinds, hub
  <1>4. QueuesOK' /\ ServingOK' /\ ViewsOK'
    BY Parts DEF Change, hub, client, history, QueuesOK, ServingOK, ViewsOK
  <1>5. ReplaysRows' /\ \A q \in Producers : Busy(q)'
    BY <1>1, <1>3 DEF ReplaysRows, Busy, Idle
  <1>6. Pending' = Pending \cup {p} /\ p \notin Pending
    BY <1>1 DEF Pending, Idle
  <1>7. Room'
    <2>1. Cardinality(Pending \cup {p}) = Cardinality(Pending) + 1
      BY <1>6, PendingFinite, FS_AddElement
    <2>2. Len(journal) + Cardinality(Pending) < MaxSeq /\ Len(journal) \in Nat
      BY Parts, LenProperties DEF Change, WorldOK
    <2> QED BY <1>3, <1>6, <2>1, <2>2, PendingFinite DEF Room
  <1> QED BY <1>2, <1>3, <1>4, <1>5, <1>7, Parts

LEMMA AppendTypes ==
    ASSUME TInv, NEW p \in Producers, AppendToJournal(p) PROVE TInv'
  <1> DEFINE row == [th |-> task[p].th, kind |-> task[p].kind]
  <1> USE DEF TInv
  <1>1. /\ task \in [Producers -> TaskType] /\ task[p].pc = "changed" /\ row \in JournalRows
        /\ journal \in Seq(JournalRows) /\ Len(journal) \in Nat
    BY Parts, LenProperties DEF AppendToJournal, TasksOK, WorldOK, Busy, JournalRows
  <1>2. /\ journal' \in Seq(JournalRows) /\ Len(journal') = Len(journal) + 1
        /\ \A n \in 1..Len(journal) : journal'[n] = journal[n]
        /\ journal'[Len(journal) + 1] = row
    BY <1>1, AppendProperties DEF AppendToJournal, Appended
  <1>3. Pending' = Pending \ {p} /\ p \in Pending
    BY <1>1 DEF Pending, AppendToJournal, TaskType, Idle
  <1>4. Cardinality(Pending') = Cardinality(Pending) - 1 /\ Cardinality(Pending) \in Nat
        /\ Cardinality(Pending') \in Nat
    <2>1. Cardinality(Pending \ {p}) = Cardinality(Pending) - 1
      BY <1>3, PendingFinite, FS_RemoveElement
    <2>2. IsFiniteSet(Pending \ {p})
      BY PendingFinite, FS_RemoveElement
    <2> QED BY <1>3, <2>1, <2>2, PendingFinite, FS_CardinalityType
  <1>5. Room' /\ Len(journal') <= MaxSeq
    BY <1>1, <1>2, <1>4 DEF Room
  <1>6. WorldOK'
    BY <1>2, <1>5, Parts DEF AppendToJournal, WorldOK
  <1>7. TasksOK'
    <2>1. Len(journal) + 1 \in 0..MaxSeq
      BY <1>1, <1>2, <1>5
    <2>2. [task[p] EXCEPT !.pc = "appended", !.seq = Len(journal) + 1] \in TaskType
      BY <1>1, <2>1 DEF TaskType
    <2> QED BY <1>1, <2>2, IdleTask DEF AppendToJournal, JournalHead, TasksOK
  <1>8. QueuesOK' /\ ServingOK' /\ ViewsOK' /\ replay' = replay
    BY Parts DEF AppendToJournal, hub, client, history, QueuesOK, ServingOK, ViewsOK
  <1>9. ReplaysRows'
    BY <1>1, <1>2, <1>8 DEF ReplaysRows
  <1>10. ASSUME NEW q \in Producers PROVE Busy(q)'
    <2>1. CASE q # p
      <3>1. task'[q] = task[q]
        BY <1>1, <2>1 DEF AppendToJournal
      <3> QED BY <1>1, <1>2, <3>1 DEF Busy
    <2>2. CASE q = p
      <3>1. \/ task'[p] = Idle
            \/ task'[p] = [task[p] EXCEPT !.pc = "appended", !.seq = Len(journal) + 1]
        BY <1>1 DEF AppendToJournal, JournalHead
      <3>2. CASE task'[p] = Idle
        BY <2>2, <3>2 DEF Busy, Idle
      <3>3. CASE task'[p] = [task[p] EXCEPT !.pc = "appended", !.seq = Len(journal) + 1]
        <4>1. /\ task'[p].pc = "appended" /\ task'[p].seq = Len(journal) + 1
              /\ task'[p].th = task[p].th /\ task'[p].kind = task[p].kind
          BY <1>1, <3>3 DEF TaskType
        <4> QED BY <1>1, <1>2, <2>2, <4>1 DEF Busy
      <3> QED BY <3>1, <3>2, <3>3
    <2> QED BY <2>1, <2>2
  <1> QED BY <1>5, <1>6, <1>7, <1>8, <1>9, <1>10, Parts

\* The later steps of a broadcast, and the unregistering of one of its targets.
LEMMA TasksKept ==
    ASSUME TInv, UNCHANGED <<debug, live, journal>>, TasksOK',
           \A p \in Producers :
               \/ task'[p].pc = "idle" /\ task[p].pc # "changed"
               \/ /\ task'[p].th = task[p].th /\ task'[p].kind = task[p].kind
                  /\ task'[p].seq = task[p].seq
                  /\ \/ task'[p].pc = task[p].pc
                     \/ task[p].pc = "appended" /\ task'[p].pc = "fanning",
           QueuesOK', ServingOK', ViewsOK', ReplaysRows'
    PROVE  TInv'
  <1>1. WorldOK'
    BY Parts DEF TInv, WorldOK
  <1>2. Pending' = Pending
    BY DEF Pending
  <1>3. Room' /\ \A p \in Producers : Busy(p)'
    BY <1>2 DEF TInv, Room, Busy
  <1> QED BY <1>1, <1>3, Parts DEF TInv

LEMMA BroadcastTypes ==
    ASSUME TInv, NEW p \in Producers, TakeTargets(p) \/ EndBroadcast(p) PROVE TInv'
  <1>1. /\ QueuesOK' /\ ServingOK' /\ ViewsOK' /\ ReplaysRows'
        /\ UNCHANGED <<debug, live, journal>>
    BY Parts DEF TInv, TakeTargets, EndBroadcast, hub, client, history, QueuesOK, ServingOK,
                 ViewsOK, ReplaysRows
  <1>2. task \in [Producers -> TaskType] /\ registered \subseteq Clients
    BY Parts DEF TInv, TasksOK, ServingOK
  <1>3. CASE TakeTargets(p)
    <2>1. task' = [task EXCEPT ![p].pc = "fanning", ![p].targets = registered]
          /\ task[p].pc = "appended"
      BY <1>3 DEF TakeTargets, Targets
    <2>2. TasksOK'
      BY <1>2, <2>1, ZenonT(180) DEF TasksOK, TaskType
    <2> QED BY <1>1, <1>2, <2>1, <2>2, TasksKept DEF TaskType
  <1>4. CASE EndBroadcast(p)
    <2>1. task' = [task EXCEPT ![p] = Idle] /\ task[p].pc = "fanning" /\ Idle.pc = "idle"
      BY <1>4 DEF EndBroadcast, Idle
    <2>2. TasksOK'
      BY <1>2, <2>1, IdleTask DEF TasksOK
    <2> QED BY <1>1, <1>2, <2>1, <2>2, TasksKept
  <1> QED BY <1>3, <1>4

LEMMA FanTypes ==
    ASSUME TInv, NEW p \in Producers, NEW c \in Clients, Fan(p, c) PROVE TInv'
  <1>1. /\ task \in [Producers -> TaskType] /\ task[p].pc = "fanning"
        /\ task' = [task EXCEPT ![p].targets = @ \ {c}]
    BY Parts DEF TInv, TasksOK, Fan
  <1>2. TasksOK' /\ \A q \in Producers : /\ task'[q].th = task[q].th
                                         /\ task'[q].kind = task[q].kind
                                         /\ task'[q].seq = task[q].seq
                                         /\ task'[q].pc = task[q].pc
    BY <1>1 DEF TasksOK, TaskType
  <1>3. task[p].seq \in 1..Len(journal) /\ task[p].th \in Threads
    BY <1>1 DEF TInv, Busy
  <1>4. Entry(task[p].seq) \in Frames /\ task[p].seq \in 1..MaxSeq
    BY <1>3, EntryType, Parts DEF TInv, Frames
  <1>5. QueuesOK'
    BY <1>4, Enqueued, Parts DEF TInv, Fan
  <1>6. ServingOK' /\ ReplaysRows' /\ UNCHANGED <<debug, live, journal>>
    BY Parts DEF TInv, Fan, client, ServingOK, ReplaysRows
  <1>7. ViewsOK'
    <2>1. got' \in [Clients -> SUBSET (1..MaxSeq)]
      BY <1>4, Parts DEF TInv, Fan, ViewsOK
    <2>2. crossed' \in [Clients -> SUBSET Threads]
      BY <1>3, Parts DEF TInv, Fan, ViewsOK
    <2> QED BY <2>1, <2>2, Parts DEF TInv, Fan, client, ViewsOK
  <1> QED BY <1>2, <1>5, <1>6, <1>7, TasksKept

LEMMA ServeTypes ==
    ASSUME TInv, NEW c \in Clients,
           Connect(c) \/ ListThreads(c) \/ ReadHead(c) \/ Greet(c) \/ Fail(c)
    PROVE  TInv'
  <1>1. /\ UNCHANGED <<debug, live, journal, task, replay>> /\ ViewsOK'
    BY Parts DEF TInv, Connect, ListThreads, ReadHead, Greet, Fail, client, history, ViewsOK
  <1>2. ServingOK'
    <2>1. live \subseteq Threads /\ Len(journal) \in 0..MaxSeq
      BY Parts, LenProperties DEF TInv, WorldOK
    <2>2. registered' \subseteq Clients /\ conn' \in [Clients -> Phases]
      BY Parts DEF TInv, Connect, ListThreads, ReadHead, Greet, Fail, Registered, ServingOK,
                   Phases
    <2>3. hello' \in [Clients -> SUBSET Threads]
      BY <2>1, Parts DEF TInv, Connect, ListThreads, ReadHead, Greet, Fail, ThreadsHello,
                         ServingOK
    <2>4. head' \in [Clients -> 0..MaxSeq]
      BY <2>1, Parts DEF TInv, Connect, ListThreads, ReadHead, Greet, Fail, JournalHead,
                         ServingOK
    <2> QED BY <1>1, <2>2, <2>3, <2>4, Parts DEF TInv, ServingOK
  <1>3. ReplaysRows'
    BY <1>1 DEF TInv, ReplaysRows
  <1>4. QueuesOK'
    <2>1. CASE Greet(c)
      <3>1. [type |-> "hello", threads |-> hello[c], cursor |-> head[c]] \in Frames
        BY Parts DEF TInv, ServingOK, Frames, HelloFrames
      <3> QED BY <2>1, <3>1, Enqueued, Parts DEF TInv, Greet
    <2>2. CASE ~Greet(c)
      BY <2>2, Parts DEF TInv, Connect, ListThreads, ReadHead, Fail, QueuesOK
    <2> QED BY <2>1, <2>2
  <1> QED BY <1>1, <1>2, <1>3, <1>4, TypesKept

LEMMA WriteTypes == ASSUME TInv, NEW c \in Clients, Write(c) PROVE TInv'
  <1>1. queue[c] \in Seq(Frames) /\ queue[c] # <<>> /\ Len(queue[c]) <= Depth
    BY Parts DEF TInv, QueuesOK, Write
  <1>2. /\ Head(queue[c]) \in Frames /\ Tail(queue[c]) \in Seq(Frames)
        /\ Len(Tail(queue[c])) <= Depth
    BY <1>1, HeadTailProperties, LenProperties
  <1>3. QueuesOK'
    BY <1>2, Parts DEF TInv, QueuesOK, Write
  <1>4. ServingOK' /\ ReplaysRows' /\ UNCHANGED <<debug, live, journal, task>>
    BY Parts DEF TInv, Write, ServingOK, ReplaysRows
  <1>5. ViewsOK'
    <2>1. shown \in [Clients -> SUBSET Threads] /\ cursor \in [Clients -> 0..MaxSeq]
          /\ got' = got /\ crossed' = crossed
      BY Parts DEF TInv, ViewsOK, Write, history
    <2>2. CASE Head(queue[c]).type = "hello"
      <3>1. Head(queue[c]) \in HelloFrames
        BY <1>2, <2>2 DEF Frames, BroadcastFrames
      <3> QED BY <2>1, <2>2, <3>1, Parts DEF TInv, ViewsOK, Write, HelloFrames
    <2>3. CASE Head(queue[c]).type # "hello"
      <3>1. Head(queue[c]) \in BroadcastFrames
        BY <1>2, <2>3 DEF Frames, HelloFrames
      <3> QED BY <2>1, <2>3, <3>1, Parts DEF TInv, ViewsOK, Write, BroadcastFrames, Kinds
    <2> QED BY <2>2, <2>3
  <1> QED BY <1>3, <1>4, <1>5, TypesKept

LEMMA SubscribeTypes ==
    ASSUME TInv, NEW c \in Clients, NEW since \in 0..MaxSeq, Subscribe(c, since) PROVE TInv'
  <1>1. /\ UNCHANGED <<debug, live, journal, task>> /\ QueuesOK' /\ ViewsOK'
        /\ Len(journal) \in 0..MaxSeq
    BY Parts, LenProperties DEF TInv, Subscribe, client, history, QueuesOK, ViewsOK, WorldOK
  <1>2. /\ RowsAfter(since) \in Seq(1..MaxSeq)
        /\ \A i \in DOMAIN RowsAfter(since) : RowsAfter(since)[i] \in 1..Len(journal)
    <2>1. CASE since <= Len(journal)
      <3>1. Len(journal) - since \in Nat
        BY <1>1, <2>1
      <3>2. \A i \in 1..(Len(journal) - since) : since + i \in 1..Len(journal) /\ since + i \in 1..MaxSeq
        BY <1>1, <2>1
      <3> QED BY <3>1, <3>2, IsASeq DEF RowsAfter, JournalHead
    <2>2. CASE since > Len(journal)
      <3>1. 1..(Len(journal) - since) = 1..0
        BY <1>1, <2>2
      <3>2. RowsAfter(since) = [i \in 1..0 |-> since + i]
        <4> DEFINE n == Len(journal) - since
        <4>1. RowsAfter(since) = [i \in 1..n |-> since + i]
          BY DEF RowsAfter, JournalHead
        <4>2. 1..n = 1..0
          BY <3>1
        <4> HIDE DEF n
        <4> QED BY <4>1, <4>2
      <3>4. \A i \in 1..0 : since + i \in 1..MaxSeq
        OBVIOUS
      <3>3. [i \in 1..0 |-> since + i] \in Seq(1..MaxSeq)
        BY <3>4, IsASeq
      <3> QED BY <3>2, <3>3
    <2> QED BY <1>1, <2>1, <2>2
  <1>3. ServingOK'
    BY <1>2, Parts DEF TInv, Subscribe, ServingOK
  <1>4. ReplaysRows'
    BY <1>1, <1>2, Parts DEF TInv, Subscribe, ServingOK, ReplaysRows
  <1> QED BY <1>1, <1>3, <1>4, TypesKept

LEMMA ReplayRowTypes == ASSUME TInv, NEW c \in Clients, ReplayRow(c) PROVE TInv'
  <1>1. /\ UNCHANGED <<debug, live, journal, task>> /\ ViewsOK'
        /\ replay[c] \in Seq(1..MaxSeq) /\ replay[c] # <<>>
        /\ replay' = [replay EXCEPT ![c] = Tail(@)]
        /\ replay \in [Clients -> Seq(1..MaxSeq)]
    BY Parts DEF TInv, ReplayRow, client, history, ViewsOK, ServingOK
  <1>2. /\ Tail(replay[c]) \in Seq(1..MaxSeq) /\ Head(replay[c]) = replay[c][1]
        /\ 1 \in DOMAIN replay[c]
        /\ \A i \in DOMAIN Tail(replay[c]) : /\ i + 1 \in DOMAIN replay[c]
                                             /\ Tail(replay[c])[i] = replay[c][i + 1]
    BY <1>1, HeadTailProperties, LenProperties, EmptySeq
  <1>3. Head(replay[c]) \in 1..Len(journal)
    BY <1>2 DEF TInv, ReplaysRows
  <1>4. Entry(Head(replay[c])) \in Frames
    BY <1>3, EntryType, Parts DEF TInv, Frames
  <1>5. QueuesOK'
    BY <1>4, Enqueued, Parts DEF TInv, ReplayRow, QueuesOK
  <1>6. ServingOK'
    BY <1>1, <1>2, Parts DEF TInv, ReplayRow, ServingOK
  <1>7. ReplaysRows'
    BY <1>1, <1>2 DEF TInv, ReplaysRows
  <1> QED BY <1>1, <1>5, <1>6, <1>7, TypesKept

LEMMA UnregisterTypes == ASSUME TInv, NEW c \in Clients, Unregister(c) PROVE TInv'
  <1>1. /\ task \in [Producers -> TaskType]
        /\ task' = [p \in Producers |-> [task[p] EXCEPT !.targets = @ \ {c}]]
        /\ UNCHANGED <<debug, live, journal>>
    BY Parts DEF TInv, Unregister, TasksOK
  <1>2. TasksOK' /\ \A q \in Producers : /\ task'[q].th = task[q].th
                                         /\ task'[q].kind = task[q].kind
                                         /\ task'[q].seq = task[q].seq
                                         /\ task'[q].pc = task[q].pc
    BY <1>1 DEF TasksOK, TaskType
  <1>3. QueuesOK'
    <2>1. Len(<<>>) <= Depth /\ <<>> \in Seq(Frames)
      BY EmptySeq
    <2> QED BY <2>1, Parts DEF TInv, Unregister, QueuesOK
  <1>4. ServingOK'
    BY EmptySeq, Parts DEF TInv, Unregister, ServingOK, Phases
  <1>5. ViewsOK'
    BY Parts DEF TInv, Unregister, ViewsOK
  <1>6. ReplaysRows'
    BY <1>1, Parts DEF TInv, Unregister, ReplaysRows, ServingOK
  <1> QED BY <1>1, <1>2, <1>3, <1>4, <1>5, <1>6, TasksKept

LEMMA NextTInv == TInv /\ [Next]_vars => TInv'
  <1> SUFFICES ASSUME TInv, [Next]_vars PROVE TInv'
    OBVIOUS
  <1>1. CASE \E p \in Producers, th \in Threads, kind \in Kinds : Change(p, th, kind)
    BY <1>1, ChangeTypes
  <1>2. CASE \E p \in Producers : Broadcast(p)
    BY <1>2, AppendTypes, BroadcastTypes, FanTypes DEF Broadcast
  <1>3. CASE \E c \in Clients : Connect(c) \/ Serve(c) \/ Write(c) \/ ReplayRow(c) \/ Fail(c)
    BY <1>3, ServeTypes, WriteTypes, ReplayRowTypes, UnregisterTypes DEF Serve
  <1>4. CASE \E c \in Clients, since \in 0..MaxSeq : Subscribe(c, since)
    BY <1>4, SubscribeTypes
  <1>5. CASE UNCHANGED vars
    <2>1. /\ QueuesOK' /\ ServingOK' /\ ViewsOK' /\ ReplaysRows'
          /\ UNCHANGED <<debug, live, journal, task>>
      BY <1>5, Parts DEF TInv, vars, hub, client, history, QueuesOK, ServingOK, ViewsOK,
                         ReplaysRows
    <2> QED BY <2>1, TypesKept
  <1> QED BY <1>1, <1>2, <1>3, <1>4, <1>5 DEF Next

\* Every variable keeps its type: no send queue ever holds more than
\* sendQueueDepth frames (ws.go:641-668), and a row that a broadcast or a replay
\* speaks of is in the journal.
THEOREM TypeCorrect == Spec => []TypeOK
  <1>1. TInv => TypeOK
    BY DEF TInv
  <1> QED BY <1>1, InitTInv, NextTInv, PTL DEF Spec

(***************************************************************************)
(* What a client will show once it has read everything: the invariant      *)
(* behind CalmMeansCurrent.                                                *)
(***************************************************************************)

\* A broadcast of its own for each thread, and true to the mux.
Alone == \A p, q \in Producers : task[p].th = task[q].th /\ task[p].th # Nil => p = q

Truthful ==
    \A p \in Producers :
        /\ task[p].pc = "idle" => task[p].th = Nil
        /\ task[p].pc # "idle" => (task[p].th \in live <=> task[p].kind # "ended")

ReplaysLate == \A c \in Clients : conn[c] # "running" => replay[c] = <<>>

\* A row or a frame with news of a thread, and news that is still true.
Tells(row, th) == row.th = th /\ row.kind # "card"
Says(row, th) == row.kind = "live" <=> th \in live
FrameTells(f, th) == f.type = "hello" \/ Tells(f, th)
FrameSays(f, th) == IF f.type = "hello" THEN th \in f.threads <=> th \in live ELSE Says(f, th)

\* The last news of a thread in the journal is true unless newer is being made.
Making(th) ==
    \E p \in Producers : task[p].pc = "changed" /\ task[p].th = th /\ task[p].kind # "card"

LastRowTrue(th) ==
    \A n \in DOMAIN journal :
        Tells(journal[n], th) /\ (\A m \in DOMAIN journal : m > n => ~Tells(journal[m], th))
            => Says(journal[n], th)

JournalTrue == \A th \in Threads : Making(th) \/ LastRowTrue(th)

\* News of a thread that a client has yet to be sent.
Expected(c, th) ==
    \E p \in Producers : /\ task[p].th = th /\ task[p].kind # "card"
                         /\ task[p].pc = "fanning" => c \in task[p].targets

\* The last of what is replayed is true; without a replay, the last of what is
\* queued; and with neither, what the client shows.
NoReplay(c, th) == \A i \in DOMAIN replay[c] : ~Tells(journal[replay[c][i]], th)
NoFrame(c, th) == \A i \in DOMAIN queue[c] : ~FrameTells(queue[c][i], th)

ReplayTrue(c, th) ==
    \A i \in DOMAIN replay[c] :
        /\ Tells(journal[replay[c][i]], th)
        /\ \A j \in DOMAIN replay[c] : j > i => ~Tells(journal[replay[c][j]], th)
        => Says(journal[replay[c][i]], th)

QueueTrue(c, th) ==
    \A i \in DOMAIN queue[c] :
        /\ FrameTells(queue[c][i], th)
        /\ \A j \in DOMAIN queue[c] : j > i => ~FrameTells(queue[c][j], th)
        => FrameSays(queue[c][i], th)

Right(c, th) ==
    /\ conn[c] \in {"listed", "headed"} => (th \in hello[c] <=> th \in live)
    /\ conn[c] = "running" /\ open[c] =>
           /\ ReplayTrue(c, th)
           /\ NoReplay(c, th) => QueueTrue(c, th)
           /\ NoReplay(c, th) /\ NoFrame(c, th) => (th \in shown[c] <=> th \in live)

Excused(c, th) == debug \/ th \in crossed[c] \/ Expected(c, th)

AllRight == \A c \in Clients, th \in Threads : Excused(c, th) \/ Right(c, th)

SInv == Alone /\ Truthful /\ ReplaysLate /\ JournalTrue /\ AllRight

FullInv == TInv /\ IInv /\ SInv

LEMMA InitSInv == Init => SInv
  <1> SUFFICES ASSUME Init PROVE SInv
    OBVIOUS
  <1>1. Alone /\ Truthful /\ ReplaysLate
    BY DEF Init, Alone, Truthful, ReplaysLate, Idle
  <1>2. JournalTrue /\ AllRight
    BY DEF Init, JournalTrue, LastRowTrue, AllRight, Right
  <1> QED BY <1>1, <1>2 DEF SInv

\* All that Right says of a client.
Mine(c) == <<conn[c], open[c], queue[c], hello[c], replay[c], shown[c]>>

LEMMA RightKept ==
    ASSUME NEW c \in Clients, NEW th \in Threads, Right(c, th), UNCHANGED Mine(c),
           th \in live' <=> th \in live,
           \A i \in DOMAIN replay[c] : journal'[replay[c][i]] = journal[replay[c][i]]
    PROVE  Right(c, th)'
  <1>1. /\ conn'[c] = conn[c] /\ open'[c] = open[c] /\ queue'[c] = queue[c]
        /\ hello'[c] = hello[c] /\ replay'[c] = replay[c] /\ shown'[c] = shown[c]
    BY DEF Mine
  <1>2. /\ ReplayTrue(c, th)' <=> ReplayTrue(c, th)
        /\ NoReplay(c, th)' <=> NoReplay(c, th)
    BY <1>1, SMTT(30) DEF ReplayTrue, NoReplay, Tells, Says
  <1>3. /\ QueueTrue(c, th)' <=> QueueTrue(c, th)
        /\ NoFrame(c, th)' <=> NoFrame(c, th)
    BY <1>1 DEF QueueTrue, NoFrame, FrameTells, FrameSays, Tells, Says
  <1> QED BY <1>1, <1>2, <1>3 DEF Right

\* A step of one client, to be looked at on its own.
LEMMA ClientStep ==
    ASSUME SInv, NEW k \in Clients, UNCHANGED <<debug, live, journal, task, crossed>>,
           \A c \in Clients \ {k} : UNCHANGED Mine(c),
           conn'[k] # "running" => replay'[k] = <<>>,
           \A th \in Threads : Right(k, th) => Right(k, th)'
    PROVE  SInv'
  <1>1. Alone' /\ Truthful' /\ JournalTrue'
    BY DEF SInv, Alone, Truthful, JournalTrue, Making, LastRowTrue, Says
  <1>2. ReplaysLate'
    BY DEF SInv, ReplaysLate, Mine
  <1>3. ASSUME NEW c \in Clients, NEW th \in Threads, ~Excused(c, th)' PROVE Right(c, th)'
    <2>1. Right(c, th)
      BY <1>3 DEF Excused, Expected, SInv, AllRight
    <2>2. CASE c = k
      BY <2>1, <2>2
    <2>3. CASE c # k
      BY <2>1, <2>3, RightKept
    <2> QED BY <2>2, <2>3
  <1> QED BY <1>1, <1>2, <1>3 DEF SInv, AllRight

(***************************************************************************)
(* The producers.                                                          *)
(***************************************************************************)

LEMMA ChangeRight ==
    ASSUME FullInv, NEW p \in Producers, NEW th \in Threads, NEW kind \in Kinds,
           Change(p, th, kind)
    PROVE  SInv'
  <1> USE DEF FullInv
  <1>1. /\ \A q \in Producers \ {p} : task'[q] = task[q] /\ task[q].th # th
        /\ task'[p].pc = "changed" /\ task'[p].th = th /\ task'[p].kind = kind
        /\ task[p].pc = "idle" /\ task[p].th = Nil
        /\ th \in live' <=> kind # "ended"
        /\ \A u \in Threads \ {th} : u \in live' <=> u \in live
        /\ kind = "card" => live' = live
    <2>1. task \in [Producers -> TaskType]
      BY Parts DEF TInv, TasksOK
    <2>2. /\ task[p].pc = "idle" /\ \A q \in Producers : task[q].th # th
          /\ task' = [task EXCEPT ![p] = [Idle EXCEPT !.pc = "changed", !.th = th, !.kind = kind]]
      BY DEF Change
    <2>3. /\ th \in live' <=> kind # "ended"
          /\ \A u \in Threads \ {th} : u \in live' <=> u \in live
          /\ kind = "card" => live' = live
      BY DEF Change, Kinds
    <2> QED BY <2>1, <2>2, <2>3 DEF Idle, SInv, Truthful
  <1>2. /\ UNCHANGED <<debug, journal, crossed>>
        /\ \A c \in Clients : UNCHANGED Mine(c)
        /\ ReplaysLate'
    BY DEF Change, hub, client, history, Mine, SInv, ReplaysLate
  <1>3. Alone'
    BY <1>1 DEF SInv, Alone
  <1>4. Truthful'
    <2>1. \A q \in Producers \ {p} : task[q].pc # "idle" => task[q].th \in Threads \ {th}
      BY <1>1 DEF TInv, Busy
    <2> QED BY <1>1, <2>1 DEF SInv, Truthful
  <1>5. JournalTrue'
    <2> SUFFICES ASSUME NEW u \in Threads, ~Making(u)' PROVE LastRowTrue(u)'
      BY DEF JournalTrue
    <2>1. u # th \/ kind = "card"
      BY <1>1 DEF Making
    <2>2. (u \in live' <=> u \in live) /\ ~Making(u)
      BY <1>1, <2>1 DEF Making
    <2> QED BY <1>2, <2>2 DEF LastRowTrue, Says, SInv, JournalTrue
  <1>6. AllRight'
    <2> SUFFICES ASSUME NEW c \in Clients, NEW u \in Threads, ~Excused(c, u)'
                 PROVE  Right(c, u)'
      BY DEF AllRight
    <2>1. u # th \/ kind = "card"
      BY <1>1 DEF Excused, Expected
    <2>2. (u \in live' <=> u \in live) /\ ~Expected(c, u)
      BY <1>1, <2>1, NilAssumption DEF Excused, Expected
    <2>3. Right(c, u)
      BY <1>2, <2>2 DEF Excused, SInv, AllRight
    <2> QED BY <1>2, <2>2, <2>3, RightKept
  <1> QED BY <1>2, <1>3, <1>4, <1>5, <1>6 DEF SInv

LEMMA AppendRight ==
    ASSUME FullInv, NEW p \in Producers, AppendToJournal(p) PROVE SInv'
  <1> USE DEF FullInv
  <1> DEFINE last == Len(journal) + 1
  <1>0. task \in [Producers -> TaskType] /\ journal \in Seq(JournalRows) /\ Len(journal) \in Nat
    BY Parts, LenProperties DEF TInv, TasksOK, WorldOK
  <1>1. /\ \A q \in Producers \ {p} : task'[q] = task[q]
        /\ task[p].pc = "changed" /\ task[p].th \in Threads /\ task[p].kind \in Kinds
        /\ \/ /\ task'[p].pc = "appended" /\ task'[p].th = task[p].th
              /\ task'[p].kind = task[p].kind
           \/ debug /\ task'[p] = Idle
    BY <1>0 DEF AppendToJournal, TInv, Busy, TaskType
  <1>2. /\ DOMAIN journal = 1..Len(journal) /\ DOMAIN journal' = 1..last
        /\ \A n \in 1..Len(journal) : journal'[n] = journal[n]
        /\ journal'[last].th = task[p].th /\ journal'[last].kind = task[p].kind
    <2>1. [th |-> task[p].th, kind |-> task[p].kind] \in JournalRows
      BY <1>1 DEF JournalRows
    <2> QED BY <1>0, <2>1, AppendProperties, LenProperties DEF AppendToJournal, Appended
  <1>3. /\ UNCHANGED <<debug, live, crossed>>
        /\ \A c \in Clients : UNCHANGED Mine(c)
        /\ ReplaysLate'
    BY DEF AppendToJournal, hub, client, history, Mine, SInv, ReplaysLate
  <1>4. Alone' /\ Truthful'
    BY <1>1, <1>3 DEF SInv, Alone, Truthful, Idle
  <1>5. JournalTrue'
    <2> SUFFICES ASSUME NEW u \in Threads, ~Making(u)' PROVE LastRowTrue(u)'
      BY DEF JournalTrue
    <2> HIDE DEF last
    <2>0. last = Len(journal) + 1
      BY DEF last
    <2>1. CASE task[p].th = u /\ task[p].kind # "card"
      <3>1. Tells(journal'[last], u) /\ (journal'[last].kind = "live" <=> u \in live')
        BY <1>1, <1>2, <1>3, <2>1 DEF Tells, SInv, Truthful, Kinds
      <3>2. last \in DOMAIN journal' /\ \A n \in DOMAIN journal' : n # last => last > n
        BY <1>0, <1>2, <2>0
      <3> QED BY <3>1, <3>2 DEF LastRowTrue, Says
    <2>2. CASE ~(task[p].th = u /\ task[p].kind # "card")
      <3>1. ~Making(u)
        BY <1>1, <2>2 DEF Making
      <3>2. ~Tells(journal'[last], u) /\ LastRowTrue(u)
        BY <1>2, <2>2, <3>1 DEF Tells, SInv, JournalTrue
      <3>3. \A n \in DOMAIN journal' : n = last \/ (n \in DOMAIN journal /\ journal'[n] = journal[n])
        BY <1>0, <1>2, <2>0
      <3>4. \A n \in DOMAIN journal : n \in DOMAIN journal' /\ journal'[n] = journal[n]
        BY <1>0, <1>2, <2>0
      <3> QED BY <1>3, <3>2, <3>3, <3>4 DEF LastRowTrue, Says
    <2> QED BY <2>1, <2>2
  <1>6. AllRight'
    <2> SUFFICES ASSUME NEW c \in Clients, NEW u \in Threads, ~Excused(c, u)'
                 PROVE  Right(c, u)'
      BY DEF AllRight
    <2>1. ~Expected(c, u)
      BY <1>1, <1>3 DEF Excused, Expected
    <2>2. Right(c, u)
      BY <1>3, <2>1 DEF Excused, SInv, AllRight
    <2>3. \A i \in DOMAIN replay[c] : journal'[replay[c][i]] = journal[replay[c][i]]
      BY <1>2 DEF TInv, ReplaysRows
    <2> QED BY <1>3, <2>2, <2>3, RightKept
  <1> QED BY <1>3, <1>4, <1>5, <1>6 DEF SInv

\* The other steps of a broadcast change neither threads nor journal.
LEMMA ProducersKept ==
    ASSUME FullInv, UNCHANGED <<live, journal>>,
           \A p \in Producers :
               \/ task'[p] = Idle
               \/ /\ task'[p].th = task[p].th /\ task'[p].kind = task[p].kind
                  /\ task[p].pc = task'[p].pc \/ (task[p].pc = "appended" /\ task'[p].pc = "fanning"),
           \A p \in Producers : task[p].pc = "changed" => task'[p].pc = "changed"
    PROVE  Alone' /\ Truthful' /\ JournalTrue'
  <1>1. Alone'
    BY DEF FullInv, SInv, Alone, Idle
  <1>2. Truthful'
    BY DEF FullInv, SInv, Truthful, Idle
  <1>3. \A u \in Threads : Making(u) => Making(u)'
    BY DEF Making, Idle
  <1>4. JournalTrue'
    BY <1>3 DEF FullInv, SInv, JournalTrue, LastRowTrue, Says
  <1> QED BY <1>1, <1>2, <1>4

LEMMA TargetsRight ==
    ASSUME FullInv, NEW p \in Producers, TakeTargets(p) \/ EndBroadcast(p) PROVE SInv'
  <1> USE DEF FullInv
  <1>0. task \in [Producers -> TaskType]
    BY Parts DEF TInv, TasksOK
  <1>1. /\ UNCHANGED <<debug, live, journal, crossed>> /\ \A c \in Clients : UNCHANGED Mine(c)
        /\ ReplaysLate'
    BY DEF TakeTargets, EndBroadcast, hub, client, history, Mine, SInv, ReplaysLate
  <1>2. \/ /\ TakeTargets(p) /\ task[p].pc = "appended" /\ task'[p].pc = "fanning"
           /\ task'[p].th = task[p].th
           /\ task'[p].kind = task[p].kind /\ task'[p].targets = registered
        \/ /\ EndBroadcast(p) /\ task[p].pc = "fanning" /\ task[p].targets = {}
           /\ task'[p] = Idle
    BY <1>0 DEF TakeTargets, EndBroadcast, Targets, TaskType
  <1>3. \A q \in Producers \ {p} : task'[q] = task[q]
    BY <1>0 DEF TakeTargets, EndBroadcast
  <1>4. Alone' /\ Truthful' /\ JournalTrue'
    BY <1>1, <1>2, <1>3, ProducersKept
  <1>5. AllRight'
    <2> SUFFICES ASSUME NEW c \in Clients, NEW u \in Threads, ~Excused(c, u)'
                 PROVE  Right(c, u)'
      BY DEF AllRight
    <2>1. CASE conn[c] = "away"
      <3>1. conn'[c] = "away"
        BY <1>1, <2>1 DEF Mine
      <3> QED BY <3>1 DEF Right
    <2>2. CASE conn[c] # "away"
      <3>1. c \in registered
        BY <2>2 DEF IInv, Enrolled
      <3>2. ~Expected(c, u)
        BY <1>2, <1>3, <3>1 DEF Excused, Expected
      <3>3. Right(c, u)
        BY <1>1, <3>2 DEF Excused, SInv, AllRight
      <3> QED BY <1>1, <3>3, RightKept
    <2> QED BY <2>1, <2>2
  <1> QED BY <1>1, <1>4, <1>5 DEF SInv

LEMMA OneMore ==
    ASSUME NEW S, NEW q \in Seq(S), NEW f \in S
    PROVE  /\ Len(q) \in Nat /\ DOMAIN q = 1..Len(q)
           /\ DOMAIN Append(q, f) = 1..(Len(q) + 1)
           /\ \A i \in DOMAIN q : Append(q, f)[i] = q[i] /\ i < Len(q) + 1
           /\ Append(q, f)[Len(q) + 1] = f
  BY AppendProperties, LenProperties

\* A frame that comes last and has news of a thread decides what is shown of it,
LEMMA LastFrame ==
    ASSUME NEW c \in Clients, NEW u \in Threads, NEW f \in Frames,
           queue[c] \in Seq(Frames), queue'[c] = Append(queue[c], f),
           FrameTells(f, u), IF f.type = "hello" THEN u \in f.threads <=> u \in live'
                             ELSE f.kind = "live" <=> u \in live'
    PROVE  QueueTrue(c, u)' /\ ~NoFrame(c, u)'
  <1> DEFINE last == Len(queue[c]) + 1
  <1>1. /\ last \in DOMAIN queue'[c] /\ queue'[c][last] = f
        /\ \A i \in DOMAIN queue'[c] : i # last => last > i
    BY OneMore
  <1> HIDE DEF last
  <1>2. ~NoFrame(c, u)'
    BY <1>1 DEF NoFrame, FrameTells, Tells
  <1>3. QueueTrue(c, u)'
    BY <1>1 DEF QueueTrue, FrameTells, FrameSays, Tells, Says
  <1> QED BY <1>2, <1>3

\* and one without does not.
LEMMA OtherFrame ==
    ASSUME NEW c \in Clients, NEW u \in Threads, NEW f \in Frames,
           queue[c] \in Seq(Frames), queue'[c] = Append(queue[c], f), ~FrameTells(f, u),
           u \in live' <=> u \in live
    PROVE  /\ QueueTrue(c, u) => QueueTrue(c, u)'
           /\ NoFrame(c, u)' <=> NoFrame(c, u)
  <1> DEFINE last == Len(queue[c]) + 1
  <1>1. /\ last \in DOMAIN queue'[c] /\ queue'[c][last] = f
        /\ \A i \in DOMAIN queue'[c] : i = last \/ (i \in DOMAIN queue[c] /\ queue'[c][i] = queue[c][i])
        /\ \A i \in DOMAIN queue[c] : i \in DOMAIN queue'[c] /\ queue'[c][i] = queue[c][i]
    BY OneMore
  <1> HIDE DEF last
  <1>2. NoFrame(c, u)' <=> NoFrame(c, u)
    BY <1>1 DEF NoFrame, FrameTells, Tells
  <1>3. QueueTrue(c, u) => QueueTrue(c, u)'
    BY <1>1 DEF QueueTrue, FrameTells, FrameSays, Tells, Says
  <1> QED BY <1>2, <1>3

LEMMA FanRight ==
    ASSUME FullInv, NEW p \in Producers, NEW k \in Clients, Fan(p, k) PROVE SInv'
  <1> USE DEF FullInv
  <1> DEFINE f == Entry(task[p].seq)
             th == task[p].th
  <1>0. task \in [Producers -> TaskType]
    BY Parts DEF TInv, TasksOK
  <1>1. /\ UNCHANGED <<debug, live, journal, conn, hello, replay, shown>>
        /\ task[p].pc = "fanning" /\ ReplaysLate'
    BY DEF Fan, client, SInv, ReplaysLate
  <1>2. \A q \in Producers : /\ task'[q].pc = task[q].pc /\ task'[q].th = task[q].th
                             /\ task'[q].kind = task[q].kind
                             /\ task'[q].targets = IF q = p THEN task[q].targets \ {k}
                                                   ELSE task[q].targets
    BY <1>0 DEF Fan, TaskType
  <1>3. Alone' /\ Truthful' /\ JournalTrue'
    BY <1>1, <1>2, ProducersKept
  <1>4. /\ th \in Threads /\ task[p].kind \in Kinds /\ f \in Frames
        /\ f.type = "broadcast" /\ f.th = th /\ f.kind = task[p].kind
    <2>1. task[p].seq \in 1..Len(journal) /\ th \in Threads /\ task[p].kind \in Kinds
          /\ journal[task[p].seq] = [th |-> task[p].th, kind |-> task[p].kind]
      BY <1>1 DEF TInv, Busy
    <2> QED BY <2>1, EntryType, Parts DEF TInv, Frames, Entry
  <1>5. /\ \A c \in Clients \ {k} : queue'[c] = queue[c] /\ open'[c] = open[c]
        /\ open'[k] => open[k] /\ queue'[k] = Append(queue[k], f)
        /\ queue[k] \in Seq(Frames)
    BY <1>4, Enqueued, Parts DEF TInv, Fan, QueuesOK
  <1>6. /\ \A c \in Clients \ {k} : crossed'[c] = crossed[c]
        /\ crossed'[k] = CASE ~AutoRelay(task[p].kind) -> crossed[k]
                           [] conn[k] \in {"listed", "headed"} \/ Older(k, th)
                              -> crossed[k] \cup {th}
                           [] OTHER -> crossed[k] \ {th}
    BY Parts DEF TInv, ViewsOK, Fan
  <1>7. ASSUME NEW c \in Clients, NEW u \in Threads, ~Excused(c, u)' PROVE Right(c, u)'
    <2>1. CASE c # k
      <3>1. ~Excused(c, u)
        BY <1>1, <1>2, <1>6, <1>7, <2>1 DEF Excused, Expected
      <3>2. Right(c, u) /\ UNCHANGED Mine(c)
        BY <1>1, <1>5, <2>1, <3>1 DEF SInv, AllRight, Mine
      <3> QED BY <1>1, <3>2, RightKept
    <2>2. CASE c = k /\ (u # th \/ task[p].kind = "card")
      <3>1. u \notin crossed[k]
        BY <1>6, <1>7, <2>2 DEF Excused, AutoRelay
      <3>2. ~Excused(k, u)
        BY <1>1, <1>2, <1>7, <2>2, <3>1 DEF Excused, Expected
      <3>3. Right(k, u) /\ ~FrameTells(f, u)
        BY <1>4, <2>2, <3>2 DEF SInv, AllRight, FrameTells, Tells
      <3>4. open'[k] => /\ QueueTrue(k, u) => QueueTrue(k, u)'
                        /\ NoFrame(k, u)' <=> NoFrame(k, u)
        BY <1>1, <1>4, <1>5, <3>3, OtherFrame
      <3>5. /\ ReplayTrue(k, u)' <=> ReplayTrue(k, u)
            /\ NoReplay(k, u)' <=> NoReplay(k, u)
        BY <1>1 DEF ReplayTrue, NoReplay, Says
      <3> QED BY <1>1, <1>5, <2>2, <3>3, <3>4, <3>5 DEF Right
    <2>3. CASE c = k /\ u = th /\ task[p].kind # "card"
      <3>1. conn[k] \notin {"listed", "headed"} /\ ~Older(k, th)
        BY <1>6, <1>7, <2>3 DEF Excused, AutoRelay
      <3>2. NoReplay(k, u) /\ NoReplay(k, u)' /\ ReplayTrue(k, u)'
        <4>1. \A i \in DOMAIN replay[k] : i \in 1..Len(replay[k])
          BY LenProperties, Parts DEF TInv, ServingOK
        <4> QED BY <1>1, <2>3, <3>1, <4>1 DEF NoReplay, ReplayTrue, Older, Tells
      <3>3. FrameTells(f, u) /\ (f.kind = "live" <=> u \in live')
        BY <1>1, <1>4, <2>3 DEF FrameTells, Tells, SInv, Truthful, Kinds
      <3>4. open'[k] => QueueTrue(k, u)' /\ ~NoFrame(k, u)'
        BY <1>4, <1>5, <3>3, LastFrame
      <3> QED BY <1>1, <2>3, <3>1, <3>2, <3>4 DEF Right
    <2> QED BY <2>1, <2>2, <2>3
  <1> QED BY <1>1, <1>3, <1>7 DEF SInv, AllRight

(***************************************************************************)
(* The clients.                                                            *)
(***************************************************************************)

LEMMA GreetingRight ==
    ASSUME FullInv, NEW k \in Clients,
           Connect(k) \/ ListThreads(k) \/ ReadHead(k) \/ Greet(k) \/ Fail(k)
    PROVE  SInv'
  <1> USE DEF FullInv
  <1>1. /\ UNCHANGED <<debug, live, journal, task, crossed, replay, shown>>
        /\ \A c \in Clients \ {k} : conn'[c] = conn[c] /\ hello'[c] = hello[c]
    BY Parts DEF TInv, ServingOK, Connect, ListThreads, ReadHead, Greet, Fail, client, history
  <1>2. \A c \in Clients \ {k} : open'[c] = open[c] /\ queue'[c] = queue[c]
    <2>1. CASE Greet(k)
      <3>1. [type |-> "hello", threads |-> hello[k], cursor |-> head[k]] \in Frames
        BY Parts DEF TInv, ServingOK, Frames, HelloFrames
      <3> QED BY <2>1, <3>1, Enqueued, Parts DEF TInv, Greet
    <2>2. CASE ~Greet(k)
      BY <2>2, Parts DEF TInv, QueuesOK, Connect, ListThreads, ReadHead, Fail
    <2> QED BY <2>1, <2>2
  <1>3. \A c \in Clients \ {k} : UNCHANGED Mine(c)
    BY <1>1, <1>2 DEF Mine
  <1>4. conn \in [Clients -> Phases] /\ open \in [Clients -> BOOLEAN]
        /\ hello \in [Clients -> SUBSET Threads]
    BY Parts DEF TInv, ServingOK, QueuesOK
  <1>5. conn[k] # "running" => replay[k] = <<>>
    BY DEF SInv, ReplaysLate
  <1>6. CASE Connect(k)
    <2>1. conn'[k] = "registered" /\ conn[k] = "away"
      BY <1>4, <1>6 DEF Connect
    <2>2. \A th \in Threads : Right(k, th)'
      BY <2>1 DEF Right
    <2> QED BY <1>1, <1>3, <1>5, <2>1, <2>2, ClientStep
  <1>7. CASE ListThreads(k)
    <2>1. conn'[k] = "listed" /\ conn[k] = "registered" /\ hello'[k] = live
      BY <1>4, <1>7 DEF ListThreads, ThreadsHello
    <2>2. \A th \in Threads : Right(k, th)'
      BY <1>1, <2>1 DEF Right
    <2> QED BY <1>1, <1>3, <1>5, <2>1, <2>2, ClientStep
  <1>8. CASE ReadHead(k)
    <2>1. conn'[k] = "headed" /\ conn[k] = "listed" /\ hello'[k] = hello[k]
      BY <1>4, <1>8 DEF ReadHead
    <2>2. \A th \in Threads : Right(k, th) => Right(k, th)'
      BY <1>1, <2>1 DEF Right
    <2> QED BY <1>1, <1>3, <1>5, <2>1, <2>2, ClientStep
  <1>9. CASE Greet(k)
    <2> DEFINE f == [type |-> "hello", threads |-> hello[k], cursor |-> head[k]]
    <2>1. f \in Frames /\ f.type = "hello" /\ f.threads = hello[k]
      BY Parts DEF TInv, ServingOK, Frames, HelloFrames
    <2>2. /\ conn'[k] = "running" /\ conn[k] = "headed"
          /\ open'[k] => queue'[k] = Append(queue[k], f)
          /\ queue[k] \in Seq(Frames)
      BY <1>4, <1>9, <2>1, Enqueued, Parts DEF TInv, QueuesOK, Greet
    <2>3. ASSUME NEW th \in Threads, Right(k, th) PROVE Right(k, th)'
      <3>1. FrameTells(f, th) /\ (th \in f.threads <=> th \in live')
        BY <1>1, <2>1, <2>2, <2>3 DEF Right, FrameTells
      <3>2. open'[k] => QueueTrue(k, th)' /\ ~NoFrame(k, th)'
        BY <2>1, <2>2, <3>1, LastFrame
      <3>3. ReplayTrue(k, th)'
        BY <1>1, <1>5, <2>2 DEF ReplayTrue
      <3> QED BY <2>2, <3>2, <3>3 DEF Right
    <2> QED BY <1>1, <1>3, <2>2, <2>3, ClientStep
  <1>10. CASE Fail(k)
    <2>1. conn' = conn /\ ~open'[k] /\ hello' = hello
      BY <1>4, <1>10 DEF Fail
    <2>2. \A th \in Threads : Right(k, th) => Right(k, th)'
      BY <1>1, <2>1 DEF Right
    <2> QED BY <1>1, <1>3, <1>5, <2>1, <2>2, ClientStep
  <1> QED BY <1>6, <1>7, <1>8, <1>9, <1>10

LEMMA OneLess ==
    ASSUME NEW S, NEW q \in Seq(S), q # <<>>
    PROVE  /\ 1 \in DOMAIN q /\ Head(q) = q[1] /\ \A i \in DOMAIN q : i = 1 \/ i > 1
           /\ \A i \in DOMAIN Tail(q) : i + 1 \in DOMAIN q /\ Tail(q)[i] = q[i + 1]
           /\ \A i \in DOMAIN Tail(q) : i \in Nat
           /\ \A i \in DOMAIN q : i # 1 => i - 1 \in DOMAIN Tail(q) /\ Tail(q)[i - 1] = q[i]
                                           /\ i \in Nat
  <1>1. /\ Len(q) \in Nat /\ Len(q) # 0 /\ DOMAIN q = 1..Len(q) /\ Head(q) = q[1]
        /\ DOMAIN Tail(q) = 1..(Len(q) - 1)
        /\ \A i \in 1..(Len(q) - 1) : Tail(q)[i] = q[i + 1]
    BY HeadTailProperties, LenProperties, EmptySeq
  <1> QED BY <1>1

\* The client acts on the frame it reads.
LEMMA WriteRight == ASSUME FullInv, NEW k \in Clients, Write(k) PROVE SInv'
  <1> USE DEF FullInv
  <1> DEFINE f == Head(queue[k])
  <1>1. /\ UNCHANGED <<debug, live, journal, task, crossed, conn, open, hello, replay>>
        /\ conn[k] = "running" /\ queue[k] # <<>> /\ queue[k] \in Seq(Frames)
        /\ queue'[k] = Tail(queue[k])
        /\ \A c \in Clients \ {k} : queue'[c] = queue[c] /\ shown'[c] = shown[c]
        /\ shown'[k] = IF f.type = "hello" THEN f.threads
                       ELSE CASE f.kind = "live" -> shown[k] \cup {f.th}
                              [] f.kind = "ended" -> shown[k] \ {f.th}
                              [] f.kind = "card" -> shown[k]
    BY Parts DEF TInv, QueuesOK, ViewsOK, Write, history
  <1>2. \A c \in Clients \ {k} : UNCHANGED Mine(c)
    BY <1>1 DEF Mine
  <1>3. f \in Frames
    BY <1>1, HeadTailProperties
  <1>4. ASSUME NEW th \in Threads, Right(k, th) PROVE Right(k, th)'
    <2>1. /\ 1 \in DOMAIN queue[k] /\ f = queue[k][1]
          /\ \A i \in DOMAIN queue'[k] : /\ i \in Nat /\ i + 1 \in DOMAIN queue[k]
                                         /\ queue'[k][i] = queue[k][i + 1]
          /\ \A i \in DOMAIN queue[k] :
                 i # 1 => i - 1 \in DOMAIN queue'[k] /\ queue'[k][i - 1] = queue[k][i] /\ i \in Nat
      BY <1>1, OneLess
    <2> HIDE DEF f
    <2>2. /\ ReplayTrue(k, th)' <=> ReplayTrue(k, th)
          /\ NoReplay(k, th)' <=> NoReplay(k, th)
      BY <1>1 DEF ReplayTrue, NoReplay, Says
    <2>3. QueueTrue(k, th) => QueueTrue(k, th)'
      <3> SUFFICES ASSUME QueueTrue(k, th), NEW i \in DOMAIN queue'[k],
                          FrameTells(queue'[k][i], th),
                          \A j \in DOMAIN queue'[k] : j > i => ~FrameTells(queue'[k][j], th)
                   PROVE  IF queue'[k][i].type = "hello"
                          THEN th \in queue'[k][i].threads <=> th \in live
                          ELSE queue'[k][i].kind = "live" <=> th \in live
        BY <1>1 DEF QueueTrue, FrameTells, FrameSays, Tells, Says
      <3>1. i \in Nat /\ i + 1 \in DOMAIN queue[k] /\ queue'[k][i] = queue[k][i + 1]
        BY <2>1
      <3>2. ASSUME NEW j \in DOMAIN queue[k], j > i + 1 PROVE ~FrameTells(queue[k][j], th)
        BY <2>1, <3>1, <3>2
      <3> QED BY <3>1, <3>2 DEF QueueTrue, FrameSays, Says
    <2>4. ASSUME open[k], NoReplay(k, th), NoFrame(k, th)'
          PROVE  th \in shown'[k] <=> th \in live
      <3>1. \A i \in DOMAIN queue[k] : i # 1 => ~FrameTells(queue[k][i], th)
        BY <2>1, <2>4 DEF NoFrame, FrameTells, Tells
      <3>2. CASE FrameTells(f, th)
        <4>1. FrameSays(f, th)
          <5>1. \A j \in DOMAIN queue[k] : j > 1 => ~FrameTells(queue[k][j], th)
            BY <3>1
          <5> QED BY <1>1, <1>4, <2>1, <2>4, <3>2, <5>1 DEF Right, QueueTrue
        <4>2. CASE f.type = "hello"
          BY <1>1, <4>1, <4>2 DEF FrameSays
        <4>3. CASE f.type # "hello"
          <5>1. f \in BroadcastFrames /\ f.th = th /\ f.kind # "card"
            BY <1>3, <3>2, <4>3 DEF Frames, HelloFrames, FrameTells, Tells
          <5> QED BY <1>1, <4>1, <4>3, <5>1 DEF FrameSays, Says, BroadcastFrames, Kinds
        <4> QED BY <4>2, <4>3
      <3>3. CASE ~FrameTells(f, th)
        <4>1. th \in shown[k] <=> th \in live
          <5>1. NoFrame(k, th)
            BY <2>1, <3>1, <3>3 DEF NoFrame
          <5> QED BY <1>1, <1>4, <2>4, <5>1 DEF Right
        <4>2. f \in BroadcastFrames /\ (f.th # th \/ f.kind = "card") /\ f.type # "hello"
          BY <1>3, <3>3 DEF Frames, HelloFrames, FrameTells, Tells
        <4> QED BY <1>1, <4>1, <4>2 DEF BroadcastFrames, Kinds
      <3> QED BY <3>2, <3>3
    <2> QED BY <1>1, <1>4, <2>2, <2>3, <2>4 DEF Right
  <1> QED BY <1>1, <1>2, <1>4, ClientStep

\* Nothing closes a client's replay early but its own end.
LEMMA SubscribeRight ==
    ASSUME FullInv, NEW k \in Clients, NEW since \in 0..MaxSeq, Subscribe(k, since)
    PROVE  SInv'
  <1> USE DEF FullInv
  <1>1. /\ UNCHANGED <<debug, live, journal, task, crossed, conn, open, queue, hello, shown>>
        /\ conn[k] = "running" /\ replay[k] = <<>>
        /\ replay'[k] = [i \in 1..(Len(journal) - since) |-> since + i]
        /\ \A c \in Clients \ {k} : replay'[c] = replay[c]
    BY Parts DEF TInv, ServingOK, Subscribe, RowsAfter, JournalHead, client, history
  <1>2. \A c \in Clients \ {k} : UNCHANGED Mine(c)
    BY <1>1 DEF Mine
  <1>3. ReplaysLate' /\ Alone' /\ Truthful' /\ JournalTrue'
    BY <1>1 DEF SInv, ReplaysLate, Alone, Truthful, JournalTrue, Making, LastRowTrue, Says
  <1>4. ASSUME NEW c \in Clients, NEW th \in Threads, ~Excused(c, th)' PROVE Right(c, th)'
    <2>1. Right(c, th) /\ ~Expected(c, th)
      BY <1>1, <1>4 DEF Excused, Expected, SInv, AllRight
    <2>2. CASE c # k
      BY <1>1, <1>2, <2>1, <2>2, RightKept
    <2>3. CASE c = k
      <3>1. ReplayTrue(k, th)'
        <4>1. LastRowTrue(th)
          BY <2>1 DEF Making, Expected, SInv, JournalTrue
        <4>2. DOMAIN journal = 1..Len(journal) /\ Len(journal) \in Nat
          BY Parts, LenProperties DEF TInv, WorldOK
        <4> SUFFICES ASSUME NEW i \in DOMAIN replay'[k], Tells(journal[replay'[k][i]], th),
                            \A j \in DOMAIN replay'[k] : j > i => ~Tells(journal[replay'[k][j]], th)
                     PROVE  Says(journal[replay'[k][i]], th)
          BY <1>1 DEF ReplayTrue, Says
        <4>3. i \in 1..(Len(journal) - since) /\ replay'[k][i] = since + i
              /\ since + i \in DOMAIN journal
          BY <1>1, <4>2
        <4>4. ASSUME NEW m \in DOMAIN journal, m > since + i PROVE ~Tells(journal[m], th)
          <5>1. m - since \in 1..(Len(journal) - since) /\ m - since > i /\ since + (m - since) = m
            BY <4>2, <4>3, <4>4
          <5>2. replay'[k][m - since] = since + (m - since)
            BY <1>1, <5>1
          <5> QED BY <1>1, <5>1, <5>2
        <4> QED BY <4>1, <4>3, <4>4 DEF LastRowTrue
      <3>2. NoReplay(k, th)
        BY <1>1 DEF NoReplay
      <3>3. /\ QueueTrue(k, th)' <=> QueueTrue(k, th)
            /\ NoFrame(k, th)' <=> NoFrame(k, th)
        BY <1>1 DEF QueueTrue, NoFrame, FrameSays, Says
      <3> QED BY <1>1, <2>1, <2>3, <3>1, <3>2, <3>3 DEF Right
    <2> QED BY <2>2, <2>3
  <1> QED BY <1>3, <1>4 DEF SInv, AllRight

\* The last row with news of a thread takes it from the replay into the queue.
LEMMA ReplayRowRight == ASSUME FullInv, NEW k \in Clients, ReplayRow(k) PROVE SInv'
  <1> USE DEF FullInv
  <1> DEFINE row == Head(replay[k])
             f == Entry(row)
  <1>1. /\ UNCHANGED <<debug, live, journal, task, crossed, conn, hello, shown>>
        /\ conn[k] = "running" /\ replay[k] # <<>> /\ replay[k] \in Seq(1..MaxSeq)
        /\ replay'[k] = Tail(replay[k])
        /\ \A c \in Clients \ {k} : replay'[c] = replay[c]
    BY Parts DEF TInv, ServingOK, ReplayRow, client, history
  <1>2. /\ 1 \in DOMAIN replay[k] /\ row = replay[k][1]
        /\ \A i \in DOMAIN replay'[k] : /\ i \in Nat /\ i + 1 \in DOMAIN replay[k]
                                        /\ replay'[k][i] = replay[k][i + 1]
        /\ \A i \in DOMAIN replay[k] :
               i # 1 => i - 1 \in DOMAIN replay'[k] /\ replay'[k][i - 1] = replay[k][i] /\ i \in Nat
    <2> HIDE DEF FullInv
    <2>1. replay[k] \in Seq(1..MaxSeq) /\ replay[k] # <<>> /\ replay'[k] = Tail(replay[k])
      BY <1>1
    <2>2. 1 \in DOMAIN replay[k] /\ row = replay[k][1]
      BY <2>1, OneLess
    <2>3. \A i \in DOMAIN Tail(replay[k]) : /\ i \in Nat /\ i + 1 \in DOMAIN replay[k]
                                            /\ Tail(replay[k])[i] = replay[k][i + 1]
      BY <2>1, OneLess
    <2>4. \A i \in DOMAIN replay[k] :
               i # 1 => /\ i - 1 \in DOMAIN Tail(replay[k])
                         /\ Tail(replay[k])[i - 1] = replay[k][i] /\ i \in Nat
      BY <2>1, OneLess
    <2> QED BY <2>1, <2>2, <2>3, <2>4
  <1>3. /\ row \in 1..Len(journal) /\ f \in Frames /\ f.type = "broadcast"
        /\ f.th = journal[row].th /\ f.kind = journal[row].kind
    <2>1. row \in 1..Len(journal)
      BY <1>2 DEF TInv, ReplaysRows
    <2> QED BY <2>1, EntryType, Parts DEF TInv, Frames, Entry
  <1>4. /\ \A c \in Clients \ {k} : queue'[c] = queue[c] /\ open'[c] = open[c]
        /\ open'[k] => open[k] /\ (debug \/ queue'[k] = Append(queue[k], f))
        /\ queue[k] \in Seq(Frames)
    <2>1. CASE Replayed(row)
      BY <1>3, <2>1, Enqueued, Parts DEF TInv, QueuesOK, ReplayRow
    <2>2. CASE ~Replayed(row)
      BY <2>2, Parts DEF TInv, QueuesOK, ReplayRow, Replayed
    <2> QED BY <2>1, <2>2
  <1> HIDE DEF row, f
  <1>5. \A c \in Clients \ {k} : UNCHANGED Mine(c)
    BY <1>1, <1>4 DEF Mine
  <1>6. ReplaysLate' /\ Alone' /\ Truthful' /\ JournalTrue'
    BY <1>1 DEF SInv, ReplaysLate, Alone, Truthful, JournalTrue, Making, LastRowTrue, Says
  <1>7. ASSUME NEW th \in Threads, Right(k, th), ~debug PROVE Right(k, th)'
    <2>0. SUFFICES ASSUME open'[k] PROVE Right(k, th)'
      BY <1>1 DEF Right
    <2>1. /\ ReplayTrue(k, th)
          /\ NoReplay(k, th) => QueueTrue(k, th)
          /\ NoReplay(k, th) /\ NoFrame(k, th) => (th \in shown[k] <=> th \in live)
          /\ queue'[k] = Append(queue[k], f)
      BY <1>1, <1>4, <1>7, <2>0 DEF Right
    <2>2. ReplayTrue(k, th)'
      <3> SUFFICES ASSUME NEW i \in DOMAIN replay'[k], Tells(journal[replay'[k][i]], th),
                          \A j \in DOMAIN replay'[k] : j > i => ~Tells(journal[replay'[k][j]], th)
                   PROVE  Says(journal[replay'[k][i]], th)
        BY <1>1 DEF ReplayTrue, Says
      <3>1. i \in Nat /\ i + 1 \in DOMAIN replay[k] /\ replay'[k][i] = replay[k][i + 1]
        BY <1>2
      <3>2. ASSUME NEW j \in DOMAIN replay[k], j > i + 1 PROVE ~Tells(journal[replay[k][j]], th)
        BY <1>2, <3>1, <3>2
      <3> QED BY <2>1, <3>1, <3>2 DEF ReplayTrue
    <2>3. ASSUME NoReplay(k, th)'
          PROVE  /\ QueueTrue(k, th)'
                 /\ NoFrame(k, th)' => (th \in shown'[k] <=> th \in live')
      <3>1. \A i \in DOMAIN replay[k] : i # 1 => ~Tells(journal[replay[k][i]], th)
        BY <1>1, <1>2, <2>3 DEF NoReplay
      <3>2. CASE Tells(journal[row], th)
        <4>1. Says(journal[row], th)
          <5>1. \A j \in DOMAIN replay[k] : j > 1 => ~Tells(journal[replay[k][j]], th)
            BY <3>1
          <5> QED BY <1>2, <2>1, <3>2, <5>1 DEF ReplayTrue
        <4>2. FrameTells(f, th) /\ f.type # "hello" /\ (f.kind = "live" <=> th \in live')
          BY <1>1, <1>3, <3>2, <4>1 DEF FrameTells, Tells, Says
        <4> QED BY <1>3, <1>4, <2>1, <4>2, LastFrame
      <3>3. CASE ~Tells(journal[row], th)
        <4>1. NoReplay(k, th)
          BY <1>2, <3>1, <3>3 DEF NoReplay
        <4>2. ~FrameTells(f, th)
          BY <1>3, <3>3 DEF FrameTells, Tells
        <4>3. /\ QueueTrue(k, th) => QueueTrue(k, th)'
              /\ NoFrame(k, th)' <=> NoFrame(k, th)
          BY <1>1, <1>3, <1>4, <2>1, <4>2, OtherFrame
        <4> QED BY <1>1, <2>1, <4>1, <4>3
      <3> QED BY <3>2, <3>3
    <2> QED BY <1>1, <2>2, <2>3 DEF Right
  <1>8. ASSUME NEW c \in Clients, NEW th \in Threads, ~Excused(c, th)' PROVE Right(c, th)'
    <2>1. Right(c, th) /\ ~debug
      BY <1>1, <1>8 DEF Excused, Expected, SInv, AllRight
    <2>2. CASE c = k
      BY <1>7, <2>1, <2>2
    <2>3. CASE c # k
      BY <1>1, <1>5, <2>1, <2>3, RightKept
    <2> QED BY <2>2, <2>3
  <1> QED BY <1>6, <1>8 DEF SInv, AllRight

LEMMA UnregisterRight == ASSUME FullInv, NEW k \in Clients, Unregister(k) PROVE SInv'
  <1> USE DEF FullInv
  <1>0. task \in [Producers -> TaskType]
    BY Parts DEF TInv, TasksOK
  <1>1. /\ UNCHANGED <<debug, live, journal, open, hello>>
        /\ conn'[k] = "away" /\ replay'[k] = <<>>
        /\ \A c \in Clients \ {k} : UNCHANGED Mine(c) /\ crossed'[c] = crossed[c]
    BY Parts DEF TInv, ServingOK, QueuesOK, ViewsOK, Unregister, Mine
  <1>2. \A q \in Producers : /\ task'[q].pc = task[q].pc /\ task'[q].th = task[q].th
                             /\ task'[q].kind = task[q].kind
                             /\ task'[q].targets = task[q].targets \ {k}
    BY <1>0 DEF Unregister, TaskType
  <1>3. Alone' /\ Truthful' /\ JournalTrue'
    BY <1>1, <1>2, ProducersKept
  <1>4. ReplaysLate'
    BY <1>1 DEF SInv, ReplaysLate, Mine
  <1>5. ASSUME NEW c \in Clients, NEW th \in Threads, ~Excused(c, th)' PROVE Right(c, th)'
    <2>1. CASE c = k
      BY <1>1, <2>1 DEF Right
    <2>2. CASE c # k
      <3>1. Right(c, th)
        BY <1>1, <1>2, <1>5, <2>2 DEF Excused, Expected, SInv, AllRight
      <3> QED BY <1>1, <2>2, <3>1, RightKept
    <2> QED BY <2>1, <2>2
  <1> QED BY <1>3, <1>4, <1>5 DEF SInv, AllRight

LEMMA NextSInv == FullInv /\ [Next]_vars => SInv'
  <1> SUFFICES ASSUME FullInv, [Next]_vars PROVE SInv'
    OBVIOUS
  <1>1. CASE \E p \in Producers, th \in Threads, kind \in Kinds : Change(p, th, kind)
    BY <1>1, ChangeRight
  <1>2. CASE \E p \in Producers : Broadcast(p)
    BY <1>2, AppendRight, TargetsRight, FanRight DEF Broadcast
  <1>3. CASE \E c \in Clients : Connect(c) \/ Serve(c) \/ Write(c) \/ ReplayRow(c) \/ Fail(c)
    BY <1>3, GreetingRight, WriteRight, ReplayRowRight, UnregisterRight DEF Serve
  <1>4. CASE \E c \in Clients, since \in 0..MaxSeq : Subscribe(c, since)
    BY <1>4, SubscribeRight
  <1>5. CASE UNCHANGED vars
    <2>1. /\ UNCHANGED <<debug, live, journal, task, crossed>> /\ ReplaysLate'
          /\ \A c \in Clients : UNCHANGED Mine(c)
      BY <1>5 DEF vars, hub, client, history, Mine, FullInv, SInv, ReplaysLate
    <2>2. Alone' /\ Truthful' /\ JournalTrue'
      BY <2>1 DEF FullInv, SInv, Alone, Truthful, JournalTrue, Making, LastRowTrue, Says
    <2>3. ASSUME NEW c \in Clients, NEW th \in Threads, ~Excused(c, th)' PROVE Right(c, th)'
      <3>1. Right(c, th)
        BY <2>1, <2>3 DEF Excused, Expected, FullInv, SInv, AllRight
      <3> QED BY <2>1, <3>1, RightKept
    <2> QED BY <2>1, <2>2, <2>3 DEF SInv, AllRight
  <1> QED BY <1>1, <1>2, <1>3, <1>4, <1>5 DEF Next

\* Whenever a client came and whatever it had replayed: when all is read and no
\* broadcast is under way, it shows the threads that are live, but for those with
\* a frame between the reading and the enqueuing of older news (ws.go:308-406,
\* 547-572).
THEOREM CalmIsCurrent == Spec => []CalmMeansCurrent
  <1>1. FullInv => CalmMeansCurrent
    <2> SUFFICES ASSUME FullInv, NEW c \in Clients, Calm(c), ~debug,
                        NEW th \in Threads \ crossed[c]
                 PROVE  th \in shown[c] <=> th \in live
      BY DEF CalmMeansCurrent
    <2>1. ~Expected(c, th)
      BY DEF Calm, Expected, FullInv, SInv, Truthful
    <2>2. Right(c, th)
      BY <2>1 DEF FullInv, SInv, AllRight, Excused
    <2> QED BY <2>2 DEF Right, Calm, NoReplay, NoFrame
  <1>2. Init => FullInv
    BY InitTInv, InitIInv, InitSInv DEF FullInv
  <1>3. FullInv /\ [Next]_vars => FullInv'
    BY NextTInv, NextIInv, NextSInv DEF FullInv
  <1> QED BY <1>1, <1>2, <1>3, PTL DEF Spec
=============================================================================

-------------------------------- MODULE Hub -------------------------------
(***************************************************************************)
(* The WebSocket hub of the host (src/host/internal/sink/ws.go) and the    *)
(* journal behind it (store/store.go).  Mux goroutines broadcast: the      *)
(* frame is appended to the journal, then put into the send queue of every *)
(* client that is registered at that moment, one queue after the other.    *)
(* A client is registered, gets a hello that is put together meanwhile     *)
(* (the threads of the mux first, the head of the journal later), may ask  *)
(* for a replay of the journal, and is closed when its queue is full or    *)
(* its connection fails.                                                   *)
(*                                                                         *)
(* A broadcast says that a thread is live or ended, or is an explicit      *)
(* card.  What a client makes of its frames is modelled as a set of        *)
(* threads: a hello replaces it, a broadcast changes one of them.  A       *)
(* thread's changes come one by one (module Mux has the races of several   *)
(* producers); the cloud mirror is in module CloudBridge.                  *)
(***************************************************************************)
EXTENDS Integers, Sequences, FiniteSets

CONSTANTS
    Clients,     \* WebSocket clients
    Failing,     \* those whose connection may fail
    Producers,   \* goroutines that broadcast
    Threads,     \* thread ids
    Depth,       \* sendQueueDepth (64)
    MaxSeq,      \* broadcasts in the journal (bound)
    Debugging,   \* the values of relayDebug explored
    Nil

Kinds == {"live", "ended", "card"}
AutoRelay(kind) == kind # "card"  \* autoRelayBroadcast

ASSUME ClientsAssumption == Failing \subseteq Clients /\ Debugging \subseteq BOOLEAN
ASSUME BoundAssumption == Depth \in Nat \ {0} /\ MaxSeq \in Nat
ASSUME NilAssumption == Nil \notin Threads
ASSUME FiniteAssumption == IsFiniteSet(Producers)

VARIABLES
    debug,       \* Hub.relayDebug
    live,        \* the threads with a live session in the mux
    journal,     \* Store: the broadcasts by sequence number
    task,        \* the broadcast each producer is in
    registered,  \* Hub.clients
    conn,        \* each client: "away", or where ServeHTTP is
    open,        \* client.done is not closed
    queue,       \* client.send
    hello,       \* buildHello: the threads read
    head,        \* buildHello: the cursor read
    replay,      \* replayJournal: the rows not yet enqueued
    shown,       \* the threads a client shows
    cursor,      \* the cursor of the hello a client read last
    got,         \* history: what was put into the queue since the client registered
    crossed      \* history: threads whose live frame came between the reading and
                 \*   the enqueuing of older news of them

hub == <<registered, conn, open, queue, hello, head, replay>>
client == <<shown, cursor>>
history == <<got, crossed>>
vars == <<debug, live, journal, task, hub, client, history>>

Idle == [pc |-> "idle", th |-> Nil, kind |-> Nil, seq |-> 0, targets |-> {}]
Entry(n) == [type |-> "broadcast", seq |-> n, th |-> journal[n].th, kind |-> journal[n].kind]

Init ==
    /\ debug \in Debugging
    /\ live = {} /\ journal = <<>>
    /\ task = [p \in Producers |-> Idle]
    /\ registered = {}
    /\ conn = [c \in Clients |-> "away"]
    /\ open = [c \in Clients |-> FALSE]
    /\ queue = [c \in Clients |-> <<>>]
    /\ hello = [c \in Clients |-> {}] /\ head = [c \in Clients |-> 0]
    /\ replay = [c \in Clients |-> <<>>]
    /\ shown = [c \in Clients |-> {}] /\ cursor = [c \in Clients |-> 0]
    /\ got = [c \in Clients |-> {}] /\ crossed = [c \in Clients |-> {}]

(***************************************************************************)
(* client.enqueue: a frame that does not fit closes the client.  A closed  *)
(* client's queue is never read again.                                     *)
(***************************************************************************)

FullByOne(c) == Len(queue[c]) > Depth  \* fault: one frame too many
Full(c) == Len(queue[c]) >= Depth
MayEnqueueUnlessFull(c) == ~open[c] \/ ~Full(c)  \* fault: enqueue blocks
MayEnqueue(c) == TRUE

Enqueue(c, frame) ==
    /\ MayEnqueue(c)
    /\ IF ~open[c] THEN UNCHANGED <<queue, open>>
       ELSE IF Full(c)
       THEN open' = [open EXCEPT ![c] = FALSE] /\ UNCHANGED queue
       ELSE queue' = [queue EXCEPT ![c] = Append(@, frame)] /\ UNCHANGED open

(***************************************************************************)
(* Broadcasting.                                                           *)
(***************************************************************************)

Pending == {p \in Producers : task[p].pc = "changed"}

\* The mux changes a session under its lock, then calls the Sink without it.
Change(p, th, kind) ==
    /\ task[p].pc = "idle"
    /\ Len(journal) + Cardinality(Pending) < MaxSeq
    /\ \A q \in Producers : task[q].th # th
    /\ IF kind = "live" THEN th \notin live ELSE th \in live
    /\ live' = CASE kind = "live" -> live \cup {th}
                 [] kind = "ended" -> live \ {th}
                 [] kind = "card" -> live
    /\ task' = [task EXCEPT ![p] = [Idle EXCEPT !.pc = "changed", !.th = th, !.kind = kind]]
    /\ UNCHANGED <<debug, journal, hub, client, history>>

\* Store.Append gives the row the next sequence number; Store.Head is the last
\* one; Store.ReplayAfter reads the rows after one.
Appended(th, kind) == Append(journal, [th |-> th, kind |-> kind])
JournalHead == Len(journal)
RowsAfter(since) == [i \in 1..(JournalHead - since) |-> since + i]

\* Hub.Broadcast: the journal first, whoever is to be told.
AppendToJournal(p) ==
    /\ task[p].pc = "changed"
    /\ journal' = Appended(task[p].th, task[p].kind)
    /\ task' = [task EXCEPT ![p] = IF debug /\ AutoRelay(task[p].kind) THEN Idle
                                   ELSE [@ EXCEPT !.pc = "appended",
                                                  !.seq = JournalHead + 1]]
    /\ UNCHANGED <<debug, live, hub, client, history>>

TargetsSeen == {c \in registered : conn[c] = "running"}  \* fault: only those greeted
Targets == registered

\* fanout: the clients registered now ...
TakeTargets(p) ==
    /\ task[p].pc = "appended"
    /\ task' = [task EXCEPT ![p].pc = "fanning", ![p].targets = Targets]
    /\ UNCHANGED <<debug, live, journal, hub, client, history>>

Older(c, th) == \E i \in 1..Len(replay[c]) : journal[replay[c][i]].th = th

\* ... are served one by one, without the lock.
Fan(p, c) ==
    /\ task[p].pc = "fanning" /\ c \in task[p].targets
    /\ Enqueue(c, Entry(task[p].seq))
    /\ task' = [task EXCEPT ![p].targets = @ \ {c}]
    /\ got' = [got EXCEPT ![c] = @ \cup {task[p].seq}]
    /\ crossed' = [crossed EXCEPT ![c] =
                     CASE ~AutoRelay(task[p].kind) -> @
                       [] conn[c] \in {"listed", "headed"} \/ Older(c, task[p].th)
                          -> @ \cup {task[p].th}
                       [] OTHER -> @ \ {task[p].th}]
    /\ UNCHANGED <<debug, live, journal, registered, conn, hello, head, replay, client>>

EndBroadcast(p) ==
    /\ task[p].pc = "fanning" /\ task[p].targets = {}
    /\ task' = [task EXCEPT ![p] = Idle]
    /\ UNCHANGED <<debug, live, journal, hub, client, history>>

(***************************************************************************)
(* A client: ServeHTTP, buildHello, run.                                   *)
(***************************************************************************)

RegisteredLate(c) == registered  \* fault: registered when the hello is enqueued
Registered(c) == registered \cup {c}

Connect(c) ==
    /\ conn[c] = "away"
    /\ conn' = [conn EXCEPT ![c] = "registered"]
    /\ registered' = Registered(c)
    /\ open' = [open EXCEPT ![c] = TRUE]
    /\ UNCHANGED <<debug, live, journal, task, queue, hello, head, replay, client, history>>

\* Mux.ThreadsHello: the threads with a live session.
ThreadsHello == live

ListThreads(c) ==
    /\ conn[c] = "registered"
    /\ conn' = [conn EXCEPT ![c] = "listed"]
    /\ hello' = [hello EXCEPT ![c] = ThreadsHello]
    /\ UNCHANGED <<debug, live, journal, task, registered, open, queue, head, replay,
                   client, history>>

ReadHead(c) ==
    /\ conn[c] = "listed"
    /\ conn' = [conn EXCEPT ![c] = "headed"]
    /\ head' = [head EXCEPT ![c] = JournalHead]
    /\ UNCHANGED <<debug, live, journal, task, registered, open, queue, hello, replay,
                   client, history>>

Greet(c) ==
    /\ conn[c] = "headed"
    /\ Enqueue(c, [type |-> "hello", threads |-> hello[c], cursor |-> head[c]])
    /\ conn' = [conn EXCEPT ![c] = "running"]
    /\ registered' = registered \cup {c}
    /\ hello' = [hello EXCEPT ![c] = {}]
    /\ UNCHANGED <<debug, live, journal, task, head, replay, client, history>>

\* The writer writes a frame and the client acts on it.
Write(c) ==
    LET f == Head(queue[c])
    IN  /\ conn[c] = "running" /\ open[c] /\ queue[c] # <<>>
        /\ queue' = [queue EXCEPT ![c] = Tail(@)]
        /\ IF f.type = "hello"
           THEN /\ shown' = [shown EXCEPT ![c] = f.threads]
                /\ cursor' = [cursor EXCEPT ![c] = f.cursor]
           ELSE /\ shown' = [shown EXCEPT ![c] = CASE f.kind = "live" -> @ \cup {f.th}
                                                  [] f.kind = "ended" -> @ \ {f.th}
                                                  [] f.kind = "card" -> @]
                /\ UNCHANGED cursor
        /\ UNCHANGED <<debug, live, journal, task, registered, conn, open, hello, head,
                       replay, history>>

\* subscribe: the rows after the client's cursor, or all of them.
Subscribe(c, since) ==
    /\ conn[c] = "running" /\ open[c] /\ replay[c] = <<>>
    /\ since \in {0, cursor[c]}
    /\ replay' = [replay EXCEPT ![c] = RowsAfter(since)]
    /\ UNCHANGED <<debug, live, journal, task, registered, conn, open, queue, hello, head,
                   client, history>>

\* Relay debug holds back, row by row, what Broadcast would not have sent.
Replayed(n) == ~(debug /\ AutoRelay(journal[n].kind))

ReplayRow(c) ==
    /\ conn[c] = "running" /\ replay[c] # <<>>
    /\ IF Replayed(Head(replay[c])) THEN Enqueue(c, Entry(Head(replay[c])))
       ELSE UNCHANGED <<queue, open>>
    /\ replay' = [replay EXCEPT ![c] = Tail(@)]
    /\ UNCHANGED <<debug, live, journal, task, registered, conn, hello, head, client,
                   history>>

\* A read or write fails, or times out.
Fail(c) ==
    /\ c \in Failing /\ conn[c] = "running" /\ open[c]
    /\ open' = [open EXCEPT ![c] = FALSE]
    /\ UNCHANGED <<debug, live, journal, task, registered, conn, queue, hello, head, replay,
                   client, history>>

\* run has returned: the deferred unregister.  Broadcasts that still hold the
\* client put their frames where nobody reads; a next connection is a new client.
Unregister(c) ==
    /\ conn[c] = "running" /\ ~open[c]
    /\ conn' = [conn EXCEPT ![c] = "away"]
    /\ registered' = registered \ {c}
    /\ queue' = [queue EXCEPT ![c] = <<>>]
    /\ head' = [head EXCEPT ![c] = 0]
    /\ replay' = [replay EXCEPT ![c] = <<>>]
    /\ shown' = [shown EXCEPT ![c] = {}]
    /\ task' = [p \in Producers |-> [task[p] EXCEPT !.targets = @ \ {c}]]
    /\ got' = [got EXCEPT ![c] = {}] /\ crossed' = [crossed EXCEPT ![c] = {}]
    /\ cursor' = [cursor EXCEPT ![c] = 0]
    /\ UNCHANGED <<debug, live, journal, open, hello>>

Broadcast(p) ==
    AppendToJournal(p) \/ TakeTargets(p) \/ (\E c \in Clients : Fan(p, c)) \/ EndBroadcast(p)

Serve(c) == ListThreads(c) \/ ReadHead(c) \/ Greet(c) \/ Unregister(c)

Next ==
    \/ \E p \in Producers, th \in Threads, kind \in Kinds : Change(p, th, kind)
    \/ \E p \in Producers : Broadcast(p)
    \/ \E c \in Clients : Connect(c) \/ Serve(c) \/ Write(c) \/ ReplayRow(c) \/ Fail(c)
    \/ \E c \in Clients, since \in 0..MaxSeq : Subscribe(c, since)

Spec == Init /\ [][Next]_vars

(***************************************************************************)
(* Properties.                                                             *)
(***************************************************************************)

BroadcastFrames == [type : {"broadcast"}, seq : 1..MaxSeq, th : Threads, kind : Kinds]
HelloFrames == [type : {"hello"}, threads : SUBSET Threads, cursor : 0..MaxSeq]

TypeOK ==
    /\ debug \in Debugging
    /\ live \subseteq Threads
    /\ journal \in Seq([th : Threads, kind : Kinds]) /\ Len(journal) <= MaxSeq
    /\ task \in [Producers -> [pc : {"idle", "changed", "appended", "fanning"},
                               th : Threads \cup {Nil}, kind : Kinds \cup {Nil},
                               seq : 0..MaxSeq, targets : SUBSET Clients]]
    /\ registered \subseteq Clients
    /\ conn \in [Clients -> {"away", "registered", "listed", "headed", "running"}]
    /\ open \in [Clients -> BOOLEAN]
    /\ queue \in [Clients -> Seq(BroadcastFrames \cup HelloFrames)]
    /\ \A c \in Clients : Len(queue[c]) <= Depth
    /\ hello \in [Clients -> SUBSET Threads] /\ head \in [Clients -> 0..MaxSeq]
    /\ replay \in [Clients -> Seq(1..MaxSeq)]
    /\ shown \in [Clients -> SUBSET Threads] /\ cursor \in [Clients -> 0..MaxSeq]
    /\ got \in [Clients -> SUBSET (1..MaxSeq)] /\ crossed \in [Clients -> SUBSET Threads]

\* The hello's cursor and the live stream leave no gap: what was journalled
\* after the cursor has been or will be put into the queue of the client, even
\* though cursor, registration and broadcasts are not synchronised.
NoGap ==
    \A c \in Clients : conn[c] \in {"headed", "running"} =>
        \A n \in (head[c] + 1)..Len(journal) :
            \/ n \in got[c]
            \/ ~Replayed(n)
            \/ \E p \in Producers : /\ task[p].seq = n
                                    /\ task[p].pc = "fanning" => c \in task[p].targets

Calm(c) ==
    /\ conn[c] = "running" /\ open[c] /\ queue[c] = <<>> /\ replay[c] = <<>>
    /\ \A p \in Producers : task[p].pc = "idle"

\* A client that has read everything shows the live threads, whenever it came
\* and whatever it had replayed, but for those whose frame was put between the
\* reading and the enqueuing of older news.
CalmMeansCurrent ==
    \A c \in Clients : Calm(c) /\ ~debug =>
        \A th \in Threads \ crossed[c] : th \in shown[c] <=> th \in live

\* A client that does not read never holds up a broadcast (mux producers call it
\* synchronously): whoever is in one can always go on.
NeverHeldUp == \A p \in Producers : task[p].pc # "idle" => ENABLED Broadcast(p)
=============================================================================

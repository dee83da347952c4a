------------------------------ MODULE Inbound -----------------------------
(***************************************************************************)
(* A HUD reply on its way into a relay-owned terminal, and the news of it  *)
(* on its way back.  It composes the inbound side of the hub               *)
(* (sink/ws.go), inject/inject.go, the PTY table and its control channel   *)
(* (delivery/pty.go, pty/control.go, pty/pty.go), the interactions of the  *)
(* store (store/store.go) and the landed hook of the mux.                  *)
(*                                                                         *)
(* One thread with one session and one agent that `host run` launched.     *)
(* The launcher keeps a control connection to the daemon and dials again   *)
(* when it breaks; daemon and launcher notice a break each in its own      *)
(* time.  A reply the terminal does not take goes into the outbox, whose   *)
(* further fate is module Delivery's.                                      *)
(***************************************************************************)
EXTENDS Integers, Sequences, FiniteSets

CONSTANTS
    Clients,     \* WebSocket clients; each is served by one read loop
    Inputs,      \* replies sent as "input" messages
    Dictated,    \* replies sent as "dictate_commit" messages
    MaxConns,    \* control connections the launcher makes (bound)
    MaxKeys,     \* keys the user presses at the terminal (bound)
    Key,         \* what the user types there
    Nil

Texts == Inputs \cup Dictated

ASSUME TextsAssumption == Inputs \cap Dictated = {} /\ {Key, Nil} \cap Texts = {}
ASSUME BoundAssumption == MaxConns \in Nat /\ MaxKeys \in Nat
ASSUME NilAssumption == Nil \notin {Key, "delivered", "queued", "failed", "landed"}

VARIABLES
    known,     \* the mux has a live session of the thread
    writer,    \* ptyWriters[thread]: a control connection, or 0
    handler,   \* ControlHandler.ServeHTTP of each connection
    link,      \* controlLoop: the connection it reads, or 0
    wire,      \* frames written to a connection and not yet read
    typed,     \* controlLoop: in the 150 ms between a text and its Enter
    composer,  \* what stands in the agent's input line
    turns,     \* the user turns in the agent's transcript
    seen,      \* how many of them the tailer has reported
    landing,   \* goroutines of the landed hook: the texts they are about
    task,      \* where each client's read loop is
    outbox,    \* replies queued for the session
    rows,      \* the store's human interactions, by text
    told,      \* the input_status each reply was answered with
    echoed,    \* replies shown on the HUD as user turns
    keys,      \* keys pressed so far
    late       \* history: replies that landed before their row was there

pty == <<writer, handler, link, wire, typed>>
agent == <<composer, turns, keys>>
vars == <<known, pty, agent, seen, landing, task, outbox, rows, told, echoed, late>>

Conns == 1..MaxConns
Idle == [pc |-> "idle", text |-> Nil, sid |-> FALSE, conn |-> 0, status |-> Nil]
NoRow == [status |-> Nil, sid |-> FALSE]

Init ==
    /\ known = FALSE
    /\ writer = 0 /\ link = 0
    /\ handler = [k \in Conns |-> "none"]
    /\ wire = <<>> /\ typed = FALSE
    /\ composer = <<>> /\ turns = <<>> /\ keys = 0
    /\ seen = 0 /\ landing = {}
    /\ task = [c \in Clients |-> Idle]
    /\ outbox = <<>>
    /\ rows = [t \in Texts |-> NoRow]
    /\ told = [t \in Texts |-> Nil]
    /\ echoed = {} /\ late = {}

(***************************************************************************)
(* inject.SendInputResult, called by handleInbound and commitDictation.    *)
(***************************************************************************)

Sent(t) == (\E c \in Clients : task[c].text = t) \/ rows[t] # NoRow \/ told[t] # Nil

\* A client sends a reply; each once.
Send(c, t) ==
    /\ task[c].pc = "idle" /\ ~Sent(t) /\ t \notin echoed
    /\ task' = [task EXCEPT ![c] = [Idle EXCEPT !.pc = "lookup", !.text = t]]
    /\ UNCHANGED <<known, pty, agent, seen, landing, outbox, rows, told, echoed, late>>

\* SessionForThread, and after it PTYByThread.
Lookup(c) ==
    /\ task[c].pc = "lookup"
    /\ task' = [task EXCEPT ![c].pc = "pick", ![c].sid = known]
    /\ UNCHANGED <<known, pty, agent, seen, landing, outbox, rows, told, echoed, late>>

Pick(c) ==
    /\ task[c].pc = "pick"
    /\ task' = [task EXCEPT ![c].pc = IF writer = 0 THEN "deliver" ELSE "write",
                            ![c].conn = writer]
    /\ UNCHANGED <<known, pty, agent, seen, landing, outbox, rows, told, echoed, late>>

\* WriteInput.  A connection that is broken may still take a frame, which
\* nobody reads, until its handler has returned; a write that fails leaves the
\* reply to the other channels.
Done == "record"
WrittenGoesOn == "deliver"  \* fault: no return after the terminal took the reply
Written == Done

WriteOK(c) ==
    /\ task[c].pc = "write" /\ handler[task[c].conn] = "reading"
    /\ wire' = IF link = task[c].conn THEN Append(wire, task[c].text) ELSE wire
    /\ task' = [task EXCEPT ![c].pc = Written, ![c].status = "delivered", ![c].conn = 0]
    /\ UNCHANGED <<known, writer, handler, link, typed, agent, seen, landing, outbox,
                   rows, told, echoed, late>>

WriteFails(c) ==
    /\ task[c].pc = "write" /\ link # task[c].conn
    /\ task' = [task EXCEPT ![c].pc = "deliver", ![c].conn = 0]
    /\ UNCHANGED <<known, pty, agent, seen, landing, outbox, rows, told, echoed, late>>

\* DeliverWithResult for a session no adapter reaches; "unknown thread" is an
\* error and leaves no row.
Deliver(c) ==
    /\ task[c].pc = "deliver"
    /\ \/ /\ task[c].sid
          /\ outbox' = Append(outbox, task[c].text)
          /\ task' = [task EXCEPT ![c].pc = "record", ![c].status = "queued"]
       \/ /\ ~task[c].sid
          /\ task' = [task EXCEPT ![c].pc = "answer", ![c].status = "failed"]
          /\ UNCHANGED outbox
    /\ UNCHANGED <<known, pty, agent, seen, landing, rows, told, echoed, late>>

\* Store.RecordHuman, after the flush of everybody's outboxes.
RecordHuman(t, status, sid) == rows' = [rows EXCEPT ![t] = [status |-> status, sid |-> sid]]

Record(c) ==
    /\ task[c].pc = "record"
    /\ RecordHuman(task[c].text, task[c].status, task[c].sid)
    /\ task' = [task EXCEPT ![c].pc = "answer"]
    /\ UNCHANGED <<known, pty, agent, seen, landing, outbox, told, echoed, late>>

(***************************************************************************)
(* What handleInbound and commitDictation do with the result.              *)
(***************************************************************************)

\* Only a dictated reply is echoed whatever became of it.
EchoAttempt(c) == TRUE  \* fault: the "false sent" of old
Delivered(c) == task[c].status = "delivered" \/ task[c].text \in Dictated
AnswerSuccess(c) == task[c].text \in Inputs /\ task[c].status # "failed"  \* fault
Answered(c) == task[c].text \in Inputs

Answer(c) ==
    /\ task[c].pc = "answer"
    /\ told' = IF Answered(c) THEN [told EXCEPT ![task[c].text] = task[c].status] ELSE told
    /\ task' = [task EXCEPT ![c] = IF Delivered(c) THEN [@ EXCEPT !.pc = "echo"] ELSE Idle]
    /\ UNCHANGED <<known, pty, agent, seen, landing, outbox, rows, echoed, late>>

\* IngestUserInput looks the session up again and fails without one.
IngestUserInput(t) == echoed' = IF known THEN echoed \cup {t} ELSE echoed

Echo(c) ==
    /\ task[c].pc = "echo"
    /\ IngestUserInput(task[c].text)
    /\ task' = [task EXCEPT ![c] = Idle]
    /\ UNCHANGED <<known, pty, agent, seen, landing, outbox, rows, told, late>>

(***************************************************************************)
(* The control channel: ControlHandler.ServeHTTP and controlLoop.          *)
(***************************************************************************)

\* The launcher dials when its loop is back from the last connection.
Dial(k) ==
    /\ link = 0 /\ ~typed /\ handler[k] = "none" /\ \A j \in Conns : j < k => handler[j] # "none"
    /\ link' = k
    /\ handler' = [handler EXCEPT ![k] = "accepted"]
    /\ UNCHANGED <<known, writer, wire, typed, agent, seen, landing, task, outbox, rows,
                   told, echoed, late>>

RegisterPTY(k) == writer' = k

Register(k) ==
    /\ handler[k] = "accepted"
    /\ handler' = [handler EXCEPT ![k] = "reading"]
    /\ RegisterPTY(k)
    /\ UNCHANGED <<known, link, wire, typed, agent, seen, landing, task, outbox, rows,
                   told, echoed, late>>

\* The connection breaks; what is under way on it is gone.
Break ==
    /\ link # 0
    /\ link' = 0 /\ wire' = <<>>
    /\ UNCHANGED <<known, writer, handler, typed, agent, seen, landing, task, outbox, rows,
                   told, echoed, late>>

\* The handler notices: RegisterPTY(thread, nil), whoever is registered.
Unregistered(k) == 0

HandlerEnds(k) ==
    /\ handler[k] = "reading" /\ link # k
    /\ handler' = [handler EXCEPT ![k] = "gone"]
    /\ RegisterPTY(Unregistered(k))
    /\ UNCHANGED <<known, link, wire, typed, agent, seen, landing, task, outbox, rows,
                   told, echoed, late>>

\* A frame is typed, and its Enter pressed 150 ms later.  The loop reads no
\* other frame in between, on this connection or the next.
Waits == TRUE   \* fault: the next frame does not wait for the Enter
Ready == ~typed

ReadFrame ==
    /\ link # 0 /\ wire # <<>> /\ Ready
    /\ composer' = Append(composer, Head(wire))
    /\ wire' = Tail(wire)
    /\ typed' = TRUE
    /\ UNCHANGED <<known, writer, handler, link, turns, keys, seen, landing, task, outbox,
                   rows, told, echoed, late>>

\* The agent takes a line that is not empty for a turn.
Submit ==
    /\ turns' = IF composer = <<>> THEN turns ELSE Append(turns, composer)
    /\ composer' = <<>>

PressEnter ==
    /\ typed
    /\ typed' = FALSE
    /\ Submit
    /\ UNCHANGED <<known, writer, handler, link, wire, keys, seen, landing, task, outbox,
                   rows, told, echoed, late>>

\* The user types at the same terminal (io.Copy from stdin).
TypeKey ==
    /\ keys < MaxKeys
    /\ keys' = keys + 1
    /\ \/ composer' = Append(composer, Key) /\ UNCHANGED turns
       \/ Submit
    /\ UNCHANGED <<known, pty, seen, landing, task, outbox, rows, told, echoed, late>>

(***************************************************************************)
(* The way back: the transcript, the mux, the landed hook.                 *)
(***************************************************************************)

\* The session appears with its first transcript line or hook; the agent runs on.
Appear ==
    /\ ~known /\ known' = TRUE
    /\ UNCHANGED <<pty, agent, seen, landing, task, outbox, rows, told, echoed, late>>

\* The tailer reports a turn; Ingest starts the hook for what it says.
Report ==
    /\ seen < Len(turns)
    /\ seen' = seen + 1
    /\ known' = TRUE
    /\ landing' = landing \cup {t \in Texts : turns[seen + 1] = <<t>>}
    /\ UNCHANGED <<pty, agent, task, outbox, rows, told, echoed, late>>

\* Store.MarkLanded: the row of this session with this text, if it is there.
AnyRow(t) == [rows EXCEPT ![t].status = "landed"]  \* fault: any status, any session
Marked(t) == IF rows[t].sid THEN [rows EXCEPT ![t].status = "landed"] ELSE rows

Land(t) ==
    /\ t \in landing
    /\ landing' = landing \ {t}
    /\ rows' = Marked(t)
    /\ late' = IF rows[t] = NoRow THEN late \cup {t} ELSE late
    /\ UNCHANGED <<known, pty, agent, seen, task, outbox, told, echoed>>

Serve(c) ==
    \/ Lookup(c) \/ Pick(c) \/ WriteOK(c) \/ WriteFails(c) \/ Deliver(c) \/ Record(c)
    \/ Answer(c) \/ Echo(c)

Next ==
    \/ \E c \in Clients, t \in Texts : Send(c, t)
    \/ \E c \in Clients : Serve(c)
    \/ \E k \in Conns : Dial(k) \/ Register(k) \/ HandlerEnds(k)
    \/ Break \/ ReadFrame \/ PressEnter \/ TypeKey
    \/ Appear \/ Report
    \/ \E t \in Texts : Land(t)

Spec == Init /\ [][Next]_vars

\* The read loops run, a write fails after five seconds at the latest, and the
\* hook's goroutine runs.  Nothing is asked of the launcher, the agent or the
\* connections.
Fairness ==
    /\ \A c \in Clients : WF_vars(Serve(c))
    /\ \A t \in Texts : WF_vars(Land(t))

FairSpec == Spec /\ Fairness

(***************************************************************************)
(* Properties.                                                             *)
(***************************************************************************)

Pcs == {"idle", "lookup", "pick", "write", "deliver", "record", "answer", "echo"}
Lines == Seq(Texts \cup {Key})

TypeOK ==
    /\ known \in BOOLEAN /\ typed \in BOOLEAN
    /\ writer \in Conns \cup {0} /\ link \in Conns \cup {0}
    /\ handler \in [Conns -> {"none", "accepted", "reading", "gone"}]
    /\ writer # 0 => handler[writer] = "reading"
    /\ wire \in Seq(Texts) /\ outbox \in Seq(Texts)
    /\ composer \in Lines /\ turns \in Seq(Lines) /\ keys \in 0..MaxKeys
    /\ seen \in 0..Len(turns)
    /\ landing \subseteq Texts /\ late \subseteq Texts /\ echoed \subseteq Texts
    /\ task \in [Clients -> [pc : Pcs, text : Texts \cup {Nil}, sid : BOOLEAN,
                             conn : Conns \cup {0},
                             status : {Nil, "delivered", "queued", "failed"}]]
    /\ rows \in [Texts -> [status : {Nil, "delivered", "queued", "landed"}, sid : BOOLEAN]]
    /\ told \in [Texts -> {Nil, "delivered", "queued", "failed"}]

Turns == {turns[i] : i \in DOMAIN turns}
Occurrences(t, line) == {i \in DOMAIN line : line[i] = t}

\* A reply goes one way only, whatever breaks between the choice of the channel
\* and the write: it is at most once on the wire, at the agent or in the outbox
\* (inject.go:59-82).
GivenOnce ==
    \A t \in Texts :
        LET At(line) == Cardinality(Occurrences(t, line))
            Past == {i \in DOMAIN turns : Occurrences(t, turns[i]) # {}}
        IN  At(wire) + At(composer) + At(outbox) + Cardinality(Past) <= 1

\* Two replies never end up in one turn of the agent, also when the connection
\* breaks between a text and its Enter and the next one brings more
\* (pty.go:196-209).
OneReplyPerTurn ==
    \A line \in Turns :
        Cardinality({i \in DOMAIN line : line[i] \in Texts}) <= 1

\* "`landed` | the agent's own transcript later shows the text as a user turn"
\* (DECISIONS.md, section 4): a row says so if and only if that is the case
\* and the hook has run, but for the rows that were written after it or for
\* no session.
LandedMeansTurn ==
    \A t \in Texts :
        rows[t].status = "landed" <=>
            /\ \E i \in 1..seen : turns[i] = <<t>>
            /\ rows[t].sid /\ t \notin landing \cup late

\* On the HUD a reply that came as "input" shows as a user turn only when it
\* was written to the agent: "no false sent" (ws.go:447-449).
HonestEcho == \A t \in echoed \cap Inputs : told[t] = "delivered"

(***************************************************************************)
(* Refinement: what a reply goes through and what its sender is told.      *)
(***************************************************************************)

Stands(t, line) == \E i \in DOMAIN line : line[i] = t
Handed(t) ==
    \/ rows[t].status \in {"delivered", "landed"}
    \/ \E c \in Clients : task[c].text = t /\ task[c].status = "delivered"

\* Where a reply is; one that was handed to the terminal and is nowhere was
\* lost with its connection.
PlaceOf(t) ==
    IF Stands(t, outbox) THEN "queued"
    ELSE IF \E i \in DOMAIN turns : Stands(t, turns[i]) THEN "turn"
    ELSE IF Stands(t, wire) \/ Stands(t, composer) THEN "underway"
    ELSE IF Handed(t) THEN "lost" ELSE "unsent"

Life == INSTANCE ReplyLife
    WITH Replies <- Texts, Tracked <- Inputs,
         place <- [t \in Texts |-> PlaceOf(t)], answer <- told

\* The statuses are honest: a sender who is told "queued" or "failed" finds the
\* reply in no turn later, one who is told "delivered" finds it nowhere else
\* than in the terminal, and what is told is told once ("quiet delivery status
\* for clients that track reliability", inject.go:52-53).
ImplementsLife == Life!LSpec

\* Every "input" is answered with a status, whatever becomes of the terminal.
InputsAnswered ==
    \A t \in Inputs : (\E c \in Clients : task[c].text = t) ~> told[t] # Nil
=============================================================================

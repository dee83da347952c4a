--------------------------- MODULE InboundProofs --------------------------
(***************************************************************************)
(* Proofs about Inbound, for any number of clients, replies, control       *)
(* connections and keys: a reply is given once and never shares a turn,    *)
(* what rows and HUD say of it is true, and all of it implements ReplyLife. *)
(***************************************************************************)
EXTENDS Inbound, FiniteSetTheorems, SequenceTheorems, TLAPS

USE TextsAssumption, BoundAssumption, NilAssumption

(***************************************************************************)
(* Lines and what stands in them.                                          *)
(***************************************************************************)

InLine(t, line) == \E i \in DOMAIN line : line[i] = t
AtMostOnce(t, line) == \A i, j \in DOMAIN line : line[i] = t /\ line[j] = t => i = j

\* No two places of a line hold replies.
Solo(line) == \A i, j \in DOMAIN line : line[i] \in Texts /\ line[j] \in Texts => i = j
NoReply(line) == \A i \in DOMAIN line : line[i] \notin Texts

LEMMA AppendedLine ==
    ASSUME NEW S, NEW line \in Seq(S), NEW x \in S, NEW t
    PROVE  /\ InLine(t, Append(line, x)) <=> InLine(t, line) \/ x = t
           /\ AtMostOnce(t, line) /\ (x = t => ~InLine(t, line))
                => AtMostOnce(t, Append(line, x))
           /\ Solo(line) /\ (x \in Texts => NoReply(line)) => Solo(Append(line, x))
           /\ NoReply(line) /\ x \notin Texts => NoReply(Append(line, x))
  <1> DEFINE longer == Append(line, x)
  <1>1. /\ Len(line) \in Nat /\ DOMAIN line = 1..Len(line)
        /\ DOMAIN longer = 1..(Len(line) + 1)
        /\ \A i \in 1..Len(line) : longer[i] = line[i]
        /\ longer[Len(line) + 1] = x
    BY AppendProperties, LenProperties
  <1> HIDE DEF longer
  <1>2. InLine(t, longer) <=> InLine(t, line) \/ x = t
    BY <1>1 DEF InLine
  <1>3. AtMostOnce(t, line) /\ (x = t => ~InLine(t, line)) => AtMostOnce(t, longer)
    BY <1>1 DEF AtMostOnce, InLine
  <1>4. Solo(line) /\ (x \in Texts => NoReply(line)) => Solo(longer)
    BY <1>1 DEF Solo, NoReply
  <1>5. NoReply(line) /\ x \notin Texts => NoReply(longer)
    BY <1>1 DEF NoReply
  <1> QED BY <1>2, <1>3, <1>4, <1>5 DEF longer

\* A reply that is not yet in a line may be appended to it, or not.
LEMMA PerhapsAppended ==
    ASSUME NEW line \in Seq(Texts), NEW t \in Texts, ~InLine(t, line),
           NEW longer, longer = line \/ longer = Append(line, t)
    PROVE  /\ longer \in Seq(Texts)
           /\ \A u : /\ InLine(u, longer) => InLine(u, line) \/ u = t
                     /\ AtMostOnce(u, line) => AtMostOnce(u, longer)
  <1>1. CASE longer = line
    BY <1>1
  <1>2. CASE longer = Append(line, t)
    BY <1>2, AppendedLine, AppendProperties
  <1> QED BY <1>1, <1>2

LEMMA ShortenedLine ==
    ASSUME NEW S, NEW line \in Seq(S), line # <<>>, NEW t
    PROVE  /\ Head(line) \in S /\ Tail(line) \in Seq(S)
           /\ InLine(Head(line), line)
           /\ InLine(t, Tail(line)) => InLine(t, line)
           /\ AtMostOnce(t, line) => /\ AtMostOnce(t, Tail(line))
                                     /\ Head(line) = t => ~InLine(t, Tail(line))
  <1> DEFINE rest == Tail(line)
  <1>1. /\ Len(line) \in Nat /\ Len(line) >= 1 /\ DOMAIN line = 1..Len(line)
        /\ rest \in Seq(S) /\ DOMAIN rest = 1..(Len(line) - 1)
        /\ \A i \in 1..(Len(line) - 1) : rest[i] = line[i + 1]
        /\ Head(line) = line[1] /\ Head(line) \in S
    BY HeadTailProperties, LenProperties, EmptySeq
  <1> HIDE DEF rest
  <1>2. InLine(Head(line), line) /\ (InLine(t, rest) => InLine(t, line))
    <2>1. 1 \in DOMAIN line /\ line[1] = Head(line)
      BY <1>1
    <2>2. ASSUME NEW i \in DOMAIN rest, rest[i] = t
          PROVE  i + 1 \in DOMAIN line /\ line[i + 1] = t
      BY <1>1, <2>2
    <2> QED BY <2>1, <2>2 DEF InLine
  <1>3. ASSUME AtMostOnce(t, line) PROVE AtMostOnce(t, rest)
    <2> SUFFICES ASSUME NEW i \in DOMAIN rest, NEW j \in DOMAIN rest,
                        rest[i] = t, rest[j] = t
                 PROVE  i = j
      BY DEF AtMostOnce
    <2>1. /\ i \in Nat /\ j \in Nat /\ i + 1 \in DOMAIN line /\ j + 1 \in DOMAIN line
          /\ line[i + 1] = t /\ line[j + 1] = t
      BY <1>1
    <2>2. i + 1 = j + 1
      BY <1>3, <2>1 DEF AtMostOnce
    <2> QED BY <2>1, <2>2
  <1>4. AtMostOnce(t, line) /\ Head(line) = t => ~InLine(t, rest)
    BY <1>1 DEF AtMostOnce, InLine
  <1> QED BY <1>1, <1>2, <1>3, <1>4 DEF rest

LEMMA TailKeeps ==
    ASSUME NEW S, NEW line \in Seq(S), line # <<>>, NEW t, InLine(t, line)
    PROVE  t = Head(line) \/ InLine(t, Tail(line))
  <1> DEFINE rest == Tail(line)
  <1>1. /\ Len(line) \in Nat /\ DOMAIN line = 1..Len(line)
        /\ DOMAIN rest = 1..(Len(line) - 1)
        /\ \A i \in 1..(Len(line) - 1) : rest[i] = line[i + 1]
        /\ Head(line) = line[1]
    BY HeadTailProperties, LenProperties, EmptySeq
  <1> HIDE DEF rest
  <1>2. PICK i \in 1..Len(line) : line[i] = t
    BY <1>1 DEF InLine
  <1>3. i = 1 => t = Head(line)
    BY <1>1, <1>2
  <1>4. i # 1 => InLine(t, rest)
    <2>1. i # 1 => i - 1 \in 1..(Len(line) - 1) /\ rest[i - 1] = t
      BY <1>1, <1>2
    <2> QED BY <1>1, <2>1 DEF InLine
  <1> QED BY <1>3, <1>4 DEF rest

\* A set without two different members has at most one.
LEMMA AtMostOneMember ==
    ASSUME NEW S, \A x, y \in S : x = y
    PROVE  Cardinality(S) = IF S = {} THEN 0 ELSE 1
  <1>1. CASE S = {}
    BY <1>1, FS_EmptySet
  <1>2. CASE S # {}
    <2>1. PICK x \in S : TRUE
      BY <1>2
    <2>2. S = {x}
      OBVIOUS
    <2> QED BY <1>2, <2>2, FS_Singleton
  <1> QED BY <1>1, <1>2

(***************************************************************************)
(* The invariant.                                                          *)
(***************************************************************************)

InTurns(t) == \E i \in DOMAIN turns : InLine(t, turns[i])
Placed(t) == InLine(t, wire) \/ InLine(t, composer) \/ InLine(t, outbox) \/ InTurns(t)

Undecided == {"lookup", "pick", "write", "deliver"}

\* What the read loop that has reply t in its hands knows of it: before a channel
\* was chosen it is nowhere else, before it is recorded it has no row, before it
\* is answered nobody was told.
Held(c, t) ==
    /\ task[c].pc \in Undecided => ~Placed(t)
    /\ task[c].pc \in Undecided \cup {"record"} => rows[t] = NoRow
    /\ task[c].pc \in Undecided \cup {"record", "answer"} => told[t] = Nil /\ t \notin echoed
    /\ task[c].pc = "record" => task[c].status \in {"delivered", "queued"}
    /\ task[c].pc = "write" => task[c].conn # 0
    /\ task[c].pc = "echo" /\ t \in Inputs => told[t] = "delivered"

InHand ==
    /\ \A c \in Clients : task[c].text = Nil <=> task[c].pc = "idle"
    /\ \A c, d \in Clients : task[c].text = task[d].text => c = d \/ task[c].text = Nil
    /\ \A c \in Clients, t \in Texts : task[c].text = t => Held(c, t)

\* A reply that is anywhere has been recorded, or is about to be.
Accounted ==
    \A t \in Texts : Placed(t) =>
        rows[t] # NoRow \/ \E c \in Clients : task[c].text = t /\ task[c].pc = "record"

\* A reply is in one place at most, and there once.
OnePlace ==
    \A t \in Texts :
        /\ AtMostOnce(t, wire) /\ AtMostOnce(t, composer) /\ AtMostOnce(t, outbox)
        /\ \A i, j \in DOMAIN turns : InLine(t, turns[i]) /\ InLine(t, turns[j]) => i = j
        /\ ~(InLine(t, wire) /\ (InLine(t, composer) \/ InLine(t, outbox) \/ InTurns(t)))
        /\ ~(InLine(t, composer) /\ (InLine(t, outbox) \/ InTurns(t)))
        /\ ~(InLine(t, outbox) /\ InTurns(t))

\* The input line holds a reply only until the Enter that belongs to it.
Alone ==
    /\ Solo(composer) /\ (~typed => NoReply(composer))
    /\ \A i \in DOMAIN turns : Solo(turns[i])

Reported(t) == \E i \in 1..seen : turns[i] = <<t>>

\* The landed hook ran, or will run, for every reply the transcript showed.
Hooked ==
    /\ landing \cap late = {}
    /\ \A t \in landing \cup late : Reported(t)
    /\ \A t \in Texts : rows[t] = NoRow /\ Reported(t) => t \in landing \cup late

IInv ==
    /\ TypeOK /\ InHand /\ Accounted /\ OnePlace /\ Alone
    /\ Hooked /\ LandedMeansTurn /\ HonestEcho

LEMMA InitIInv == Init => IInv
  <1> SUFFICES ASSUME Init PROVE IInv
    OBVIOUS
  <1>1. TypeOK
    <2>1. wire \in Seq(Texts) /\ outbox \in Seq(Texts) /\ composer \in Lines
          /\ turns \in Seq(Lines) /\ seen \in 0..Len(turns)
      BY EmptySeq DEF Init, Lines
    <2>2. task \in [Clients -> [pc : Pcs, text : Texts \cup {Nil}, sid : BOOLEAN,
                              conn : Conns \cup {0},
                              status : {Nil, "delivered", "queued", "failed"}]]
      BY DEF Init, Idle, Pcs
    <2>3. rows \in [Texts -> [status : {Nil, "delivered", "queued", "landed"}, sid : BOOLEAN]]
      BY DEF Init, NoRow
    <2>4. /\ known \in BOOLEAN /\ typed \in BOOLEAN
          /\ landing \subseteq Texts /\ late \subseteq Texts /\ echoed \subseteq Texts
      BY DEF Init
    <2>7. writer = 0 /\ link = 0 /\ keys \in 0..MaxKeys
      BY DEF Init
    <2>5. handler \in [Conns -> {"none", "accepted", "reading", "gone"}]
      BY DEF Init
    <2>6. told \in [Texts -> {Nil, "delivered", "queued", "failed"}]
      BY DEF Init
    <2> QED BY <2>1, <2>2, <2>3, <2>4, <2>5, <2>6, <2>7 DEF TypeOK
  <1>2. \A t \in Texts : ~Placed(t) /\ ~Reported(t)
    BY DEF Init, Placed, InLine, InTurns, Reported
  <1>3. InHand
    BY DEF Init, InHand, Held, Idle, Texts
  <1>4. Accounted /\ Hooked
    BY <1>2 DEF Init, Accounted, Hooked
  <1>5. OnePlace /\ Alone
    BY <1>2 DEF Init, OnePlace, Alone, AtMostOnce, Solo, NoReply, Placed, InTurns
  <1>6. LandedMeansTurn /\ HonestEcho
    BY DEF Init, LandedMeansTurn, HonestEcho, NoRow
  <1> QED BY <1>1, <1>3, <1>4, <1>5, <1>6 DEF IInv

\* The record a read loop keeps.
Task == [pc : Pcs, text : Texts \cup {Nil}, sid : BOOLEAN, conn : Conns \cup {0},
         status : {Nil, "delivered", "queued", "failed"}]

LEMMA TaskSet == TypeOK => task \in [Clients -> Task]
  BY DEF TypeOK, Task

\* What read loop c does with its reply leaves the others' replies alone.
LEMMA HandKept ==
    ASSUME TypeOK, InHand, NEW c \in Clients, task' = [task EXCEPT ![c] = task'[c]],
           task'[c].text = task[c].text, task[c].pc # "idle", task'[c].pc # "idle",
           \A u \in Texts : u # task[c].text =>
               /\ Placed(u)' => Placed(u)
               /\ rows'[u] = rows[u] /\ told'[u] = told[u]
               /\ u \in echoed' => u \in echoed,
           \A u \in Texts : u = task[c].text => Held(c, u)'
    PROVE  InHand'
  <1>1. task'[c].text # Nil /\ \A d \in Clients : d = c \/ task'[d] = task[d]
    BY TaskSet DEF InHand
  <1>2. \A d \in Clients : task'[d].text = task[d].text /\ (task'[d].pc = "idle" <=> task[d].pc = "idle")
    BY <1>1
  <1>3. ASSUME NEW d \in Clients, NEW u \in Texts, task'[d].text = u PROVE Held(d, u)'
    <2>1. CASE d = c
      BY <1>2, <1>3, <2>1
    <2>2. CASE d # c
      <3>1. task'[d] = task[d] /\ task[d].text = u /\ u # task[c].text
        BY <1>1, <1>2, <1>3, <2>2 DEF InHand
      <3>2. Held(d, u)
        BY <3>1 DEF InHand
      <3> QED BY <3>1, <3>2 DEF Held
    <2> QED BY <2>1, <2>2
  <1> QED BY <1>1, <1>2, <1>3 DEF InHand

\* The type of all but the read loops.
others == <<known, pty, agent, seen, landing, outbox, rows, told, echoed, late>>

LEMMA TypeKept ==
    ASSUME TypeOK, UNCHANGED others, task' \in [Clients -> Task] PROVE TypeOK'
  BY DEF TypeOK, Task, others, pty, agent

(***************************************************************************)
(* What a step that leaves the lines alone leaves alone with them.         *)
(***************************************************************************)

lines == <<wire, composer, outbox, turns>>

LEMMA LinesKept ==
    ASSUME UNCHANGED lines, NEW t
    PROVE  /\ Placed(t)' = Placed(t)
           /\ OnePlace' = OnePlace
           /\ typed' = typed => Alone' = Alone
           /\ seen' = seen => Reported(t)' = Reported(t)
  BY DEF lines, Placed, InTurns, OnePlace, Alone, Reported

\* What the transcript and the hook have to do with it.
news == <<turns, seen, landing, late, rows>>

LEMMA NewsKept ==
    ASSUME UNCHANGED news PROVE Hooked' = Hooked /\ LandedMeansTurn' = LandedMeansTurn
  BY DEF news, Hooked, LandedMeansTurn, Reported

(***************************************************************************)
(* The read loops.                                                         *)
(***************************************************************************)

\* A reply is sent once: it is nowhere yet, and nobody knows of it.
LEMMA SendStep ==
    ASSUME IInv, NEW c \in Clients, NEW t \in Texts, Send(c, t) PROVE IInv'
  <1> USE DEF IInv, Send, pty, agent
  <1>1. TypeOK'
    BY DEF TypeOK, Idle, Pcs
  <1>2. OnePlace' /\ Alone' /\ \A u : Placed(u)' = Placed(u)
    BY LinesKept DEF lines
  <1>3. Hooked' /\ LandedMeansTurn' /\ HonestEcho'
    BY NewsKept DEF news, HonestEcho
  <1>4. ~Placed(t) /\ rows[t] = NoRow /\ told[t] = Nil /\ t \notin echoed
    BY DEF Sent, Accounted
  <1>5. task' = [task EXCEPT ![c] = [Idle EXCEPT !.pc = "lookup", !.text = t]]
    OBVIOUS
  <1>6. InHand'
    BY <1>2, <1>4, <1>5 DEF InHand, Held, Sent, Idle, TypeOK, Undecided, Texts
  <1>7. Accounted'
    BY <1>2, <1>5 DEF Accounted, InHand, TypeOK, Idle
  <1> QED BY <1>1, <1>2, <1>3, <1>6, <1>7

LEMMA LookupStep == ASSUME IInv, NEW c \in Clients, Lookup(c) PROVE IInv'
  <1> USE DEF IInv, Lookup, pty, agent
  <1>0. /\ task' = [task EXCEPT ![c] = task'[c]]
        /\ task'[c] \in Task
        /\ task'[c].pc = "pick" /\ task'[c].text = task[c].text
    <2>1. known \in BOOLEAN /\ task[c] \in Task
      BY TaskSet DEF TypeOK
    <2> QED BY <2>1, TaskSet DEF Task, Pcs
  <1>1. TypeOK'
    BY <1>0, TaskSet, TypeKept DEF others
  <1>2. OnePlace' /\ Alone' /\ \A u : Placed(u)' = Placed(u)
    BY LinesKept DEF lines
  <1>3. Hooked' /\ LandedMeansTurn' /\ HonestEcho'
    BY NewsKept DEF news, HonestEcho
  <1>4. InHand'
    <2>1. task[c].pc \in Undecided /\ UNCHANGED <<rows, told, echoed>>
      BY DEF Undecided
    <2>2. \A u \in Texts : u = task[c].text => Held(c, u)'
      BY <1>0, <1>2, <2>1 DEF InHand, Held, Undecided
    <2> QED BY <1>0, <1>2, <2>1, <2>2, HandKept DEF Undecided
  <1>5. Accounted'
    BY <1>0, <1>2, TaskSet DEF Accounted
  <1> QED BY <1>1, <1>2, <1>3, <1>4, <1>5

LEMMA PickStep == ASSUME IInv, NEW c \in Clients, Pick(c) PROVE IInv'
  <1> USE DEF IInv, Pick, pty, agent
  <1>0. /\ task' = [task EXCEPT ![c] = task'[c]]
        /\ task'[c] \in Task /\ task'[c].text = task[c].text
        /\ task'[c].pc \in {"deliver", "write"}
        /\ task'[c].pc = "write" => task'[c].conn # 0
    <2>1. writer \in Conns \cup {0} /\ task[c] \in Task
      BY TaskSet DEF TypeOK
    <2> QED BY <2>1, TaskSet DEF Task, Pcs
  <1>1. TypeOK'
    BY <1>0, TaskSet, TypeKept DEF others
  <1>2. OnePlace' /\ Alone' /\ \A u : Placed(u)' = Placed(u)
    BY LinesKept DEF lines
  <1>3. Hooked' /\ LandedMeansTurn' /\ HonestEcho'
    BY NewsKept DEF news, HonestEcho
  <1>4. InHand'
    <2>1. task[c].pc \in Undecided /\ UNCHANGED <<rows, told, echoed>>
      BY DEF Undecided
    <2>2. \A u \in Texts : u = task[c].text => Held(c, u)'
      BY <1>0, <1>2, <2>1 DEF InHand, Held, Undecided
    <2> QED BY <1>0, <1>2, <2>1, <2>2, HandKept DEF Undecided
  <1>5. Accounted'
    BY <1>0, <1>2, TaskSet DEF Accounted
  <1> QED BY <1>1, <1>2, <1>3, <1>4, <1>5

LEMMA WriteFailsStep == ASSUME IInv, NEW c \in Clients, WriteFails(c) PROVE IInv'
  <1> USE DEF IInv, WriteFails, pty, agent
  <1>0. /\ task' = [task EXCEPT ![c] = task'[c]]
        /\ task'[c] \in Task
        /\ task'[c].pc = "deliver" /\ task'[c].text = task[c].text
    BY TaskSet DEF Task, Pcs
  <1>1. TypeOK'
    BY <1>0, TaskSet, TypeKept DEF others
  <1>2. OnePlace' /\ Alone' /\ \A u : Placed(u)' = Placed(u)
    BY LinesKept DEF lines
  <1>3. Hooked' /\ LandedMeansTurn' /\ HonestEcho'
    BY NewsKept DEF news, HonestEcho
  <1>4. InHand'
    <2>1. task[c].pc \in Undecided /\ UNCHANGED <<rows, told, echoed>>
      BY DEF Undecided
    <2>2. \A u \in Texts : u = task[c].text => Held(c, u)'
      BY <1>0, <1>2, <2>1 DEF InHand, Held, Undecided
    <2> QED BY <1>0, <1>2, <2>1, <2>2, HandKept DEF Undecided
  <1>5. Accounted'
    BY <1>0, <1>2, TaskSet DEF Accounted
  <1> QED BY <1>1, <1>2, <1>3, <1>4, <1>5

\* The terminal took the reply: it is on the wire, or lost with the connection.
LEMMA WriteOKStep == ASSUME IInv, NEW c \in Clients, WriteOK(c) PROVE IInv'
  <1> DEFINE t == task[c].text
  <1> USE DEF IInv, WriteOK, Written, Done, agent
  <1>0. /\ task' = [task EXCEPT ![c] = task'[c]]
        /\ task'[c] \in Task /\ task'[c].text = t
        /\ task'[c].pc = "record" /\ task'[c].status = "delivered"
    BY TaskSet DEF Task, Pcs
  <1>1. t \in Texts /\ ~Placed(t)
    BY TaskSet DEF InHand, Held, Undecided, Task
  <1>2. wire \in Seq(Texts) /\ (wire' = wire \/ wire' = Append(wire, t))
    BY DEF TypeOK
  <1> HIDE DEF t
  <1>3. /\ wire' \in Seq(Texts)
        /\ \A u : /\ InLine(u, wire') => InLine(u, wire) \/ u = t
                  /\ AtMostOnce(u, wire) => AtMostOnce(u, wire')
    <2>1. ~InLine(t, wire)
      BY <1>1 DEF Placed
    <2>2. t \in Texts /\ wire \in Seq(Texts) /\ (wire' = wire \/ wire' = Append(wire, t))
      BY <1>1, <1>2
    <2> HIDE DEF WriteOK, IInv
    <2> QED BY <2>1, <2>2, PerhapsAppended
  <1>4. TypeOK'
    <2>1. task' \in [Clients -> Task]
      BY <1>0, TaskSet
    <2> QED BY <1>3, <2>1 DEF TypeOK, Task
  <1>5. \A u : Placed(u)' => Placed(u) \/ u = t
    BY <1>3 DEF Placed, InTurns
  <1>6. OnePlace' /\ Alone'
    BY <1>1, <1>3 DEF OnePlace, Alone, Placed, InTurns
  <1>7. Hooked' /\ LandedMeansTurn' /\ HonestEcho'
    BY NewsKept DEF news, HonestEcho
  <1>8. InHand'
    <2>1. task[c].pc \in Undecided /\ UNCHANGED <<rows, told, echoed>>
      BY DEF Undecided
    <2>2. \A u \in Texts : u = task[c].text => Held(c, u)'
      BY <1>0, <2>1 DEF InHand, Held, Undecided, t
    <2> QED BY <1>0, <1>5, <2>1, <2>2, HandKept DEF Undecided, t
  <1>9. Accounted'
    BY <1>0, <1>5, TaskSet DEF Accounted, t
  <1> QED BY <1>4, <1>6, <1>7, <1>8, <1>9

\* The session is known: the reply is queued.  It is not: nobody has it.
LEMMA DeliverStep == ASSUME IInv, NEW c \in Clients, Deliver(c) PROVE IInv'
  <1> DEFINE t == task[c].text
  <1> USE DEF IInv, Deliver, pty, agent
  <1>0. /\ task' = [task EXCEPT ![c] = task'[c]]
        /\ task'[c] \in Task /\ task'[c].text = t
        /\ \/ task'[c].pc = "record" /\ task'[c].status = "queued"
           \/ task'[c].pc = "answer" /\ outbox' = outbox
    BY TaskSet DEF Task, Pcs
  <1>1. t \in Texts /\ ~Placed(t)
    BY TaskSet DEF InHand, Held, Undecided, Task
  <1>2. outbox \in Seq(Texts) /\ (outbox' = outbox \/ outbox' = Append(outbox, t))
    BY DEF TypeOK
  <1> HIDE DEF t
  <1>3. /\ outbox' \in Seq(Texts)
        /\ \A u : /\ InLine(u, outbox') => InLine(u, outbox) \/ u = t
                  /\ AtMostOnce(u, outbox) => AtMostOnce(u, outbox')
    BY <1>1, <1>2, PerhapsAppended DEF Placed
  <1>4. TypeOK'
    <2>1. task' \in [Clients -> Task]
      BY <1>0, TaskSet
    <2> QED BY <1>3, <2>1 DEF TypeOK, Task
  <1>5. \A u : Placed(u)' => Placed(u) \/ (u = t /\ task'[c].pc = "record")
    BY <1>0, <1>3 DEF Placed, InTurns
  <1>6. OnePlace' /\ Alone'
    BY <1>1, <1>3 DEF OnePlace, Alone, Placed, InTurns
  <1>7. Hooked' /\ LandedMeansTurn' /\ HonestEcho'
    BY NewsKept DEF news, HonestEcho
  <1>8. InHand'
    <2>1. task[c].pc \in Undecided /\ UNCHANGED <<rows, told, echoed>>
      BY DEF Undecided
    <2>2. \A u \in Texts : u = task[c].text => Held(c, u)'
      BY <1>0, <2>1 DEF InHand, Held, Undecided, t
    <2> QED BY <1>0, <1>5, <2>1, <2>2, HandKept DEF Undecided, t
  <1>9. Accounted'
    BY <1>0, <1>5, TaskSet DEF Accounted, t
  <1> QED BY <1>4, <1>6, <1>7, <1>8, <1>9

\* The row is written once, and nothing has landed for it before unnoticed.
LEMMA RecordStep == ASSUME IInv, NEW c \in Clients, Record(c) PROVE IInv'
  <1> DEFINE t == task[c].text
  <1> USE DEF IInv, Record, RecordHuman, pty, agent
  <1>0. /\ task' = [task EXCEPT ![c] = task'[c]]
        /\ task'[c] \in Task /\ task'[c].pc = "answer"
        /\ task'[c].text = t /\ task'[c].status = task[c].status
    BY TaskSet DEF Task, Pcs
  <1>1. t \in Texts /\ rows[t] = NoRow /\ task[c].status \in {"delivered", "queued"}
    BY TaskSet DEF InHand, Held, Task
  <1>2. /\ rows' = [rows EXCEPT ![t] = rows'[t]]
        /\ rows'[t] \in [status : {"delivered", "queued"}, sid : BOOLEAN]
        /\ rows'[t] # NoRow
    BY <1>1, TaskSet DEF TypeOK, Task, NoRow
  <1> HIDE DEF t
  <1>3. TypeOK'
    <2>1. task' \in [Clients -> Task]
      BY <1>0, TaskSet
    <2>2. rows' \in [Texts -> [status : {Nil, "delivered", "queued", "landed"}, sid : BOOLEAN]]
      BY <1>2 DEF TypeOK
    <2> QED BY <2>1, <2>2 DEF TypeOK, Task
  <1>4. OnePlace' /\ Alone' /\ \A u : Placed(u)' = Placed(u) /\ Reported(u)' = Reported(u)
    BY LinesKept DEF lines
  <1>5. InHand'
    <2>1. task[c].pc = "record" /\ UNCHANGED <<told, echoed>>
      OBVIOUS
    <2>2. \A u \in Texts : u # t => rows'[u] = rows[u]
      BY <1>2 DEF TypeOK
    <2>3. \A u \in Texts : u = task[c].text => Held(c, u)'
      BY <1>0, <2>1 DEF InHand, Held, Undecided, t
    <2> QED BY <1>0, <1>4, <2>1, <2>2, <2>3, HandKept DEF t
  <1>9. Accounted'
    BY <1>0, <1>2, <1>4, TaskSet DEF Accounted, TypeOK, t
  <1>6. Hooked'
    BY <1>2, <1>4 DEF Hooked, TypeOK
  <1>7. LandedMeansTurn'
    <2> SUFFICES ASSUME NEW u \in Texts
                 PROVE  rows'[u].status = "landed" <=>
                            Reported(u) /\ rows'[u].sid /\ u \notin landing \cup late
      BY DEF LandedMeansTurn, Reported
    <2>1. CASE u = t
      BY <1>1, <1>2, <2>1 DEF Hooked
    <2>2. CASE u # t
      <3>1. rows'[u] = rows[u]
        BY <1>2, <2>2 DEF TypeOK
      <3> QED BY <3>1 DEF LandedMeansTurn, Reported
    <2> QED BY <2>1, <2>2
  <1>8. HonestEcho'
    BY DEF HonestEcho
  <1> QED BY <1>3, <1>4, <1>5, <1>6, <1>7, <1>8, <1>9

\* Nobody was told of the reply before, and it is not on the HUD yet.
LEMMA AnswerStep == ASSUME IInv, NEW c \in Clients, Answer(c) PROVE IInv'
  <1> DEFINE t == task[c].text
  <1> USE DEF IInv, Answer, Answered, Delivered, pty, agent
  <1>0. /\ task' = [task EXCEPT ![c] = task'[c]]
        /\ task'[c] \in Task
        /\ \/ task'[c].pc = "echo" /\ Delivered(c) /\ task'[c].text = t
           \/ task'[c].pc = "idle" /\ task'[c].text = Nil
    BY TaskSet DEF Task, Pcs, Idle
  <1>1. t \in Texts /\ told[t] = Nil /\ t \notin echoed
    BY TaskSet DEF InHand, Held, Task
  <1>2. /\ told' = [told EXCEPT ![t] = told'[t]]
        /\ told'[t] = IF t \in Inputs THEN task[c].status ELSE Nil
        /\ told' \in [Texts -> {Nil, "delivered", "queued", "failed"}]
    BY <1>1, TaskSet DEF TypeOK, Task
  <1> HIDE DEF t
  <1>3. TypeOK'
    <2>1. task' \in [Clients -> Task]
      BY <1>0, TaskSet
    <2> QED BY <1>2, <2>1 DEF TypeOK, Task
  <1>4. OnePlace' /\ Alone' /\ \A u : Placed(u)' = Placed(u)
    BY LinesKept DEF lines
  <1>5. Hooked' /\ LandedMeansTurn'
    BY NewsKept DEF news
  <1>6. InHand'
    <2>1. \A d \in Clients : task'[d] = task[d] \/ d = c
      BY <1>0
    <2>2. \A u \in Texts : u # t => told'[u] = told[u]
      BY <1>2, TaskSet DEF TypeOK
    <2>3. /\ \A d \in Clients : task'[d].text = Nil <=> task'[d].pc = "idle"
          /\ \A d, e \in Clients : task'[d].text = task'[e].text => d = e \/ task'[d].text = Nil
      BY <1>0, <1>1, TaskSet DEF InHand, t
    <2>4. ASSUME NEW d \in Clients, NEW u \in Texts, task'[d].text = u PROVE Held(d, u)'
      <3>1. CASE d = c
        BY <1>0, <1>1, <1>2, <2>4, <3>1, TaskSet DEF Held, Undecided, Texts, t
      <3>2. CASE d # c
        <4>1. task'[d] = task[d] /\ Held(d, u) /\ u # t
          BY <1>1, <2>1, <2>4, <3>2 DEF InHand, t
        <4> QED BY <1>4, <2>2, <4>1 DEF Held
      <3> QED BY <3>1, <3>2
    <2> QED BY <2>3, <2>4 DEF InHand
  <1>7. Accounted'
    BY <1>0, <1>4, TaskSet DEF Accounted, InHand, t
  <1>8. HonestEcho'
    BY <1>1, <1>2 DEF HonestEcho, TypeOK
  <1> QED BY <1>3, <1>4, <1>5, <1>6, <1>7, <1>8

LEMMA EchoStep == ASSUME IInv, NEW c \in Clients, Echo(c) PROVE IInv'
  <1> USE DEF IInv, Echo, IngestUserInput, pty, agent
  <1>0. task' = [task EXCEPT ![c] = Idle] /\ Idle \in Task
    BY DEF Task, Pcs, Idle
  <1>1. task[c].text \in Texts /\ echoed' \subseteq echoed \cup {task[c].text}
    BY TaskSet DEF InHand, Task
  <1>2. TypeOK'
    <2>1. task' \in [Clients -> Task]
      BY <1>0, TaskSet
    <2> QED BY <1>1, <2>1 DEF TypeOK, Task
  <1>3. OnePlace' /\ Alone' /\ \A u : Placed(u)' = Placed(u)
    BY LinesKept DEF lines
  <1>4. Hooked' /\ LandedMeansTurn'
    BY NewsKept DEF news
  <1>5. InHand'
    BY <1>0, <1>1, <1>3, TaskSet DEF InHand, Held, Undecided, Idle, Texts
  <1>6. Accounted'
    BY <1>0, <1>3, TaskSet DEF Accounted, Idle, InHand
  <1>7. HonestEcho'
    BY <1>1 DEF HonestEcho, InHand, Held, TypeOK
  <1> QED BY <1>2, <1>3, <1>4, <1>5, <1>6, <1>7

(***************************************************************************)
(* The control channel and the terminal.                                   *)
(***************************************************************************)

\* What the connections do to themselves is nobody else's business.
rest == <<known, lines, agent, seen, landing, task, outbox, rows, told, echoed, late>>

LEMMA ConnectionStep ==
    ASSUME IInv, UNCHANGED rest, typed' = typed, TypeOK' PROVE IInv'
  <1> USE DEF IInv, rest
  <1>1. OnePlace' /\ Alone' /\ \A u : Placed(u)' = Placed(u)
    BY LinesKept
  <1>2. Hooked' /\ LandedMeansTurn' /\ HonestEcho'
    BY NewsKept DEF news, HonestEcho, lines
  <1>3. InHand' /\ Accounted'
    BY <1>1 DEF InHand, Accounted, Held
  <1> QED BY <1>1, <1>2, <1>3

LEMMA DialStep == ASSUME IInv, NEW k \in Conns, Dial(k) PROVE IInv'
  <1>1. TypeOK'
    BY DEF IInv, Dial, agent, TypeOK
  <1> QED BY <1>1, ConnectionStep DEF Dial, agent, rest, lines

LEMMA RegisterStep == ASSUME IInv, NEW k \in Conns, Register(k) PROVE IInv'
  <1>1. TypeOK'
    BY DEF IInv, Register, RegisterPTY, agent, TypeOK
  <1> QED BY <1>1, ConnectionStep DEF Register, agent, rest, lines

LEMMA HandlerEndsStep == ASSUME IInv, NEW k \in Conns, HandlerEnds(k) PROVE IInv'
  <1>1. TypeOK'
    BY DEF IInv, HandlerEnds, RegisterPTY, Unregistered, agent, TypeOK
  <1> QED BY <1>1, ConnectionStep DEF HandlerEnds, agent, rest, lines

\* What is on the wire is lost with the connection.
LEMMA BreakStep == ASSUME IInv, Break PROVE IInv'
  <1> USE DEF IInv, Break, agent
  <1>1. TypeOK'
    BY EmptySeq DEF TypeOK
  <1>2. \A u : ~InLine(u, wire') /\ AtMostOnce(u, wire')
    BY DEF InLine, AtMostOnce
  <1>3. \A u : Placed(u)' => Placed(u)
    BY <1>2 DEF Placed, InTurns
  <1>4. OnePlace' /\ Alone'
    BY <1>2 DEF OnePlace, Alone, InTurns
  <1>5. Hooked' /\ LandedMeansTurn' /\ HonestEcho'
    BY NewsKept DEF news, HonestEcho
  <1>6. InHand' /\ Accounted'
    BY <1>3 DEF InHand, Accounted, Held
  <1> QED BY <1>1, <1>4, <1>5, <1>6

\* The reply goes from the wire into an input line that holds no other.
LEMMA ReadFrameStep == ASSUME IInv, ReadFrame PROVE IInv'
  <1> DEFINE t == Head(wire)
  <1> USE DEF IInv, ReadFrame, Ready
  <1>0. wire \in Seq(Texts) /\ wire # <<>> /\ composer \in Lines
    BY DEF TypeOK
  <1>1. /\ t \in Texts /\ InLine(t, wire) /\ wire' \in Seq(Texts)
        /\ \A u : /\ InLine(u, wire') => InLine(u, wire)
                  /\ AtMostOnce(u, wire) => /\ AtMostOnce(u, wire')
                                            /\ t = u => ~InLine(u, wire')
    BY <1>0, ShortenedLine
  <1>2. /\ composer' \in Lines
        /\ \A u : /\ InLine(u, composer') <=> InLine(u, composer) \/ u = t
                  /\ AtMostOnce(u, composer) /\ (t = u => ~InLine(u, composer))
                        => AtMostOnce(u, composer')
        /\ Solo(composer) /\ NoReply(composer) => Solo(composer')
    BY <1>0, <1>1, AppendedLine, AppendProperties DEF Lines
  <1>3. ~typed /\ typed' = TRUE
    OBVIOUS
  <1> HIDE DEF t
  <1>4. TypeOK'
    BY <1>1, <1>2, <1>3 DEF TypeOK
  <1>5. \A u : Placed(u)' => Placed(u)
    BY <1>1, <1>2 DEF Placed, InTurns
  <1>6. OnePlace'
    BY <1>1, <1>2 DEF OnePlace, InTurns
  <1>7. Alone'
    BY <1>2, <1>3 DEF Alone
  <1>8. Hooked' /\ LandedMeansTurn' /\ HonestEcho'
    BY NewsKept DEF news, HonestEcho
  <1>9. InHand' /\ Accounted'
    BY <1>5 DEF InHand, Accounted, Held
  <1> QED BY <1>4, <1>6, <1>7, <1>8, <1>9

\* What is in the input line becomes the last turn, if it is anything.
LEMMA Submitted ==
    ASSUME TypeOK, Submit
    PROVE  /\ turns' \in Seq(Lines) /\ composer' = <<>>
           /\ \/ turns' = turns /\ composer = <<>>
              \/ /\ Len(turns') = Len(turns) + 1
                 /\ \A i \in 1..Len(turns) : turns'[i] = turns[i]
                 /\ turns'[Len(turns) + 1] = composer
  <1>1. turns \in Seq(Lines) /\ composer \in Lines
    BY DEF TypeOK
  <1>2. CASE composer = <<>>
    BY <1>1, <1>2 DEF Submit
  <1>3. CASE composer # <<>>
    BY <1>1, <1>3, AppendProperties DEF Submit
  <1> QED BY <1>2, <1>3

LEMMA SubmittedTurns ==
    ASSUME TypeOK, Submit, NEW t
    PROVE  /\ InTurns(t)' <=> InTurns(t) \/ InLine(t, composer)
           /\ ~InLine(t, composer')
  <1>1. /\ turns \in Seq(Lines) /\ Len(turns) \in Nat /\ DOMAIN turns = 1..Len(turns)
        /\ turns' \in Seq(Lines) /\ DOMAIN turns' = 1..Len(turns')
    BY Submitted, LenProperties DEF TypeOK
  <1>2. ~InLine(t, composer')
    BY Submitted DEF InLine
  <1>3. CASE turns' = turns /\ composer = <<>>
    BY <1>2, <1>3 DEF InTurns, InLine
  <1>4. CASE /\ Len(turns') = Len(turns) + 1
             /\ \A i \in 1..Len(turns) : turns'[i] = turns[i]
             /\ turns'[Len(turns) + 1] = composer
    BY <1>1, <1>2, <1>4 DEF InTurns
  <1> QED BY <1>3, <1>4, Submitted

\* The turns stay what they were, so what was reported stays reported.
LEMMA TurnsGrow ==
    ASSUME IInv, Submit, UNCHANGED <<wire, outbox, seen>>
    PROVE  /\ \A u : Placed(u)' <=> Placed(u)
           /\ OnePlace' /\ seen \in 0..Len(turns')
           /\ \A u : Reported(u)' <=> Reported(u)
           /\ \A i \in DOMAIN turns' : Solo(turns'[i])
  <1> USE DEF IInv
  <1>1. /\ turns \in Seq(Lines) /\ Len(turns) \in Nat /\ DOMAIN turns = 1..Len(turns)
        /\ seen \in 0..Len(turns)
    BY LenProperties DEF TypeOK
  <1>2. \A u : ~InLine(u, composer') /\ AtMostOnce(u, composer')
    BY Submitted DEF InLine, AtMostOnce
  <1>3. CASE turns' = turns /\ composer = <<>>
    <2>1. composer' = composer
      BY <1>3, Submitted
    <2> QED BY <1>1, <1>3, <2>1, LinesKept DEF lines, Alone
  <1>4. CASE /\ Len(turns') = Len(turns) + 1
             /\ \A i \in 1..Len(turns) : turns'[i] = turns[i]
             /\ turns'[Len(turns) + 1] = composer
    <2>1. turns' \in Seq(Lines) /\ DOMAIN turns' = 1..(Len(turns) + 1)
      BY <1>1, <1>4, Submitted, LenProperties
    <2>2. \A u : InTurns(u)' <=> InTurns(u) \/ InLine(u, composer)
      BY <1>1, <1>4, <2>1 DEF InTurns
    <2>3. \A u : Placed(u)' <=> Placed(u)
      BY <1>2, <2>2 DEF Placed
    <2>4. OnePlace'
      <3> SUFFICES ASSUME NEW u \in Texts, NEW i \in DOMAIN turns', NEW j \in DOMAIN turns',
                          InLine(u, turns'[i]), InLine(u, turns'[j])
                   PROVE  i = j
        BY <1>2, <2>2 DEF OnePlace
      <3>1. InLine(u, composer) => ~InTurns(u)
        BY DEF OnePlace
      <3>2. \A k \in DOMAIN turns' : k = Len(turns) + 1 \/ k \in DOMAIN turns
        BY <1>1, <2>1
      <3> QED BY <1>1, <1>4, <3>1, <3>2 DEF OnePlace, InTurns
    <2>5. \A u : Reported(u)' <=> Reported(u)
      BY <1>1, <1>4 DEF Reported
    <2>6. \A i \in DOMAIN turns' : Solo(turns'[i])
      BY <1>1, <1>4, <2>1 DEF Alone
    <2> QED BY <1>1, <1>4, <2>3, <2>4, <2>5, <2>6
  <1> QED BY <1>3, <1>4, Submitted

LEMMA PressEnterStep == ASSUME IInv, PressEnter PROVE IInv'
  <1> USE DEF IInv
  <1>1. Submit /\ UNCHANGED <<known, writer, handler, link, wire, keys, seen, landing, task,
                              outbox, rows, told, echoed, late>> /\ typed' = FALSE
    BY DEF PressEnter
  <1>2. TypeOK'
    <2>1. turns' \in Seq(Lines) /\ composer' \in Lines /\ seen' \in 0..Len(turns')
      BY <1>1, Submitted, TurnsGrow, EmptySeq DEF Lines
    <2> QED BY <1>1, <2>1 DEF TypeOK
  <1>3. OnePlace' /\ \A u : (Placed(u)' <=> Placed(u)) /\ (Reported(u)' <=> Reported(u))
    BY <1>1, TurnsGrow
  <1>4. Alone'
    BY <1>1, TurnsGrow, Submitted DEF Alone, Solo, NoReply
  <1>5. Hooked' /\ LandedMeansTurn' /\ HonestEcho'
    BY <1>1, <1>3 DEF Hooked, LandedMeansTurn, HonestEcho, Reported
  <1>6. InHand' /\ Accounted'
    BY <1>1, <1>3 DEF InHand, Accounted, Held
  <1> QED BY <1>2, <1>3, <1>4, <1>5, <1>6

\* The user types among the replies: what he types is none.
LEMMA TypeKeyStep == ASSUME IInv, TypeKey PROVE IInv'
  <1> USE DEF IInv
  <1>1. /\ UNCHANGED <<known, writer, handler, link, wire, typed, seen, landing, task,
                       outbox, rows, told, echoed, late>>
        /\ keys' \in 0..MaxKeys
    BY DEF TypeKey, pty, TypeOK
  <1>2. CASE Submit
    <2>1. TypeOK'
      <3>1. turns' \in Seq(Lines) /\ composer' \in Lines /\ seen' \in 0..Len(turns')
        BY <1>1, <1>2, Submitted, TurnsGrow, EmptySeq DEF Lines
      <3> QED BY <1>1, <3>1 DEF TypeOK
    <2>2. OnePlace' /\ \A u : (Placed(u)' <=> Placed(u)) /\ (Reported(u)' <=> Reported(u))
      BY <1>1, <1>2, TurnsGrow
    <2>3. Alone'
      BY <1>1, <1>2, TurnsGrow, Submitted DEF Alone, Solo, NoReply
    <2>4. Hooked' /\ LandedMeansTurn' /\ HonestEcho'
      BY <1>1, <2>2 DEF Hooked, LandedMeansTurn, HonestEcho, Reported
    <2>5. InHand' /\ Accounted'
      BY <1>1, <2>2 DEF InHand, Accounted, Held
    <2> QED BY <2>1, <2>2, <2>3, <2>4, <2>5
  <1>3. CASE composer' = Append(composer, Key) /\ turns' = turns
    <2>1. Key \notin Texts /\ composer \in Seq(Texts \cup {Key})
      BY DEF TypeOK, Lines
    <2>2. /\ composer' \in Lines
          /\ \A u \in Texts : /\ InLine(u, composer') <=> InLine(u, composer)
                              /\ AtMostOnce(u, composer) => AtMostOnce(u, composer')
          /\ Solo(composer) => Solo(composer')
          /\ NoReply(composer) => NoReply(composer')
      BY <1>3, <2>1, AppendedLine, AppendProperties DEF Lines
    <2>3. TypeOK'
      BY <1>1, <1>3, <2>2 DEF TypeOK
    <2>4. \A u \in Texts : Placed(u)' <=> Placed(u)
      BY <1>1, <1>3, <2>2 DEF Placed, InTurns
    <2>5. OnePlace'
      BY <1>1, <1>3, <2>2 DEF OnePlace, InTurns
    <2>6. Alone'
      BY <1>1, <1>3, <2>2 DEF Alone
    <2>7. Hooked' /\ LandedMeansTurn' /\ HonestEcho'
      BY <1>1, <1>3, NewsKept DEF news, HonestEcho
    <2>8. InHand' /\ Accounted'
      BY <1>1, <2>4 DEF InHand, Accounted, Held
    <2> QED BY <2>3, <2>5, <2>6, <2>7, <2>8
  <1> QED BY <1>2, <1>3 DEF TypeKey

(***************************************************************************)
(* The way back.                                                           *)
(***************************************************************************)

LEMMA AppearStep == ASSUME IInv, Appear PROVE IInv'
  <1> USE DEF IInv, Appear, pty, agent
  <1>1. TypeOK'
    BY DEF TypeOK
  <1>2. OnePlace' /\ Alone' /\ \A u : Placed(u)' = Placed(u)
    BY LinesKept DEF lines
  <1>3. Hooked' /\ LandedMeansTurn' /\ HonestEcho'
    BY NewsKept DEF news, HonestEcho
  <1>4. InHand' /\ Accounted'
    BY <1>2 DEF InHand, Accounted, Held
  <1> QED BY <1>1, <1>2, <1>3, <1>4

\* A reply is in one turn only, so a turn that is reported now was not before.
LEMMA ReportStep == ASSUME IInv, Report PROVE IInv'
  <1> USE DEF IInv, Report, pty, agent
  <1> DEFINE fresh == {t \in Texts : turns[seen + 1] = <<t>>}
  <1>1. /\ seen \in Nat /\ Len(turns) \in Nat /\ seen' = seen + 1 /\ seen < Len(turns)
        /\ DOMAIN turns = 1..Len(turns)
        /\ landing' = landing \cup fresh
    BY LenProperties DEF TypeOK
  <1>2. TypeOK'
    BY <1>1 DEF TypeOK
  <1>3. OnePlace' /\ Alone' /\ \A u : Placed(u)' = Placed(u)
    BY LinesKept DEF lines
  <1>4. \A u \in Texts : Reported(u)' <=> Reported(u) \/ u \in fresh
    BY <1>1 DEF Reported
  <1>5. \A u \in fresh : ~Reported(u)
    <2> SUFFICES ASSUME NEW u \in fresh, NEW i \in 1..seen, turns[i] = <<u>> PROVE FALSE
      BY DEF Reported
    <2>1. InLine(u, turns[i]) /\ InLine(u, turns[seen + 1])
      BY DEF InLine
    <2>2. i \in DOMAIN turns /\ seen + 1 \in DOMAIN turns /\ i # seen + 1 /\ u \in Texts
      BY <1>1
    <2> QED BY <2>1, <2>2 DEF OnePlace
  <1> HIDE DEF fresh
  <1>6. Hooked'
    BY <1>1, <1>4, <1>5 DEF Hooked, TypeOK
  <1>7. LandedMeansTurn'
    <2> SUFFICES ASSUME NEW u \in Texts
                 PROVE  rows[u].status = "landed" <=>
                            Reported(u)' /\ rows[u].sid /\ u \notin landing' \cup late
      BY DEF LandedMeansTurn, Reported
    <2>1. rows[u].status = "landed" <=>
              Reported(u) /\ rows[u].sid /\ u \notin landing \cup late
      BY DEF LandedMeansTurn, Reported
    <2> QED BY <1>1, <1>4, <1>5, <2>1
  <1>8. HonestEcho' /\ InHand' /\ Accounted'
    BY <1>3 DEF HonestEcho, InHand, Accounted, Held
  <1> QED BY <1>2, <1>3, <1>6, <1>7, <1>8

\* The row says so if it is there and of this session; if it is not there, it
\* will never say so.
LEMMA LandStep == ASSUME IInv, NEW t \in Texts, Land(t) PROVE IInv'
  <1> USE DEF IInv, Land, Marked, pty, agent
  <1>1. /\ landing' = landing \ {t} /\ late' = IF rows[t] = NoRow THEN late \cup {t} ELSE late
        /\ \A u \in Texts \ {t} : rows'[u] = rows[u]
        /\ rows'[t].sid = rows[t].sid
        /\ rows[t].sid => rows'[t].status = "landed"
        /\ ~rows[t].sid => rows'[t] = rows[t]
        /\ rows' \in [Texts -> [status : {Nil, "delivered", "queued", "landed"}, sid : BOOLEAN]]
    <2>1. /\ landing' = landing \ {t} /\ late' = IF rows[t] = NoRow THEN late \cup {t} ELSE late
          /\ rows' = IF rows[t].sid THEN [rows EXCEPT ![t].status = "landed"] ELSE rows
      OBVIOUS
    <2>2. rows \in [Texts -> [status : {Nil, "delivered", "queued", "landed"}, sid : BOOLEAN]]
      BY DEF TypeOK
    <2> HIDE DEF IInv, Land, Marked, pty, agent
    <2>3. rows' \in [Texts -> [status : {Nil, "delivered", "queued", "landed"}, sid : BOOLEAN]]
      BY <2>1, <2>2
    <2> QED BY <2>1, <2>2, <2>3
  <1>2. TypeOK'
    BY <1>1 DEF TypeOK
  <1>3. OnePlace' /\ Alone' /\ \A u : Placed(u)' = Placed(u) /\ Reported(u)' = Reported(u)
    BY LinesKept DEF lines
  <1>4. \A u \in Texts : rows'[u] = NoRow <=> rows[u] = NoRow
    BY <1>1 DEF NoRow
  <1>5. Hooked'
    BY <1>1, <1>3, <1>4 DEF Hooked
  <1>6. LandedMeansTurn'
    <2> SUFFICES ASSUME NEW u \in Texts
                 PROVE  rows'[u].status = "landed" <=>
                            Reported(u) /\ rows'[u].sid /\ u \notin landing' \cup late'
      BY DEF LandedMeansTurn, Reported
    <2>1. rows[u].status = "landed" <=>
              Reported(u) /\ rows[u].sid /\ u \notin landing \cup late
      BY DEF LandedMeansTurn, Reported
    <2>2. CASE u # t
      BY <1>1, <2>1, <2>2
    <2>3. CASE u = t /\ rows[t].sid
      BY <1>1, <2>3 DEF Hooked, NoRow
    <2>4. CASE u = t /\ ~rows[t].sid
      BY <1>1, <2>1, <2>4
    <2> QED BY <2>2, <2>3, <2>4
  <1>7. HonestEcho' /\ InHand' /\ Accounted'
    BY <1>3, <1>4 DEF HonestEcho, InHand, Accounted, Held
  <1> QED BY <1>2, <1>3, <1>5, <1>6, <1>7

(***************************************************************************)
(* The results.                                                            *)
(***************************************************************************)

LEMMA NextIInv == IInv /\ [Next]_vars => IInv'
  <1> SUFFICES ASSUME IInv, [Next]_vars PROVE IInv'
    OBVIOUS
  <1>1. CASE UNCHANGED vars
    <2>1. TypeOK' /\ UNCHANGED rest /\ typed' = typed
      BY <1>1 DEF IInv, TypeOK, vars, pty, agent, rest, lines
    <2> QED BY <2>1, ConnectionStep
  <1>2. ASSUME NEW c \in Clients, NEW t \in Texts, Send(c, t) PROVE IInv'
    BY <1>2, SendStep
  <1>3. ASSUME NEW c \in Clients, Serve(c) PROVE IInv'
    BY <1>3, LookupStep, PickStep, WriteOKStep, WriteFailsStep, DeliverStep, RecordStep,
       AnswerStep, EchoStep DEF Serve
  <1>4. ASSUME NEW k \in Conns, Dial(k) \/ Register(k) \/ HandlerEnds(k) PROVE IInv'
    BY <1>4, DialStep, RegisterStep, HandlerEndsStep
  <1>5. CASE Break \/ ReadFrame \/ PressEnter \/ TypeKey
    BY <1>5, BreakStep, ReadFrameStep, PressEnterStep, TypeKeyStep
  <1>6. CASE Appear \/ Report
    BY <1>6, AppearStep, ReportStep
  <1>7. ASSUME NEW t \in Texts, Land(t) PROVE IInv'
    BY <1>7, LandStep
  <1> QED BY <1>1, <1>2, <1>3, <1>4, <1>5, <1>6, <1>7 DEF Next

LEMMA InvHolds == Spec => []IInv
  BY InitIInv, NextIInv, PTL DEF Spec

\* The variables have their types, and the writer of the thread is a connection
\* whose handler still reads.
THEOREM TypeCorrect == Spec => []TypeOK
  <1>1. IInv => TypeOK
    BY DEF IInv
  <1> QED BY <1>1, InvHolds, PTL

\* A reply is at most once on the wire, in the input line, among the turns and
\* in the outbox together, however connections break between the choice of the
\* terminal and the write to it (inject.go:59-82).
THEOREM RepliesGivenOnce == Spec => []GivenOnce
  <1>1. ASSUME IInv PROVE GivenOnce
    <2> SUFFICES ASSUME NEW t \in Texts
                 PROVE  LET At(line) == Cardinality(Occurrences(t, line))
                            Past == {i \in DOMAIN turns : Occurrences(t, turns[i]) # {}}
                        IN  At(wire) + At(composer) + At(outbox) + Cardinality(Past) <= 1
      BY DEF GivenOnce
    <2> DEFINE At(line) == Cardinality(Occurrences(t, line))
               Past == {i \in DOMAIN turns : Occurrences(t, turns[i]) # {}}
    <2>1. ASSUME NEW line, AtMostOnce(t, line)
          PROVE  At(line) = IF InLine(t, line) THEN 1 ELSE 0
      <3>1. \A i, j \in Occurrences(t, line) : i = j
        BY <2>1 DEF Occurrences, AtMostOnce
      <3>2. Occurrences(t, line) # {} <=> InLine(t, line)
        BY DEF Occurrences, InLine
      <3> QED BY <3>1, <3>2, AtMostOneMember
    <2>2. Cardinality(Past) = IF InTurns(t) THEN 1 ELSE 0
      <3>1. \A i \in DOMAIN turns : i \in Past <=> InLine(t, turns[i])
        BY DEF Occurrences, InLine
      <3>2. \A i, j \in Past : i = j
        BY <1>1, <3>1 DEF IInv, OnePlace
      <3>3. Past # {} <=> InTurns(t)
        BY <3>1 DEF InTurns
      <3> HIDE DEF Past
      <3> QED BY <3>2, <3>3, AtMostOneMember
    <2>3. /\ AtMostOnce(t, wire) /\ AtMostOnce(t, composer) /\ AtMostOnce(t, outbox)
          /\ ~(InLine(t, wire) /\ (InLine(t, composer) \/ InLine(t, outbox) \/ InTurns(t)))
          /\ ~(InLine(t, composer) /\ (InLine(t, outbox) \/ InTurns(t)))
          /\ ~(InLine(t, outbox) /\ InTurns(t))
      BY <1>1 DEF IInv, OnePlace
    <2>4. /\ At(wire) = IF InLine(t, wire) THEN 1 ELSE 0
          /\ At(composer) = IF InLine(t, composer) THEN 1 ELSE 0
          /\ At(outbox) = IF InLine(t, outbox) THEN 1 ELSE 0
      BY <2>1, <2>3
    <2> HIDE DEF At, Past
    <2>5. At(wire) + At(composer) + At(outbox) + Cardinality(Past) <= 1
      BY <2>2, <2>3, <2>4
    <2> QED BY <2>5 DEF At, Past
  <1> QED BY <1>1, InvHolds, PTL

\* No turn of the agent holds two replies: the Enter of the first is pressed
\* before the next is typed, on this connection or another (pty.go:196-209).
THEOREM RepliesKeptApart == Spec => []OneReplyPerTurn
  <1>1. ASSUME IInv PROVE OneReplyPerTurn
    <2> SUFFICES ASSUME NEW line, Solo(line)
                 PROVE  Cardinality({i \in DOMAIN line : line[i] \in Texts}) <= 1
      BY <1>1 DEF IInv, Alone, OneReplyPerTurn, Turns
    <2> DEFINE Places == {i \in DOMAIN line : line[i] \in Texts}
    <2>1. \A i, j \in Places : i = j
      BY DEF Solo
    <2> HIDE DEF Places
    <2>2. Cardinality(Places) <= 1
      BY <2>1, AtMostOneMember
    <2> QED BY <2>2 DEF Places
  <1> QED BY <1>1, InvHolds, PTL

\* A row says "landed" if and only if the transcript showed the reply as a turn
\* and the hook found the row (store.go:308-339).
THEOREM LandedIsTrue == Spec => []LandedMeansTurn
  <1>1. IInv => LandedMeansTurn
    BY DEF IInv
  <1> QED BY <1>1, InvHolds, PTL

\* What the HUD shows of an "input" as sent was written to the agent
\* (ws.go:447-449).
THEOREM EchoIsTrue == Spec => []HonestEcho
  <1>1. IInv => HonestEcho
    BY DEF IInv
  <1> QED BY <1>1, InvHolds, PTL

(***************************************************************************)
(* The refinement of ReplyLife.  Its place is computed from the lines, the *)
(* rows and the read loops; what they must agree on, beyond IInv, is that  *)
(* a reply the terminal has, or had, is known as handed over.              *)
(***************************************************************************)

\* What the read loop that has reply t in its hands knows of where it is.
Knows(c, t) ==
    /\ task[c].pc \in Undecided => task[c].status # "delivered"
    /\ task[c].pc \in {"record", "answer"} =>
          \/ task[c].status = "delivered" /\ ~InLine(t, outbox)
          \/ task[c].status = "queued" /\ InLine(t, outbox)
          \/ /\ task[c].status = "failed" /\ task[c].pc = "answer"
             /\ ~Placed(t) /\ rows[t] = NoRow
    /\ task[c].pc \in {"answer", "echo"} /\ task[c].status = "delivered"
          => rows[t].status \in {"delivered", "landed"}

Known == \A c \in Clients, t \in Texts : task[c].text = t => Knows(c, t)

\* What is, or was, at the terminal was handed over.
Traced ==
    \A t \in Texts :
        InLine(t, wire) \/ InLine(t, composer) \/ InTurns(t) => Handed(t)

LifeInv == Known /\ Traced

LEMMA PlaceMeans ==
    ASSUME NEW t
    PROVE  PlaceOf(t) =
              IF InLine(t, outbox) THEN "queued"
              ELSE IF InTurns(t) THEN "turn"
              ELSE IF InLine(t, wire) \/ InLine(t, composer) THEN "underway"
              ELSE IF Handed(t) THEN "lost" ELSE "unsent"
  BY DEF PlaceOf, Stands, InLine, InTurns

LEMMA PlaceMeansNext ==
    ASSUME NEW t
    PROVE  PlaceOf(t)' =
              IF InLine(t, outbox') THEN "queued"
              ELSE IF InTurns(t)' THEN "turn"
              ELSE IF InLine(t, wire') \/ InLine(t, composer') THEN "underway"
              ELSE IF Handed(t)' THEN "lost" ELSE "unsent"
  BY DEF PlaceOf, Stands, InLine, InTurns

place == [t \in Texts |-> PlaceOf(t)]

LEMMA InitLife == Init => LifeInv /\ Life!LInit
  <1> SUFFICES ASSUME Init PROVE LifeInv /\ Life!LInit
    OBVIOUS
  <1>1. \A t \in Texts : ~Placed(t) /\ ~Handed(t)
    BY DEF Init, Placed, InLine, InTurns, Handed, NoRow, Idle
  <1>2. LifeInv
    BY <1>1 DEF Init, LifeInv, Known, Knows, Traced, Placed, Idle, Undecided
  <1>3. \A t \in Texts : PlaceOf(t) = "unsent"
    BY <1>1, PlaceMeans DEF Placed
  <1> QED BY <1>2, <1>3 DEF Init, Life!LInit

\* One reply goes somewhere, or none does.
LEMMA PlaceGoes ==
    ASSUME NEW t \in Texts, \A u \in Texts \ {t} : PlaceOf(u)' = PlaceOf(u), told' = told
    PROVE  Life!Goes(t, PlaceOf(t)')
  BY DEF Life!Goes

LEMMA PlaceStays ==
    ASSUME \A u \in Texts : PlaceOf(u)' = PlaceOf(u), told' = told
    PROVE  UNCHANGED Life!lvars
  BY DEF Life!lvars

\* A step of a read loop moves at most the reply it has in its hands.
LEMMA OthersHanded ==
    ASSUME IInv, NEW c \in Clients, NEW f \in Task, task' = [task EXCEPT ![c] = f],
           NEW u \in Texts, task[c].text # u, f.text # u, rows'[u] = rows[u]
    PROVE  Handed(u)' <=> Handed(u)
  <1>1. task'[c] = f /\ \A d \in Clients \ {c} : task'[d] = task[d]
    BY TaskSet DEF IInv
  <1> QED BY <1>1 DEF Handed

\* The reply a read loop has in its hands is in no other's.
LEMMA OwnHanded ==
    ASSUME IInv, NEW c \in Clients, NEW t \in Texts, task[c].text = t
    PROVE  Handed(t) <=> \/ rows[t].status \in {"delivered", "landed"}
                         \/ task[c].status = "delivered"
  BY DEF IInv, InHand, Handed

LEMMA OwnHandedNext ==
    ASSUME IInv', NEW c \in Clients, NEW t \in Texts, task'[c].text = t
    PROVE  Handed(t)' <=> \/ rows'[t].status \in {"delivered", "landed"}
                          \/ task'[c].status = "delivered"
  BY DEF IInv, InHand, Handed

\* Where nothing is handed over and the lines stay, everything is where it was.
LEMMA NothingMoves ==
    ASSUME UNCHANGED lines, \A u \in Texts : Handed(u)' <=> Handed(u)
    PROVE  /\ \A u \in Texts : PlaceOf(u)' = PlaceOf(u)
           /\ Traced => Traced'
  <1>1. \A u : (InTurns(u)' <=> InTurns(u)) /\ (Placed(u)' <=> Placed(u))
    BY DEF lines, InTurns, Placed
  <1>2. Traced => Traced'
    BY <1>1 DEF Traced, lines
  <1> QED BY <1>1, <1>2, PlaceMeans, PlaceMeansNext DEF lines

\* What the others know of their replies, when one read loop takes a step.
LEMMA KnownStep ==
    ASSUME IInv, Known, NEW c \in Clients, NEW f \in Task, task' = [task EXCEPT ![c] = f],
           \A u \in Texts : f.text = u => Knows(c, u)',
           \A u \in Texts : u # task[c].text =>
               /\ InLine(u, outbox') <=> InLine(u, outbox)
               /\ Placed(u)' => Placed(u)
               /\ rows'[u] = rows[u]
    PROVE  Known'
  <1> SUFFICES ASSUME NEW d \in Clients, NEW u \in Texts, task'[d].text = u
               PROVE  Knows(d, u)'
    BY DEF Known
  <1>1. task'[c] = f /\ \A e \in Clients \ {c} : task'[e] = task[e]
    BY TaskSet DEF IInv
  <1>2. CASE d = c
    BY <1>1, <1>2
  <1>3. CASE d # c
    <2>1. task'[d] = task[d] /\ task[d].text = u /\ u # task[c].text
      BY <1>1, <1>3 DEF IInv, InHand
    <2>2. Knows(d, u)
      BY <2>1 DEF Known
    <2>3. /\ InLine(u, outbox') <=> InLine(u, outbox)
          /\ Placed(u)' => Placed(u)
          /\ rows'[u] = rows[u]
      BY <2>1
    <2> QED BY <2>1, <2>2, <2>3 DEF Knows
  <1> QED BY <1>2, <1>3

\* What all of them know, when none does.
LEMMA KnownKept ==
    ASSUME Known, task' = task, outbox' = outbox,
           \A u \in Texts : /\ Placed(u)' => Placed(u)
                            /\ rows[u] = NoRow => rows'[u] = NoRow
                            /\ rows[u].status \in {"delivered", "landed"}
                                  => rows'[u].status \in {"delivered", "landed"}
    PROVE  Known'
  <1> SUFFICES ASSUME NEW d \in Clients, NEW u \in Texts, task[d].text = u
               PROVE  Knows(d, u)'
    BY DEF Known
  <1>1. Knows(d, u)
    BY DEF Known
  <1> QED BY <1>1 DEF Knows

\* A read loop goes on with its reply, or is done with it, and nothing moves.
LEMMA LoopStays ==
    ASSUME IInv, LifeInv, NEW c \in Clients, NEW t \in Texts, task[c].text = t,
           NEW f \in Task, task' = [task EXCEPT ![c] = f], f.text \in {t, Nil},
           UNCHANGED lines, \A u \in Texts \ {t} : rows'[u] = rows[u],
           f.text = t => Knows(c, t)', Handed(t)' <=> Handed(t)
    PROVE  LifeInv' /\ \A u \in Texts : PlaceOf(u)' = PlaceOf(u)
  <1>1. \A u \in Texts : Handed(u)' <=> Handed(u)
    BY OthersHanded
  <1>2. \A u \in Texts : /\ InLine(u, outbox') <=> InLine(u, outbox)
                         /\ Placed(u)' => Placed(u)
    BY LinesKept DEF lines
  <1>3. \A u \in Texts : f.text = u => Knows(c, u)'
    OBVIOUS
  <1>4. Known'
    BY <1>2, <1>3, KnownStep DEF LifeInv
  <1> QED BY <1>1, <1>4, NothingMoves DEF LifeInv

LifeStep == [Life!LNext]_(Life!lvars)

LEMMA SendLife ==
    ASSUME IInv, IInv', LifeInv, NEW c \in Clients, NEW t \in Texts, Send(c, t)
    PROVE  LifeInv' /\ LifeStep
  <1> DEFINE f == [Idle EXCEPT !.pc = "lookup", !.text = t]
  <1>1. /\ f \in Task /\ f.text = t /\ f.pc = "lookup" /\ f.status = Nil
        /\ task' = [task EXCEPT ![c] = f]
    BY DEF Send, Idle, Task, Pcs
  <1>2. UNCHANGED lines /\ rows' = rows /\ told' = told
    BY DEF Send, pty, agent, lines
  <1>3. task[c].text = Nil /\ task'[c] = f
    BY <1>1, TaskSet DEF Send, IInv, InHand
  <1>4. rows[t] = NoRow /\ \A d \in Clients : task[d].text # t
    BY DEF Send, Sent
  <1> HIDE DEF f
  <1>5. ~Handed(t)
    BY <1>4 DEF Handed, NoRow
  <1>6. ~Handed(t)'
    BY <1>1, <1>2, <1>3, <1>4, OwnHandedNext DEF NoRow
  <1>7. \A u \in Texts \ {t} : Handed(u)' <=> Handed(u)
    BY <1>1, <1>2, <1>3, OthersHanded
  <1>8. Knows(c, t)'
    BY <1>1, <1>3 DEF Knows, Undecided
  <1>9. Known'
    <2>1. \A u \in Texts : /\ InLine(u, outbox') <=> InLine(u, outbox)
                           /\ Placed(u)' => Placed(u)
      BY <1>2, LinesKept DEF lines
    <2>2. \A u \in Texts : f.text = u => Knows(c, u)'
      BY <1>1, <1>8
    <2> QED BY <1>1, <1>2, <2>1, <2>2, KnownStep DEF LifeInv
  <1> QED BY <1>2, <1>5, <1>6, <1>7, <1>9, NothingMoves, PlaceStays DEF LifeInv, LifeStep

LEMMA LookupLife ==
    ASSUME IInv, IInv', LifeInv, NEW c \in Clients,
           NEW t \in Texts, NEW f \in Task, task[c].text = t, task'[c] = f,
           Lookup(c) \/ Pick(c) \/ WriteFails(c) \/ (Deliver(c) /\ ~task[c].sid)
    PROVE  LifeInv' /\ LifeStep
  <1>1. /\ ~Placed(t) /\ rows[t] = NoRow /\ task[c].pc \in Undecided
        /\ task[c].status # "delivered"
    <2>1. task[c].pc \in Undecided
      BY DEF Lookup, Pick, WriteFails, Deliver, Undecided
    <2> QED BY <2>1 DEF IInv, InHand, Held, LifeInv, Known, Knows
  <1>2. UNCHANGED lines /\ rows' = rows /\ told' = told
    BY DEF Lookup, Pick, WriteFails, Deliver, pty, agent, lines
  <1>3. /\ task' = [task EXCEPT ![c] = f] /\ f.text = t
        /\ \/ f.pc \in Undecided /\ f.status = task[c].status
           \/ f.pc = "answer" /\ f.status = "failed"
    <2>1. task \in [Clients -> Task] /\ task[c] \in Task
      BY TaskSet DEF IInv
    <2>2. CASE Lookup(c)
      BY <2>1, <2>2 DEF Lookup, Undecided, Task
    <2>3. CASE Pick(c)
      BY <2>1, <2>3 DEF Pick, Undecided, Task
    <2>4. CASE WriteFails(c)
      BY <2>1, <2>4 DEF WriteFails, Undecided, Task
    <2>5. CASE Deliver(c) /\ ~task[c].sid
      BY <2>1, <2>5 DEF Deliver, Undecided, Task
    <2> QED BY <2>2, <2>3, <2>4, <2>5
  <1>4. ~Placed(t)'
    BY <1>1, <1>2, LinesKept
  <1>5. Knows(c, t)'
    <2>1. rows'[t] = NoRow
      BY <1>1, <1>2
    <2> QED BY <1>1, <1>3, <1>4, <2>1 DEF Knows, Undecided
  <1>6. Handed(t)' <=> Handed(t)
    <2>1. task'[c].text = t /\ task'[c].status # "delivered"
      BY <1>1, <1>3
    <2> QED BY <1>1, <1>2, <2>1, OwnHanded, OwnHandedNext
  <1> QED BY <1>1, <1>2, <1>3, <1>5, <1>6, LoopStays, PlaceStays DEF LifeStep

\* The reply leaves for the terminal, or for a connection nobody reads.
LEMMA WriteOKLife ==
    ASSUME IInv, IInv', LifeInv, NEW c \in Clients,
           NEW t \in Texts, NEW f \in Task, task[c].text = t, task'[c] = f,
           WriteOK(c)
    PROVE  LifeInv' /\ LifeStep
  <1>1. /\ ~Placed(t) /\ rows[t] = NoRow /\ told[t] = Nil
        /\ task[c].status # "delivered"
    <2>1. task[c].pc \in Undecided
      BY DEF WriteOK, Undecided
    <2> QED BY <2>1 DEF IInv, InHand, Held, LifeInv, Known, Knows
  <1>2. /\ UNCHANGED <<composer, outbox, turns, rows, told>>
        /\ wire' = wire \/ wire' = Append(wire, t)
    BY DEF WriteOK, agent
  <1>3. /\ task' = [task EXCEPT ![c] = f] /\ f.text = t
        /\ f.pc = "record" /\ f.status = "delivered"
    <2>1. task \in [Clients -> Task]
      BY TaskSet DEF IInv
    <2> QED BY <2>1 DEF WriteOK, Written, Done, Task
  <1>4. \A u \in Texts \ {t} : InLine(u, wire') <=> InLine(u, wire)
    <2>1. wire \in Seq(Texts)
      BY DEF IInv, TypeOK
    <2>2. CASE wire' = wire
      BY <2>2
    <2>3. CASE wire' = Append(wire, t)
      BY <2>1, <2>3, AppendedLine
    <2> QED BY <1>2, <2>2, <2>3
  <1>5. \A u : InTurns(u)' <=> InTurns(u)
    BY <1>2 DEF InTurns
  <1>6. \A u \in Texts \ {t} : Placed(u)' => Placed(u)
    BY <1>2, <1>4, <1>5 DEF Placed
  <1>7. Handed(t)'
    BY <1>3 DEF Handed
  <1>8. ~Handed(t)
    BY <1>1, OwnHanded DEF NoRow
  <1>9. \A u \in Texts \ {t} : Handed(u)' <=> Handed(u)
    BY <1>2, <1>3, OthersHanded
  <1>10. Knows(c, t)'
    BY <1>1, <1>2, <1>3 DEF Knows, Undecided, Placed
  <1>11. Known'
    <2>1. \A u \in Texts : f.text = u => Knows(c, u)'
      BY <1>3, <1>10
    <2> QED BY <1>2, <1>3, <1>6, <2>1, KnownStep DEF LifeInv
  <1>12. Traced'
    BY <1>2, <1>4, <1>5, <1>7, <1>9 DEF LifeInv, Traced
  <1>13. \A u \in Texts \ {t} : PlaceOf(u)' = PlaceOf(u)
    BY <1>2, <1>4, <1>5, <1>9, PlaceMeans, PlaceMeansNext
  <1>14. PlaceOf(t) = "unsent" /\ PlaceOf(t)' \in {"underway", "lost"}
    <2>1. PlaceOf(t) = "unsent"
      BY <1>1, <1>8, PlaceMeans DEF Placed
    <2>2. PlaceOf(t)' \in {"underway", "lost"}
      BY <1>1, <1>2, <1>5, <1>7, PlaceMeansNext DEF Placed
    <2> QED BY <2>1, <2>2
  <1>15. Life!Goes(t, PlaceOf(t)')
    BY <1>1, <1>2, <1>13, PlaceGoes
  <1>16. Life!Leave(t)
    BY <1>1, <1>14, <1>15 DEF Life!Leave
  <1> QED BY <1>1, <1>11, <1>12, <1>16 DEF LifeInv, LifeStep, Life!LNext

\* It leaves for the outbox.
LEMMA QueuedLife ==
    ASSUME IInv, IInv', LifeInv, NEW c \in Clients,
           NEW t \in Texts, NEW f \in Task, task[c].text = t, task'[c] = f,
           Deliver(c), task[c].sid
    PROVE  LifeInv' /\ LifeStep
  <1>1. /\ ~Placed(t) /\ rows[t] = NoRow /\ told[t] = Nil
        /\ task[c].status # "delivered"
    <2>1. task[c].pc \in Undecided
      BY DEF Deliver, Undecided
    <2> QED BY <2>1 DEF IInv, InHand, Held, LifeInv, Known, Knows
  <1>2. /\ UNCHANGED <<wire, composer, turns, rows, told>>
        /\ outbox' = Append(outbox, t)
    BY DEF Deliver, pty, agent
  <1>3. /\ task' = [task EXCEPT ![c] = f] /\ f.text = t
        /\ f.pc = "record" /\ f.status = "queued"
    <2>1. task \in [Clients -> Task]
      BY TaskSet DEF IInv
    <2> QED BY <2>1 DEF Deliver, Task
  <1>4. InLine(t, outbox') /\ \A u \in Texts \ {t} : InLine(u, outbox') <=> InLine(u, outbox)
    <2>1. outbox \in Seq(Texts)
      BY DEF IInv, TypeOK
    <2> QED BY <1>1, <1>2, <2>1, AppendedLine
  <1>5. \A u : InTurns(u)' <=> InTurns(u)
    BY <1>2 DEF InTurns
  <1>6. \A u \in Texts \ {t} : Placed(u)' => Placed(u)
    BY <1>2, <1>4, <1>5 DEF Placed
  <1>7. ~Handed(t)
    BY <1>1, OwnHanded DEF NoRow
  <1>8. \A u \in Texts \ {t} : Handed(u)' <=> Handed(u)
    BY <1>2, <1>3, OthersHanded
  <1>9. Knows(c, t)'
    BY <1>3, <1>4 DEF Knows, Undecided
  <1>10. Known'
    <2>1. \A u \in Texts : f.text = u => Knows(c, u)'
      BY <1>3, <1>9
    <2> QED BY <1>2, <1>3, <1>4, <1>6, <2>1, KnownStep DEF LifeInv
  <1>11. Traced'
    BY <1>1, <1>2, <1>5, <1>8 DEF LifeInv, Traced, Placed
  <1>12. \A u \in Texts \ {t} : PlaceOf(u)' = PlaceOf(u)
    BY <1>2, <1>4, <1>5, <1>8, PlaceMeans, PlaceMeansNext
  <1>13. PlaceOf(t) = "unsent" /\ PlaceOf(t)' = "queued"
    BY <1>1, <1>4, <1>7, PlaceMeans, PlaceMeansNext DEF Placed
  <1>14. Life!Goes(t, PlaceOf(t)')
    BY <1>1, <1>2, <1>12, PlaceGoes
  <1>15. Life!Leave(t)
    BY <1>1, <1>13, <1>14 DEF Life!Leave
  <1> QED BY <1>1, <1>10, <1>11, <1>15 DEF LifeInv, LifeStep, Life!LNext

LEMMA RecordLife ==
    ASSUME IInv, IInv', LifeInv, NEW c \in Clients,
           NEW t \in Texts, NEW f \in Task, task[c].text = t, task'[c] = f,
           Record(c)
    PROVE  LifeInv' /\ LifeStep
  <1>1. /\ rows[t] = NoRow /\ Knows(c, t)
        /\ task[c].pc = "record" /\ task[c].status \in {"delivered", "queued"}
    <2>1. task[c].pc = "record"
      BY DEF Record
    <2> QED BY <2>1 DEF IInv, InHand, Held, LifeInv, Known
  <1>2. /\ UNCHANGED lines /\ told' = told
        /\ rows'[t].status = task[c].status /\ \A u \in Texts \ {t} : rows'[u] = rows[u]
    <2>1. rows' = [rows EXCEPT ![t] = [status |-> task[c].status, sid |-> task[c].sid]]
      BY DEF Record, RecordHuman
    <2>2. rows'[t].status = task[c].status /\ \A u \in Texts \ {t} : rows'[u] = rows[u]
      BY <1>1, <2>1 DEF IInv, TypeOK
    <2> QED BY <2>2 DEF Record, pty, agent, lines
  <1>3. /\ task' = [task EXCEPT ![c] = f] /\ f.text = t
        /\ f.pc = "answer" /\ f.status = task[c].status
    <2>1. task \in [Clients -> Task]
      BY TaskSet DEF IInv
    <2> QED BY <2>1 DEF Record, Task
  <1>4. Knows(c, t)'
    <2>1. outbox' = outbox
      BY <1>2 DEF lines
    <2> QED BY <1>1, <1>2, <1>3, <2>1 DEF Knows, Undecided
  <1>5. Handed(t)' <=> Handed(t)
    BY <1>1, <1>2, <1>3, OwnHanded, OwnHandedNext DEF NoRow
  <1> QED BY <1>1, <1>2, <1>3, <1>4, <1>5, LoopStays, PlaceStays DEF LifeStep

\* The sender is told what is the case.  A read loop that is done with a reply
\* the terminal took goes on to the echo first.
LEMMA AnswerLife ==
    ASSUME IInv, IInv', LifeInv, NEW c \in Clients,
           NEW t \in Texts, NEW f \in Task, task[c].text = t, task'[c] = f,
           Answer(c)
    PROVE  LifeInv' /\ LifeStep
  <1>1. /\ told[t] = Nil /\ Knows(c, t) /\ task[c].pc = "answer"
        /\ task[c].status \in {"delivered", "queued", "failed"}
    <2>1. task[c].pc = "answer"
      BY DEF Answer
    <2>2. Held(c, t) /\ Knows(c, t)
      BY DEF IInv, InHand, LifeInv, Known
    <2> QED BY <2>1, <2>2 DEF Held, Knows
  <1>2. UNCHANGED lines /\ rows' = rows
    BY DEF Answer, pty, agent, lines
  <1>3. /\ task' = [task EXCEPT ![c] = f]
        /\ \/ f.pc = "echo" /\ f.text = t /\ f.status = task[c].status
           \/ f.text = Nil /\ f.status = Nil /\ task[c].status # "delivered"
    <2>1. task \in [Clients -> Task]
      BY TaskSet DEF IInv
    <2>2. CASE Delivered(c)
      BY <2>1, <2>2 DEF Answer, Task
    <2>3. CASE ~Delivered(c)
      BY <2>1, <2>3 DEF Answer, Delivered, Idle, Task
    <2> QED BY <2>2, <2>3
  <1>4. f.text = t => Knows(c, t)'
    <2>1. outbox' = outbox
      BY <1>2 DEF lines
    <2>2. t # Nil
      OBVIOUS
    <2> QED BY <1>1, <1>2, <1>3, <2>1, <2>2 DEF Knows, Undecided
  <1>5. Handed(t)' <=> Handed(t)
    <2>1. Handed(t) <=> \/ rows[t].status \in {"delivered", "landed"}
                        \/ task[c].status = "delivered"
      BY OwnHanded
    <2>2. CASE f.text = t /\ f.status = task[c].status
      BY <1>2, <2>1, <2>2, OwnHandedNext
    <2>3. CASE f.status = Nil /\ task[c].status # "delivered"
      <3>1. \A d \in Clients : task'[d].text = t => task'[d].status # "delivered"
        <4>1. \A d \in Clients \ {c} : task'[d] = task[d] /\ task[d].text # t
          BY <1>3, TaskSet DEF IInv, InHand
        <4> QED BY <2>3, <4>1
      <3> QED BY <1>2, <2>1, <2>3, <3>1 DEF Handed
    <2> QED BY <1>3, <2>2, <2>3
  <1>6. LifeInv' /\ \A u \in Texts : PlaceOf(u)' = PlaceOf(u)
    BY <1>2, <1>3, <1>4, <1>5, LoopStays
  <1>7. CASE ~Answered(c)
    <2>1. told' = told
      BY <1>7 DEF Answer
    <2> QED BY <1>6, <2>1, PlaceStays DEF LifeStep
  <1>8. CASE Answered(c)
    <2>1. task[c].status = Life!Fate(PlaceOf(t))
      <3>1. InTurns(t) \/ InLine(t, wire) \/ InLine(t, composer) => Handed(t)
        BY DEF LifeInv, Traced
      <3>2. CASE task[c].status = "delivered"
        <4>1. PlaceOf(t) \in {"turn", "underway", "lost"}
          BY <1>1, <3>2, OwnHanded, PlaceMeans DEF Knows
        <4> QED BY <3>2, <4>1 DEF Life!Fate
      <3>3. CASE task[c].status = "queued"
        <4>1. PlaceOf(t) = "queued"
          BY <1>1, <3>3, PlaceMeans DEF Knows
        <4> QED BY <3>3, <4>1 DEF Life!Fate
      <3>4. CASE task[c].status = "failed"
        <4>1. ~Placed(t) /\ rows[t] = NoRow
          BY <1>1, <3>4 DEF Knows
        <4>2. PlaceOf(t) = "unsent"
          BY <3>4, <4>1, OwnHanded, PlaceMeans DEF Placed, NoRow
        <4> QED BY <3>4, <4>2 DEF Life!Fate
      <3> QED BY <1>1, <3>2, <3>3, <3>4
    <2>2. t \in Inputs /\ told' = [told EXCEPT ![t] = task[c].status]
      BY <1>8 DEF Answer, Answered
    <2>3. Life!Tell(t)
      BY <1>1, <1>6, <2>1, <2>2 DEF Life!Tell
    <2> QED BY <1>6, <2>2, <2>3 DEF LifeStep, Life!LNext
  <1> QED BY <1>7, <1>8

\* The row knows by now what the read loop knew.
LEMMA EchoLife ==
    ASSUME IInv, IInv', LifeInv, NEW c \in Clients,
           NEW t \in Texts, NEW f \in Task, task[c].text = t, task'[c] = f,
           Echo(c)
    PROVE  LifeInv' /\ LifeStep
  <1>1. task[c].status = "delivered" => rows[t].status \in {"delivered", "landed"}
    <2>1. task[c].pc = "echo" /\ Knows(c, t)
      BY DEF Echo, LifeInv, Known
    <2> QED BY <2>1 DEF Knows
  <1>2. UNCHANGED lines /\ rows' = rows /\ told' = told
    BY DEF Echo, pty, agent, lines
  <1>3. task' = [task EXCEPT ![c] = f] /\ f.text = Nil /\ f.status = Nil
    BY TaskSet DEF IInv, Echo, Idle
  <1>4. Handed(t)' <=> Handed(t)
    <2>1. \A d \in Clients : task'[d].text # t
      <3>1. \A d \in Clients \ {c} : task'[d] = task[d] /\ task[d].text # t
        BY <1>3, TaskSet DEF IInv, InHand
      <3> QED BY <1>3, <3>1
    <2> QED BY <1>1, <1>2, <2>1, OwnHanded DEF Handed
  <1>5. f.text # t
    BY <1>3
  <1> QED BY <1>2, <1>3, <1>4, <1>5, LoopStays, PlaceStays DEF LifeStep

LEMMA ServeLife ==
    ASSUME IInv, IInv', LifeInv, NEW c \in Clients, Serve(c)
    PROVE  LifeInv' /\ LifeStep
  <1>1. PICK t \in Texts : task[c].text = t
    <2>1. task[c].pc # "idle"
      BY DEF Serve, Lookup, Pick, WriteOK, WriteFails, Deliver, Record, Answer, Echo
    <2> QED BY <2>1, TaskSet DEF IInv, InHand, Task
  <1>2. PICK f \in Task : task'[c] = f
    BY DEF IInv, TypeOK, Task
  <1> QED BY <1>1, <1>2, LookupLife, WriteOKLife, QueuedLife, RecordLife, AnswerLife,
             EchoLife DEF Serve

(***************************************************************************)
(* The steps of the connections, of the agent and of the way back.         *)
(***************************************************************************)

\* A connection takes what is on the wire with it.
LEMMA BreakLife == ASSUME IInv, LifeInv, Break PROVE LifeInv' /\ LifeStep
  <1> DEFINE gone == {t \in Texts : InLine(t, wire)}
  <1>1. UNCHANGED <<composer, turns, task, outbox, rows, told>> /\ wire' = <<>>
    BY DEF Break, agent
  <1>2. \A u : ~InLine(u, wire')
    BY <1>1 DEF InLine
  <1>3. \A u : (Handed(u)' <=> Handed(u)) /\ (InTurns(u)' <=> InTurns(u))
    BY <1>1 DEF Handed, InTurns
  <1>4. LifeInv'
    <2>1. \A u \in Texts : Placed(u)' => Placed(u)
      BY <1>1, <1>2, <1>3 DEF Placed
    <2>2. Known'
      BY <1>1, <2>1, KnownKept DEF LifeInv
    <2>3. Traced'
      BY <1>1, <1>2, <1>3 DEF LifeInv, Traced
    <2> QED BY <2>2, <2>3 DEF LifeInv
  <1>5. \A t \in gone : PlaceOf(t) = "underway" /\ PlaceOf(t)' = "lost"
    <2> SUFFICES ASSUME NEW t \in Texts, InLine(t, wire)
                 PROVE  PlaceOf(t) = "underway" /\ PlaceOf(t)' = "lost"
      OBVIOUS
    <2>1. ~InLine(t, composer) /\ ~InLine(t, outbox) /\ ~InTurns(t) /\ Handed(t)
      BY DEF IInv, OnePlace, LifeInv, Traced
    <2> QED BY <1>1, <1>2, <1>3, <2>1, PlaceMeans, PlaceMeansNext
  <1>6. \A t \in Texts \ gone : PlaceOf(t)' = PlaceOf(t)
    BY <1>1, <1>2, <1>3, PlaceMeans, PlaceMeansNext
  <1> HIDE DEF gone
  <1>7. gone \in SUBSET Texts
    BY DEF gone
  <1>8. CASE gone = {}
    BY <1>1, <1>4, <1>6, <1>8, PlaceStays DEF LifeStep
  <1>9. CASE gone # {}
    <2>1. Life!Break(gone)
      BY <1>1, <1>5, <1>6, <1>7, <1>9 DEF Life!Break
    <2> QED BY <1>4, <1>7, <2>1 DEF LifeStep, Life!LNext
  <1> QED BY <1>8, <1>9

\* From the wire to the input line: it is under way as before.
LEMMA ReadFrameLife == ASSUME IInv, LifeInv, ReadFrame PROVE LifeInv' /\ LifeStep
  <1>1. /\ UNCHANGED <<turns, task, outbox, rows, told>>
        /\ wire # <<>> /\ wire' = Tail(wire) /\ composer' = Append(composer, Head(wire))
    BY DEF ReadFrame
  <1>2. wire \in Seq(Texts) /\ composer \in Lines
    BY DEF IInv, TypeOK
  <1>3. \A u : /\ InLine(u, wire') => InLine(u, wire)
               /\ InLine(u, wire) => u = Head(wire) \/ InLine(u, wire')
    BY <1>1, <1>2, ShortenedLine, TailKeeps
  <1>4. /\ InLine(Head(wire), wire)
        /\ \A u : InLine(u, composer') <=> InLine(u, composer) \/ u = Head(wire)
    <2>1. Head(wire) \in Texts /\ InLine(Head(wire), wire)
      BY <1>1, <1>2, ShortenedLine
    <2> QED BY <1>1, <1>2, <2>1, AppendedLine DEF Lines
  <1>5. \A u : InLine(u, wire') \/ InLine(u, composer')
                  <=> InLine(u, wire) \/ InLine(u, composer)
    BY <1>3, <1>4
  <1>6. \A u : (Handed(u)' <=> Handed(u)) /\ (InTurns(u)' <=> InTurns(u))
    BY <1>1 DEF Handed, InTurns
  <1>7. LifeInv'
    <2>1. \A u \in Texts : Placed(u)' => Placed(u)
      BY <1>1, <1>5, <1>6 DEF Placed
    <2>2. Known'
      BY <1>1, <2>1, KnownKept DEF LifeInv
    <2>3. Traced'
      BY <1>5, <1>6 DEF LifeInv, Traced
    <2> QED BY <2>2, <2>3 DEF LifeInv
  <1>8. \A u \in Texts : PlaceOf(u)' = PlaceOf(u)
    BY <1>1, <1>5, <1>6, PlaceMeans, PlaceMeansNext
  <1> QED BY <1>1, <1>7, <1>8, PlaceStays DEF LifeStep

\* The Enter makes a turn of the reply that stands in the input line, if one does.
LEMMA SubmitLife ==
    ASSUME IInv, LifeInv, Submit, UNCHANGED <<wire, outbox, seen, task, rows, told>>
    PROVE  LifeInv' /\ LifeStep
  <1>1. \A u : (InTurns(u)' <=> InTurns(u) \/ InLine(u, composer)) /\ ~InLine(u, composer')
    BY SubmittedTurns DEF IInv
  <1>2. \A u : Handed(u)' <=> Handed(u)
    BY DEF Handed
  <1>3. LifeInv'
    <2>1. \A u \in Texts : Placed(u)' => Placed(u)
      BY <1>1 DEF Placed
    <2>2. Known'
      BY <2>1, KnownKept DEF LifeInv
    <2>3. Traced'
      BY <1>1, <1>2 DEF LifeInv, Traced
    <2> QED BY <2>2, <2>3 DEF LifeInv
  <1>4. \A u \in Texts : ~InLine(u, composer) => PlaceOf(u)' = PlaceOf(u)
    BY <1>1, <1>2, PlaceMeans, PlaceMeansNext
  <1>5. CASE \A u \in Texts : ~InLine(u, composer)
    BY <1>3, <1>4, <1>5, PlaceStays DEF LifeStep
  <1>6. ASSUME NEW t \in Texts, InLine(t, composer) PROVE LifeStep
    <2>1. \A u \in Texts \ {t} : ~InLine(u, composer)
      BY <1>6 DEF IInv, Alone, Solo, InLine
    <2>2. ~InLine(t, outbox) /\ ~InTurns(t)
      BY <1>6 DEF IInv, OnePlace
    <2>3. PlaceOf(t) = "underway" /\ PlaceOf(t)' = "turn"
      BY <1>1, <1>6, <2>2, PlaceMeans, PlaceMeansNext
    <2>4. Life!Goes(t, PlaceOf(t)')
      BY <1>4, <2>1, PlaceGoes
    <2>5. Life!Submit(t)
      BY <2>3, <2>4 DEF Life!Submit
    <2> QED BY <2>5 DEF LifeStep, Life!LNext
  <1> QED BY <1>3, <1>5, <1>6

\* What the user types is no reply.
LEMMA TypeKeyLife == ASSUME IInv, LifeInv, TypeKey PROVE LifeInv' /\ LifeStep
  <1>1. UNCHANGED <<wire, outbox, seen, task, rows, told>>
    BY DEF TypeKey, pty
  <1>2. CASE Submit
    BY <1>1, <1>2, SubmitLife
  <1>3. CASE composer' = Append(composer, Key) /\ turns' = turns
    <2>1. \A u \in Texts : InLine(u, composer') <=> InLine(u, composer)
      <3>1. Key \notin Texts /\ composer \in Seq(Texts \cup {Key})
        BY DEF IInv, TypeOK, Lines
      <3> QED BY <1>3, <3>1, AppendedLine
    <2>2. \A u : (Handed(u)' <=> Handed(u)) /\ (InTurns(u)' <=> InTurns(u))
      BY <1>1, <1>3 DEF Handed, InTurns
    <2>3. Known'
      <3>1. \A u \in Texts : Placed(u)' => Placed(u)
        BY <1>1, <2>1, <2>2 DEF Placed
      <3> QED BY <1>1, <3>1, KnownKept DEF LifeInv
    <2>4. Traced'
      BY <1>1, <2>1, <2>2 DEF LifeInv, Traced
    <2>5. \A u \in Texts : PlaceOf(u)' = PlaceOf(u)
      BY <1>1, <2>1, <2>2, PlaceMeans, PlaceMeansNext
    <2> QED BY <1>1, <2>3, <2>4, <2>5, PlaceStays DEF LifeInv, LifeStep
  <1> QED BY <1>2, <1>3 DEF TypeKey

\* Steps that touch neither the lines nor the read loops.  A row that lands was
\* handed over: the transcript shows its reply.
LEMMA QuietLife ==
    ASSUME LifeInv, UNCHANGED <<lines, task, told>>,
           \A u \in Texts : /\ rows[u] = NoRow => rows'[u] = NoRow
                            /\ rows[u].status \in {"delivered", "landed"}
                                  => rows'[u].status \in {"delivered", "landed"}
                            /\ Handed(u)' => Handed(u)
    PROVE  LifeInv' /\ LifeStep
  <1>1. \A u \in Texts : Handed(u)' <=> Handed(u)
    BY DEF Handed
  <1>2. Known'
    <2>1. \A u \in Texts : Placed(u)' => Placed(u)
      BY LinesKept
    <2> QED BY <2>1, KnownKept DEF LifeInv, lines
  <1> QED BY <1>1, <1>2, NothingMoves, PlaceStays DEF LifeInv, LifeStep

LEMMA LandLife == ASSUME IInv, LifeInv, NEW t \in Texts, Land(t) PROVE LifeInv' /\ LifeStep
  <1>1. UNCHANGED <<lines, task, told>> /\ t \in landing /\ rows' = Marked(t)
    BY DEF Land, pty, agent, lines
  <1>2. Handed(t)
    <2>1. Reported(t) /\ seen \in 0..Len(turns) /\ turns \in Seq(Lines)
      BY <1>1 DEF IInv, Hooked, TypeOK
    <2>2. PICK i \in DOMAIN turns : turns[i] = <<t>>
      <3>1. Len(turns) \in Nat /\ DOMAIN turns = 1..Len(turns) /\ 1..seen \subseteq 1..Len(turns)
        BY <2>1, LenProperties
      <3> QED BY <2>1, <3>1 DEF Reported
    <2>3. InLine(t, turns[i])
      BY <2>2 DEF InLine
    <2> QED BY <2>3 DEF LifeInv, Traced, InTurns
  <1>3. /\ \A u \in Texts \ {t} : rows'[u] = rows[u]
        /\ rows'[t] = rows[t] \/ (rows[t].sid /\ rows'[t].status = "landed")
    BY <1>1 DEF Marked, IInv, TypeOK
  <1>4. \A u \in Texts : /\ rows[u] = NoRow => rows'[u] = NoRow
                         /\ rows[u].status \in {"delivered", "landed"}
                               => rows'[u].status \in {"delivered", "landed"}
    BY <1>3 DEF NoRow
  <1>5. \A u \in Texts : Handed(u)' => Handed(u)
    BY <1>1, <1>2, <1>3 DEF Handed
  <1> QED BY <1>1, <1>4, <1>5, QuietLife

LEMMA NextLife == IInv /\ IInv' /\ LifeInv /\ [Next]_vars => LifeInv' /\ LifeStep
  <1> SUFFICES ASSUME IInv, IInv', LifeInv, [Next]_vars PROVE LifeInv' /\ LifeStep
    OBVIOUS
  <1>1. ASSUME UNCHANGED <<lines, task, told, rows>> PROVE LifeInv' /\ LifeStep
    <2>1. \A u \in Texts : Handed(u)' => Handed(u)
      BY <1>1 DEF Handed
    <2> QED BY <1>1, <2>1, QuietLife
  <1>2. ASSUME NEW c \in Clients, NEW t \in Texts, Send(c, t) PROVE LifeInv' /\ LifeStep
    BY <1>2, SendLife
  <1>3. ASSUME NEW c \in Clients, Serve(c) PROVE LifeInv' /\ LifeStep
    BY <1>3, ServeLife
  <1>4. ASSUME NEW k \in Conns, Dial(k) \/ Register(k) \/ HandlerEnds(k)
        PROVE  LifeInv' /\ LifeStep
    BY <1>1, <1>4 DEF Dial, Register, HandlerEnds, agent, lines
  <1>5. CASE PressEnter
    BY <1>5, SubmitLife DEF PressEnter
  <1>6. CASE Appear \/ Report \/ UNCHANGED vars
    BY <1>1, <1>6 DEF Appear, Report, vars, pty, agent, lines
  <1>7. ASSUME NEW t \in Texts, Land(t) PROVE LifeInv' /\ LifeStep
    BY <1>7, LandLife
  <1> QED BY <1>2, <1>3, <1>4, <1>5, <1>6, <1>7, BreakLife, ReadFrameLife, TypeKeyLife
          DEF Next

\* Every run of the terminal's side is a run of ReplyLife: a reply goes one way,
\* its sender is told once and truly where it went, and a reply that "failed" or
\* was "queued" is in no turn later (inject.go:49-82, ws.go:442-458).
THEOREM ImplementsReplyLife == Spec => ImplementsLife
  <1>1. Init => LifeInv /\ Life!LInit
    BY InitLife
  <1>2. IInv /\ IInv' /\ LifeInv /\ [Next]_vars => LifeInv' /\ [Life!LNext]_(Life!lvars)
    BY NextLife DEF LifeStep
  <1> QED BY <1>1, <1>2, InvHolds, PTL DEF Spec, ImplementsLife, Life!LSpec
=============================================================================

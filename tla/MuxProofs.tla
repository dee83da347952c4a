----------------------------- MODULE MuxProofs -----------------------------
(***************************************************************************)
(* What TLAPS proves about Mux, for every number of sessions, threads,     *)
(* session objects and goroutines and for every choice of the times.       *)
(*                                                                         *)
(* TypeOK is not inductive: a goroutine's next step looks up the session   *)
(* its stack frame names, and announces the state it captured, so that the *)
(* invariant must say what frames, timers and the session map point to.    *)
(***************************************************************************)
EXTENDS Mux, FiniteSetTheorems, TLAPS

\* The goroutines inside Ingest, and the states Ingest announces.
Ingesting == {"starting", "started", "moved", "told"}
Announced == States \ {"STARTING"}

\* A goroutine inside the mux names a session; inside Ingest it also points
\* to a session object that has a name, and has captured the state it announces.
Named(f, ids) ==
    /\ f.pc # "ready" => f.sid \in Sessions
    /\ f.pc \in Ingesting =>
          f.obj \in Objs /\ ids[f.obj] \in Sessions /\ f.after \in Announced

FramesNamed == \A p \in Procs : Named(task[p], id)

\* A running timer names a session.
TimersNamed == \A o \in Objs : idleTimer[o] # Nil => id[o] \in Sessions

\* The map files an object under its own id.
MapNamed == \A s \in Sessions : sessions[s] # Nil => id[sessions[s]] = s

Inv == TypeOK /\ FramesNamed /\ TimersNamed /\ MapNamed /\ IndexConsistent

(***************************************************************************)
(* The operators the actions are built from.                               *)
(***************************************************************************)

\* The state an event leads to is one the mux can announce, except that
\* session_start leaves a session that has started as it is.
LEMMA AbsorbType ==
    ASSUME NEW st \in States, NEW ty \in EventTypes
    PROVE  /\ Absorb(st, ty) \in States
           /\ Absorb(st, ty) # st => Absorb(st, ty) \in Announced
           /\ st = "STARTING" => Absorb(st, ty) \in Announced
  BY DEF States, EventTypes, Absorb, Announced

LEMMA AnnounceType ==
    ASSUME NEW st \in Announced
    PROVE  Announce(st) \in Broadcasts
  BY DEF States, Announced, Announce, Broadcasts

LEMMA OlderType ==
    ASSUME NEW limit \in Nat, NEW age \in 0..limit
    PROVE  Older(age, limit) \in 0..limit
  BY DEF Older

LEMMA AppliedType == \A b : Applied(b) \in States
  BY DEF Applied, States

LEMMA CrossedType ==
    ASSUME Inv, NEW s \in Sessions
    PROVE  Crossed(s) \in SUBSET Sessions
  BY DEF Inv, TypeOK, Crossed

\* A step that gives one goroutine a new frame, and takes no object its name.
LEMMA FrameStep ==
    ASSUME Inv, NEW p \in Procs, NEW f \in Frames, task' = [task EXCEPT ![p] = f],
           \A o \in Objs : id[o] \in Sessions => id'[o] \in Sessions,
           Named(f, id')
    PROVE  task' \in [Procs -> Frames] /\ FramesNamed'
  <1>1. task' \in [Procs -> Frames]
    BY DEF Inv, TypeOK
  <1>2. ASSUME NEW q \in Procs PROVE Named(task'[q], id')
    <2>1. CASE q = p
      <3>1. task'[q] = f
        BY <2>1 DEF Inv, TypeOK
      <3> QED BY <3>1 DEF Named
    <2>2. CASE q # p
      <3>1. task'[q] = task[q]
        BY <2>2 DEF Inv, TypeOK
      <3>2. Named(task[q], id)
        BY DEF Inv, FramesNamed
      <3> QED BY <3>1, <3>2 DEF Named
    <2> QED BY <2>1, <2>2
  <1> QED BY <1>1, <1>2 DEF FramesNamed

LEMMA FrameType ==
    ASSUME NEW pc \in Pcs, NEW o \in Objs \cup {Nil}, NEW s \in Sessions \cup {Nil},
           NEW after \in States \cup {Nil}, NEW out \in Broadcasts \cup {Nil}
    PROVE  [pc |-> pc, obj |-> o, sid |-> s, after |-> after, out |-> out] \in Frames
  BY DEF Frames

LEMMA ReadyType == Ready \in Frames /\ \A ids : Named(Ready, ids)
  BY DEF Ready, Frames, Pcs, Named, Ingesting

(***************************************************************************)
(* The initial states.                                                     *)
(***************************************************************************)

LEMMA InitInv == Init => Inv
  <1> SUFFICES ASSUME Init PROVE Inv
    OBVIOUS
  <1>1. TypeOK
    <2>1. registered \in SUBSET Sessions
      BY FeedsAssumption DEF Init
    <2>2. task \in [Procs -> Frames]
      BY ReadyType DEF Init
    <2>3. /\ idleTimer \in [Objs -> (0..IdleDebounce) \cup {Nil}]
          /\ accepted \in [Keys -> 0..DedupWindow]
      BY TimeAssumption DEF Init
    <2>4. /\ sessions \in [Sessions -> Objs \cup {Nil}]
          /\ threads \in [Threads -> SUBSET Sessions]
          /\ recent \in [Keys -> (0..GCAge + 1) \cup {Nil}]
          /\ id \in [Objs -> Sessions \cup {Nil}]
          /\ threadID \in [Objs -> Threads \cup {Nil}]
          /\ state \in [Objs -> States]
          /\ quiet \in [Objs -> Nat]
      BY DEF Init, States
    <2>5. /\ victims \in [Sweepers -> SUBSET Sessions]
          /\ owed \in [Sessions -> Int]
          /\ absent \in [Sweepers -> SUBSET Sessions]
          /\ mirror \in [Sessions -> States]
          /\ crossed \in SUBSET Sessions
      BY DEF Init, States
    <2>6. closed \in BOOLEAN
      BY DEF Init
    <2> QED BY <2>1, <2>2, <2>3, <2>4, <2>5, <2>6 DEF TypeOK
  <1>2. FramesNamed
    BY DEF Init, FramesNamed, Named, Ready, Ingesting
  <1>3. TimersNamed /\ MapNamed /\ IndexConsistent
    BY DEF Init, TimersNamed, MapNamed, IndexConsistent
  <1> QED BY <1>1, <1>2, <1>3 DEF Inv

(***************************************************************************)
(* The actions that touch neither objects nor frames.                      *)
(***************************************************************************)

LEMMA RegisterInv ==
    ASSUME Inv, NEW s \in Sessions, Register(s) \/ Unregister(s)
    PROVE  Inv'
  <1>1. /\ UNCHANGED <<sessions, threads, recent, heap, task, victims, closed>>
        /\ UNCHANGED <<accepted, owed, mirror, crossed>>
    BY DEF Register, Unregister, history
  <1>2. registered' \in SUBSET Sessions /\ absent' \in [Sweepers -> SUBSET Sessions]
    BY DEF Register, Unregister, history, Inv, TypeOK
  <1>3. TypeOK'
    BY <1>1, <1>2 DEF Inv, TypeOK, heap
  <1>4. FramesNamed' /\ TimersNamed' /\ MapNamed' /\ IndexConsistent'
    BY <1>1 DEF Inv, FramesNamed, Named, TimersNamed, MapNamed, IndexConsistent, heap
  <1> QED BY <1>3, <1>4 DEF Inv

LEMMA SweepSelectInv ==
    ASSUME Inv, NEW r \in Procs, SweepSelect(r)
    PROVE  Inv'
  <1>1. /\ UNCHANGED <<sessions, threads, recent, heap, task, closed, registered>>
        /\ UNCHANGED <<accepted, owed, mirror, crossed>>
    BY DEF SweepSelect
  <1>2. victims' \in [Sweepers -> SUBSET Sessions] /\ absent' \in [Sweepers -> SUBSET Sessions]
    BY DEF SweepSelect, Retained, Inv, TypeOK
  <1>3. TypeOK'
    BY <1>1, <1>2 DEF Inv, TypeOK, heap
  <1>4. FramesNamed' /\ TimersNamed' /\ MapNamed' /\ IndexConsistent'
    BY <1>1 DEF Inv, FramesNamed, Named, TimersNamed, MapNamed, IndexConsistent, heap
  <1> QED BY <1>3, <1>4 DEF Inv

LEMMA GCRecentInv == Inv /\ GCRecent => Inv'
  <1> SUFFICES ASSUME Inv, GCRecent PROVE Inv'
    OBVIOUS
  <1>1. /\ UNCHANGED <<sessions, threads, heap, task, victims, closed, registered>>
        /\ UNCHANGED history
    BY DEF GCRecent
  <1>2. recent' \in [Keys -> (0..GCAge + 1) \cup {Nil}]
    BY DEF GCRecent, Inv, TypeOK
  <1>3. TypeOK'
    BY <1>1, <1>2 DEF Inv, TypeOK, heap, history
  <1>4. FramesNamed' /\ TimersNamed' /\ MapNamed' /\ IndexConsistent'
    BY <1>1 DEF Inv, FramesNamed, Named, TimersNamed, MapNamed, IndexConsistent, heap
  <1> QED BY <1>3, <1>4 DEF Inv

LEMMA CloseInv == Inv /\ Close => Inv'
  <1> SUFFICES ASSUME Inv, Close PROVE Inv'
    OBVIOUS
  <1>1. /\ UNCHANGED <<sessions, threads, recent, id, threadID, state, quiet, task>>
        /\ UNCHANGED <<victims, registered, history>>
    BY DEF Close
  <1>2. closed' \in BOOLEAN
    BY DEF Close
  <1>3. /\ idleTimer' \in [Objs -> (0..IdleDebounce) \cup {Nil}]
        /\ \A o \in Objs : idleTimer'[o] # Nil => idleTimer[o] # Nil
    BY DEF Close, Inv, TypeOK
  <1>4. TypeOK'
    BY <1>1, <1>2, <1>3 DEF Inv, TypeOK, history
  <1>5. FramesNamed' /\ TimersNamed' /\ MapNamed' /\ IndexConsistent'
    BY <1>1, <1>3 DEF Inv, FramesNamed, Named, TimersNamed, MapNamed, IndexConsistent
  <1> QED BY <1>4, <1>5 DEF Inv

LEMMA TickInv == Inv /\ Tick => Inv'
  <1> SUFFICES ASSUME Inv, Tick PROVE Inv'
    OBVIOUS
  <1>1. /\ UNCHANGED <<sessions, threads, id, threadID, state, task, victims, closed>>
        /\ UNCHANGED <<registered, owed, absent, mirror, crossed>>
    BY DEF Tick
  <1>2. recent' \in [Keys -> (0..GCAge + 1) \cup {Nil}]
    BY TimeAssumption, NilAssumption DEF Tick, Inv, TypeOK, Older
  <1>3. /\ idleTimer' \in [Objs -> (0..IdleDebounce) \cup {Nil}]
        /\ \A o \in Objs : idleTimer'[o] # Nil => idleTimer[o] # Nil
    BY TimeAssumption, NilAssumption DEF Tick, Inv, TypeOK
  <1>4. quiet' \in [Objs -> Nat]
    BY TimeAssumption DEF Tick, Inv, TypeOK, Older
  <1>5. accepted' \in [Keys -> 0..DedupWindow]
    BY TimeAssumption DEF Tick, Inv, TypeOK, Older
  <1>6. TypeOK'
    BY <1>1, <1>2, <1>3, <1>4, <1>5 DEF Inv, TypeOK
  <1>7. FramesNamed' /\ TimersNamed' /\ MapNamed' /\ IndexConsistent'
    BY <1>1, <1>3 DEF Inv, FramesNamed, Named, TimersNamed, MapNamed, IndexConsistent
  <1> QED BY <1>6, <1>7 DEF Inv

(***************************************************************************)
(* The steps of a goroutine between its critical sections.                 *)
(***************************************************************************)

LEMMA LookupForReplyInv ==
    ASSUME Inv, NEW p \in Procs, NEW th \in Threads, LookupForReply(p, th)
    PROVE  Inv'
  <1>1. /\ UNCHANGED <<sessions, threads, recent, heap, victims, closed, registered>>
        /\ UNCHANGED history
    BY DEF LookupForReply
  <1>2. PICK s \in Best(th) : SetTask(p, "reply", sessions[s], s, Nil, Nil)
    BY DEF LookupForReply
  <1> DEFINE f == [pc |-> "reply", obj |-> sessions[s], sid |-> s, after |-> Nil,
                   out |-> Nil]
  <1>3. s \in Sessions /\ sessions[s] \in Objs \cup {Nil}
    BY DEF Best, Inv, TypeOK
  <1>4. f \in Frames /\ Named(f, id')
    BY <1>3, FrameType DEF Pcs, Named, Ingesting
  <1>5. task' \in [Procs -> Frames] /\ FramesNamed'
    BY <1>1, <1>2, <1>4, FrameStep DEF SetTask, heap
  <1>6. TypeOK'
    BY <1>1, <1>5 DEF Inv, TypeOK, heap, history
  <1>7. TimersNamed' /\ MapNamed' /\ IndexConsistent'
    BY <1>1 DEF Inv, TimersNamed, MapNamed, IndexConsistent, heap
  <1> QED BY <1>5, <1>6, <1>7 DEF Inv

LEMMA SweepAskInv ==
    ASSUME Inv, NEW r \in Procs, NEW s \in Sessions, SweepAsk(r, s)
    PROVE  Inv'
  <1>1. /\ UNCHANGED <<sessions, threads, recent, heap, closed, registered>>
        /\ UNCHANGED history
    BY DEF SweepAsk
  <1>2. victims' \in [Sweepers -> SUBSET Sessions]
    BY DEF SweepAsk, Inv, TypeOK
  <1>3. task' \in [Procs -> Frames] /\ FramesNamed'
    <2>1. CASE UNCHANGED task
      BY <1>1, <2>1 DEF Inv, TypeOK, FramesNamed, Named, heap
    <2>2. CASE SetTask(r, "condemned", Nil, s, Nil, Nil)
      <3> DEFINE f == [pc |-> "condemned", obj |-> Nil, sid |-> s, after |-> Nil,
                       out |-> Nil]
      <3>1. f \in Frames /\ Named(f, id')
        BY FrameType DEF Pcs, Named, Ingesting
      <3> QED BY <1>1, <2>2, <3>1, FrameStep DEF SetTask, heap
    <2> QED BY <2>1, <2>2 DEF SweepAsk
  <1>4. TypeOK'
    BY <1>1, <1>2, <1>3 DEF Inv, TypeOK, heap, history
  <1>5. TimersNamed' /\ MapNamed' /\ IndexConsistent'
    BY <1>1 DEF Inv, TimersNamed, MapNamed, IndexConsistent, heap
  <1> QED BY <1>3, <1>4, <1>5 DEF Inv

LEMMA DeliverInv ==
    ASSUME Inv, NEW p \in Procs, Deliver(p)
    PROVE  Inv'
  <1>1. /\ UNCHANGED <<sessions, threads, recent, heap, victims, closed, registered>>
        /\ UNCHANGED <<accepted, absent, crossed>>
    BY DEF Deliver
  <1>2. task[p] \in Frames /\ Named(task[p], id)
    BY DEF Inv, TypeOK, FramesNamed
  <1>3. owed' \in [Sessions -> Int] /\ mirror' \in [Sessions -> States]
    <2>1. CASE UNCHANGED <<owed, mirror>>
      BY <2>1 DEF Inv, TypeOK
    <2>2. CASE ToSink(task[p].sid, task[p].out)
      <3>1. \A s \in Sessions : owed[s] \in Int /\ owed[s] - 1 \in Int
        BY DEF Inv, TypeOK
      <3>2. owed' \in [Sessions -> Int]
        BY <2>2, <3>1 DEF ToSink, Inv, TypeOK
      <3>3. mirror' \in [Sessions -> States]
        BY <2>2, AppliedType DEF ToSink, Inv, TypeOK
      <3> QED BY <3>2, <3>3
    <2> QED BY <2>1, <2>2 DEF Deliver
  <1>4. task' \in [Procs -> Frames] /\ FramesNamed'
    <2>1. ASSUME NEW pc \in {"started", "told"}, task[p].pc \in Ingesting,
                 task' = [task EXCEPT ![p].pc = pc, ![p].out = Nil]
          PROVE  task' \in [Procs -> Frames] /\ FramesNamed'
      <3> DEFINE f == [task[p] EXCEPT !.pc = pc, !.out = Nil]
      <3>1. task' = [task EXCEPT ![p] = f]
        BY <2>1 DEF Inv, TypeOK, Frames
      <3>2. f \in Frames /\ Named(f, id')
        <4>1. f \in Frames
          BY <1>2 DEF Frames, Pcs
        <4>2. /\ f.sid = task[p].sid /\ f.obj = task[p].obj /\ f.after = task[p].after
              /\ task[p].pc # "ready"
          BY <1>2, <2>1 DEF Frames, Ingesting
        <4> QED BY <1>1, <1>2, <2>1, <4>1, <4>2 DEF Named, heap
      <3> QED BY <1>1, <3>1, <3>2, FrameStep DEF heap
    <2>2. ASSUME task' = [task EXCEPT ![p] = Ready]
          PROVE  task' \in [Procs -> Frames] /\ FramesNamed'
      BY <1>1, <2>2, ReadyType, FrameStep DEF heap
    <2> QED BY <2>1, <2>2 DEF Deliver, Ingesting
  <1>5. TypeOK'
    BY <1>1, <1>3, <1>4 DEF Inv, TypeOK, heap
  <1>6. TimersNamed' /\ MapNamed' /\ IndexConsistent'
    BY <1>1 DEF Inv, TimersNamed, MapNamed, IndexConsistent, heap
  <1> QED BY <1>4, <1>5, <1>6 DEF Inv

\* Arming or stopping the timer of an object that has a name.
LEMMA TimerType ==
    ASSUME Inv, NEW o \in Objs, id[o] \in Sessions, NEW after \in States,
           idleTimer' = Armed(o, after) \/ idleTimer' = [idleTimer EXCEPT ![o] = Nil]
             \/ idleTimer' = [idleTimer EXCEPT ![o] = TimerAfterEmit(o, after)]
    PROVE  /\ idleTimer' \in [Objs -> (0..IdleDebounce) \cup {Nil}]
           /\ \A x \in Objs : idleTimer'[x] # Nil => id[x] \in Sessions
  <1>1. IdleDebounce \in 0..IdleDebounce
    BY TimeAssumption
  <1>2. idleTimer' \in [Objs -> (0..IdleDebounce) \cup {Nil}]
    BY <1>1 DEF Inv, TypeOK, Armed, TimerAfterEmit
  <1>3. \A x \in Objs : x # o => idleTimer'[x] = idleTimer[x]
    BY DEF Inv, TypeOK, Armed, TimerAfterEmit
  <1> QED BY <1>2, <1>3 DEF Inv, TimersNamed

LEMMA AnnounceStateInv ==
    ASSUME Inv, NEW p \in Procs, AnnounceState(p)
    PROVE  Inv'
  <1> DEFINE o == task[p].obj
             after == task[p].after
             f == [pc |-> "moved", obj |-> o, sid |-> task[p].sid, after |-> after,
                   out |-> Announce(after)]
  <1>1. /\ UNCHANGED <<sessions, threads, recent, id, threadID, state, quiet>>
        /\ UNCHANGED <<victims, closed, registered, history>>
    BY DEF AnnounceState
  <1>2. /\ o \in Objs /\ id[o] \in Sessions /\ after \in Announced
        /\ task[p].sid \in Sessions
    BY DEF AnnounceState, Inv, FramesNamed, Named, Ingesting
  <1>3. Announce(after) \in Broadcasts /\ after \in States
    BY <1>2, AnnounceType DEF Announced
  <1>4. f \in Frames /\ Named(f, id')
    BY <1>1, <1>2, <1>3, FrameType DEF Pcs, Named, Ingesting
  <1>5. task' \in [Procs -> Frames] /\ FramesNamed'
    BY <1>1, <1>4, FrameStep DEF AnnounceState, SetTask
  <1>6. /\ idleTimer' \in [Objs -> (0..IdleDebounce) \cup {Nil}]
        /\ TimersNamed'
    BY <1>1, <1>2, <1>3, TimerType DEF AnnounceState, TimersNamed
  <1>7. TypeOK'
    BY <1>1, <1>5, <1>6 DEF Inv, TypeOK, history
  <1>8. MapNamed' /\ IndexConsistent'
    BY <1>1 DEF Inv, MapNamed, IndexConsistent
  <1> QED BY <1>5, <1>6, <1>7, <1>8 DEF Inv

LEMMA FinishIngestInv ==
    ASSUME Inv, NEW p \in Procs, FinishIngest(p)
    PROVE  Inv'
  <1>1. /\ UNCHANGED <<sessions, threads, recent, id, threadID, state, quiet>>
        /\ UNCHANGED <<victims, closed, registered, history>>
    BY DEF FinishIngest
  <1>2. /\ task[p].obj \in Objs /\ id[task[p].obj] \in Sessions
        /\ task[p].after \in States
    BY DEF FinishIngest, Inv, FramesNamed, Named, Ingesting, Announced
  <1>3. task' \in [Procs -> Frames] /\ FramesNamed'
    BY <1>1, ReadyType, FrameStep DEF FinishIngest
  <1>4. /\ idleTimer' \in [Objs -> (0..IdleDebounce) \cup {Nil}]
        /\ TimersNamed'
    BY <1>1, <1>2, TimerType DEF FinishIngest, TimersNamed
  <1>5. TypeOK'
    BY <1>1, <1>3, <1>4 DEF Inv, TypeOK, history
  <1>6. MapNamed' /\ IndexConsistent'
    BY <1>1 DEF Inv, MapNamed, IndexConsistent
  <1> QED BY <1>3, <1>4, <1>5, <1>6 DEF Inv

LEMMA FireInv ==
    ASSUME Inv, NEW o \in Objs, NEW c \in Callbacks, Fire(o, c)
    PROVE  Inv'
  <1> DEFINE f == [pc |-> "infer", obj |-> Nil, sid |-> id[o], after |-> Nil,
                   out |-> Nil]
  <1>1. /\ UNCHANGED <<sessions, threads, recent, id, threadID, state, quiet>>
        /\ UNCHANGED <<victims, closed, registered, history>>
    BY DEF Fire
  <1>2. id[o] \in Sessions
    BY NilAssumption DEF Fire, Inv, TimersNamed
  <1>3. f \in Frames /\ Named(f, id') /\ c \in Procs
    BY <1>2, FrameType DEF Pcs, Named, Ingesting, Procs
  <1>4. task' \in [Procs -> Frames] /\ FramesNamed'
    BY <1>1, <1>3, FrameStep DEF Fire, SetTask
  <1>5. /\ idleTimer' \in [Objs -> (0..IdleDebounce) \cup {Nil}]
        /\ TimersNamed'
    BY <1>1, <1>2, TimerType DEF Fire, TimersNamed, States
  <1>6. TypeOK'
    BY <1>1, <1>4, <1>5 DEF Inv, TypeOK, history
  <1>7. MapNamed' /\ IndexConsistent'
    BY <1>1 DEF Inv, MapNamed, IndexConsistent
  <1> QED BY <1>4, <1>5, <1>6, <1>7 DEF Inv

LEMMA InferIdleInv ==
    ASSUME Inv, NEW c \in Procs, InferIdle(c)
    PROVE  Inv'
  <1> DEFINE s == task[c].sid
             o == sessions[s]
             f == [pc |-> "ending", obj |-> o, sid |-> s, after |-> Nil,
                   out |-> "thread_idle"]
  <1>1. /\ UNCHANGED <<sessions, threads, recent, id, threadID, idleTimer, quiet>>
        /\ UNCHANGED <<victims, closed, registered, accepted, owed, absent, mirror>>
    BY DEF InferIdle
  <1>2. s \in Sessions /\ o \in Objs \cup {Nil}
    BY DEF InferIdle, Inv, TypeOK, FramesNamed, Named
  <1>3. state' \in [Objs -> States]
    BY DEF InferIdle, Inv, TypeOK, States
  <1>4. f \in Frames /\ Named(f, id')
    BY <1>2, FrameType DEF Pcs, Named, Ingesting, Broadcasts
  <1>5. task' \in [Procs -> Frames] /\ FramesNamed'
    BY <1>1, <1>4, ReadyType, FrameStep DEF InferIdle, SetTask
  <1>6. crossed' \in SUBSET Sessions
    BY <1>2, CrossedType DEF InferIdle, Inv, TypeOK
  <1>7. TypeOK'
    BY <1>1, <1>3, <1>5, <1>6 DEF Inv, TypeOK
  <1>8. TimersNamed' /\ MapNamed' /\ IndexConsistent'
    BY <1>1 DEF Inv, TimersNamed, MapNamed, IndexConsistent
  <1> QED BY <1>5, <1>7, <1>8 DEF Inv

(***************************************************************************)
(* Death from outside.                                                     *)
(***************************************************************************)

LEMMA OweType ==
    ASSUME Inv, NEW s, NEW before, NEW after, owed' = Owe(s, before, after)
    PROVE  owed' \in [Sessions -> Int]
  <1>1. \A u \in Sessions : owed[u] + 1 \in Int
    BY DEF Inv, TypeOK
  <1>2. owed \in [Sessions -> Int]
    BY DEF Inv, TypeOK
  <1> QED BY <1>1, <1>2 DEF Owe

\* MarkDead's critical section, whoever enters it.
LEMMA KillInv ==
    ASSUME Inv, NEW p \in Procs, NEW s \in Sessions, Kill(p, s),
           UNCHANGED <<sessions, threads, recent, id, threadID, quiet, victims>>,
           UNCHANGED <<closed, registered, accepted, absent, mirror>>
    PROVE  Inv'
  <1> DEFINE o == sessions[s]
             f == [pc |-> "ending", obj |-> o, sid |-> s, after |-> Nil,
                   out |-> "thread_ended"]
  <1>1. o \in Objs /\ id[o] \in Sessions
    BY DEF Kill, Alive, Inv, TypeOK, MapNamed
  <1>2. f \in Frames /\ Named(f, id')
    BY <1>1, FrameType DEF Pcs, Named, Ingesting, Broadcasts
  <1>3. task' \in [Procs -> Frames] /\ FramesNamed'
    BY <1>2, FrameStep DEF Kill, SetTask
  <1>4. state' \in [Objs -> States]
    BY DEF Kill, Inv, TypeOK, States
  <1>5. owed' \in [Sessions -> Int]
    BY OweType DEF Kill
  <1>6. /\ idleTimer' \in [Objs -> (0..IdleDebounce) \cup {Nil}]
        /\ TimersNamed'
    BY <1>1, TimerType DEF Kill, TimersNamed, States
  <1>7. crossed' \in SUBSET Sessions
    BY CrossedType DEF Kill
  <1>8. TypeOK'
    BY <1>3, <1>4, <1>5, <1>6, <1>7 DEF Inv, TypeOK
  <1>9. MapNamed' /\ IndexConsistent'
    BY DEF Inv, MapNamed, IndexConsistent
  <1> QED BY <1>3, <1>6, <1>8, <1>9 DEF Inv

LEMMA MarkDeadInv ==
    ASSUME Inv, NEW p \in Procs, NEW s \in Sessions, MarkDead(p, s)
    PROVE  Inv'
  BY KillInv DEF MarkDead

LEMMA SweepKillInv ==
    ASSUME Inv, NEW r \in Procs, SweepKill(r)
    PROVE  Inv'
  <1>1. /\ UNCHANGED <<sessions, threads, recent, id, threadID, quiet, victims>>
        /\ UNCHANGED <<closed, registered, accepted, absent, mirror>>
        /\ task[r].pc = "condemned"
    BY DEF SweepKill
  <1>2. task[r].sid \in Sessions
    BY <1>1 DEF Inv, FramesNamed, Named
  <1>3. CASE Kill(r, task[r].sid)
    BY <1>1, <1>2, <1>3, KillInv
  <1>4. CASE /\ task' = [task EXCEPT ![r] = Ready]
             /\ UNCHANGED <<idleTimer, state, owed, crossed>>
    <2>1. task' \in [Procs -> Frames] /\ FramesNamed'
      BY <1>1, <1>4, ReadyType, FrameStep
    <2>2. TypeOK'
      BY <1>1, <1>4, <2>1 DEF Inv, TypeOK
    <2>3. TimersNamed' /\ MapNamed' /\ IndexConsistent'
      BY <1>1, <1>4 DEF Inv, TimersNamed, MapNamed, IndexConsistent
    <2> QED BY <2>1, <2>2, <2>3 DEF Inv
  <1> QED BY <1>3, <1>4 DEF SweepKill

(***************************************************************************)
(* Ingest.                                                                 *)
(***************************************************************************)

\* What every accepted event does to the dedup table and the history.
LEMMA AcceptType ==
    ASSUME Inv, NEW s \in Sessions, NEW ty \in EventTypes
    PROVE  /\ recent' = Recorded(s, ty) => recent' \in [Keys -> (0..GCAge + 1) \cup {Nil}]
           /\ accepted' = Accepted(s, ty) => accepted' \in [Keys -> 0..DedupWindow]
  <1>1. 0 \in 0..GCAge + 1 /\ 0 \in 0..IdleDebounce /\ 0 \in 0..DedupWindow
    BY TimeAssumption
  <1> QED BY <1>1 DEF Recorded, Accepted, Inv, TypeOK

LEMMA IngestDuplicateInv ==
    ASSUME Inv, NEW p \in Procs, NEW s \in Sessions, NEW ty \in EventTypes,
           NEW lag \in Nat, NEW th \in Threads, IngestDuplicate(p, s, ty, lag, th)
    PROVE  Inv'
  <1>1. /\ UNCHANGED <<sessions, threads, recent, heap, task, victims, closed>>
        /\ UNCHANGED <<registered, history>>
    BY DEF IngestDuplicate
  <1>2. TypeOK'
    BY <1>1 DEF Inv, TypeOK, heap, history
  <1>3. FramesNamed' /\ TimersNamed' /\ MapNamed' /\ IndexConsistent'
    BY <1>1 DEF Inv, FramesNamed, Named, TimersNamed, MapNamed, IndexConsistent, heap
  <1> QED BY <1>2, <1>3 DEF Inv

LEMMA IngestKnownInv ==
    ASSUME Inv, NEW p \in Procs, NEW s \in Sessions, NEW ty \in EventTypes,
           NEW lag \in Nat, NEW th \in Threads, IngestKnown(p, s, ty, lag, th)
    PROVE  Inv'
  <1> DEFINE o == sessions[s]
             before == state[o]
             after == Absorb(before, ty)
             f == [pc |-> "moved", obj |-> o, sid |-> s, after |-> after,
                   out |-> Announce(after)]
  <1>1. /\ UNCHANGED <<sessions, threads, id, threadID, victims, closed, registered>>
        /\ UNCHANGED <<absent, mirror>>
    BY DEF IngestKnown
  <1>2. o \in Objs /\ id[o] \in Sessions /\ before \in States
    BY DEF IngestKnown, Inv, TypeOK, MapNamed
  <1>3. after \in States /\ (after # before => after \in Announced)
    BY <1>2, AbsorbType
  <1>4. task' \in [Procs -> Frames] /\ FramesNamed'
    <2>1. CASE task' = [task EXCEPT ![p] = Ready]
      BY <1>1, <2>1, ReadyType, FrameStep
    <2>2. CASE after # before /\ task' = [task EXCEPT ![p] = f]
      <3>1. f \in Frames /\ Named(f, id')
        BY <1>1, <1>2, <1>3, <2>2, AnnounceType, FrameType DEF Pcs, Named, Ingesting
      <3> QED BY <1>1, <2>2, <3>1, FrameStep
    <2> QED BY <2>1, <2>2 DEF IngestKnown, Moved, SetTask
  <1>5. /\ idleTimer' \in [Objs -> (0..IdleDebounce) \cup {Nil}]
        /\ TimersNamed'
    BY <1>1, <1>2, <1>3, TimerType DEF IngestKnown, TimersNamed
  <1>6. state' \in [Objs -> States] /\ quiet' \in [Objs -> Nat]
    BY <1>2, <1>3 DEF IngestKnown, Inv, TypeOK
  <1>7. /\ recent' \in [Keys -> (0..GCAge + 1) \cup {Nil}]
        /\ accepted' \in [Keys -> 0..DedupWindow]
    BY AcceptType DEF IngestKnown
  <1>8. owed' \in [Sessions -> Int]
    BY OweType DEF IngestKnown
  <1>9. crossed' \in SUBSET Sessions
    BY CrossedType DEF IngestKnown, Inv, TypeOK
  <1>10. TypeOK'
    BY <1>1, <1>4, <1>5, <1>6, <1>7, <1>8, <1>9 DEF Inv, TypeOK
  <1>11. MapNamed' /\ IndexConsistent'
    BY <1>1 DEF Inv, MapNamed, IndexConsistent
  <1> QED BY <1>4, <1>5, <1>10, <1>11 DEF Inv

LEMMA IngestNewInv ==
    ASSUME Inv, NEW p \in Procs, NEW s \in Sessions, NEW ty \in EventTypes,
           NEW lag \in Nat, NEW th \in Threads, IngestNew(p, s, ty, lag, th)
    PROVE  Inv'
  <1> DEFINE after == Absorb("STARTING", ty)
  <1>1. /\ UNCHANGED <<idleTimer, victims, closed, registered, absent, mirror>>
        /\ sessions[s] = Nil
    BY DEF IngestNew
  <1>2. PICK o \in Free, reaped \in SUBSET Sessions :
          /\ sessions' = [u \in Sessions |->
                            IF u = s THEN o ELSE IF u \in reaped THEN Nil ELSE sessions[u]]
          /\ threads' = Indexed(s, th, reaped)
          /\ id' = [id EXCEPT ![o] = s]
          /\ threadID' = [threadID EXCEPT ![o] = th]
          /\ state' = [state EXCEPT ![o] = after]
          /\ quiet' = [quiet EXCEPT ![o] = lag]
          /\ SetTask(p, "starting", o, s, after, "thread_started")
    BY DEF IngestNew
  <1> DEFINE f == [pc |-> "starting", obj |-> o, sid |-> s, after |-> after,
                   out |-> "thread_started"]
  <1>3. /\ o \in Objs /\ o # Nil
        /\ \A u \in Sessions : sessions[u] # Nil => sessions[u] # o
    BY NilAssumption DEF Free, Referenced, Retained
  <1>4. after \in States /\ after \in Announced
    BY AbsorbType DEF States
  <1>5. f \in Frames /\ Named(f, id') /\ \A x \in Objs : id[x] \in Sessions => id'[x] \in Sessions
    <2>1. f \in Frames
      BY <1>3, <1>4, FrameType DEF Pcs, Broadcasts
    <2>2. id'[o] = s /\ \A x \in Objs : x # o => id'[x] = id[x]
      BY <1>2, <1>3 DEF Inv, TypeOK
    <2> QED BY <1>3, <1>4, <2>1, <2>2 DEF Named, Ingesting
  <1>6. task' \in [Procs -> Frames] /\ FramesNamed'
    BY <1>2, <1>5, FrameStep DEF SetTask
  <1>7. /\ sessions' \in [Sessions -> Objs \cup {Nil}]
        /\ threads' \in [Threads -> SUBSET Sessions]
        /\ id' \in [Objs -> Sessions \cup {Nil}]
        /\ threadID' \in [Objs -> Threads \cup {Nil}]
        /\ state' \in [Objs -> States]
        /\ quiet' \in [Objs -> Nat]
    BY <1>2, <1>3, <1>4 DEF Inv, TypeOK, Indexed
  <1>8. /\ recent' \in [Keys -> (0..GCAge + 1) \cup {Nil}]
        /\ accepted' \in [Keys -> 0..DedupWindow]
    BY AcceptType DEF IngestNew
  <1>9. owed' \in [Sessions -> Int]
    BY OweType DEF IngestNew
  <1>10. crossed' \in SUBSET Sessions
    BY CrossedType DEF IngestNew
  <1>11. TypeOK'
    BY <1>1, <1>6, <1>7, <1>8, <1>9, <1>10 DEF Inv, TypeOK
  <1>12. TimersNamed'
    BY <1>1, <1>5 DEF Inv, TimersNamed
  <1>13. MapNamed'
    BY <1>2, <1>3 DEF Inv, TypeOK, MapNamed
  <1>14. IndexConsistent'
    <2> SUFFICES ASSUME NEW u \in Sessions, NEW t \in Threads
                 PROVE  u \in threads'[t] <=>
                          sessions'[u] # Nil /\ threadID'[sessions'[u]] = t
      BY DEF IndexConsistent
    <2>1. u \in threads'[t] <=> u \in threads[t] \ reaped \/ (u = s /\ t = th)
      BY <1>2 DEF Indexed
    <2>2. u \in threads[t] <=> sessions[u] # Nil /\ threadID[sessions[u]] = t
      BY DEF Inv, IndexConsistent
    <2>3. CASE u = s
      BY <1>1, <1>2, <1>3, <2>1, <2>2, <2>3 DEF Inv, TypeOK
    <2>4. CASE u # s
      BY <1>2, <1>3, <2>1, <2>2, <2>4 DEF Inv, TypeOK
    <2> QED BY <2>3, <2>4
  <1> QED BY <1>6, <1>11, <1>12, <1>13, <1>14 DEF Inv

(***************************************************************************)
(* The inductive invariant, and what follows from it.                      *)
(***************************************************************************)

LEMMA NextInv == Inv /\ [Next]_vars => Inv'
  <1> SUFFICES ASSUME Inv, [Next]_vars PROVE Inv'
    OBVIOUS
  <1>1. ASSUME NEW p \in Procs, NEW s \in Sessions, IngestStep(p, s) PROVE Inv'
    <2>1. PICK ty \in EventTypes, lag \in Lags \cup {0}, th \in Threads :
             \/ IngestDuplicate(p, s, ty, lag, th)
             \/ IngestKnown(p, s, ty, lag, th)
             \/ IngestNew(p, s, ty, lag, th)
      BY <1>1 DEF IngestStep
    <2>2. lag \in Nat
      BY TimeAssumption
    <2> QED BY <2>1, <2>2, IngestDuplicateInv, IngestKnownInv, IngestNewInv
  <1>2. ASSUME NEW p \in Procs, Proceed(p) PROVE Inv'
    BY <1>2, AnnounceStateInv, FinishIngestInv, DeliverInv, InferIdleInv DEF Proceed
  <1>3. ASSUME NEW p \in Procs, NEW th \in Threads, LookupForReply(p, th) PROVE Inv'
    BY <1>3, LookupForReplyInv
  <1>4. ASSUME NEW p \in Procs, NEW s \in Sessions, MarkDead(p, s) PROVE Inv'
    BY <1>4, MarkDeadInv
  <1>5. ASSUME NEW p \in Procs, SweepSelect(p) \/ SweepKill(p) PROVE Inv'
    BY <1>5, SweepSelectInv, SweepKillInv
  <1>6. ASSUME NEW p \in Procs, NEW s \in Sessions, SweepAsk(p, s) PROVE Inv'
    BY <1>6, SweepAskInv
  <1>7. ASSUME NEW s \in Sessions, Register(s) \/ Unregister(s) PROVE Inv'
    BY <1>7, RegisterInv
  <1>8. ASSUME Expire PROVE Inv'
    BY <1>8, FireInv DEF Expire
  <1>9. CASE Tick
    BY <1>9, TickInv
  <1>10. CASE GCRecent
    BY <1>10, GCRecentInv
  <1>11. CASE Close
    BY <1>11, CloseInv
  <1>12. CASE UNCHANGED vars
    BY <1>12 DEF vars, heap, history, Inv, TypeOK, FramesNamed, Named, TimersNamed,
                 MapNamed, IndexConsistent
  <1> QED BY <1>1, <1>2, <1>3, <1>4, <1>5, <1>6, <1>7, <1>8, <1>9, <1>10, <1>11,
             <1>12 DEF Next

THEOREM InvHolds == Spec => []Inv
  BY InitInv, NextInv, PTL DEF Spec

\* Every variable stays in its type, for all values of the constants: no step
\* of any goroutine looks up a session, an object or a state that is not one.
THEOREM TypeCorrect == Spec => []TypeOK
  <1>1. Inv => TypeOK
    BY DEF Inv
  <1> QED BY <1>1, InvHolds, PTL

\* The session map and the thread index agree, whatever the number of sessions,
\* threads and goroutines, and however sessions are reaped and created anew
\* while goroutines hold pointers to the objects reaped (mux.go:641-657,
\* 731-751).
THEOREM IndexIsConsistent == Spec => []IndexConsistent
  <1>1. Inv => IndexConsistent
    BY DEF Inv
  <1> QED BY <1>1, InvHolds, PTL

(***************************************************************************)
(* The dedup table.  An entry and the history of accepted events are both  *)
(* ages of the same event; the history stops counting at the window, the   *)
(* entry later, and gcRecent forgets entries only where it has stopped.    *)
(***************************************************************************)

DedupInv ==
    \A s \in Sessions, ty \in EventTypes :
        Deduped(ty) =>
            accepted[<<s, ty>>] = IF recent[<<s, ty>>] = Nil \/ recent[<<s, ty>>] >= DedupWindow
                                  THEN DedupWindow ELSE recent[<<s, ty>>]

LEMMA InitDedup == Init => DedupInv
  BY DEF Init, DedupInv, Keys

LEMMA DedupUnchanged ==
    ASSUME DedupInv, UNCHANGED <<recent, accepted>>
    PROVE  DedupInv'
  BY DEF DedupInv

LEMMA DedupAccept ==
    ASSUME Inv, DedupInv, NEW s \in Sessions, NEW ty \in EventTypes,
           recent' = Recorded(s, ty), accepted' = Accepted(s, ty)
    PROVE  DedupInv'
  <1> SUFFICES ASSUME NEW u \in Sessions, NEW e \in EventTypes, Deduped(e)
               PROVE  accepted'[<<u, e>>] =
                        IF recent'[<<u, e>>] = Nil \/ recent'[<<u, e>>] >= DedupWindow
                        THEN DedupWindow ELSE recent'[<<u, e>>]
    BY DEF DedupInv
  <1>1. <<u, e>> \in Keys /\ <<s, ty>> \in Keys
    BY DEF Keys
  <1>2. CASE <<u, e>> = <<s, ty>>
    <2>1. accepted'[<<u, e>>] = 0 /\ recent'[<<u, e>>] = 0
      BY <1>1, <1>2 DEF Recorded, Accepted, Inv, TypeOK
    <2> QED BY <2>1, TimeAssumption, NilAssumption
  <1>3. CASE <<u, e>> # <<s, ty>>
    <2>1. accepted'[<<u, e>>] = accepted[<<u, e>>] /\ recent'[<<u, e>>] = recent[<<u, e>>]
      BY <1>1, <1>3 DEF Recorded, Accepted, Inv, TypeOK
    <2> QED BY <2>1 DEF DedupInv
  <1> QED BY <1>2, <1>3

LEMMA DedupGC == Inv /\ DedupInv /\ GCRecent => DedupInv'
  <1> SUFFICES ASSUME Inv, DedupInv, GCRecent,
                      NEW u \in Sessions, NEW e \in EventTypes, Deduped(e)
               PROVE  accepted'[<<u, e>>] =
                        IF recent'[<<u, e>>] = Nil \/ recent'[<<u, e>>] >= DedupWindow
                        THEN DedupWindow ELSE recent'[<<u, e>>]
    BY DEF DedupInv
  <1> DEFINE k == <<u, e>>
  <1>1. /\ accepted' = accepted
        /\ recent'[k] = IF Forgotten(k) THEN Nil ELSE recent[k]
        /\ recent[k] \in (0..GCAge + 1) \cup {Nil}
    BY DEF GCRecent, history, Keys, Inv, TypeOK
  <1>2. accepted[k] = IF recent[k] = Nil \/ recent[k] >= DedupWindow
                      THEN DedupWindow ELSE recent[k]
    BY DEF DedupInv
  <1> QED BY <1>1, <1>2, TimeAssumption DEF Forgotten

LEMMA DedupTick == Inv /\ DedupInv /\ Tick => DedupInv'
  <1> SUFFICES ASSUME Inv, DedupInv, Tick,
                      NEW u \in Sessions, NEW e \in EventTypes, Deduped(e)
               PROVE  accepted'[<<u, e>>] =
                        IF recent'[<<u, e>>] = Nil \/ recent'[<<u, e>>] >= DedupWindow
                        THEN DedupWindow ELSE recent'[<<u, e>>]
    BY DEF DedupInv
  <1> DEFINE k == <<u, e>>
  <1>1. /\ accepted'[k] = Older(accepted[k], DedupWindow)
        /\ recent'[k] = IF recent[k] = Nil THEN Nil ELSE Older(recent[k], GCAge + 1)
        /\ recent[k] \in (0..GCAge + 1) \cup {Nil}
    BY DEF Tick, Keys, Inv, TypeOK
  <1>2. accepted[k] = IF recent[k] = Nil \/ recent[k] >= DedupWindow
                      THEN DedupWindow ELSE recent[k]
    BY DEF DedupInv
  <1> QED BY <1>1, <1>2, TimeAssumption, NilAssumption DEF Older

LEMMA NextDedup == Inv /\ DedupInv /\ [Next]_vars => DedupInv'
  <1> SUFFICES ASSUME Inv, DedupInv, [Next]_vars PROVE DedupInv'
    OBVIOUS
  <1>1. ASSUME NEW p \in Procs, NEW s \in Sessions, IngestStep(p, s) PROVE DedupInv'
    <2>1. PICK ty \in EventTypes, lag \in Lags \cup {0}, th \in Threads :
             \/ IngestDuplicate(p, s, ty, lag, th)
             \/ IngestKnown(p, s, ty, lag, th)
             \/ IngestNew(p, s, ty, lag, th)
      BY <1>1 DEF IngestStep
    <2>2. CASE IngestDuplicate(p, s, ty, lag, th)
      BY <2>2, DedupUnchanged DEF IngestDuplicate, history
    <2>3. CASE IngestKnown(p, s, ty, lag, th)
      BY <2>3, DedupAccept DEF IngestKnown
    <2>4. CASE IngestNew(p, s, ty, lag, th)
      BY <2>4, DedupAccept DEF IngestNew
    <2> QED BY <2>1, <2>2, <2>3, <2>4
  <1>2. ASSUME NEW p \in Procs, Proceed(p) PROVE DedupInv'
    BY <1>2, DedupUnchanged
       DEF Proceed, AnnounceState, FinishIngest, Deliver, InferIdle, history
  <1>3. ASSUME NEW p \in Procs, NEW th \in Threads, LookupForReply(p, th) PROVE DedupInv'
    BY <1>3, DedupUnchanged DEF LookupForReply, history
  <1>4. ASSUME NEW p \in Procs, NEW s \in Sessions, MarkDead(p, s) \/ SweepAsk(p, s)
        PROVE  DedupInv'
    BY <1>4, DedupUnchanged DEF MarkDead, SweepAsk, history
  <1>5. ASSUME NEW p \in Procs, SweepSelect(p) \/ SweepKill(p) PROVE DedupInv'
    BY <1>5, DedupUnchanged DEF SweepSelect, SweepKill
  <1>6. ASSUME NEW s \in Sessions, Register(s) \/ Unregister(s) PROVE DedupInv'
    BY <1>6, DedupUnchanged DEF Register, Unregister, history
  <1>7. ASSUME Expire PROVE DedupInv'
    BY <1>7, DedupUnchanged DEF Expire, Fire, history
  <1>8. CASE Tick
    BY <1>8, DedupTick
  <1>9. CASE GCRecent
    BY <1>9, DedupGC
  <1>10. CASE Close
    BY <1>10, DedupUnchanged DEF Close, history
  <1>11. CASE UNCHANGED vars
    BY <1>11, DedupUnchanged DEF vars, history
  <1> QED BY <1>1, <1>2, <1>3, <1>4, <1>5, <1>6, <1>7, <1>8, <1>9, <1>10, <1>11
          DEF Next

\* An event is collapsed if and only if an identical one was accepted within
\* the dedup window, for every length of the window and every age past it at
\* which gcRecent forgets (mux.go:625-639, 775-784).
THEOREM DedupIsExact == Spec => []DedupExact
  <1>1. Inv /\ DedupInv => DedupExact
    <2> SUFFICES ASSUME Inv, DedupInv, NEW s \in Sessions, NEW ty \in EventTypes,
                        Deduped(ty)
                 PROVE  IsDuplicate(s, ty) <=> accepted[<<s, ty>>] < DedupWindow
      BY DEF DedupExact
    <2>1. recent[<<s, ty>>] \in (0..GCAge + 1) \cup {Nil}
      BY DEF Inv, TypeOK, Keys
    <2> QED BY <2>1, TimeAssumption DEF DedupInv, IsDuplicate
  <1> QED BY <1>1, InitDedup, NextDedup, InvHolds, PTL DEF Spec

(***************************************************************************)
(* Announcements of deaths.  A goroutine has a broadcast in its hand only  *)
(* where it is about to deliver one, and between creating a session and    *)
(* announcing its state that is thread_started.                            *)
(***************************************************************************)

Speechless == {"ready", "reply", "told", "condemned", "infer"}
Spoken(f) ==
    /\ f.pc = "starting" => f.out = "thread_started"
    /\ f.pc \in Speechless \cup {"started"} => f.out = Nil

FramesSpoken == \A p \in Procs : Spoken(task[p])

DeathInv == FramesSpoken /\ EveryDeathAnnounced

\* OwesEnd, of a frame.
Owing(f, s) ==
    /\ f.sid = s
    /\ \/ f.out = "thread_ended"
       \/ f.pc \in {"starting", "started"} /\ f.after = "DEAD"

LEMMA SpeechlessOwesNothing ==
    ASSUME NEW f, Spoken(f), f.pc \in Speechless
    PROVE  \A s : ~Owing(f, s)
  BY NilAssumption DEF Spoken, Speechless, Owing, Broadcasts

LEMMA AnnounceEnd ==
    ASSUME NEW st \in Announced
    PROVE  Announce(st) = "thread_ended" <=> st = "DEAD"
  BY DEF States, Announced, Announce

LEMMA InitDeath == Init => DeathInv
  <1> SUFFICES ASSUME Init PROVE DeathInv
    OBVIOUS
  <1>1. FramesSpoken
    BY DEF Init, FramesSpoken, Spoken, Ready, Speechless
  <1>2. ASSUME NEW s \in Sessions PROVE {p \in Procs : OwesEnd(p, s)} = {}
    BY NilAssumption DEF Init, Ready, OwesEnd, Broadcasts
  <1>3. EveryDeathAnnounced
    BY <1>2, FS_EmptySet DEF Init, EveryDeathAnnounced
  <1> QED BY <1>1, <1>3 DEF DeathInv

LEMMA SameDeaths ==
    ASSUME DeathInv, UNCHANGED <<task, owed>>
    PROVE  DeathInv'
  BY DEF DeathInv, FramesSpoken, EveryDeathAnnounced, OwesEnd

\* One goroutine gets another frame, and the Sink is owed what that frame
\* adds to or takes from what the goroutine has to deliver.
LEMMA OwedStep ==
    ASSUME Inv, DeathInv, NEW p \in Procs, NEW f \in Frames, Spoken(f),
           task' = [task EXCEPT ![p] = f],
           \A s \in Sessions :
               \/ (Owing(f, s) <=> Owing(task[p], s)) /\ owed'[s] = owed[s]
               \/ Owing(f, s) /\ ~Owing(task[p], s) /\ owed'[s] = owed[s] + 1
               \/ ~Owing(f, s) /\ Owing(task[p], s) /\ owed'[s] = owed[s] - 1
    PROVE  DeathInv'
  <1>1. task'[p] = f /\ \A q \in Procs \ {p} : task'[q] = task[q]
    BY DEF Inv, TypeOK
  <1>2. FramesSpoken'
    BY <1>1 DEF DeathInv, FramesSpoken
  <1>3. ASSUME NEW s \in Sessions
        PROVE  owed'[s] = Cardinality({q \in Procs : OwesEnd(q, s)}')
    <2> DEFINE before == {q \in Procs : Owing(task[q], s)}
               after == {q \in Procs : Owing(task'[q], s)}
    <2>1. /\ {q \in Procs : OwesEnd(q, s)} = before
          /\ {q \in Procs : OwesEnd(q, s)}' = after
      BY DEF OwesEnd, Owing
    <2>2. owed[s] = Cardinality(before)
      BY <2>1 DEF DeathInv, EveryDeathAnnounced
    <2>3. IsFiniteSet(before) /\ Cardinality(before) \in Nat
      BY FiniteAssumption, FS_Subset, FS_CardinalityType
    <2>4. p \in before <=> Owing(task[p], s)
      OBVIOUS
    <2>5. after = IF Owing(f, s) THEN before \cup {p} ELSE before \ {p}
      BY <1>1
    <2> HIDE DEF before, after
    <2>6. Cardinality(before \cup {p}) = IF p \in before THEN Cardinality(before)
                                         ELSE Cardinality(before) + 1
      BY <2>3, FS_AddElement
    <2>7. Cardinality(before \ {p}) = IF p \in before THEN Cardinality(before) - 1
                                      ELSE Cardinality(before)
      BY <2>3, FS_RemoveElement
    <2>8. owed'[s] = Cardinality(after)
      BY <2>2, <2>3, <2>4, <2>5, <2>6, <2>7
    <2> QED BY <2>1, <2>8
  <1> QED BY <1>2, <1>3 DEF DeathInv, EveryDeathAnnounced

\* A goroutine that had nothing to deliver gets a frame of session s.
LEMMA DyingStep ==
    ASSUME Inv, DeathInv, NEW p \in Procs, task[p].pc \in Speechless,
           NEW f \in Frames, Spoken(f), task' = [task EXCEPT ![p] = f],
           NEW s \in Sessions, f.sid = s \/ ~Owing(f, f.sid),
           owed' = IF Owing(f, s) THEN [owed EXCEPT ![s] = @ + 1] ELSE owed
    PROVE  DeathInv'
  <1>1. \A u : ~Owing(task[p], u)
    BY SpeechlessOwesNothing DEF DeathInv, FramesSpoken
  <1>2. \A u \in Sessions \ {s} : ~Owing(f, u) /\ owed'[u] = owed[u]
    BY DEF Owing, Inv, TypeOK
  <1>3. Owing(f, s) => owed'[s] = owed[s] + 1
    BY DEF Inv, TypeOK
  <1>4. ~Owing(f, s) => owed'[s] = owed[s]
    OBVIOUS
  <1>5. ASSUME NEW u \in Sessions
        PROVE  \/ (Owing(f, u) <=> Owing(task[p], u)) /\ owed'[u] = owed[u]
               \/ Owing(f, u) /\ ~Owing(task[p], u) /\ owed'[u] = owed[u] + 1
               \/ ~Owing(f, u) /\ Owing(task[p], u) /\ owed'[u] = owed[u] - 1
    <2>1. CASE u = s
      BY <1>1, <1>3, <1>4, <2>1
    <2>2. CASE u # s
      BY <1>1, <1>2, <2>2
    <2> QED BY <2>1, <2>2
  <1> QED BY <1>5, OwedStep

LEMMA ReadyOwesNothing == Ready \in Frames /\ Spoken(Ready) /\ \A s : ~Owing(Ready, s)
  <1>1. Spoken(Ready) /\ Ready.pc \in Speechless
    BY DEF Ready, Spoken, Speechless
  <1> QED BY <1>1, ReadyType, SpeechlessOwesNothing

\* ... or one with nothing to deliver.
LEMMA QuietStep ==
    ASSUME Inv, DeathInv, NEW p \in Procs, task[p].pc \in Speechless,
           NEW f \in Frames, Spoken(f), \A s : ~Owing(f, s),
           task' = [task EXCEPT ![p] = f], UNCHANGED owed
    PROVE  DeathInv'
  <1>1. \A s : ~Owing(task[p], s)
    BY SpeechlessOwesNothing DEF DeathInv, FramesSpoken
  <1> QED BY <1>1, OwedStep

LEMMA IngestDeath ==
    ASSUME Inv, DeathInv, NEW p \in Procs, NEW s \in Sessions, IngestStep(p, s)
    PROVE  DeathInv'
  <1>1. PICK ty \in EventTypes, lag \in Lags \cup {0}, th \in Threads :
           \/ IngestDuplicate(p, s, ty, lag, th)
           \/ IngestKnown(p, s, ty, lag, th)
           \/ IngestNew(p, s, ty, lag, th)
    BY DEF IngestStep
  <1>2. Calling(p, s, ty, lag, th) => task[p].pc \in Speechless
    BY DEF Calling, Speechless
  <1>3. CASE IngestDuplicate(p, s, ty, lag, th)
    BY <1>3, SameDeaths DEF IngestDuplicate, history
  <1>4. CASE IngestKnown(p, s, ty, lag, th)
    <2> DEFINE o == sessions[s]
               before == state[o]
               after == Absorb(before, ty)
               f == [pc |-> "moved", obj |-> o, sid |-> s, after |-> after,
                     out |-> Announce(after)]
    <2>1. o \in Objs /\ before \in States /\ task[p].pc \in Speechless
      BY <1>2, <1>4 DEF IngestKnown, Inv, TypeOK
    <2>2. CASE after = before
      <3>1. task' = [task EXCEPT ![p] = Ready] /\ owed' = owed
        BY <1>4, <2>2 DEF IngestKnown, Moved, Owe
      <3> QED BY <2>1, <3>1, ReadyOwesNothing, QuietStep
    <2>3. CASE after # before
      <3>1. after \in Announced /\ after \in States /\ Announce(after) \in Broadcasts
        BY <2>1, <2>3, AbsorbType, AnnounceType
      <3>2. f \in Frames /\ Spoken(f) /\ f.sid = s
        BY <2>1, <3>1, FrameType DEF Pcs, Spoken, Speechless
      <3>3. Owing(f, s) <=> after = "DEAD"
        BY <3>1, AnnounceEnd DEF Owing
      <3>4. task' = [task EXCEPT ![p] = f] /\ owed' = Owe(s, before, after)
        BY <1>4, <2>3 DEF IngestKnown, Moved, SetTask
      <3>5. owed' = IF Owing(f, s) THEN [owed EXCEPT ![s] = @ + 1] ELSE owed
        BY <2>3, <3>3, <3>4 DEF Owe
      <3> HIDE DEF f
      <3> QED BY <2>1, <3>2, <3>4, <3>5, DyingStep
    <2> QED BY <2>2, <2>3
  <1>5. CASE IngestNew(p, s, ty, lag, th)
    <2> DEFINE after == Absorb("STARTING", ty)
    <2>1. PICK o \in Free : SetTask(p, "starting", o, s, after, "thread_started")
      BY <1>5 DEF IngestNew
    <2> DEFINE f == [pc |-> "starting", obj |-> o, sid |-> s, after |-> after,
                     out |-> "thread_started"]
    <2>2. o \in Objs /\ after \in Announced /\ after \in States
      BY AbsorbType DEF Free, Announced, States
    <2>3. f \in Frames /\ Spoken(f) /\ f.sid = s
      BY <2>2, FrameType DEF Pcs, Spoken, Speechless, Broadcasts
    <2>4. Owing(f, s) <=> after = "DEAD"
      BY DEF Owing
    <2>5. task' = [task EXCEPT ![p] = f] /\ task[p].pc \in Speechless
      BY <1>2, <1>5, <2>1 DEF SetTask, IngestNew
    <2>6. owed' = IF Owing(f, s) THEN [owed EXCEPT ![s] = @ + 1] ELSE owed
      BY <1>5, <2>4 DEF IngestNew, Owe
    <2> HIDE DEF f
    <2> QED BY <2>3, <2>5, <2>6, DyingStep
  <1> QED BY <1>1, <1>3, <1>4, <1>5

LEMMA DeliverDeath ==
    ASSUME Inv, DeathInv, NEW p \in Procs, Deliver(p)
    PROVE  DeathInv'
  <1>1. task[p] \in Frames /\ Spoken(task[p]) /\ Named(task[p], id)
    BY DEF Inv, TypeOK, FramesNamed, DeathInv, FramesSpoken
  <1>2. CASE task[p].pc = "starting" /\ task' = [task EXCEPT ![p].pc = "started", ![p].out = Nil]
             /\ UNCHANGED owed
    <2> DEFINE f == [task[p] EXCEPT !.pc = "started", !.out = Nil]
    <2>1. task' = [task EXCEPT ![p] = f]
      BY <1>2 DEF Inv, TypeOK, Frames
    <2>2. f \in Frames /\ f.pc = "started" /\ f.out = Nil /\ f.sid = task[p].sid
          /\ f.after = task[p].after
      BY <1>1 DEF Frames, Pcs
    <2> HIDE DEF f
    <2>3. Spoken(f) /\ \A s : Owing(f, s) <=> Owing(task[p], s)
      BY <1>1, <1>2, <2>2, NilAssumption DEF Spoken, Owing, Broadcasts
    <2> QED BY <1>2, <2>1, <2>2, <2>3, OwedStep
  <1>3. ASSUME NEW f \in Frames, Spoken(f), \A s : ~Owing(f, s),
               task' = [task EXCEPT ![p] = f], task[p].pc \in {"moved", "ending"},
               ToSink(task[p].sid, task[p].out)
        PROVE  DeathInv'
    <2>1. ASSUME NEW s \in Sessions
          PROVE  \/ (Owing(f, s) <=> Owing(task[p], s)) /\ owed'[s] = owed[s]
                 \/ Owing(f, s) /\ ~Owing(task[p], s) /\ owed'[s] = owed[s] + 1
                 \/ ~Owing(f, s) /\ Owing(task[p], s) /\ owed'[s] = owed[s] - 1
      <3>1. Owing(task[p], s) <=> task[p].sid = s /\ task[p].out = "thread_ended"
        BY <1>3 DEF Owing
      <3>2. owed'[s] = IF task[p].sid = s /\ task[p].out = "thread_ended"
                       THEN owed[s] - 1 ELSE owed[s]
        BY <1>3 DEF ToSink, Inv, TypeOK
      <3> QED BY <1>3, <3>1, <3>2
    <2> QED BY <1>3, <2>1, OwedStep
  <1>4. CASE task[p].pc = "moved" /\ task' = [task EXCEPT ![p].pc = "told", ![p].out = Nil]
             /\ ToSink(task[p].sid, task[p].out)
    <2> DEFINE f == [task[p] EXCEPT !.pc = "told", !.out = Nil]
    <2>1. task' = [task EXCEPT ![p] = f]
      BY <1>4 DEF Inv, TypeOK, Frames
    <2>2. f \in Frames /\ f.pc = "told" /\ f.out = Nil
      BY <1>1 DEF Frames, Pcs
    <2> HIDE DEF f
    <2>3. Spoken(f) /\ f.pc \in Speechless
      BY <2>2 DEF Spoken, Speechless
    <2> QED BY <1>3, <1>4, <2>1, <2>2, <2>3, SpeechlessOwesNothing
  <1>5. CASE task[p].pc = "ending" /\ task' = [task EXCEPT ![p] = Ready]
             /\ ToSink(task[p].sid, task[p].out)
    BY <1>3, <1>5, ReadyOwesNothing
  <1> QED BY <1>2, <1>4, <1>5 DEF Deliver

LEMMA ProceedDeath ==
    ASSUME Inv, DeathInv, NEW p \in Procs, Proceed(p)
    PROVE  DeathInv'
  <1>1. CASE AnnounceState(p)
    <2> DEFINE o == task[p].obj
               after == task[p].after
               f == [pc |-> "moved", obj |-> o, sid |-> task[p].sid, after |-> after,
                     out |-> Announce(after)]
    <2>1. /\ o \in Objs /\ after \in Announced /\ task[p].sid \in Sessions
          /\ Announce(after) \in Broadcasts /\ after \in States
          /\ task[p].pc = "started" /\ task[p].out = Nil
      BY <1>1, AnnounceType
         DEF AnnounceState, Inv, FramesNamed, Named, Ingesting, Announced, DeathInv,
             FramesSpoken, Spoken
    <2>2. f \in Frames /\ Spoken(f)
      BY <2>1, FrameType DEF Pcs, Spoken, Speechless
    <2>3. \A s : Owing(f, s) <=> Owing(task[p], s)
      BY <2>1, AnnounceEnd, NilAssumption DEF Owing, Broadcasts
    <2>4. task' = [task EXCEPT ![p] = f] /\ owed' = owed
      BY <1>1 DEF AnnounceState, SetTask, history
    <2> HIDE DEF f
    <2> QED BY <2>2, <2>3, <2>4, OwedStep
  <1>2. CASE FinishIngest(p)
    BY <1>2, ReadyOwesNothing, QuietStep DEF FinishIngest, Speechless, history
  <1>3. CASE Deliver(p)
    BY <1>3, DeliverDeath
  <1>4. CASE InferIdle(p)
    <2>1. task[p].pc \in Speechless /\ owed' = owed
      BY <1>4 DEF InferIdle, Speechless, history
    <2>2. CASE task' = [task EXCEPT ![p] = Ready]
      BY <2>1, <2>2, ReadyOwesNothing, QuietStep
    <2>3. CASE Inferable(sessions[task[p].sid])
               /\ SetTask(p, "ending", sessions[task[p].sid], task[p].sid, Nil, "thread_idle")
      <3> DEFINE f == [pc |-> "ending", obj |-> sessions[task[p].sid], sid |-> task[p].sid,
                       after |-> Nil, out |-> "thread_idle"]
      <3>1. task[p].sid \in Sessions /\ sessions[task[p].sid] \in Objs \cup {Nil}
        BY <1>4 DEF InferIdle, Inv, TypeOK, FramesNamed, Named
      <3>2. f \in Frames /\ Spoken(f) /\ \A s : ~Owing(f, s)
        BY <3>1, FrameType DEF Pcs, Broadcasts, Spoken, Speechless, Owing
      <3>3. task' = [task EXCEPT ![p] = f]
        BY <2>3 DEF SetTask
      <3> HIDE DEF f
      <3> QED BY <2>1, <3>2, <3>3, QuietStep
    <2> QED BY <1>4, <2>2, <2>3 DEF InferIdle
  <1> QED BY <1>1, <1>2, <1>3, <1>4 DEF Proceed

LEMMA KillDeath ==
    ASSUME Inv, DeathInv, NEW p \in Procs, NEW s \in Sessions, Kill(p, s),
           task[p].pc \in Speechless
    PROVE  DeathInv'
  <1> DEFINE f == [pc |-> "ending", obj |-> sessions[s], sid |-> s, after |-> Nil,
                   out |-> "thread_ended"]
  <1>1. f \in Frames /\ Spoken(f) /\ f.sid = s /\ Owing(f, s)
    BY FrameType DEF Pcs, Broadcasts, Spoken, Speechless, Owing, Inv, TypeOK
  <1>2. task' = [task EXCEPT ![p] = f]
    BY DEF Kill, SetTask
  <1>3. owed' = [owed EXCEPT ![s] = @ + 1]
    BY DEF Kill, Alive, StateOf, Owe
  <1> HIDE DEF f
  <1> QED BY <1>1, <1>2, <1>3, DyingStep

\* A goroutine that had nothing to deliver, and still has not.
LEMMA NamesOnly ==
    ASSUME Inv, DeathInv, NEW p \in Procs, task[p].pc \in Speechless,
           NEW pc \in Pcs \cap Speechless, NEW o \in Objs \cup {Nil},
           NEW s \in Sessions \cup {Nil}, SetTask(p, pc, o, s, Nil, Nil), UNCHANGED owed
    PROVE  DeathInv'
  <1> DEFINE f == [pc |-> pc, obj |-> o, sid |-> s, after |-> Nil, out |-> Nil]
  <1>1. f \in Frames /\ Spoken(f) /\ f.pc \in Speechless
    BY FrameType DEF Spoken, Speechless
  <1>2. task' = [task EXCEPT ![p] = f]
    BY DEF SetTask
  <1> HIDE DEF f
  <1> QED BY <1>1, <1>2, SpeechlessOwesNothing, QuietStep

LEMMA NextDeath == Inv /\ DeathInv /\ [Next]_vars => DeathInv'
  <1> SUFFICES ASSUME Inv, DeathInv, [Next]_vars PROVE DeathInv'
    OBVIOUS
  <1>1. ASSUME NEW p \in Procs, NEW th \in Threads, LookupForReply(p, th) PROVE DeathInv'
    <2>1. PICK s \in Best(th) : SetTask(p, "reply", sessions[s], s, Nil, Nil)
      BY <1>1 DEF LookupForReply
    <2>2. s \in Sessions /\ sessions[s] \in Objs \cup {Nil}
      BY DEF Best, Inv, TypeOK
    <2>3. task[p].pc \in Speechless /\ "reply" \in Pcs \cap Speechless /\ owed' = owed
      BY <1>1 DEF LookupForReply, Pcs, Speechless, history
    <2> QED BY <2>1, <2>2, <2>3, NamesOnly
  <1>2. ASSUME NEW p \in Procs, NEW s \in Sessions, MarkDead(p, s) PROVE DeathInv'
    BY <1>2, KillDeath DEF MarkDead, Speechless
  <1>3. ASSUME NEW p \in Procs, SweepKill(p) PROVE DeathInv'
    <2>1. task[p].pc \in Speechless /\ task[p].sid \in Sessions
      BY <1>3 DEF SweepKill, Speechless, Inv, FramesNamed, Named
    <2>2. CASE Kill(p, task[p].sid)
      BY <2>1, <2>2, KillDeath
    <2>3. CASE task' = [task EXCEPT ![p] = Ready] /\ owed' = owed
      BY <2>1, <2>3, ReadyOwesNothing, QuietStep
    <2> QED BY <1>3, <2>2, <2>3 DEF SweepKill
  <1>4. ASSUME NEW p \in Procs, NEW s \in Sessions, SweepAsk(p, s) PROVE DeathInv'
    <2>1. task[p].pc \in Speechless /\ "condemned" \in Pcs \cap Speechless /\ owed' = owed
      BY <1>4 DEF SweepAsk, Pcs, Speechless, history
    <2>2. CASE UNCHANGED task
      BY <2>1, <2>2, SameDeaths
    <2>3. CASE SetTask(p, "condemned", Nil, s, Nil, Nil)
      BY <2>1, <2>3, NamesOnly
    <2> QED BY <1>4, <2>2, <2>3 DEF SweepAsk
  <1>5. ASSUME NEW o \in Objs, NEW c \in Callbacks, Fire(o, c) PROVE DeathInv'
    <2>1. c \in Procs /\ id[o] \in Sessions \cup {Nil} /\ task[c].pc \in Speechless
          /\ "infer" \in Pcs \cap Speechless /\ owed' = owed
      BY <1>5 DEF Fire, Procs, Pcs, Speechless, history, Inv, TypeOK
    <2> QED BY <1>5, <2>1, NamesOnly DEF Fire
  <1>6. ASSUME NEW p \in Procs, SweepSelect(p) PROVE DeathInv'
    BY <1>6, SameDeaths DEF SweepSelect
  <1>7. ASSUME NEW s \in Sessions, Register(s) \/ Unregister(s) PROVE DeathInv'
    BY <1>7, SameDeaths DEF Register, Unregister, history
  <1>8. CASE Tick \/ GCRecent \/ Close \/ UNCHANGED vars
    BY <1>8, SameDeaths DEF Tick, GCRecent, Close, vars, history
  <1> QED BY <1>1, <1>2, <1>3, <1>4, <1>5, <1>6, <1>7, <1>8, IngestDeath, ProceedDeath
          DEF Next, Expire

\* Every death reaches the Sink as one thread_ended, whatever events, watcher
\* reports and sweeps kill a session at once and in whatever order the
\* goroutines get to deliver (mux.go:259-275, 699-729, 753).
THEOREM DeathsAreAnnounced == Spec => []EveryDeathAnnounced
  <1>1. DeathInv => EveryDeathAnnounced
    BY DEF DeathInv
  <1> QED BY <1>1, InitDeath, NextDeath, InvHolds, PTL DEF Spec

(***************************************************************************)
(* The idle timer.  Every step is looked at for one session u: what ended  *)
(* its turn before ends it after, or the step is an announcement over it.  *)
(***************************************************************************)

Busy(s) == sessions[s] # Nil /\ StateOf(s) = "BUSY"

\* What a frame does to end the turn of session s, whose object is o.
WillTime(p, f, s, o) ==
    \/ p \in Callbacks /\ f.pc = "infer" /\ f.sid = s
    \/ f.obj = o /\ f.after = "BUSY" /\ f.pc \in Ingesting

LEMMA EndsMeans ==
    ASSUME NEW s \in Sessions
    PROVE  EndsItself(s) <=>
              (Busy(s) /\ ~closed =>
                 \/ idleTimer[sessions[s]] # Nil
                 \/ \E p \in Procs : WillTime(p, task[p], s, sessions[s]))
  BY DEF EndsItself, Busy, WillArm, WillTime, Ingesting, Procs

LEMMA EndsMeansNext ==
    ASSUME NEW s \in Sessions
    PROVE  EndsItself(s)' <=>
              (Busy(s)' /\ ~closed' =>
                 \/ idleTimer'[sessions'[s]] # Nil
                 \/ \E p \in Procs : WillTime(p, task'[p], s, sessions'[s]))
  BY DEF EndsItself, Busy, StateOf, WillArm, WillTime, Ingesting, Procs

LEMMA InitTimed == Init => BusyIsTimed
  BY DEF Init, BusyIsTimed, EndsItself

\* A session that is BUSY after a goroutine got another frame is timed by that
\* frame, or was timed before by something that is still there.
LEMMA TimedStep ==
    ASSUME Inv, NEW u \in Sessions, EndsItself(u), NEW p \in Procs, NEW f \in Frames,
           task' = [task EXCEPT ![p] = f], UNCHANGED closed,
           Busy(u)' /\ ~closed =>
               \/ idleTimer'[sessions'[u]] # Nil
               \/ WillTime(p, f, u, sessions'[u])
               \/ /\ sessions'[u] = sessions[u] /\ Busy(u)
                  /\ idleTimer'[sessions[u]] = idleTimer[sessions[u]]
                  /\ ~WillTime(p, task[p], u, sessions[u])
    PROVE  EndsItself(u)'
  <1> DEFINE o == sessions'[u]
  <1> SUFFICES ASSUME Busy(u)', ~closed, idleTimer'[o] = Nil
               PROVE  \E q \in Procs : WillTime(q, task'[q], u, o)
    BY EndsMeansNext
  <1>1. task'[p] = f /\ \A q \in Procs \ {p} : task'[q] = task[q]
    BY DEF Inv, TypeOK
  <1>2. CASE WillTime(p, f, u, o)
    BY <1>1, <1>2
  <1>3. CASE /\ o = sessions[u] /\ Busy(u)
             /\ idleTimer'[sessions[u]] = idleTimer[sessions[u]]
             /\ ~WillTime(p, task[p], u, sessions[u])
    <2>1. \E q \in Procs : WillTime(q, task[q], u, sessions[u])
      BY <1>3, EndsMeans
    <2>2. \E q \in Procs \ {p} : WillTime(q, task[q], u, sessions[u])
      BY <1>3, <2>1
    <2> QED BY <1>1, <1>3, <2>2
  <1> QED BY <1>2, <1>3

\* The steps that leave what sessions there are and what they do.
LEMMA SameTimers ==
    ASSUME NEW u \in Sessions, EndsItself(u), UNCHANGED <<sessions, task, state>>,
           closed => closed',
           closed' \/ (sessions[u] # Nil =>
               (idleTimer[sessions[u]] # Nil => idleTimer'[sessions[u]] # Nil))
    PROVE  EndsItself(u)'
  BY DEF EndsItself, StateOf, WillArm

LEMMA OtherObject ==
    ASSUME Inv, NEW s \in Sessions, NEW u \in Sessions, u # s, sessions[s] # Nil
    PROVE  sessions[u] # sessions[s]
  BY DEF Inv, MapNamed

Aside == {"ready", "reply", "condemned", "ending"}

LEMMA AsideTimesNothing ==
    /\ Ready.pc = "ready"
    /\ \A p, f, s, o : f.pc \in Aside => ~WillTime(p, f, s, o)
  BY DEF Ready, WillTime, Ingesting, Aside

\* A step of a goroutine that does no session's timing before or after.
LEMMA AsideStep ==
    ASSUME Inv, NEW u \in Sessions, EndsItself(u), NEW p \in Procs, NEW f \in Frames,
           task' = [task EXCEPT ![p] = f], UNCHANGED <<sessions, heap, closed>>,
           task[p].pc \in Aside
    PROVE  EndsItself(u)'
  <1>1. ASSUME Busy(u)'
        PROVE  /\ sessions'[u] = sessions[u] /\ Busy(u)
               /\ idleTimer'[sessions[u]] = idleTimer[sessions[u]]
               /\ ~WillTime(p, task[p], u, sessions[u])
    BY <1>1, AsideTimesNothing DEF Busy, StateOf, heap
  <1> QED BY <1>1, TimedStep

LEMMA IngestTimed ==
    ASSUME Inv, NEW u \in Sessions, EndsItself(u), NEW p \in Procs, NEW s \in Sessions,
           IngestStep(p, s)
    PROVE  EndsItself(u)'
  <1>1. PICK ty \in EventTypes, lag \in Lags \cup {0}, th \in Threads :
           \/ IngestDuplicate(p, s, ty, lag, th)
           \/ IngestKnown(p, s, ty, lag, th)
           \/ IngestNew(p, s, ty, lag, th)
    BY DEF IngestStep
  <1>2. Calling(p, s, ty, lag, th) => task[p].pc \in Aside
    BY DEF Calling, Aside
  <1>3. CASE IngestDuplicate(p, s, ty, lag, th)
    BY <1>3, SameTimers DEF IngestDuplicate, heap
  <1>4. CASE IngestKnown(p, s, ty, lag, th)
    <2> DEFINE o == sessions[s]
               before == state[o]
               after == Absorb(before, ty)
    <2>1. /\ o \in Objs /\ o # Nil /\ before \in States /\ after \in States
          /\ task[p].pc \in Aside /\ UNCHANGED <<sessions, closed>>
          /\ state'[o] = after /\ \A x \in Objs \ {o} : state'[x] = state[x]
      BY <1>2, <1>4, AbsorbType DEF IngestKnown, Inv, TypeOK
    <2>2. PICK f \in Frames :
              /\ task' = [task EXCEPT ![p] = f]
              /\ \/ /\ f.pc = "moved" /\ f.obj = o /\ f.after = after
                    /\ idleTimer' = [idleTimer EXCEPT ![o] = TimerAfterEmit(o, after)]
                 \/ f = Ready /\ idleTimer' = Armed(o, after)
      <3>1. CASE after = before
        BY <1>4, <3>1, ReadyType DEF IngestKnown, Moved
      <3>2. CASE after # before
        <4> DEFINE g == [pc |-> "moved", obj |-> o, sid |-> s, after |-> after,
                         out |-> Announce(after)]
        <4>1. Announce(after) \in Broadcasts
          BY <2>1, <3>2, AbsorbType, AnnounceType
        <4>2. g \in Frames
          BY <2>1, <4>1, FrameType DEF Pcs
        <4>3. /\ task' = [task EXCEPT ![p] = g]
              /\ idleTimer' = [idleTimer EXCEPT ![o] = TimerAfterEmit(o, after)]
          BY <1>4, <3>2 DEF IngestKnown, Moved, SetTask
        <4> QED BY <4>2, <4>3
      <3> QED BY <3>1, <3>2
    <2>3. ASSUME Busy(u)'
          PROVE  \/ idleTimer'[sessions'[u]] # Nil
                 \/ WillTime(p, f, u, sessions'[u])
                 \/ /\ sessions'[u] = sessions[u] /\ Busy(u)
                    /\ idleTimer'[sessions[u]] = idleTimer[sessions[u]]
                    /\ ~WillTime(p, task[p], u, sessions[u])
      <3>1. CASE u = s
        <4>1. after = "BUSY"
          BY <2>1, <2>3, <3>1 DEF Busy, StateOf
        <4>2. Armed(o, after)[o] # Nil
          BY <2>1, <4>1, TimeAssumption, NilAssumption DEF Armed, Inv, TypeOK
        <4>3. f.pc = "moved" /\ f.obj = o /\ f.after = after
                => WillTime(p, f, u, sessions'[u])
          BY <2>1, <3>1, <4>1 DEF WillTime, Ingesting
        <4> QED BY <2>1, <2>2, <3>1, <4>2, <4>3
      <3>2. CASE u # s
        <4>1. sessions[u] \in Objs \ {o}
          BY <2>1, <2>3, <3>2, OtherObject DEF Busy, Inv, TypeOK
        <4>2. idleTimer'[sessions[u]] = idleTimer[sessions[u]]
          BY <2>2, <4>1 DEF Armed, Inv, TypeOK
        <4> QED BY <2>1, <2>3, <4>1, <4>2, AsideTimesNothing DEF Busy, StateOf
      <3> QED BY <3>1, <3>2
    <2>4. UNCHANGED closed /\ task' = [task EXCEPT ![p] = f]
      BY <2>1, <2>2
    <2> HIDE DEF o, before, after
    <2> QED BY <2>3, <2>4, TimedStep
  <1>5. CASE IngestNew(p, s, ty, lag, th)
    <2> DEFINE after == Absorb("STARTING", ty)
    <2>1. PICK o \in Free, reaped \in SUBSET Sessions :
              /\ sessions' = [x \in Sessions |->
                                IF x = s THEN o ELSE IF x \in reaped THEN Nil ELSE sessions[x]]
              /\ state' = [state EXCEPT ![o] = after]
              /\ SetTask(p, "starting", o, s, after, "thread_started")
      BY <1>5 DEF IngestNew
    <2> DEFINE f == [pc |-> "starting", obj |-> o, sid |-> s, after |-> after,
                     out |-> "thread_started"]
    <2>2. /\ o \in Objs /\ after \in States
          /\ \A x \in Sessions : sessions[x] # Nil => sessions[x] # o
      BY AbsorbType DEF Free, Referenced, Retained, Announced, States
    <2>3. /\ UNCHANGED <<idleTimer, closed>> /\ task[p].pc \in Aside /\ state'[o] = after
          /\ \A x \in Objs \ {o} : state'[x] = state[x]
      BY <1>2, <1>5, <2>1, <2>2 DEF IngestNew, Inv, TypeOK
    <2>4. f \in Frames /\ task' = [task EXCEPT ![p] = f]
      BY <2>1, <2>2, FrameType DEF SetTask, Pcs, Broadcasts
    <2>5. f.pc = "starting" /\ f.obj = o /\ f.after = after
      OBVIOUS
    <2> HIDE DEF f
    <2>6. ASSUME Busy(u)'
          PROVE  \/ WillTime(p, f, u, sessions'[u])
                 \/ /\ sessions'[u] = sessions[u] /\ Busy(u)
                    /\ idleTimer'[sessions[u]] = idleTimer[sessions[u]]
                    /\ ~WillTime(p, task[p], u, sessions[u])
      <3>1. CASE u = s
        <4>1. sessions'[u] = o /\ after = "BUSY"
          BY <2>1, <2>3, <2>6, <3>1 DEF Busy, StateOf
        <4> QED BY <2>5, <4>1 DEF WillTime, Ingesting
      <3>2. CASE u # s
        <4>1. sessions'[u] = sessions[u] /\ sessions[u] \in Objs \ {o}
          BY <2>1, <2>2, <2>6, <3>2 DEF Busy, Inv, TypeOK
        <4> QED BY <2>3, <2>6, <4>1, AsideTimesNothing DEF Busy, StateOf
      <3> QED BY <3>1, <3>2
    <2> QED BY <2>3, <2>4, <2>6, TimedStep
  <1> QED BY <1>1, <1>3, <1>4, <1>5

LEMMA DeliverTimed ==
    ASSUME Inv, NEW u \in Sessions, EndsItself(u), NEW p \in Procs, Deliver(p)
    PROVE  EndsItself(u)'
  <1>1. task[p] \in Frames /\ UNCHANGED <<sessions, heap, closed>>
    BY DEF Deliver, Inv, TypeOK
  <1>2. ASSUME task[p].pc = "ending", task' = [task EXCEPT ![p] = Ready]
        PROVE  EndsItself(u)'
    BY <1>1, <1>2, AsideStep, ReadyType DEF Aside
  <1>3. ASSUME NEW pc \in {"started", "told"},
               task[p].pc = (IF pc = "started" THEN "starting" ELSE "moved"),
               task' = [task EXCEPT ![p].pc = pc, ![p].out = Nil]
        PROVE  EndsItself(u)'
    <2> DEFINE f == [task[p] EXCEPT !.pc = pc, !.out = Nil]
    <2>1. task' = [task EXCEPT ![p] = f]
      BY <1>1, <1>3 DEF Inv, TypeOK, Frames
    <2>2. /\ f \in Frames /\ f.pc = pc /\ f.obj = task[p].obj /\ f.after = task[p].after
          /\ f.sid = task[p].sid
      BY <1>1, <1>3 DEF Frames, Pcs
    <2> HIDE DEF f
    <2>3. \A s, o : WillTime(p, task[p], s, o) <=> WillTime(p, f, s, o)
      BY <1>3, <2>2 DEF WillTime, Ingesting
    <2>4. ASSUME Busy(u)'
          PROVE  \/ WillTime(p, f, u, sessions'[u])
                 \/ /\ sessions'[u] = sessions[u] /\ Busy(u)
                    /\ idleTimer'[sessions[u]] = idleTimer[sessions[u]]
                    /\ ~WillTime(p, task[p], u, sessions[u])
      BY <1>1, <2>3, <2>4 DEF Busy, StateOf, heap
    <2> QED BY <1>1, <2>1, <2>2, <2>4, TimedStep
  <1> QED BY <1>2, <1>3 DEF Deliver

LEMMA AnnounceStateTimed ==
    ASSUME Inv, NEW u \in Sessions, EndsItself(u), NEW p \in Procs, AnnounceState(p)
    PROVE  EndsItself(u)' \/ AnnouncesOver(p, u)
  <1> SUFFICES ASSUME ~AnnouncesOver(p, u) PROVE EndsItself(u)'
    OBVIOUS
  <1> DEFINE o == task[p].obj
             after == task[p].after
             f == [pc |-> "moved", obj |-> o, sid |-> task[p].sid, after |-> after,
                   out |-> Announce(after)]
  <1>1. /\ UNCHANGED <<sessions, state, closed>>
        /\ task[p].pc = "started" /\ o \in Objs /\ after \in Announced /\ after \in States
        /\ task[p].sid \in Sessions /\ (o = sessions[u] => after = "BUSY")
        /\ idleTimer' = [idleTimer EXCEPT ![o] = TimerAfterEmit(o, after)]
    BY DEF AnnounceState, AnnouncesOver, Inv, FramesNamed, Named, Ingesting, Announced
  <1>2. f \in Frames /\ task' = [task EXCEPT ![p] = f]
    BY <1>1, AnnounceType, FrameType DEF AnnounceState, SetTask, Pcs
  <1>3. f.pc = "moved" /\ f.obj = o /\ f.after = after
    OBVIOUS
  <1> HIDE DEF f
  <1>4. ASSUME Busy(u)'
        PROVE  \/ WillTime(p, f, u, sessions'[u])
               \/ /\ sessions'[u] = sessions[u] /\ Busy(u)
                  /\ idleTimer'[sessions[u]] = idleTimer[sessions[u]]
                  /\ ~WillTime(p, task[p], u, sessions[u])
    <2>1. sessions'[u] = sessions[u] /\ Busy(u) /\ sessions[u] \in Objs
      BY <1>1, <1>4 DEF Busy, StateOf, Inv, TypeOK
    <2>2. CASE sessions[u] = o
      BY <1>1, <1>3, <2>1, <2>2 DEF WillTime, Ingesting
    <2>3. CASE sessions[u] # o
      <3>1. idleTimer'[sessions[u]] = idleTimer[sessions[u]]
        BY <1>1, <2>1, <2>3 DEF Inv, TypeOK
      <3> QED BY <1>1, <2>1, <2>3, <3>1 DEF WillTime
    <2> QED BY <2>2, <2>3
  <1> HIDE DEF o, after
  <1> QED BY <1>1, <1>2, <1>4, TimedStep

LEMMA FinishIngestTimed ==
    ASSUME Inv, NEW u \in Sessions, EndsItself(u), NEW p \in Procs, FinishIngest(p)
    PROVE  EndsItself(u)'
  <1> DEFINE o == task[p].obj
             after == task[p].after
  <1>1. /\ UNCHANGED <<sessions, state, closed>>
        /\ task[p].pc = "told" /\ o \in Objs
        /\ idleTimer' = Armed(o, after)
        /\ task' = [task EXCEPT ![p] = Ready] /\ Ready \in Frames
    BY ReadyType DEF FinishIngest, Inv, FramesNamed, Named, Ingesting
  <1>2. ASSUME Busy(u)'
        PROVE  \/ idleTimer'[sessions'[u]] # Nil
               \/ /\ sessions'[u] = sessions[u] /\ Busy(u)
                  /\ idleTimer'[sessions[u]] = idleTimer[sessions[u]]
                  /\ ~WillTime(p, task[p], u, sessions[u])
    <2>1. sessions'[u] = sessions[u] /\ Busy(u) /\ sessions[u] \in Objs
      BY <1>1, <1>2 DEF Busy, StateOf, Inv, TypeOK
    <2>2. CASE sessions[u] = o /\ after = "BUSY"
      BY <1>1, <2>1, <2>2, TimeAssumption, NilAssumption DEF Armed, Inv, TypeOK
    <2>3. CASE sessions[u] # o \/ after # "BUSY"
      <3>1. idleTimer'[sessions[u]] = idleTimer[sessions[u]]
        BY <1>1, <2>1, <2>3 DEF Armed, Inv, TypeOK
      <3> QED BY <1>1, <2>1, <2>3, <3>1 DEF WillTime
    <2> QED BY <2>2, <2>3
  <1> QED BY <1>1, <1>2, TimedStep

\* A session object leaves BUSY, and a goroutine goes to announce that.
LEMMA EndingStep ==
    ASSUME Inv, NEW u \in Sessions, EndsItself(u), NEW p \in Procs, NEW s \in Sessions,
           sessions[s] # Nil,
           NEW st \in States \ {"BUSY"}, state' = [state EXCEPT ![sessions[s]] = st],
           NEW f \in Frames, task' = [task EXCEPT ![p] = f],
           UNCHANGED <<sessions, closed>>,
           idleTimer' = idleTimer \/ idleTimer' = [idleTimer EXCEPT ![sessions[s]] = Nil],
           u # s => \A o : ~WillTime(p, task[p], u, o)
    PROVE  EndsItself(u)'
  <1>1. /\ sessions[s] \in Objs /\ state'[sessions[s]] = st
        /\ \A o \in Objs \ {sessions[s]} : state'[o] = state[o] /\ idleTimer'[o] = idleTimer[o]
    BY DEF Inv, TypeOK
  <1>2. ASSUME Busy(u)'
        PROVE  /\ sessions'[u] = sessions[u] /\ Busy(u)
               /\ idleTimer'[sessions[u]] = idleTimer[sessions[u]]
               /\ ~WillTime(p, task[p], u, sessions[u])
    <2>1. u # s
      BY <1>1, <1>2 DEF Busy, StateOf
    <2>2. sessions[u] \in Objs \ {sessions[s]}
      BY <1>2, <2>1, OtherObject DEF Busy, Inv, TypeOK
    <2> QED BY <1>1, <1>2, <2>1, <2>2 DEF Busy, StateOf
  <1> QED BY <1>2, TimedStep

LEMMA KillTimed ==
    ASSUME Inv, NEW u \in Sessions, EndsItself(u), NEW p \in Procs, NEW s \in Sessions,
           Kill(p, s), task[p].pc \in Aside, UNCHANGED <<sessions, closed>>
    PROVE  EndsItself(u)'
  <1> DEFINE f == [pc |-> "ending", obj |-> sessions[s], sid |-> s, after |-> Nil,
                   out |-> "thread_ended"]
  <1>1. f \in Frames /\ task' = [task EXCEPT ![p] = f]
    BY FrameType DEF Kill, SetTask, Pcs, Broadcasts, Inv, TypeOK
  <1>2. /\ sessions[s] # Nil /\ "DEAD" \in States \ {"BUSY"}
        /\ state' = [state EXCEPT ![sessions[s]] = "DEAD"]
        /\ idleTimer' = [idleTimer EXCEPT ![sessions[s]] = Nil]
    BY DEF Kill, Alive, States
  <1> HIDE DEF f
  <1> QED BY <1>1, <1>2, AsideTimesNothing, EndingStep

LEMMA InferIdleTimed ==
    ASSUME Inv, NEW u \in Sessions, EndsItself(u), NEW c \in Procs, InferIdle(c)
    PROVE  EndsItself(u)'
  <1> DEFINE s == task[c].sid
             o == sessions[s]
  <1>1. /\ s \in Sessions /\ o \in Objs \cup {Nil} /\ task[c].pc = "infer"
        /\ UNCHANGED <<sessions, closed, idleTimer>>
    BY DEF InferIdle, Inv, TypeOK, FramesNamed, Named
  <1>2. u # s => \A x : ~WillTime(c, task[c], u, x)
    BY <1>1 DEF WillTime, Ingesting
  <1>3. CASE Inferable(o) /\ state' = [state EXCEPT ![o] = "IDLE"]
             /\ SetTask(c, "ending", o, s, Nil, "thread_idle")
    <2> DEFINE f == [pc |-> "ending", obj |-> o, sid |-> s, after |-> Nil,
                     out |-> "thread_idle"]
    <2>1. f \in Frames /\ task' = [task EXCEPT ![c] = f]
      BY <1>1, <1>3, FrameType DEF SetTask, Pcs, Broadcasts
    <2>2. "IDLE" \in States \ {"BUSY"} /\ o # Nil
      BY <1>3 DEF States, Inferable
    <2> HIDE DEF f
    <2> QED BY <1>1, <1>2, <1>3, <2>1, <2>2, EndingStep
  <1>4. CASE ~Inferable(o) /\ task' = [task EXCEPT ![c] = Ready] /\ UNCHANGED state
    <2>1. ASSUME Busy(u)'
          PROVE  /\ sessions'[u] = sessions[u] /\ Busy(u)
                 /\ idleTimer'[sessions[u]] = idleTimer[sessions[u]]
                 /\ ~WillTime(c, task[c], u, sessions[u])
      <3>1. sessions'[u] = sessions[u] /\ Busy(u)
        BY <1>1, <1>4, <2>1 DEF Busy, StateOf
      <3>2. u # s
        BY <1>4, <3>1 DEF Busy, StateOf, Inferable
      <3> QED BY <1>1, <1>2, <3>1, <3>2
    <2> QED BY <1>1, <1>4, <2>1, ReadyType, TimedStep
  <1> QED BY <1>3, <1>4 DEF InferIdle

LEMMA FireTimed ==
    ASSUME Inv, NEW u \in Sessions, EndsItself(u), NEW o \in Objs, NEW c \in Callbacks,
           Fire(o, c)
    PROVE  EndsItself(u)'
  <1> DEFINE f == [pc |-> "infer", obj |-> Nil, sid |-> id[o], after |-> Nil, out |-> Nil]
  <1>1. /\ c \in Procs /\ task[c].pc \in Aside /\ UNCHANGED <<sessions, state, closed>>
        /\ \A x \in Objs \ {o} : idleTimer'[x] = idleTimer[x]
    BY DEF Fire, Procs, Inv, TypeOK, Aside
  <1>2. f \in Frames /\ f.pc = "infer" /\ f.sid = id[o] /\ task' = [task EXCEPT ![c] = f]
    BY FrameType DEF Fire, SetTask, Pcs, Inv, TypeOK
  <1> HIDE DEF f
  <1>3. ASSUME Busy(u)'
        PROVE  \/ WillTime(c, f, u, sessions'[u])
               \/ /\ sessions'[u] = sessions[u] /\ Busy(u)
                  /\ idleTimer'[sessions[u]] = idleTimer[sessions[u]]
                  /\ ~WillTime(c, task[c], u, sessions[u])
    <2>1. sessions'[u] = sessions[u] /\ Busy(u) /\ sessions[u] \in Objs
      BY <1>1, <1>3 DEF Busy, StateOf, Inv, TypeOK
    <2>2. CASE sessions[u] = o
      <3>1. id[o] = u
        BY <2>1, <2>2 DEF Busy, Inv, MapNamed
      <3> QED BY <1>2, <3>1 DEF WillTime
    <2>3. CASE sessions[u] # o
      BY <1>1, <2>1, <2>3, AsideTimesNothing
    <2> QED BY <2>2, <2>3
  <1>4. c \in Procs /\ UNCHANGED closed
    BY <1>1
  <1> QED BY <1>2, <1>3, <1>4, TimedStep

LEMMA NextTimed ==
    ASSUME Inv, [Next]_vars, NEW u \in Sessions, EndsItself(u)
    PROVE  EndsItself(u)' \/ \E p \in Procs : AnnouncesOver(p, u)
  <1>1. ASSUME NEW p \in Procs, NEW th \in Threads, LookupForReply(p, th)
        PROVE  EndsItself(u)'
    <2>1. PICK s \in Best(th) : SetTask(p, "reply", sessions[s], s, Nil, Nil)
      BY <1>1 DEF LookupForReply
    <2> DEFINE f == [pc |-> "reply", obj |-> sessions[s], sid |-> s, after |-> Nil,
                     out |-> Nil]
    <2>2. s \in Sessions /\ sessions[s] \in Objs \cup {Nil}
      BY DEF Best, Inv, TypeOK
    <2>3. f \in Frames /\ task' = [task EXCEPT ![p] = f]
      BY <2>1, <2>2, FrameType DEF SetTask, Pcs
    <2>4. task[p].pc \in Aside /\ UNCHANGED <<sessions, heap, closed>>
      BY <1>1 DEF LookupForReply, Aside
    <2> HIDE DEF f
    <2> QED BY <2>3, <2>4, AsideStep
  <1>2. ASSUME NEW p \in Procs, Proceed(p)
        PROVE  EndsItself(u)' \/ AnnouncesOver(p, u)
    BY <1>2, AnnounceStateTimed, FinishIngestTimed, DeliverTimed, InferIdleTimed DEF Proceed
  <1>3. ASSUME NEW p \in Procs, NEW s \in Sessions, MarkDead(p, s) PROVE EndsItself(u)'
    BY <1>3, KillTimed DEF MarkDead, Aside
  <1>4. ASSUME NEW p \in Procs, SweepKill(p) PROVE EndsItself(u)'
    <2>1. task[p].pc \in Aside /\ task[p].sid \in Sessions
          /\ UNCHANGED <<sessions, id, threadID, quiet, closed>>
      BY <1>4 DEF SweepKill, Inv, FramesNamed, Named, Aside
    <2>2. CASE Kill(p, task[p].sid)
      BY <2>1, <2>2, KillTimed
    <2>3. CASE task' = [task EXCEPT ![p] = Ready] /\ UNCHANGED <<idleTimer, state>>
      BY <2>1, <2>3, AsideStep, ReadyType DEF heap
    <2> QED BY <1>4, <2>2, <2>3 DEF SweepKill
  <1>5. ASSUME NEW p \in Procs, NEW s \in Sessions, SweepAsk(p, s) PROVE EndsItself(u)'
    <2>1. task[p].pc \in Aside /\ UNCHANGED <<sessions, heap, closed>>
      BY <1>5 DEF SweepAsk, Aside
    <2>2. CASE UNCHANGED task
      BY <2>1, <2>2, SameTimers DEF heap
    <2>3. CASE SetTask(p, "condemned", Nil, s, Nil, Nil)
      <3> DEFINE f == [pc |-> "condemned", obj |-> Nil, sid |-> s, after |-> Nil, out |-> Nil]
      <3>1. f \in Frames /\ task' = [task EXCEPT ![p] = f]
        BY <2>3, FrameType DEF SetTask, Pcs
      <3> HIDE DEF f
      <3> QED BY <2>1, <3>1, AsideStep
    <2> QED BY <1>5, <2>2, <2>3 DEF SweepAsk
  <1>6. ASSUME \/ \E p \in Procs : SweepSelect(p)
               \/ \E s \in Sessions : Register(s) \/ Unregister(s)
               \/ GCRecent \/ UNCHANGED vars
        PROVE  EndsItself(u)'
    <2>1. UNCHANGED <<sessions, heap, task, closed>>
      BY <1>6 DEF SweepSelect, Register, Unregister, GCRecent, vars
    <2> QED BY <2>1, SameTimers DEF heap
  <1>7. CASE Tick
    <2>1. UNCHANGED <<sessions, state, task, closed>>
      BY <1>7 DEF Tick
    <2>2. \A o \in Objs : idleTimer[o] # Nil => idleTimer'[o] # Nil
      <3> SUFFICES ASSUME NEW o \in Objs, idleTimer[o] # Nil PROVE idleTimer'[o] # Nil
        OBVIOUS
      <3>1. /\ idleTimer[o] \in 0..IdleDebounce
            /\ idleTimer'[o] = IF idleTimer[o] = 0 THEN 0 ELSE idleTimer[o] - 1
        BY <1>7 DEF Tick, Inv, TypeOK
      <3>2. idleTimer'[o] \in Nat
        BY <3>1, TimeAssumption
      <3> QED BY <3>2, NilAssumption
    <2>3. sessions[u] \in Objs \cup {Nil}
      BY DEF Inv, TypeOK
    <2> QED BY <2>1, <2>2, <2>3, SameTimers
  <1>8. CASE Close
    <2>1. UNCHANGED <<sessions, state, task>> /\ closed'
      BY <1>8 DEF Close
    <2> QED BY <2>1, SameTimers
  <1> QED BY <1>1, <1>2, <1>3, <1>4, <1>5, <1>6, <1>7, <1>8, IngestTimed, FireTimed
          DEF Next, Expire

\* Whatever goroutines of any role do to a session, a BUSY turn that was going
\* to end by itself still does, but for one step: an Ingest that created the
\* session announces a state that is not BUSY, captured before its
\* thread_started went out, and stops the timer (mux.go:184-203, 659-707).
THEOREM TimersLostOnlyByOvertaking == Spec => OnlyOvertakenUntimed
  <1>1. Inv /\ [Next]_vars =>
           [\A s \in Sessions :
              EndsItself(s) => EndsItself(s)' \/ \E p \in Procs : AnnouncesOver(p, s)]_vars
    BY NextTimed
  <1> QED BY <1>1, InvHolds, PTL DEF Spec, OnlyOvertakenUntimed

(***************************************************************************)
(* Where one goroutine reports each session no other can make it BUSY      *)
(* between the two announcements of a new one, so that nothing is          *)
(* announced over a BUSY session.                                          *)
(***************************************************************************)

OneFeedEach ==
    /\ Repliers = {}
    /\ \A f, g \in Feeds : f[2] = g[2] => f[1] = g[1]

Fed ==
    \A p \in Procs :
        /\ task[p].pc # "reply"
        /\ task[p].pc \in Ingesting => <<p, id[task[p].obj]>> \in Feeds
        /\ task[p].pc \in {"starting", "started"} /\ task[p].after # "BUSY"
              => state[task[p].obj] # "BUSY"

LEMMA InitFed == Init => Fed
  BY DEF Init, Fed, Ready, Ingesting

LEMMA SameFeeds ==
    ASSUME Fed, UNCHANGED <<task, id, state>>
    PROVE  Fed'
  BY DEF Fed

\* A goroutine gets another frame, and makes no session BUSY behind the back
\* of the one that reports it.
LEMMA FedStep ==
    ASSUME Inv, Fed, NEW p \in Procs, NEW f \in Frames, task' = [task EXCEPT ![p] = f],
           f.pc # "reply",
           f.pc \in Ingesting => <<p, id'[f.obj]>> \in Feeds,
           f.pc \in {"starting", "started"} /\ f.after # "BUSY" => state'[f.obj] # "BUSY",
           \A q \in Procs \ {p} : task[q].pc \in Ingesting =>
               /\ id'[task[q].obj] = id[task[q].obj]
               /\ state'[task[q].obj] = "BUSY" => state[task[q].obj] = "BUSY"
    PROVE  Fed'
  <1>1. task'[p] = f /\ \A q \in Procs \ {p} : task'[q] = task[q]
    BY DEF Inv, TypeOK
  <1>2. ASSUME NEW q \in Procs
        PROVE  /\ task'[q].pc # "reply"
               /\ task'[q].pc \in Ingesting => <<q, id'[task'[q].obj]>> \in Feeds
               /\ task'[q].pc \in {"starting", "started"} /\ task'[q].after # "BUSY"
                    => state'[task'[q].obj] # "BUSY"
    <2>1. CASE q = p
      BY <1>1, <2>1
    <2>2. CASE q # p
      BY <1>1, <2>2, ZenonT(60) DEF Fed, Ingesting
    <2> QED BY <2>1, <2>2
  <1> QED BY <1>2 DEF Fed

\* Only the goroutine that reports a session is inside Ingest with its object.
LEMMA OwnObject ==
    ASSUME Inv, OneFeedEach, Fed, NEW p \in Procs, NEW s \in Sessions, <<p, s>> \in Feeds,
           NEW q \in Procs \ {p}, task[q].pc \in Ingesting, sessions[s] # Nil
    PROVE  task[q].obj # sessions[s]
  <1> SUFFICES ASSUME task[q].obj = sessions[s] PROVE FALSE
    OBVIOUS
  <1>1. <<q, s>> \in Feeds
    BY DEF Fed, Inv, MapNamed
  <1> QED BY <1>1 DEF OneFeedEach

\* A step into a frame outside Ingest that makes no session BUSY.
LEMMA OutsideStep ==
    ASSUME Inv, Fed, NEW p \in Procs, NEW f \in Frames, task' = [task EXCEPT ![p] = f],
           f.pc # "reply", f.pc \notin Ingesting, UNCHANGED id,
           \A o \in Objs : state'[o] = "BUSY" => state[o] = "BUSY"
    PROVE  Fed'
  <1>1. \A q \in Procs : task[q].pc \in Ingesting => task[q].obj \in Objs
    BY DEF Inv, FramesNamed, Named
  <1> QED BY <1>1, FedStep DEF Ingesting

LEMMA IngestFed ==
    ASSUME Inv, OneFeedEach, Fed, NEW p \in Procs, NEW s \in Sessions, IngestStep(p, s)
    PROVE  Fed'
  <1>1. PICK ty \in EventTypes, lag \in Lags \cup {0}, th \in Threads :
           \/ IngestDuplicate(p, s, ty, lag, th)
           \/ IngestKnown(p, s, ty, lag, th)
           \/ IngestNew(p, s, ty, lag, th)
    BY DEF IngestStep
  <1>2. Calling(p, s, ty, lag, th) => <<p, s>> \in Feeds
    BY DEF Calling, Fed
  <1>3. CASE IngestDuplicate(p, s, ty, lag, th)
    BY <1>3, SameFeeds DEF IngestDuplicate, heap
  <1>4. CASE IngestKnown(p, s, ty, lag, th)
    <2> DEFINE o == sessions[s]
               after == Absorb(state[o], ty)
    <2>1. /\ o \in Objs /\ o # Nil /\ id[o] = s /\ after \in States
          /\ <<p, s>> \in Feeds /\ UNCHANGED id
          /\ \A x \in Objs \ {o} : state'[x] = state[x]
      BY <1>2, <1>4, AbsorbType DEF IngestKnown, Inv, TypeOK, MapNamed
    <2>2. PICK f \in Frames :
              /\ task' = [task EXCEPT ![p] = f]
              /\ \/ f.pc = "moved" /\ f.obj = o
                 \/ f = Ready
      <3>1. CASE after = state[o]
        BY <1>4, <3>1, ReadyType DEF IngestKnown, Moved
      <3>2. CASE after # state[o]
        <4> DEFINE g == [pc |-> "moved", obj |-> o, sid |-> s, after |-> after,
                         out |-> Announce(after)]
        <4>1. Announce(after) \in Broadcasts
          BY <2>1, <3>2, AbsorbType, AnnounceType DEF Inv, TypeOK
        <4>2. g \in Frames
          BY <2>1, <4>1, FrameType DEF Pcs
        <4>3. task' = [task EXCEPT ![p] = g]
          BY <1>4, <3>2 DEF IngestKnown, Moved, SetTask
        <4> QED BY <4>2, <4>3
      <3> QED BY <3>1, <3>2
    <2>3. \A q \in Procs \ {p} : task[q].pc \in Ingesting =>
              task[q].obj \in Objs /\ task[q].obj # o
      BY <2>1, OwnObject DEF Inv, FramesNamed, Named
    <2>4. /\ f.pc # "reply" /\ f.pc \notin {"starting", "started"}
          /\ f.pc \in Ingesting => f.obj = o
      BY <2>2 DEF Ready, Ingesting
    <2> QED BY <2>1, <2>2, <2>3, <2>4, FedStep
  <1>5. CASE IngestNew(p, s, ty, lag, th)
    <2> DEFINE after == Absorb("STARTING", ty)
    <2>1. PICK o \in Free :
              /\ id' = [id EXCEPT ![o] = s]
              /\ state' = [state EXCEPT ![o] = after]
              /\ SetTask(p, "starting", o, s, after, "thread_started")
      BY <1>5 DEF IngestNew
    <2> DEFINE f == [pc |-> "starting", obj |-> o, sid |-> s, after |-> after,
                     out |-> "thread_started"]
    <2>2. o \in Objs /\ after \in States /\ \A q \in Procs : task[q].obj # o
      BY AbsorbType DEF Free, Referenced, Announced, States
    <2>3. /\ <<p, s>> \in Feeds /\ id'[o] = s /\ state'[o] = after
          /\ \A x \in Objs \ {o} : id'[x] = id[x] /\ state'[x] = state[x]
      BY <1>2, <1>5, <2>1, <2>2 DEF IngestNew, Inv, TypeOK
    <2>4. f \in Frames /\ task' = [task EXCEPT ![p] = f]
      BY <2>1, <2>2, FrameType DEF SetTask, Pcs, Broadcasts
    <2>5. f.pc = "starting" /\ f.obj = o /\ f.after = after
      OBVIOUS
    <2> HIDE DEF f
    <2>6. \A q \in Procs \ {p} : task[q].pc \in Ingesting => task[q].obj \in Objs \ {o}
      BY <2>2 DEF Inv, FramesNamed, Named
    <2> QED BY <2>3, <2>4, <2>5, <2>6, FedStep, ZenonT(60)
  <1> QED BY <1>1, <1>3, <1>4, <1>5

LEMMA ProceedFed ==
    ASSUME Inv, Fed, NEW p \in Procs, Proceed(p)
    PROVE  Fed'
  <1>1. CASE AnnounceState(p)
    <2> DEFINE o == task[p].obj
               after == task[p].after
               f == [pc |-> "moved", obj |-> o, sid |-> task[p].sid, after |-> after,
                     out |-> Announce(after)]
    <2>1. /\ UNCHANGED <<id, state>> /\ o \in Objs /\ after \in Announced
          /\ after \in States /\ task[p].sid \in Sessions /\ <<p, id[o]>> \in Feeds
      BY <1>1 DEF AnnounceState, Inv, FramesNamed, Named, Ingesting, Announced, Fed
    <2>2. f \in Frames /\ task' = [task EXCEPT ![p] = f]
      BY <1>1, <2>1, AnnounceType, FrameType DEF AnnounceState, SetTask, Pcs
    <2>3. f.pc = "moved" /\ f.obj = o
      OBVIOUS
    <2> HIDE DEF f
    <2> QED BY <2>1, <2>2, <2>3, FedStep
  <1>2. CASE Deliver(p)
    <2>1. task[p] \in Frames /\ UNCHANGED <<id, state>>
      BY <1>2 DEF Deliver, heap, Inv, TypeOK
    <2>2. ASSUME task' = [task EXCEPT ![p] = Ready] PROVE Fed'
      BY <2>1, <2>2, OutsideStep, ReadyType DEF Ready, Ingesting
    <2>3. ASSUME NEW pc \in {"started", "told"},
                 task[p].pc = (IF pc = "started" THEN "starting" ELSE "moved"),
                 task' = [task EXCEPT ![p].pc = pc, ![p].out = Nil]
          PROVE  Fed'
      <3> DEFINE f == [task[p] EXCEPT !.pc = pc, !.out = Nil]
      <3>1. task' = [task EXCEPT ![p] = f]
        BY <2>1, <2>3 DEF Inv, TypeOK, Frames
      <3>2. f \in Frames /\ f.pc = pc /\ f.obj = task[p].obj /\ f.after = task[p].after
        BY <2>1, <2>3 DEF Frames, Pcs
      <3> HIDE DEF f
      <3>3. /\ <<p, id'[f.obj]>> \in Feeds
            /\ f.pc \in {"starting", "started"} /\ f.after # "BUSY" => state'[f.obj] # "BUSY"
        BY <2>1, <2>3, <3>2 DEF Fed, Ingesting
      <3> QED BY <2>1, <2>3, <3>1, <3>2, <3>3, FedStep
    <2> QED BY <1>2, <2>2, <2>3 DEF Deliver
  <1>3. CASE FinishIngest(p)
    <2>1. UNCHANGED <<id, state>> /\ task' = [task EXCEPT ![p] = Ready]
      BY <1>3 DEF FinishIngest
    <2> QED BY <2>1, OutsideStep, ReadyType DEF Ready, Ingesting
  <1>4. CASE InferIdle(p)
    <2> DEFINE s == task[p].sid
               o == sessions[s]
               f == [pc |-> "ending", obj |-> o, sid |-> s, after |-> Nil,
                     out |-> "thread_idle"]
    <2>1. s \in Sessions /\ o \in Objs \cup {Nil} /\ UNCHANGED id
      BY <1>4 DEF InferIdle, Inv, TypeOK, FramesNamed, Named
    <2>2. f \in Frames
      BY <2>1, FrameType DEF Pcs, Broadcasts
    <2>3. \A x \in Objs : state'[x] = "BUSY" => state[x] = "BUSY"
      BY <1>4, <2>1 DEF InferIdle, Inv, TypeOK
    <2>4. \/ task' = [task EXCEPT ![p] = f]
          \/ task' = [task EXCEPT ![p] = Ready]
      BY <1>4 DEF InferIdle, SetTask
    <2>5. f.pc = "ending"
      OBVIOUS
    <2> HIDE DEF f
    <2> QED BY <2>1, <2>2, <2>3, <2>4, <2>5, OutsideStep, ReadyType DEF Ready, Ingesting
  <1> QED BY <1>1, <1>2, <1>3, <1>4 DEF Proceed

LEMMA KillFed ==
    ASSUME Inv, Fed, NEW p \in Procs, NEW s \in Sessions, Kill(p, s), UNCHANGED id
    PROVE  Fed'
  <1> DEFINE f == [pc |-> "ending", obj |-> sessions[s], sid |-> s, after |-> Nil,
                   out |-> "thread_ended"]
  <1>1. f \in Frames /\ f.pc = "ending" /\ task' = [task EXCEPT ![p] = f]
    BY FrameType DEF Kill, SetTask, Pcs, Broadcasts, Inv, TypeOK
  <1>2. \A o \in Objs : state'[o] = "BUSY" => state[o] = "BUSY"
    BY DEF Kill, Inv, TypeOK
  <1> HIDE DEF f
  <1> QED BY <1>1, <1>2, OutsideStep DEF Ingesting

LEMMA NextFed == OneFeedEach => (Inv /\ Fed /\ [Next]_vars => Fed')
  <1> SUFFICES ASSUME OneFeedEach, Inv, Fed, [Next]_vars PROVE Fed'
    OBVIOUS
  <1>1. ASSUME NEW p \in Procs, NEW th \in Threads, LookupForReply(p, th) PROVE Fed'
    BY <1>1 DEF LookupForReply, OneFeedEach
  <1>2. ASSUME NEW p \in Procs, NEW s \in Sessions, MarkDead(p, s) PROVE Fed'
    BY <1>2, KillFed DEF MarkDead
  <1>3. ASSUME NEW p \in Procs, SweepKill(p) PROVE Fed'
    <2>1. task[p].sid \in Sessions /\ UNCHANGED id
      BY <1>3 DEF SweepKill, Inv, FramesNamed, Named
    <2>2. CASE Kill(p, task[p].sid)
      BY <2>1, <2>2, KillFed
    <2>3. CASE task' = [task EXCEPT ![p] = Ready] /\ UNCHANGED state
      BY <2>1, <2>3, OutsideStep, ReadyType DEF Ready, Ingesting
    <2> QED BY <1>3, <2>2, <2>3 DEF SweepKill
  <1>4. ASSUME NEW p \in Procs, NEW s \in Sessions, SweepAsk(p, s) PROVE Fed'
    <2>1. UNCHANGED <<id, state>>
      BY <1>4 DEF SweepAsk, heap
    <2>2. CASE UNCHANGED task
      BY <2>1, <2>2, SameFeeds
    <2>3. CASE SetTask(p, "condemned", Nil, s, Nil, Nil)
      <3> DEFINE f == [pc |-> "condemned", obj |-> Nil, sid |-> s, after |-> Nil, out |-> Nil]
      <3>1. f \in Frames /\ f.pc = "condemned" /\ task' = [task EXCEPT ![p] = f]
        BY <2>3, FrameType DEF SetTask, Pcs
      <3> HIDE DEF f
      <3> QED BY <2>1, <3>1, OutsideStep DEF Ingesting
    <2> QED BY <1>4, <2>2, <2>3 DEF SweepAsk
  <1>5. ASSUME NEW o \in Objs, NEW c \in Callbacks, Fire(o, c) PROVE Fed'
    <2> DEFINE f == [pc |-> "infer", obj |-> Nil, sid |-> id[o], after |-> Nil, out |-> Nil]
    <2>1. c \in Procs /\ UNCHANGED <<id, state>>
      BY <1>5 DEF Fire, Procs
    <2>2. f \in Frames /\ f.pc = "infer" /\ task' = [task EXCEPT ![c] = f]
      BY <1>5, FrameType DEF Fire, SetTask, Pcs, Inv, TypeOK
    <2> HIDE DEF f
    <2> QED BY <2>1, <2>2, OutsideStep DEF Ingesting
  <1>6. ASSUME \/ \E p \in Procs : SweepSelect(p)
               \/ \E s \in Sessions : Register(s) \/ Unregister(s)
               \/ Tick \/ GCRecent \/ Close \/ UNCHANGED vars
        PROVE  Fed'
    <2>1. UNCHANGED <<task, id, state>>
      BY <1>6 DEF SweepSelect, Register, Unregister, Tick, GCRecent, Close, vars, heap
    <2> QED BY <2>1, SameFeeds
  <1> QED BY <1>1, <1>2, <1>3, <1>4, <1>5, <1>6, IngestFed, ProceedFed DEF Next, Expire

\* Nothing is announced over a BUSY session, so its turn still ends.
LEMMA FedIsTimed ==
    ASSUME Inv, Fed, NEW u \in Sessions, NEW p \in Procs, AnnouncesOver(p, u)
    PROVE  EndsItself(u)'
  <1>1. state[task[p].obj] # "BUSY" /\ UNCHANGED <<sessions, state>>
    BY DEF Fed, AnnouncesOver, AnnounceState
  <1>2. ~Busy(u)'
    BY <1>1 DEF AnnouncesOver, Busy, StateOf
  <1> QED BY <1>2, EndsMeansNext

\* Where one goroutine reports each session, and nobody replies to it, a BUSY
\* session ends its turn by itself: the timer runs, its callback is on its
\* way, or the goroutine is about to arm it (mux.go:204-206, 600-623).  With a
\* second feed this fails (run mux_stuck_busy).
THEOREM BusyStaysTimed == OneFeedEach => (Spec => []BusyIsTimed)
  <1> SUFFICES ASSUME OneFeedEach PROVE Spec => []BusyIsTimed
    OBVIOUS
  <1>1. Inv /\ Fed /\ [Next]_vars => Fed'
    BY NextFed
  <1>2. Inv /\ Fed /\ BusyIsTimed /\ [Next]_vars => BusyIsTimed'
    <2> SUFFICES ASSUME Inv, Fed, BusyIsTimed, [Next]_vars, NEW u \in Sessions
                 PROVE  EndsItself(u)'
      BY DEF BusyIsTimed
    <2> QED BY NextTimed, FedIsTimed DEF BusyIsTimed
  <1> QED BY <1>1, <1>2, InitFed, InitTimed, InvHolds, PTL DEF Spec
=============================================================================

--------------------------- MODULE MuxStepProofs --------------------------
(***************************************************************************)
(* What no step of Mux does, proved for all constants: bring a DEAD        *)
(* session back without an event, reap another session than the oldest     *)
(* DEAD one, sweep a session that kept its endpoint; and what the steps    *)
(* leave whoever listens to the Sink with.  The first two follow from the  *)
(* invariant of MuxProofs; the third needs to know what a sweeper          *)
(* remembers of the registry between its three critical sections, the last *)
(* what every goroutine between two of them has still to say.              *)
(***************************************************************************)
EXTENDS MuxProofs

(***************************************************************************)
(* States.                                                                 *)
(***************************************************************************)

\* A step outside Ingest leaves every object's state alone, makes it DEAD, or
\* takes it from BUSY to IDLE.
LEMMA QuietSteps ==
    ASSUME Inv, [Next]_vars, NEW o \in Objs, state'[o] # state[o]
    PROVE  \/ state'[o] = "DEAD"
           \/ state[o] = "BUSY"
           \/ \E p \in Procs, s \in Sessions : IngestStep(p, s)
  <1>1. state \in [Objs -> States]
    BY DEF Inv, TypeOK
  <1>2. ASSUME NEW p \in Procs, NEW s \in Sessions, Kill(p, s)
        PROVE  state'[o] = "DEAD"
    BY <1>1, <1>2 DEF Kill
  <1>3. ASSUME NEW p \in Procs, Proceed(p) PROVE state[o] = "BUSY"
    <2>1. CASE InferIdle(p)
      BY <1>1, <2>1 DEF InferIdle, Inferable
    <2>2. CASE AnnounceState(p) \/ FinishIngest(p) \/ Deliver(p)
      BY <2>2 DEF AnnounceState, FinishIngest, Deliver, heap
    <2> QED BY <1>3, <2>1, <2>2 DEF Proceed
  <1>4. ASSUME NEW p \in Procs, NEW s \in Sessions, MarkDead(p, s)
        PROVE  state'[o] = "DEAD"
    BY <1>2, <1>4 DEF MarkDead
  <1>5. ASSUME NEW p \in Procs, SweepSelect(p) \/ SweepKill(p)
        PROVE  state'[o] = "DEAD"
    <2>1. CASE SweepSelect(p)
      BY <2>1 DEF SweepSelect, heap
    <2>2. CASE SweepKill(p)
      <3>1. task[p].sid \in Sessions
        BY <2>2 DEF SweepKill, Inv, FramesNamed, Named
      <3> QED BY <1>2, <2>2, <3>1 DEF SweepKill
    <2> QED BY <1>5, <2>1, <2>2
  <1>6. ASSUME \/ \E p \in Procs, th \in Threads : LookupForReply(p, th)
               \/ \E p \in Procs, s \in Sessions : SweepAsk(p, s)
               \/ \E s \in Sessions : Register(s) \/ Unregister(s)
        PROVE  FALSE
    BY <1>6 DEF LookupForReply, SweepAsk, Register, Unregister, heap
  <1>7. ASSUME Expire \/ Tick \/ GCRecent \/ Close \/ UNCHANGED vars PROVE FALSE
    BY <1>7 DEF Expire, Fire, Tick, GCRecent, Close, heap, vars
  <1> QED BY <1>3, <1>4, <1>5, <1>6, <1>7 DEF Next

\* Death is final but for a new event, however many watchers, sweeps, timer
\* callbacks and unfinished Ingest calls hold the session
\* (mux.go:259-275, 709-729).
THEOREM DeadStayDead == Spec => OnlyEventsRevive
  <1>1. Inv /\ [Next]_vars =>
          [\A o \in Objs : state[o] = "DEAD" /\ state'[o] # "DEAD" =>
              \E p \in Procs, s \in Sessions : IngestStep(p, s)]_vars
    <2> SUFFICES ASSUME Inv, [Next]_vars, NEW o \in Objs,
                        state[o] = "DEAD", state'[o] # "DEAD"
                 PROVE  \E p \in Procs, s \in Sessions : IngestStep(p, s)
      OBVIOUS
    <2> QED BY QuietSteps
  <1> QED BY <1>1, InvHolds, PTL DEF Spec, OnlyEventsRevive

(***************************************************************************)
(* Reaping.                                                                *)
(***************************************************************************)

\* Only the creation of a session takes another one off the map.
LEMMA OnlyNewReaps ==
    ASSUME Inv, [Next]_vars, sessions' # sessions
    PROVE  \E p \in Procs, s \in Sessions, ty \in EventTypes, lag \in Lags \cup {0},
              th \in Threads : IngestNew(p, s, ty, lag, th)
  <1>1. ASSUME NEW p \in Procs, NEW s \in Sessions, IngestStep(p, s)
        PROVE  \E ty \in EventTypes, lag \in Lags \cup {0}, th \in Threads :
                  IngestNew(p, s, ty, lag, th)
    BY <1>1 DEF IngestStep, IngestDuplicate, IngestKnown
  <1>2. ASSUME NEW p \in Procs, Proceed(p) PROVE FALSE
    BY <1>2 DEF Proceed, AnnounceState, FinishIngest, Deliver, InferIdle
  <1>3. ASSUME \/ \E p \in Procs, th \in Threads : LookupForReply(p, th)
               \/ \E p \in Procs, s \in Sessions : MarkDead(p, s) \/ SweepAsk(p, s)
               \/ \E p \in Procs : SweepSelect(p) \/ SweepKill(p)
               \/ \E s \in Sessions : Register(s) \/ Unregister(s)
        PROVE  FALSE
    BY <1>3 DEF LookupForReply, MarkDead, SweepAsk, SweepSelect, SweepKill, Register,
                Unregister
  <1>4. ASSUME Expire \/ Tick \/ GCRecent \/ Close \/ UNCHANGED vars PROVE FALSE
    BY <1>4 DEF Expire, Fire, Tick, GCRecent, Close, vars
  <1> QED BY <1>1, <1>2, <1>3, <1>4 DEF Next

\* A session that leaves the map is DEAD, and no DEAD session in it has been
\* quiet for longer, for any number of sessions and any cap (mux.go:731-751).
THEOREM ReapsOnlyOldestDead == Spec => ReapsOldestDead
  <1> DEFINE Reaping ==
        \A s \in Sessions : sessions[s] # Nil /\ sessions'[s] = Nil =>
           /\ StateOf(s) = "DEAD"
           /\ \A u \in Retained : StateOf(u) = "DEAD" =>
                 quiet[sessions[u]] <= quiet[sessions[s]]
  <1>1. Inv /\ [Next]_vars => [Reaping]_vars
    <2> SUFFICES ASSUME Inv, [Next]_vars, NEW s \in Sessions,
                        sessions[s] # Nil, sessions'[s] = Nil
                 PROVE  /\ StateOf(s) = "DEAD"
                        /\ \A u \in Retained : StateOf(u) = "DEAD" =>
                              quiet[sessions[u]] <= quiet[sessions[s]]
      BY DEF Reaping
    <2>1. PICK p \in Procs, n \in Sessions, ty \in EventTypes, lag \in Lags \cup {0},
               th \in Threads : IngestNew(p, n, ty, lag, th)
      BY OnlyNewReaps
    <2>2. s \in OldestDead
      BY <2>1, NilAssumption DEF IngestNew, Free
    <2>3. \A u \in Retained : sessions[u] \in Objs /\ quiet[sessions[u]] \in Nat
      BY DEF Retained, Inv, TypeOK
    <2> QED BY <2>2, <2>3 DEF OldestDead, Retained
  <1> QED BY <1>1, InvHolds, PTL DEF Spec, ReapsOldestDead, Reaping

(***************************************************************************)
(* Sweeping.                                                               *)
(***************************************************************************)

\* While a sweeper has victims left, every session without an endpoint has
\* been seen without one since the sweep began; so has the one it is about to
\* kill, even if its endpoint has come back since.
SweepInv ==
    \A r \in Sweepers :
        /\ victims[r] # {} => Sessions \ registered \subseteq absent[r]
        /\ task[r].pc = "condemned" => task[r].sid \in absent[r]

\* A step of one goroutine that condemns nobody and leaves the sweeps and the
\* registry alone.
LEMMA OtherTask ==
    ASSUME Inv, SweepInv, NEW p \in Procs, NEW f, f.pc # "condemned",
           task' = [task EXCEPT ![p] = f], UNCHANGED <<victims, registered, absent>>
    PROVE  SweepInv'
  <1> SUFFICES ASSUME NEW r \in Sweepers
               PROVE  /\ victims'[r] # {} => Sessions \ registered' \subseteq absent'[r]
                      /\ task'[r].pc = "condemned" => task'[r].sid \in absent'[r]
    BY DEF SweepInv
  <1>1. r \in Procs /\ task \in [Procs -> Frames]
    BY DEF Procs, Inv, TypeOK
  <1>2. CASE r = p
    BY <1>1, <1>2 DEF SweepInv
  <1>3. CASE r # p
    BY <1>1, <1>3 DEF SweepInv
  <1> QED BY <1>2, <1>3

LEMMA SameTasks ==
    ASSUME SweepInv, UNCHANGED <<task, victims, registered, absent>>
    PROVE  SweepInv'
  BY DEF SweepInv

LEMMA IngestSweep ==
    ASSUME Inv, SweepInv, NEW p \in Procs, NEW s \in Sessions, IngestStep(p, s)
    PROVE  SweepInv'
  <1>1. PICK ty \in EventTypes, lag \in Lags \cup {0}, th \in Threads :
           \/ IngestDuplicate(p, s, ty, lag, th)
           \/ IngestKnown(p, s, ty, lag, th)
           \/ IngestNew(p, s, ty, lag, th)
    BY DEF IngestStep
  <1>2. CASE IngestDuplicate(p, s, ty, lag, th)
    BY <1>2, SameTasks DEF IngestDuplicate, history
  <1>3. CASE IngestKnown(p, s, ty, lag, th)
    BY <1>3, OtherTask DEF IngestKnown, SetTask, Ready
  <1>4. CASE IngestNew(p, s, ty, lag, th)
    BY <1>4, OtherTask DEF IngestNew, SetTask
  <1> QED BY <1>1, <1>2, <1>3, <1>4

LEMMA DeliverSweep ==
    ASSUME Inv, SweepInv, NEW p \in Procs, Deliver(p)
    PROVE  SweepInv'
  <1>1. UNCHANGED <<victims, registered, absent>>
    BY DEF Deliver
  <1>2. ASSUME NEW pc \in {"started", "told"},
               task' = [task EXCEPT ![p].pc = pc, ![p].out = Nil]
        PROVE  SweepInv'
    <2> DEFINE f == [task[p] EXCEPT !.pc = pc, !.out = Nil]
    <2>1. task' = [task EXCEPT ![p] = f] /\ f.pc = pc
      BY <1>2 DEF Inv, TypeOK, Frames
    <2> HIDE DEF f
    <2> QED BY <1>1, <2>1, OtherTask
  <1>3. ASSUME task' = [task EXCEPT ![p] = Ready] PROVE SweepInv'
    BY <1>1, <1>3, OtherTask DEF Ready
  <1> QED BY <1>2, <1>3 DEF Deliver

LEMMA ProceedSweep ==
    ASSUME Inv, SweepInv, NEW p \in Procs, Proceed(p)
    PROVE  SweepInv'
  <1>1. CASE AnnounceState(p)
    BY <1>1, OtherTask DEF AnnounceState, SetTask, history
  <1>2. CASE FinishIngest(p)
    BY <1>2, OtherTask DEF FinishIngest, Ready, history
  <1>3. CASE Deliver(p)
    BY <1>3, DeliverSweep
  <1>4. CASE InferIdle(p)
    BY <1>4, OtherTask DEF InferIdle, SetTask, Ready, history
  <1> QED BY <1>1, <1>2, <1>3, <1>4 DEF Proceed

\* The three critical sections of the sweep itself.
LEMMA SweepSelectSweep ==
    ASSUME Inv, SweepInv, NEW r \in Procs, SweepSelect(r)
    PROVE  SweepInv'
  <1> SUFFICES ASSUME NEW q \in Sweepers
               PROVE  /\ victims'[q] # {} => Sessions \ registered' \subseteq absent'[q]
                      /\ task'[q].pc = "condemned" => task'[q].sid \in absent'[q]
    BY DEF SweepInv
  <1>1. /\ UNCHANGED <<task, registered>>
        /\ task[r].pc = "ready"
        /\ absent' = [absent EXCEPT ![r] = Sessions \ registered]
        /\ q # r => victims'[q] = victims[q]
        /\ absent \in [Sweepers -> SUBSET Sessions]
    BY DEF SweepSelect, Inv, TypeOK
  <1>2. CASE q = r
    BY <1>1, <1>2
  <1>3. CASE q # r
    BY <1>1, <1>3 DEF SweepInv
  <1> QED BY <1>2, <1>3

LEMMA SweepAskSweep ==
    ASSUME Inv, SweepInv, NEW r \in Procs, NEW s \in Sessions, SweepAsk(r, s)
    PROVE  SweepInv'
  <1> SUFFICES ASSUME NEW q \in Sweepers
               PROVE  /\ victims'[q] # {} => Sessions \ registered' \subseteq absent'[q]
                      /\ task'[q].pc = "condemned" => task'[q].sid \in absent'[q]
    BY DEF SweepInv
  <1>1. /\ UNCHANGED <<registered, absent>>
        /\ r \in Sweepers /\ s \in victims[r]
        /\ victims'[q] # {} => victims[q] # {}
        /\ task \in [Procs -> Frames] /\ q \in Procs
    BY DEF SweepAsk, history, Inv, TypeOK, Procs
  <1>2. victims'[q] # {} => Sessions \ registered' \subseteq absent'[q]
    BY <1>1 DEF SweepInv
  <1>3. ~IsLive(s) => s \in absent[r]
    BY <1>1 DEF IsLive, SweepInv
  <1>4. CASE task' = task
    BY <1>1, <1>2, <1>4 DEF SweepInv
  <1>5. CASE ~IsLive(s) /\ SetTask(r, "condemned", Nil, s, Nil, Nil)
    <2>1. CASE q = r
      <3>1. task'[q].sid = s
        BY <1>1, <1>5, <2>1 DEF SetTask
      <3> QED BY <1>1, <1>2, <1>3, <1>5, <2>1, <3>1
    <2>2. CASE q # r
      <3>1. task'[q] = task[q]
        BY <1>1, <1>5, <2>2 DEF SetTask
      <3> QED BY <1>1, <1>2, <3>1 DEF SweepInv
    <2> QED BY <2>1, <2>2
  <1> QED BY <1>4, <1>5 DEF SweepAsk

LEMMA KillSweep ==
    ASSUME Inv, SweepInv, NEW p \in Procs, NEW s, Kill(p, s),
           UNCHANGED <<victims, registered, absent>>
    PROVE  SweepInv'
  BY OtherTask DEF Kill, SetTask

LEMMA RegistrySweep ==
    ASSUME Inv, SweepInv, NEW s \in Sessions, Register(s) \/ Unregister(s)
    PROVE  SweepInv'
  <1>1. CASE Register(s)
    BY <1>1 DEF Register, history, SweepInv
  <1>2. CASE Unregister(s)
    BY <1>2 DEF Unregister, SweepInv
  <1> QED BY <1>1, <1>2

LEMMA NextSweep == Inv /\ SweepInv /\ [Next]_vars => SweepInv'
  <1> SUFFICES ASSUME Inv, SweepInv, [Next]_vars PROVE SweepInv'
    OBVIOUS
  <1>1. ASSUME NEW p \in Procs, NEW th \in Threads, LookupForReply(p, th)
        PROVE  SweepInv'
    BY <1>1, OtherTask DEF LookupForReply, SetTask, history
  <1>2. ASSUME NEW p \in Procs, NEW s \in Sessions, MarkDead(p, s) PROVE SweepInv'
    BY <1>2, KillSweep DEF MarkDead
  <1>3. ASSUME NEW p \in Procs, SweepKill(p) PROVE SweepInv'
    <2>1. CASE Kill(p, task[p].sid)
      BY <1>3, <2>1, KillSweep DEF SweepKill
    <2>2. CASE task' = [task EXCEPT ![p] = Ready]
      BY <1>3, <2>2, OtherTask DEF SweepKill, Ready
    <2> QED BY <1>3, <2>1, <2>2 DEF SweepKill
  <1>4. ASSUME Expire PROVE SweepInv'
    BY <1>4, OtherTask DEF Expire, Fire, SetTask, history, Procs
  <1>5. CASE Tick \/ GCRecent \/ Close \/ UNCHANGED vars
    BY <1>5, SameTasks DEF Tick, GCRecent, Close, history, vars
  <1> QED BY <1>1, <1>2, <1>3, <1>4, <1>5, IngestSweep, ProceedSweep, SweepSelectSweep,
             SweepAskSweep, RegistrySweep DEF Next

\* The stale sweep never kills a session that kept its endpoint in the registry
\* from the choice of the victims on, for any number of sweeps, sessions and
\* registrations in between (mux.go:224-257, main.go:641-646).
THEOREM SweepSparesTheLive == Spec => SweepSparesRegistered
  <1>1. Init => SweepInv
    BY DEF Init, SweepInv, Ready, Procs
  <1>2. SweepInv =>
          [\A r \in Sweepers :
             SweepKill(r) /\ state' # state => task[r].sid \in absent[r]]_vars
    BY DEF SweepInv, SweepKill
  <1> QED BY <1>1, <1>2, NextSweep, InvHolds, PTL DEF Spec, SweepSparesRegistered

(***************************************************************************)
(* What the Sink has been told.  A session whose changes do not overlap    *)
(* has at most one goroutine that still has to say something of it, and    *)
(* that goroutine is about to say the state the session is in.             *)
(***************************************************************************)

\* The state the mirror has once a goroutine has said what is in its frame.
Tells(f) == IF f.pc \in {"starting", "started"} THEN f.after ELSE Applied(f.out)
Says(f, s) == f.sid = s /\ f.pc \in Speaking

Agree(s) ==
    /\ \A p, q \in Speakers(s) : p = q
    /\ sessions[s] # Nil =>
          /\ \A p \in Speakers(s) : Tells(task[p]) = StateOf(s)
          /\ Speakers(s) = {} => mirror[s] = StateOf(s)

MirrorInv == \A s \in Sessions \ crossed : Agree(s)

LEMMA AppliedAnnounce ==
    ASSUME NEW st \in Announced
    PROVE  Applied(Announce(st)) = st
  BY DEF Announced, States, Announce, Applied

LEMMA SpeakersSay ==
    ASSUME NEW s
    PROVE  /\ Speakers(s) = {p \in Procs : Says(task[p], s)}
           /\ Speakers(s)' = {p \in Procs : Says(task'[p], s)}
  BY DEF Speakers, Says

\* Nothing is said of a session, and nothing happens to it.
LEMMA FrameAgree ==
    ASSUME Inv, NEW p \in Procs, NEW f \in Frames, task' = [task EXCEPT ![p] = f],
           NEW u \in Sessions, Agree(u), Says(f, u) <=> Says(task[p], u),
           Says(f, u) => Tells(f) = Tells(task[p]), mirror'[u] = mirror[u],
           sessions'[u] # Nil => /\ sessions'[u] = sessions[u]
                                 /\ state'[sessions[u]] = state[sessions[u]]
    PROVE  Agree(u)'
  <1>1. task'[p] = f /\ \A q \in Procs \ {p} : task'[q] = task[q]
    BY DEF Inv, TypeOK
  <1>2. Speakers(u)' = Speakers(u)
    BY <1>1, SpeakersSay
  <1>3. \A q \in Speakers(u) : Tells(task'[q]) = Tells(task[q])
    BY <1>1, SpeakersSay
  <1>4. ASSUME sessions'[u] # Nil
        PROVE  /\ \A q \in Speakers(u)' : Tells(task'[q]) = StateOf(u)'
               /\ Speakers(u)' = {} => mirror'[u] = StateOf(u)'
    BY <1>2, <1>3, <1>4 DEF Agree, StateOf
  <1>5. \A q, r \in Speakers(u)' : q = r
    BY <1>2 DEF Agree
  <1>6. \A q : Tells(task[q])' = Tells(task'[q])
    BY DEF Tells
  <1> QED BY <1>4, <1>5, <1>6 DEF Agree

\* The only goroutine that has something to say of a session says what it is.
LEMMA OnlySpeaker ==
    ASSUME Inv, NEW p \in Procs, NEW f \in Frames, task' = [task EXCEPT ![p] = f],
           NEW s \in Sessions, Speakers(s) = {}, Says(f, s),
           sessions'[s] # Nil => state'[sessions'[s]] = Tells(f)
    PROVE  Agree(s)'
  <1>1. task'[p] = f /\ \A q \in Procs \ {p} : task'[q] = task[q]
    BY DEF Inv, TypeOK
  <1>2. Speakers(s)' = {p}
    BY <1>1, SpeakersSay
  <1>3. Tells(task[p])' = Tells(f)
    BY <1>1 DEF Tells
  <1> QED BY <1>2, <1>3 DEF Agree, StateOf

\* It has said it.
LEMMA LastSaid ==
    ASSUME Inv, NEW p \in Procs, NEW f \in Frames, task' = [task EXCEPT ![p] = f],
           NEW s \in Sessions, Agree(s), Says(task[p], s), ~Says(f, s),
           mirror'[s] = Tells(task[p]), UNCHANGED <<sessions, state>>
    PROVE  Agree(s)'
  <1>1. task'[p] = f /\ \A q \in Procs \ {p} : task'[q] = task[q]
    BY DEF Inv, TypeOK
  <1>2. p \in Speakers(s) /\ \A q \in Speakers(s) : q = p
    BY SpeakersSay DEF Agree
  <1>3. Speakers(s)' = {}
    BY <1>1, <1>2, SpeakersSay
  <1>4. sessions'[s] # Nil => mirror'[s] = StateOf(s)'
    BY <1>2 DEF Agree, StateOf
  <1> QED BY <1>3, <1>4 DEF Agree

\* A session's state changes, and the goroutine that changed it goes to say so.
LEMMA ChangeMirror ==
    ASSUME Inv, MirrorInv, NEW p \in Procs, NEW f \in Frames, NEW s \in Sessions,
           task' = [task EXCEPT ![p] = f], task[p].pc \notin Speaking, Says(f, s),
           crossed' = Crossed(s), mirror' = mirror,
           sessions'[s] # Nil => state'[sessions'[s]] = Tells(f),
           \A u \in Sessions \ {s} :
               sessions'[u] # Nil => /\ sessions'[u] = sessions[u]
                                     /\ state'[sessions[u]] = state[sessions[u]]
    PROVE  MirrorInv'
  <1> SUFFICES ASSUME NEW u \in Sessions \ crossed' PROVE Agree(u)'
    BY DEF MirrorInv
  <1>1. CASE u = s
    <2>1. Speakers(s) = {}
      BY <1>1 DEF Crossed
    <2> QED BY <1>1, <2>1, OnlySpeaker
  <1>2. CASE u # s
    <2>1. u \in Sessions \ crossed /\ Agree(u)
      BY <1>2 DEF Crossed, MirrorInv
    <2>2. ~Says(f, u) /\ ~Says(task[p], u)
      BY <1>2 DEF Says
    <2> QED BY <1>2, <2>1, <2>2, FrameAgree
  <1> QED BY <1>1, <1>2

\* A goroutine with nothing to say goes on without anything to say.
LEMMA SilentMirror ==
    ASSUME Inv, MirrorInv, NEW p \in Procs, NEW f \in Frames,
           task' = [task EXCEPT ![p] = f], task[p].pc \notin Speaking, f.pc \notin Speaking,
           UNCHANGED <<sessions, state, mirror, crossed>>
    PROVE  MirrorInv'
  <1> SUFFICES ASSUME NEW u \in Sessions \ crossed PROVE Agree(u)'
    BY DEF MirrorInv
  <1>1. Agree(u) /\ ~Says(f, u) /\ ~Says(task[p], u)
    BY DEF MirrorInv, Says
  <1> QED BY <1>1, FrameAgree

LEMMA SameMirror ==
    ASSUME MirrorInv, UNCHANGED <<task, sessions, state, mirror, crossed>>
    PROVE  MirrorInv'
  BY DEF MirrorInv, Agree, Speakers, Tells, StateOf

LEMMA ReadySilent == Ready \in Frames /\ Ready.pc \notin Speaking
  BY ReadyType DEF Ready, Speaking

LEMMA IngestMirror ==
    ASSUME Inv, MirrorInv, NEW p \in Procs, NEW s \in Sessions, IngestStep(p, s)
    PROVE  MirrorInv'
  <1>1. PICK ty \in EventTypes, lag \in Lags \cup {0}, th \in Threads :
           \/ IngestDuplicate(p, s, ty, lag, th)
           \/ IngestKnown(p, s, ty, lag, th)
           \/ IngestNew(p, s, ty, lag, th)
    BY DEF IngestStep
  <1>2. Calling(p, s, ty, lag, th) => task[p].pc \notin Speaking
    BY DEF Calling, Speaking
  <1>3. CASE IngestDuplicate(p, s, ty, lag, th)
    BY <1>3, SameMirror DEF IngestDuplicate, heap, history
  <1>4. CASE IngestKnown(p, s, ty, lag, th)
    <2> DEFINE o == sessions[s]
               before == state[o]
               after == Absorb(before, ty)
               f == [pc |-> "moved", obj |-> o, sid |-> s, after |-> after,
                     out |-> Announce(after)]
    <2>1. /\ o \in Objs /\ o # Nil /\ before \in States /\ task[p].pc \notin Speaking
          /\ sessions' = sessions /\ mirror' = mirror
          /\ state' = [state EXCEPT ![o] = after]
      BY <1>2, <1>4 DEF IngestKnown, Inv, TypeOK
    <2>2. CASE after = before
      <3>1. task' = [task EXCEPT ![p] = Ready] /\ crossed' = crossed /\ state' = state
        BY <1>4, <2>1, <2>2 DEF IngestKnown, Moved, Inv, TypeOK
      <3> QED BY <2>1, <3>1, ReadySilent, SilentMirror
    <2>3. CASE after # before
      <3>1. after \in Announced /\ after \in States /\ Announce(after) \in Broadcasts
        BY <2>1, <2>3, AbsorbType, AnnounceType
      <3>2. f \in Frames /\ Says(f, s) /\ Tells(f) = after
        BY <2>1, <3>1, FrameType, AppliedAnnounce DEF Pcs, Says, Speaking, Tells
      <3>3. task' = [task EXCEPT ![p] = f] /\ crossed' = Crossed(s)
        BY <1>4, <2>3 DEF IngestKnown, Moved, SetTask
      <3>4. state'[o] = after /\ \A x \in Objs \ {o} : state'[x] = state[x]
        BY <2>1 DEF Inv, TypeOK
      <3>5. \A u \in Sessions \ {s} : sessions[u] # Nil => sessions[u] \in Objs \ {o}
        BY <2>1, OtherObject DEF Inv, TypeOK
      <3> HIDE DEF f, after, before
      <3> QED BY <2>1, <3>2, <3>3, <3>4, <3>5, ChangeMirror
    <2> QED BY <2>2, <2>3
  <1>5. CASE IngestNew(p, s, ty, lag, th)
    <2> DEFINE after == Absorb("STARTING", ty)
    <2>1. PICK o \in Free, reaped \in SUBSET Sessions :
              /\ sessions' = [u \in Sessions |->
                                IF u = s THEN o ELSE IF u \in reaped THEN Nil ELSE sessions[u]]
              /\ state' = [state EXCEPT ![o] = after]
              /\ SetTask(p, "starting", o, s, after, "thread_started")
      BY <1>5 DEF IngestNew
    <2> DEFINE f == [pc |-> "starting", obj |-> o, sid |-> s, after |-> after,
                     out |-> "thread_started"]
    <2>2. /\ o \in Objs /\ after \in States
          /\ \A u \in Sessions : sessions[u] # Nil => sessions[u] # o
      BY AbsorbType DEF Free, Referenced, Retained, Announced, States
    <2>3. f \in Frames /\ Says(f, s) /\ Tells(f) = after
      BY <2>2, FrameType DEF Pcs, Broadcasts, Says, Speaking, Tells
    <2>4. /\ task' = [task EXCEPT ![p] = f] /\ task[p].pc \notin Speaking
          /\ crossed' = Crossed(s) /\ mirror' = mirror
      BY <1>2, <1>5, <2>1 DEF IngestNew, SetTask
    <2>5. /\ sessions'[s] = o /\ state'[o] = after
          /\ \A x \in Objs \ {o} : state'[x] = state[x]
      BY <2>1, <2>2 DEF Inv, TypeOK
    <2>6. ASSUME NEW u \in Sessions \ {s}, sessions'[u] # Nil
          PROVE  sessions'[u] = sessions[u] /\ state'[sessions[u]] = state[sessions[u]]
      <3>1. sessions'[u] = sessions[u] /\ sessions[u] \in Objs \ {o}
        BY <2>1, <2>2, <2>6 DEF Inv, TypeOK
      <3> QED BY <2>5, <3>1
    <2> HIDE DEF f, after
    <2> QED BY <2>3, <2>4, <2>5, <2>6, ChangeMirror
  <1> QED BY <1>1, <1>3, <1>4, <1>5

LEMMA KillMirror ==
    ASSUME Inv, MirrorInv, NEW p \in Procs, NEW s \in Sessions, Kill(p, s),
           task[p].pc \notin Speaking, UNCHANGED <<sessions, mirror>>
    PROVE  MirrorInv'
  <1> DEFINE f == [pc |-> "ending", obj |-> sessions[s], sid |-> s, after |-> Nil,
                   out |-> "thread_ended"]
  <1>1. f \in Frames /\ Says(f, s) /\ Tells(f) = "DEAD"
    BY FrameType DEF Pcs, Broadcasts, Inv, TypeOK, Says, Speaking, Tells, Applied
  <1>2. task' = [task EXCEPT ![p] = f] /\ crossed' = Crossed(s) /\ sessions[s] # Nil
    BY DEF Kill, SetTask, Alive
  <1>3. /\ sessions[s] \in Objs /\ state'[sessions[s]] = "DEAD"
        /\ \A x \in Objs \ {sessions[s]} : state'[x] = state[x]
    BY <1>2 DEF Kill, Inv, TypeOK
  <1>4. \A u \in Sessions \ {s} : sessions[u] # Nil => sessions[u] \in Objs \ {sessions[s]}
    BY <1>2, OtherObject DEF Inv, TypeOK
  <1> HIDE DEF f
  <1> QED BY <1>1, <1>2, <1>3, <1>4, ChangeMirror

LEMMA InferIdleMirror ==
    ASSUME Inv, MirrorInv, NEW c \in Procs, InferIdle(c)
    PROVE  MirrorInv'
  <1> DEFINE s == task[c].sid
             o == sessions[s]
  <1>1. /\ s \in Sessions /\ task[c].pc \notin Speaking
        /\ UNCHANGED <<sessions, mirror>>
    BY DEF InferIdle, Inv, FramesNamed, Named, Speaking
  <1>2. CASE /\ Inferable(o) /\ state' = [state EXCEPT ![o] = "IDLE"]
             /\ SetTask(c, "ending", o, s, Nil, "thread_idle") /\ crossed' = Crossed(s)
    <2> DEFINE f == [pc |-> "ending", obj |-> o, sid |-> s, after |-> Nil,
                     out |-> "thread_idle"]
    <2>1. o \in Objs /\ o # Nil
      BY <1>1, <1>2 DEF Inferable, Inv, TypeOK
    <2>2. f \in Frames /\ Says(f, s) /\ Tells(f) = "IDLE"
      BY <1>1, <2>1, FrameType DEF Pcs, Broadcasts, Says, Speaking, Tells, Applied
    <2>3. task' = [task EXCEPT ![c] = f] /\ crossed' = Crossed(s)
      BY <1>2 DEF SetTask
    <2>4. state'[o] = "IDLE" /\ \A x \in Objs \ {o} : state'[x] = state[x]
      BY <1>2, <2>1 DEF Inv, TypeOK
    <2>5. \A u \in Sessions \ {s} : sessions[u] # Nil => sessions[u] \in Objs \ {o}
      BY <1>1, <2>1, OtherObject DEF Inv, TypeOK
    <2> HIDE DEF f
    <2> QED BY <1>1, <2>1, <2>2, <2>3, <2>4, <2>5, ChangeMirror
  <1>3. CASE task' = [task EXCEPT ![c] = Ready] /\ UNCHANGED <<state, crossed>>
    BY <1>1, <1>3, ReadySilent, SilentMirror
  <1> QED BY <1>2, <1>3 DEF InferIdle

\* A goroutine says what it had to say, or a part of it.
LEMMA DeliverMirror ==
    ASSUME Inv, MirrorInv, NEW p \in Procs, Deliver(p)
    PROVE  MirrorInv'
  <1>1. /\ task[p] \in Frames /\ Named(task[p], id)
        /\ UNCHANGED <<sessions, state, crossed>>
    BY DEF Deliver, heap, Inv, TypeOK, FramesNamed
  <1>2. CASE /\ task[p].pc = "starting" /\ UNCHANGED <<owed, mirror>>
             /\ task' = [task EXCEPT ![p].pc = "started", ![p].out = Nil]
    <2> DEFINE f == [task[p] EXCEPT !.pc = "started", !.out = Nil]
    <2>1. task' = [task EXCEPT ![p] = f]
      BY <1>2 DEF Inv, TypeOK, Frames
    <2>2. /\ f \in Frames /\ f.pc = "started" /\ f.sid = task[p].sid
          /\ f.after = task[p].after
      BY <1>1 DEF Frames, Pcs
    <2> HIDE DEF f
    <2>3. Tells(f) = Tells(task[p]) /\ \A u : Says(f, u) <=> Says(task[p], u)
      BY <1>2, <2>2 DEF Tells, Says, Speaking
    <2> QED BY <1>1, <1>2, <2>1, <2>2, <2>3, FrameAgree DEF MirrorInv
  <1>3. ASSUME NEW f \in Frames, task' = [task EXCEPT ![p] = f], f.pc \notin Speaking,
               task[p].pc \in {"moved", "ending"}, ToSink(task[p].sid, task[p].out)
        PROVE  MirrorInv'
    <2> SUFFICES ASSUME NEW u \in Sessions \ crossed PROVE Agree(u)'
      BY <1>1 DEF MirrorInv
    <2>1. Agree(u) /\ ~Says(f, u)
      BY <1>3 DEF MirrorInv, Says
    <2>2. CASE u = task[p].sid
      <3>1. mirror'[u] = Tells(task[p]) /\ Says(task[p], u)
        BY <1>3, <2>2 DEF ToSink, Tells, Says, Speaking, Inv, TypeOK
      <3> QED BY <1>1, <1>3, <2>1, <3>1, LastSaid
    <2>3. CASE u # task[p].sid
      <3>1. mirror'[u] = mirror[u] /\ ~Says(task[p], u)
        BY <1>3, <2>3 DEF ToSink, Says, Inv, TypeOK
      <3> QED BY <1>1, <1>3, <2>1, <3>1, FrameAgree
    <2> QED BY <2>2, <2>3
  <1>4. CASE /\ task[p].pc = "moved" /\ ToSink(task[p].sid, task[p].out)
             /\ task' = [task EXCEPT ![p].pc = "told", ![p].out = Nil]
    <2> DEFINE f == [task[p] EXCEPT !.pc = "told", !.out = Nil]
    <2>1. task' = [task EXCEPT ![p] = f]
      BY <1>4 DEF Inv, TypeOK, Frames
    <2>2. f \in Frames /\ f.pc = "told"
      BY <1>1 DEF Frames, Pcs
    <2> HIDE DEF f
    <2>3. f.pc \notin Speaking
      BY <2>2 DEF Speaking
    <2> QED BY <1>3, <1>4, <2>1, <2>2, <2>3
  <1>5. CASE /\ task[p].pc = "ending" /\ ToSink(task[p].sid, task[p].out)
             /\ task' = [task EXCEPT ![p] = Ready]
    BY <1>3, <1>5, ReadySilent
  <1> QED BY <1>2, <1>4, <1>5 DEF Deliver

LEMMA ProceedMirror ==
    ASSUME Inv, MirrorInv, NEW p \in Procs, Proceed(p)
    PROVE  MirrorInv'
  <1>1. CASE AnnounceState(p)
    <2> DEFINE f == [pc |-> "moved", obj |-> task[p].obj, sid |-> task[p].sid,
                     after |-> task[p].after, out |-> Announce(task[p].after)]
    <2>1. /\ task[p].obj \in Objs /\ task[p].after \in Announced /\ task[p].sid \in Sessions
          /\ task[p].after \in States /\ task[p].pc = "started"
      BY <1>1 DEF AnnounceState, Inv, FramesNamed, Named, Ingesting, Announced
    <2>2. /\ UNCHANGED <<sessions, state, mirror, crossed>>
          /\ task' = [task EXCEPT ![p] = f]
      BY <1>1 DEF AnnounceState, SetTask, history
    <2>3. f \in Frames
      BY <2>1, AnnounceType, FrameType DEF Pcs
    <2>4. Tells(f) = Tells(task[p]) /\ \A u : Says(f, u) <=> Says(task[p], u)
      BY <2>1, AppliedAnnounce DEF Tells, Says, Speaking
    <2> HIDE DEF f
    <2> QED BY <2>2, <2>3, <2>4, FrameAgree DEF MirrorInv
  <1>2. CASE FinishIngest(p)
    BY <1>2, ReadySilent, SilentMirror DEF FinishIngest, Speaking, history
  <1> QED BY <1>1, <1>2, DeliverMirror, InferIdleMirror DEF Proceed

LEMMA NextMirror == Inv /\ MirrorInv /\ [Next]_vars => MirrorInv'
  <1> SUFFICES ASSUME Inv, MirrorInv, [Next]_vars PROVE MirrorInv'
    OBVIOUS
  <1>1. ASSUME NEW p \in Procs, NEW pc \in Pcs \ Speaking, NEW o \in Objs \cup {Nil},
               NEW s \in Sessions \cup {Nil}, SetTask(p, pc, o, s, Nil, Nil),
               task[p].pc \notin Speaking, UNCHANGED <<sessions, state, mirror, crossed>>
        PROVE  MirrorInv'
    <2> DEFINE f == [pc |-> pc, obj |-> o, sid |-> s, after |-> Nil, out |-> Nil]
    <2>1. f \in Frames /\ f.pc = pc /\ task' = [task EXCEPT ![p] = f]
      BY <1>1, FrameType DEF SetTask
    <2> HIDE DEF f
    <2> QED BY <1>1, <2>1, SilentMirror
  <1>2. {"reply", "condemned", "infer"} \subseteq Pcs \ Speaking /\ "ready" \notin Speaking
    BY DEF Pcs, Speaking
  <1>3. ASSUME NEW p \in Procs, NEW th \in Threads, LookupForReply(p, th) PROVE MirrorInv'
    <2>1. PICK s \in Best(th) : SetTask(p, "reply", sessions[s], s, Nil, Nil)
      BY <1>3 DEF LookupForReply
    <2>2. s \in Sessions /\ sessions[s] \in Objs \cup {Nil}
      BY DEF Best, Inv, TypeOK
    <2>3. task[p].pc \notin Speaking /\ UNCHANGED <<sessions, state, mirror, crossed>>
      BY <1>2, <1>3 DEF LookupForReply, heap, history
    <2> QED BY <1>1, <1>2, <2>1, <2>2, <2>3
  <1>4. ASSUME NEW p \in Procs, NEW s \in Sessions, MarkDead(p, s) PROVE MirrorInv'
    BY <1>2, <1>4, KillMirror DEF MarkDead
  <1>5. ASSUME NEW p \in Procs, SweepKill(p) PROVE MirrorInv'
    <2>1. /\ task[p].pc = "condemned" /\ task[p].sid \in Sessions
          /\ UNCHANGED <<sessions, mirror>>
      BY <1>5 DEF SweepKill, Inv, FramesNamed, Named
    <2>2. CASE Kill(p, task[p].sid)
      BY <1>2, <2>1, <2>2, KillMirror
    <2>3. CASE task' = [task EXCEPT ![p] = Ready] /\ UNCHANGED <<state, crossed>>
      BY <1>2, <2>1, <2>3, ReadySilent, SilentMirror
    <2> QED BY <1>5, <2>2, <2>3 DEF SweepKill
  <1>6. ASSUME NEW p \in Procs, NEW s \in Sessions, SweepAsk(p, s) PROVE MirrorInv'
    <2>1. task[p].pc \notin Speaking /\ UNCHANGED <<sessions, state, mirror, crossed>>
      BY <1>2, <1>6 DEF SweepAsk, heap, history
    <2>2. CASE UNCHANGED task
      BY <2>1, <2>2, SameMirror
    <2>3. CASE SetTask(p, "condemned", Nil, s, Nil, Nil)
      BY <1>1, <1>2, <2>1, <2>3
    <2> QED BY <1>6, <2>2, <2>3 DEF SweepAsk
  <1>7. ASSUME NEW o \in Objs, NEW c \in Callbacks, Fire(o, c) PROVE MirrorInv'
    <2>1. /\ c \in Procs /\ id[o] \in Sessions \cup {Nil} /\ task[c].pc \notin Speaking
          /\ UNCHANGED <<sessions, state, mirror, crossed>>
      BY <1>2, <1>7 DEF Fire, Procs, history, Inv, TypeOK
    <2> QED BY <1>1, <1>2, <1>7, <2>1 DEF Fire
  <1>8. ASSUME \/ \E p \in Procs : SweepSelect(p)
               \/ \E s \in Sessions : Register(s) \/ Unregister(s)
        PROVE  MirrorInv'
    BY <1>8, SameMirror DEF SweepSelect, Register, Unregister, heap, history
  <1>9. CASE Tick \/ GCRecent \/ Close \/ UNCHANGED vars
    BY <1>9, SameMirror DEF Tick, GCRecent, Close, vars, heap, history
  <1> QED BY <1>3, <1>4, <1>5, <1>6, <1>7, <1>8, <1>9, IngestMirror, ProceedMirror
          DEF Next, Expire

\* Whoever applies the broadcasts ends up with the state of every session whose
\* latest change was made while no other broadcast of it was outstanding, for
\* any number of goroutines and however its earlier broadcasts passed each
\* other: a later change made alone repairs the mirror (mux.go:753-759, 305-354).
THEOREM MirrorIsRight == Spec => []MirrorAgrees
  <1>1. Init => MirrorInv
    <2> SUFFICES ASSUME Init, NEW s \in Sessions PROVE Agree(s)
      BY DEF MirrorInv
    <2>1. Speakers(s) = {} /\ sessions[s] = Nil
      BY DEF Init, Ready, Speakers, Speaking
    <2> QED BY <2>1 DEF Agree
  <1>2. MirrorInv => MirrorAgrees
    BY DEF MirrorInv, Agree, MirrorAgrees
  <1> QED BY <1>1, <1>2, NextMirror, InvHolds, PTL DEF Spec
=============================================================================

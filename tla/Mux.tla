------------------------------- MODULE Mux --------------------------------
(***************************************************************************)
(* The host's session mux (src/host/internal/mux/mux.go): one session      *)
(* object per agent session, fed by any number of goroutines, guarded by   *)
(* one mutex that broadcastLocked gives up around every call of the Sink.  *)
(*                                                                         *)
(* An action is one critical section of the mutex, or one step outside it  *)
(* (the Sink call, a timer firing, time passing).  A goroutine that has    *)
(* given the mutex up keeps what its Go stack frame keeps, in task: the    *)
(* session OBJECT it points to, and the state it captured.  Objects are    *)
(* named by Objs because the code holds pointers: a session reaped and     *)
(* created anew under the same id is another object.                       *)
(*                                                                         *)
(* Time is counted in ticks and kept as ages, saturated just past the      *)
(* largest age the code compares with.  Snippets, labels and redaction     *)
(* are left out: no mux decision reads them.                               *)
(***************************************************************************)
EXTENDS Integers, FiniteSets

CONSTANTS
    Sessions,      \* session ids
    Threads,       \* thread ids, ThreadIDFor(agent, cwd)
    Objs,          \* session objects (the heap; bounds how many are live at once)
    Producers,     \* goroutines that call Ingest
    Repliers,      \* goroutines that call IngestUserInput (HUD connections)
    Watchers,      \* goroutines that call MarkDead (process watcher)
    Sweepers,      \* goroutines that call SweepStale
    Callbacks,     \* goroutines the runtime starts for expired idle timers
    Feeds,         \* <<p, s>>: producer p observes session s
    Endpoints,     \* sessions the process watcher may register an endpoint for
    Types,         \* event types the producers emit
    Lags,          \* how old an event's observed_at may be when it arrives
    DedupWindow,   \* ticks within which an identical event is collapsed
    GCAge,         \* age past which gcRecent forgets an entry (4 windows)
    IdleDebounce,  \* ticks of quiet that make a BUSY session IDLE
    MaxIdle,       \* ticks of quiet that make a session a sweep victim
    MaxSessions,   \* retained sessions beyond which a DEAD one is reaped
    Nil            \* no object, no session, no timer

EventTypes == {"session_start", "user_prompt", "assistant_message", "tool_use",
               "permission_prompt", "stop", "session_end"}
States == {"STARTING", "BUSY", "IDLE", "AWAITING_PERMISSION", "DEAD"}
Broadcasts == {"thread_started", "thread_busy", "thread_idle", "permission",
               "thread_ended"}

Procs == Producers \cup Repliers \cup Watchers \cup Sweepers \cup Callbacks

ASSUME TypesAssumption == Types \subseteq EventTypes
ASSUME TimeAssumption ==
    /\ DedupWindow \in Nat /\ GCAge \in Nat /\ DedupWindow <= GCAge
    /\ IdleDebounce \in Nat /\ MaxIdle \in Nat /\ MaxSessions \in Nat
    /\ Lags \subseteq Nat
ASSUME NilAssumption ==
    /\ Nil \notin Objs /\ Nil \notin Sessions /\ Nil \notin Threads
    /\ Nil \notin Nat /\ Nil \notin States /\ Nil \notin Broadcasts
ASSUME FeedsAssumption ==
    Feeds \subseteq Producers \X Sessions /\ Endpoints \subseteq Sessions
ASSUME FiniteAssumption == IsFiniteSet(Procs)
ASSUME RolesAssumption ==
    /\ Producers \cap (Repliers \cup Watchers \cup Sweepers \cup Callbacks) = {}
    /\ Repliers \cap (Watchers \cup Sweepers \cup Callbacks) = {}
    /\ Watchers \cap (Sweepers \cup Callbacks) = {}
    /\ Sweepers \cap Callbacks = {}

VARIABLES
    sessions,   \* Mux.sessions: session id -> object
    threads,    \* Mux.threads: thread id -> session ids (empty: no entry)
    recent,     \* Mux.recent: <<session, type>> -> age of the entry, or Nil
    id,         \* session.id of an object
    threadID,   \* session.threadID
    state,      \* session.state
    idleTimer,  \* session.idleTimer: ticks left, or Nil (none, stopped or expired)
    quiet,      \* age of session.lastEventAt
    task,       \* what each goroutine does inside the mux
    victims,    \* SweepStale: the victims not yet visited
    closed,     \* Close was called
    registered, \* sessions for which isLive answers TRUE (delivery registry)
    accepted,   \* history: ticks since an event of this key was accepted, for
                \* the types duplicateLocked looks at
    owed,       \* history: deaths of a session minus thread_ended the Sink got
    absent,     \* history: sessions without an endpoint since a sweep began
    mirror,     \* history: the state a relay that applies what the Sink got has
                \* for a session (STARTING: it was told none yet)
    crossed     \* history: sessions whose latest change of state was made while
                \* another goroutine still had a broadcast of an earlier one

heap == <<id, threadID, state, idleTimer, quiet>>
history == <<accepted, owed, absent, mirror, crossed>>
vars == <<sessions, threads, recent, heap, task, victims, closed, registered,
          history>>

Keys == Sessions \X EventTypes
Ready == [pc |-> "ready", obj |-> Nil, sid |-> Nil, after |-> Nil, out |-> Nil]

(***************************************************************************)
(* Helpers.                                                                *)
(***************************************************************************)

Retained == {s \in Sessions : sessions[s] # Nil}
StateOf(s) == state[sessions[s]]

\* The objects something still points to: the maps, a stack frame, or a
\* running timer (its closure captures the session).
Referenced == {sessions[s] : s \in Retained} \cup {task[p].obj : p \in Procs}
              \cup {o \in Objs : idleTimer[o] # Nil}
Free == Objs \ Referenced

\* duplicateLocked never collapses the two types that carry distinct text.
Deduped(ty) == ty \notin {"assistant_message", "user_prompt"}
IsDuplicate(s, ty) ==
    Deduped(ty) /\ recent[<<s, ty>>] # Nil /\ recent[<<s, ty>>] < DedupWindow
Accepted(s, ty) == IF Deduped(ty) THEN [accepted EXCEPT ![<<s, ty>>] = 0] ELSE accepted
Recorded(s, ty) == IF Deduped(ty) THEN [recent EXCEPT ![<<s, ty>>] = 0] ELSE recent

\* absorb: the state an event puts a session into.
Absorb(st, ty) ==
    CASE ty = "session_start" -> IF st \in {"STARTING", "DEAD"} THEN "IDLE" ELSE st
      [] ty \in {"assistant_message", "user_prompt", "tool_use"} -> "BUSY"
      [] ty = "permission_prompt" -> "AWAITING_PERMISSION"
      [] ty = "stop" -> "IDLE"
      [] ty = "session_end" -> "DEAD"

\* emitTransitionLocked: the broadcast that announces a state.
Announce(st) ==
    CASE st = "BUSY" -> "thread_busy"
      [] st = "IDLE" -> "thread_idle"
      [] st = "AWAITING_PERMISSION" -> "permission"
      [] st = "DEAD" -> "thread_ended"

\* ApplyUpstream: the state a broadcast puts a mirroring mux's session into.
Applied(b) ==
    CASE b = "thread_busy" -> "BUSY"
      [] b = "thread_idle" -> "IDLE"
      [] b = "permission" -> "AWAITING_PERMISSION"
      [] b = "thread_ended" -> "DEAD"
      [] OTHER -> "STARTING"

\* The goroutines that still have to say something of a session.
Speaking == {"starting", "started", "moved", "ending"}
Speakers(s) == {p \in Procs : task[p].sid = s /\ task[p].pc \in Speaking}
Crossed(s) == IF Speakers(s) = {} THEN crossed \ {s} ELSE crossed \cup {s}

\* Ingest's after != before.
RevivalUnseen(before, after) ==  \* fault: a revived session is not announced
    after # before /\ before # "DEAD"
Moved(before, after) == after # before

\* emitTransitionLocked stops the timer for every state but BUSY.
TimerAfterEmit(o, after) == IF after = "BUSY" THEN idleTimer[o] ELSE Nil

\* armIdleLocked, for the state BUSY only.
ArmedOnceMore(o, after) ==  \* fault: a timer is only ever restarted
    IF after = "BUSY" /\ idleTimer[o] # Nil
    THEN [idleTimer EXCEPT ![o] = IdleDebounce] ELSE idleTimer
Armed(o, after) ==
    IF after = "BUSY" THEN [idleTimer EXCEPT ![o] = IdleDebounce] ELSE idleTimer

\* bestSessionLocked: the live sessions of a thread with the latest event.
Best(th) ==
    LET live == {s \in threads[th] : sessions[s] # Nil /\ StateOf(s) # "DEAD"}
    IN  {s \in live : \A u \in live : quiet[sessions[s]] <= quiet[sessions[u]]}

OldestOfAll ==  \* fault: the oldest session, DEAD or not
    {s \in Retained : \A u \in Retained : quiet[sessions[s]] >= quiet[sessions[u]]}
\* reapOldestDeadLocked: the DEAD sessions with the oldest event.
OldestDead ==
    LET dead == {s \in Retained : StateOf(s) = "DEAD"}
    IN  {s \in dead : \A u \in dead : quiet[sessions[s]] >= quiet[sessions[u]]}

AtCap == Cardinality(Retained) >= MaxSessions

\* The index after s was created in th and the sessions in reaped were reaped.
IndexWithReaped(s, th, reaped) ==  \* fault: the reaped stay indexed
    [t \in Threads |-> threads[t] \cup (IF t = th THEN {s} ELSE {})]
Indexed(s, th, reaped) ==
    [t \in Threads |-> (threads[t] \ reaped) \cup (IF t = th THEN {s} ELSE {})]

Older(age, limit) == IF age < limit THEN age + 1 ELSE limit

SetTask(p, pc, o, s, after, out) ==
    task' = [task EXCEPT ![p] = [pc |-> pc, obj |-> o, sid |-> s,
                                 after |-> after, out |-> out]]
Owe(s, before, after) ==
    IF before # "DEAD" /\ after = "DEAD" THEN [owed EXCEPT ![s] = @ + 1] ELSE owed

Init ==
    /\ sessions = [s \in Sessions |-> Nil]
    /\ threads = [th \in Threads |-> {}]
    /\ recent = [k \in Keys |-> Nil]
    /\ id = [o \in Objs |-> Nil]
    /\ threadID = [o \in Objs |-> Nil]
    /\ state = [o \in Objs |-> "STARTING"]
    /\ idleTimer = [o \in Objs |-> Nil]
    /\ quiet = [o \in Objs |-> 0]
    /\ task = [p \in Procs |-> Ready]
    /\ victims = [r \in Sweepers |-> {}]
    /\ closed = FALSE
    /\ registered \in SUBSET Endpoints
    /\ accepted = [k \in Keys |-> DedupWindow]
    /\ owed = [s \in Sessions |-> 0]
    /\ absent = [r \in Sweepers |-> {}]
    /\ mirror = [s \in Sessions |-> "STARTING"]
    /\ crossed = {}

(***************************************************************************)
(* Ingest, up to the first point where it gives the mutex up.  Three       *)
(* outcomes: the event is collapsed, meets a retained session, or creates  *)
(* one.  A replier reaches the same code with a user_prompt for the        *)
(* session it looked up in an earlier critical section.                    *)
(***************************************************************************)

Calling(p, s, ty, lag, th) ==
    \/ /\ task[p].pc = "ready"
       /\ <<p, s>> \in Feeds /\ ty \in Types /\ lag \in Lags /\ th \in Threads
    \/ /\ task[p].pc = "reply" /\ task[p].sid = s
       /\ ty = "user_prompt" /\ lag = 0 /\ th = threadID[task[p].obj]

IngestDuplicate(p, s, ty, lag, th) ==
    /\ Calling(p, s, ty, lag, th)
    /\ IsDuplicate(s, ty)
    /\ UNCHANGED <<sessions, threads, recent, heap, task, victims, closed,
                   registered, history>>

IngestKnown(p, s, ty, lag, th) ==
    LET o == sessions[s]
        before == state[o]
        after == Absorb(before, ty)
    IN  /\ Calling(p, s, ty, lag, th)
        /\ ~IsDuplicate(s, ty)
        /\ o # Nil
        /\ recent' = Recorded(s, ty)
        /\ state' = [state EXCEPT ![o] = after]
        /\ quiet' = [quiet EXCEPT ![o] = lag]
        /\ \/ /\ Moved(before, after)
              /\ idleTimer' = [idleTimer EXCEPT ![o] = TimerAfterEmit(o, after)]
              /\ SetTask(p, "moved", o, s, after, Announce(after))
           \/ /\ ~Moved(before, after)
              /\ idleTimer' = Armed(o, after)
              /\ task' = [task EXCEPT ![p] = Ready]
        /\ owed' = Owe(s, before, after)
        /\ crossed' = IF after = before THEN crossed ELSE Crossed(s)
        /\ accepted' = Accepted(s, ty)
        /\ UNCHANGED <<sessions, threads, id, threadID, victims, closed,
                       registered, absent, mirror>>

\* getOrCreateLocked on an unknown id: reap (which may find nothing DEAD and
\* then reaps nothing), create, index, absorb, announce the thread.
IngestNew(p, s, ty, lag, th) ==
    /\ Calling(p, s, ty, lag, th)
    /\ ~IsDuplicate(s, ty)
    /\ sessions[s] = Nil
    /\ \E o \in Free, reaped \in SUBSET Sessions :
        /\ IF AtCap /\ OldestDead # {}
           THEN \E r \in OldestDead : reaped = {r}
           ELSE reaped = {}
        /\ sessions' = [u \in Sessions |->
                          IF u = s THEN o ELSE IF u \in reaped THEN Nil ELSE sessions[u]]
        /\ threads' = Indexed(s, th, reaped)
        /\ id' = [id EXCEPT ![o] = s]
        /\ threadID' = [threadID EXCEPT ![o] = th]
        /\ state' = [state EXCEPT ![o] = Absorb("STARTING", ty)]
        /\ quiet' = [quiet EXCEPT ![o] = lag]
        /\ SetTask(p, "starting", o, s, Absorb("STARTING", ty), "thread_started")
    /\ recent' = Recorded(s, ty)
    /\ owed' = Owe(s, "STARTING", Absorb("STARTING", ty))
    /\ crossed' = Crossed(s)
    /\ accepted' = Accepted(s, ty)
    /\ UNCHANGED <<idleTimer, victims, closed, registered, absent, mirror>>

\* The rest of Ingest for a new session, the mutex taken again: the state
\* captured before thread_started went out is announced, whatever the
\* session's state is now, and its timer is stopped unless that state is BUSY.
AnnounceState(p) ==
    LET o == task[p].obj
        after == task[p].after
    IN  /\ task[p].pc = "started"
        /\ idleTimer' = [idleTimer EXCEPT ![o] = TimerAfterEmit(o, after)]
        /\ SetTask(p, "moved", o, task[p].sid, after, Announce(after))
        /\ UNCHANGED <<sessions, threads, recent, id, threadID, state, quiet,
                       victims, closed, registered, history>>

\* The last critical section of Ingest: armIdleLocked if the captured state
\* is BUSY.
FinishIngest(p) ==
    LET o == task[p].obj
    IN  /\ task[p].pc = "told"
        /\ idleTimer' = Armed(o, task[p].after)
        /\ task' = [task EXCEPT ![p] = Ready]
        /\ UNCHANGED <<sessions, threads, recent, id, threadID, state, quiet,
                       victims, closed, registered, history>>

\* IngestUserInput: look the best session up, give the mutex up, call Ingest.
LookupForReply(p, th) ==
    /\ p \in Repliers /\ task[p].pc = "ready"
    /\ \E s \in Best(th) : SetTask(p, "reply", sessions[s], s, Nil, Nil)
    /\ UNCHANGED <<sessions, threads, recent, heap, victims, closed, registered,
                   history>>

(***************************************************************************)
(* The Sink call, outside the mutex.  thread_started names no session.     *)
(***************************************************************************)

ToSink(s, b) ==
    /\ owed' = IF b = "thread_ended" THEN [owed EXCEPT ![s] = @ - 1] ELSE owed
    /\ mirror' = [mirror EXCEPT ![s] = Applied(b)]

Deliver(p) ==
    /\ task[p].out # Nil
    /\ \/ /\ task[p].pc = "starting"
          /\ task' = [task EXCEPT ![p].pc = "started", ![p].out = Nil]
          /\ UNCHANGED <<owed, mirror>>
       \/ /\ task[p].pc = "moved"
          /\ task' = [task EXCEPT ![p].pc = "told", ![p].out = Nil]
          /\ ToSink(task[p].sid, task[p].out)
       \/ /\ task[p].pc = "ending"
          /\ task' = [task EXCEPT ![p] = Ready]
          /\ ToSink(task[p].sid, task[p].out)
    /\ UNCHANGED <<sessions, threads, recent, heap, victims, closed, registered,
                   accepted, absent, crossed>>

(***************************************************************************)
(* Death from outside: MarkDead, and the reaper's SweepStale.              *)
(***************************************************************************)

AliveIfKnown(s) == sessions[s] # Nil  \* fault: MarkDead is not idempotent
Alive(s) == sessions[s] # Nil /\ StateOf(s) # "DEAD"

\* MarkDead's critical section on a session that is retained and not DEAD
\* (on any other it does nothing).
Kill(p, s) ==
    LET o == sessions[s]
    IN  /\ Alive(s)
        /\ idleTimer' = [idleTimer EXCEPT ![o] = Nil]
        /\ state' = [state EXCEPT ![o] = "DEAD"]
        /\ SetTask(p, "ending", o, s, Nil, "thread_ended")
        /\ owed' = Owe(s, state[o], "DEAD")
        /\ crossed' = Crossed(s)

MarkDead(p, s) ==
    /\ p \in Watchers /\ task[p].pc = "ready"
    /\ Kill(p, s)
    /\ UNCHANGED <<sessions, threads, recent, id, threadID, quiet, victims,
                   closed, registered, accepted, absent, mirror>>

\* The victims are chosen in one critical section ...
SweepSelect(r) ==
    /\ r \in Sweepers /\ task[r].pc = "ready" /\ victims[r] = {}
    /\ victims' = [victims EXCEPT ![r] =
                     {s \in Retained : /\ StateOf(s) \notin {"DEAD", "BUSY"}
                                       /\ quiet[sessions[s]] > MaxIdle}]
    /\ absent' = [absent EXCEPT ![r] = Sessions \ registered]
    /\ UNCHANGED <<sessions, threads, recent, heap, task, closed, registered,
                   accepted, owed, mirror, crossed>>

\* ... then, outside the mutex, each is asked about, and passed over if live ...
\* (main.go:641-645: isLive is a lookup in the delivery registry.)
NeverLive(s) == FALSE  \* fault: the sweep does not ask
IsLive(s) == s \in registered

SweepAsk(r, s) ==
    /\ r \in Sweepers /\ task[r].pc = "ready" /\ s \in victims[r]
    /\ victims' = [victims EXCEPT ![r] = @ \ {s}]
    /\ \/ IsLive(s) /\ UNCHANGED task
       \/ ~IsLive(s) /\ SetTask(r, "condemned", Nil, s, Nil, Nil)
    /\ UNCHANGED <<sessions, threads, recent, heap, closed, registered, history>>

\* ... or handed to MarkDead, which looks at nothing but DEAD.
SweepKill(r) ==
    /\ task[r].pc = "condemned"
    /\ \/ Kill(r, task[r].sid)
       \/ /\ ~Alive(task[r].sid)
          /\ task' = [task EXCEPT ![r] = Ready]
          /\ UNCHANGED <<idleTimer, state, owed, crossed>>
    /\ UNCHANGED <<sessions, threads, recent, id, threadID, quiet, victims,
                   closed, registered, accepted, absent, mirror>>

\* The delivery registry gains or loses the session's endpoint (proc watcher).
Register(s) ==
    /\ s \in Endpoints
    /\ registered' = registered \cup {s}
    /\ UNCHANGED <<sessions, threads, recent, heap, task, victims, closed, history>>
Unregister(s) ==
    /\ registered' = registered \ {s}
    /\ absent' = [r \in Sweepers |-> absent[r] \cup {s}]
    /\ UNCHANGED <<sessions, threads, recent, heap, task, victims, closed,
                   accepted, owed, mirror, crossed>>

(***************************************************************************)
(* Timers, time, housekeeping.                                             *)
(***************************************************************************)

\* An idle timer expires: the runtime starts its callback, which must still
\* wait for the mutex.  Stop() cannot call it back any more.
Fire(o, c) ==
    /\ c \in Callbacks /\ task[c].pc = "ready"
    /\ idleTimer[o] = 0
    /\ idleTimer' = [idleTimer EXCEPT ![o] = Nil]
    /\ SetTask(c, "infer", Nil, id[o], Nil, Nil)
    /\ UNCHANGED <<sessions, threads, recent, id, threadID, state, quiet,
                   victims, closed, registered, history>>

InferableIfKnown(o) == o # Nil  \* fault: any session goes IDLE
Inferable(o) == o # Nil /\ state[o] = "BUSY"

\* inferIdle: by session id, so possibly on another object than armed it.
InferIdle(c) ==
    LET s == task[c].sid
        o == sessions[s]
    IN  /\ task[c].pc = "infer"
        /\ \/ /\ Inferable(o)
              /\ state' = [state EXCEPT ![o] = "IDLE"]
              /\ SetTask(c, "ending", o, s, Nil, "thread_idle")
              /\ crossed' = Crossed(s)
           \/ /\ ~Inferable(o)
              /\ task' = [task EXCEPT ![c] = Ready]
              /\ UNCHANGED <<state, crossed>>
        /\ UNCHANGED <<sessions, threads, recent, id, threadID, idleTimer, quiet,
                       victims, closed, registered, accepted, owed, absent, mirror>>

\* A tick.  An object no map holds any more is not aged: nothing reads it.
Tick ==
    /\ recent' = [k \in Keys |-> IF recent[k] = Nil THEN Nil
                                 ELSE Older(recent[k], GCAge + 1)]
    /\ idleTimer' = [o \in Objs |-> IF idleTimer[o] \in {Nil, 0} THEN idleTimer[o]
                                    ELSE idleTimer[o] - 1]
    /\ quiet' = [o \in Objs |-> IF \E s \in Sessions : sessions[s] = o
                                THEN Older(quiet[o], MaxIdle + 1) ELSE quiet[o]]
    /\ accepted' = [k \in Keys |-> Older(accepted[k], DedupWindow)]
    /\ UNCHANGED <<sessions, threads, id, threadID, state, task, victims, closed,
                   registered, owed, absent, mirror, crossed>>

ForgetAged(k) == recent[k] # Nil /\ recent[k] > 0  \* fault: no multiple of the window
Forgotten(k) == recent[k] # Nil /\ recent[k] > GCAge

\* gcRecent, run by gcLoop until Close stops it.
GCRecent ==
    /\ ~closed
    /\ recent' = [k \in Keys |-> IF Forgotten(k) THEN Nil ELSE recent[k]]
    /\ UNCHANGED <<sessions, threads, heap, task, victims, closed, registered,
                   history>>

\* Close stops gcLoop and the timers of the retained sessions, nothing else.
Close ==
    /\ ~closed
    /\ closed' = TRUE
    /\ idleTimer' = [o \in Objs |-> IF \E s \in Sessions : sessions[s] = o
                                    THEN Nil ELSE idleTimer[o]]
    /\ UNCHANGED <<sessions, threads, recent, id, threadID, state, quiet, task,
                   victims, registered, history>>

IngestStep(p, s) ==
    \E ty \in EventTypes, lag \in Lags \cup {0}, th \in Threads :
        \/ IngestDuplicate(p, s, ty, lag, th)
        \/ IngestKnown(p, s, ty, lag, th)
        \/ IngestNew(p, s, ty, lag, th)

\* What a goroutine inside the mux does next; none of it needs an outside cause.
Proceed(p) == AnnounceState(p) \/ FinishIngest(p) \/ Deliver(p) \/ InferIdle(p)
Expire == \E o \in Objs, c \in Callbacks : Fire(o, c)

Next ==
    \/ \E p \in Procs, s \in Sessions : IngestStep(p, s)
    \/ \E p \in Procs : Proceed(p)
    \/ \E p \in Procs, th \in Threads : LookupForReply(p, th)
    \/ \E p \in Procs, s \in Sessions : MarkDead(p, s)
    \/ \E p \in Procs : SweepSelect(p) \/ SweepKill(p)
    \/ \E p \in Procs, s \in Sessions : SweepAsk(p, s)
    \/ \E s \in Sessions : Register(s) \/ Unregister(s)
    \/ Expire
    \/ Tick
    \/ GCRecent
    \/ Close

Spec == Init /\ [][Next]_vars

\* The Go runtime runs every started goroutine and every expired timer; the
\* wall clock advances.  Nothing makes a producer speak or a watcher look.
\* Expire is strongly fair: that Fire waits for a free element of Callbacks is
\* a bound of the model, the runtime always starts the callback.
Fairness ==
    /\ \A p \in Procs : WF_vars(Proceed(p))
    /\ SF_vars(Expire)
    /\ WF_vars(Tick)

FairSpec == Spec /\ Fairness

(***************************************************************************)
(* Type invariant.                                                         *)
(***************************************************************************)

Pcs == {"ready", "reply", "starting", "started", "moved", "told", "ending",
        "condemned", "infer"}
Frames == [pc : Pcs, obj : Objs \cup {Nil}, sid : Sessions \cup {Nil},
           after : States \cup {Nil}, out : Broadcasts \cup {Nil}]

TypeOK ==
    /\ sessions \in [Sessions -> Objs \cup {Nil}]
    /\ threads \in [Threads -> SUBSET Sessions]
    /\ recent \in [Keys -> (0..GCAge + 1) \cup {Nil}]
    /\ id \in [Objs -> Sessions \cup {Nil}]
    /\ threadID \in [Objs -> Threads \cup {Nil}]
    /\ state \in [Objs -> States]
    /\ idleTimer \in [Objs -> (0..IdleDebounce) \cup {Nil}]
    /\ quiet \in [Objs -> Nat]
    /\ task \in [Procs -> Frames]
    /\ victims \in [Sweepers -> SUBSET Sessions]
    /\ closed \in BOOLEAN
    /\ registered \in SUBSET Sessions
    /\ accepted \in [Keys -> 0..DedupWindow]
    /\ owed \in [Sessions -> Int]
    /\ absent \in [Sweepers -> SUBSET Sessions]
    /\ mirror \in [Sessions -> States]
    /\ crossed \in SUBSET Sessions

(***************************************************************************)
(* Safety.                                                                 *)
(***************************************************************************)

\* The two maps agree: a session id is indexed under exactly the thread its
\* current object carries, and never after it was reaped.  bestSessionLocked,
\* and with it every reply's route, reads the index and trusts it, across
\* reaping and re-creation under another thread (mux.go:541-557, 641-657,
\* 731-751).
IndexConsistent ==
    \A s \in Sessions, th \in Threads :
        s \in threads[th] <=> sessions[s] # Nil /\ threadID[sessions[s]] = th

\* What a goroutine still has to deliver because the session died.
OwesEnd(p, s) ==
    /\ task[p].sid = s
    /\ \/ task[p].out = "thread_ended"
       \/ task[p].pc \in {"starting", "started"} /\ task[p].after = "DEAD"

\* Every death is announced, and announced once: whatever session_end events,
\* watcher reports and sweeps coincide, the thread_ended broadcasts the Sink
\* still lacks are exactly those some goroutine is about to deliver
\* (MarkDead is "Idempotent", mux.go:259-275, and so is session_end).
EveryDeathAnnounced ==
    \A s \in Sessions : owed[s] = Cardinality({p \in Procs : OwesEnd(p, s)})

\* Broadcasts leave the mutex before they reach the Sink (mux.go:753-759), so
\* those of two goroutines may pass each other, and whoever applies them (a
\* relay, mux.go:305-354) ends up with the older state.  Only an overlap does
\* that: once everything was said of a session whose latest change of state
\* was made with no other broadcast of it outstanding, the mirror is right,
\* however often they crossed before.
MirrorAgrees ==
    \A s \in Sessions \ crossed :
        sessions[s] # Nil /\ Speakers(s) = {} => mirror[s] = StateOf(s)

\* The dedup table answers exactly the question it is for: an entry counts as
\* fresh if and only if an identical event was accepted within the window.
\* Collapsed events must not renew it, and gcRecent must not forget it early
\* (mux.go:625-639, 775-784).
DedupExact ==
    \A s \in Sessions, ty \in EventTypes :
        Deduped(ty) => (IsDuplicate(s, ty) <=> accepted[<<s, ty>>] < DedupWindow)

\* Something will still end a BUSY session's turn on its own: its timer runs,
\* or its callback is on its way, or the goroutine that made it BUSY is about
\* to arm the timer ("A quiet period flips it to inferred-IDLE",
\* mux.go:204-206).  SweepStale passes BUSY sessions over, so a session for
\* which this fails stays BUSY until a further event.
WillArm(p, o) ==
    task[p].obj = o /\ task[p].after = "BUSY"
    /\ task[p].pc \in {"starting", "started", "moved", "told"}

EndsItself(s) ==
    sessions[s] # Nil /\ StateOf(s) = "BUSY" /\ ~closed =>
        \/ idleTimer[sessions[s]] # Nil
        \/ \E c \in Callbacks : task[c].pc = "infer" /\ task[c].sid = s
        \/ \E p \in Procs : WillArm(p, sessions[s])

BusyIsTimed == \A s \in Sessions : EndsItself(s)

(***************************************************************************)
(* Action properties.                                                      *)
(***************************************************************************)

\* Death is final but for a new event: no timer callback, sweep, watcher or
\* unfinished Ingest brings a DEAD object back; only an accepted event does.
OnlyEventsRevive ==
    [][\A o \in Objs :
         state[o] = "DEAD" /\ state'[o] # "DEAD" =>
            \E p \in Procs, s \in Sessions : IngestStep(p, s)]_vars

\* With several goroutines at one session a BUSY turn can be left without an
\* end (run mux_stuck_busy), but in one way only: a goroutine that created the
\* session announces the state it captured then, not BUSY, and stops the timer
\* that another has armed since (mux.go:184-203, 682, 860-865).
AnnouncesOver(p, s) ==
    AnnounceState(p) /\ task[p].obj = sessions[s] /\ task[p].after # "BUSY"

OnlyOvertakenUntimed ==
    [][\A s \in Sessions :
         EndsItself(s) => EndsItself(s)' \/ \E p \in Procs : AnnouncesOver(p, s)]_vars

\* A session leaves the maps only DEAD, and no DEAD one retained has been
\* quiet for longer (mux.go:731-751).
ReapsOldestDead ==
    [][\A s \in Sessions : sessions[s] # Nil /\ sessions'[s] = Nil =>
          /\ StateOf(s) = "DEAD"
          /\ \A u \in Retained : StateOf(u) = "DEAD" =>
                quiet[sessions[u]] <= quiet[sessions[s]]]_vars

\* A session that kept its endpoint in the registry all through a sweep is not
\* killed by it: "It must NEVER kill a living agent" (mux.go:224-225).
SweepSparesRegistered ==
    [][\A r \in Sweepers :
          SweepKill(r) /\ state' # state => task[r].sid \in absent[r]]_vars

(***************************************************************************)
(* Liveness.                                                               *)
(***************************************************************************)

\* A BUSY session of which no more events are accepted does not stay BUSY:
\* each session is fed for ever, or is again and again not BUSY, or the mux is
\* closed.  Repeats the dedup table collapses do not count as feeding.
BusyEnds ==
    \A s \in Sessions :
        \/ []<><<\E p \in Procs : IngestStep(p, s)>>_vars
        \/ []<>(sessions[s] = Nil \/ StateOf(s) # "BUSY")
        \/ <>closed
=============================================================================

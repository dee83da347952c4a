------------------------------ MODULE Watcher -----------------------------
(***************************************************************************)
(* The process watcher (src/host/internal/producers/proc.go), the delivery *)
(* registry it feeds (delivery/registry.go) and what main.go hangs on      *)
(* both: the resurrection of a session from its transcript and the reaper  *)
(* that asks the registry whether a session lives.                         *)
(*                                                                         *)
(* A sweep reads the process table once and then goes from process to      *)
(* process, while agents start, exit, switch transcripts and have their    *)
(* pids reused.  An action is one of its reads or writes of shared state.  *)
(* w.live[pid] is a set of sessions; no entry is the empty set, which the  *)
(* code never stores.  The mux is reduced to what the watcher sees of a    *)
(* session: not known, live or DEAD.                                       *)
(***************************************************************************)
EXTENDS Integers, FiniteSets

CONSTANTS
    Pids,       \* process ids; one is reused by a later process
    Sessions,   \* session ids
    Castings,   \* the situations explored; of each, for every pid, which
                \* sessions' transcripts it may open (hold), which one its argv
                \* may name (name), and whether the platform is Windows
    Helpers,    \* pids of helper processes (app-server, mcp-server, ...)
    Dirs,       \* working directories
    Dir,        \* the directory of a session
    Nil

ASSUME CastingsAssumption ==
    /\ Castings \subseteq [hold : [Pids -> SUBSET Sessions],
                            name : [Pids -> SUBSET Sessions], windows : BOOLEAN]
    /\ Helpers \subseteq Pids /\ Dir \in [Sessions -> Dirs]
ASSUME NilAssumption == Nil \notin Pids \cup Sessions \cup Dirs

VARIABLES
    cast,      \* the situation, one of Castings
    running,   \* the agent processes there are
    holds,     \* the transcripts each has open
    argv,      \* the session its command line names, or Nil
    cwd,       \* its working directory, or Nil (not running, or not read: Unix)
    live,      \* ProcWatcher.live
    registry,  \* Registry.byID: the pid of the session's endpoint, or Nil
    mux,       \* the session in the mux: "absent", "live" or "dead"
    attached,  \* sessions whose transcript was attached and not yet replayed
    pc,        \* what the sweep does: "idle", "reap" or "refresh"
    listed,    \* the pids ps listed
    named,     \* the session each listed command line names
    reaping,   \* <<p, s>> marked dead, its endpoint not yet removed, or Nil
    todo,      \* pids of this sweep still to be refreshed
    at,        \* the pid being refreshed
    toSet,     \* its sessions still to be registered
    toRaise,   \* the session OnSessionLive is about to look up, or Nil
    exited,    \* history: pids that exited since they were last listed
    dropped    \* history: <<p, s>> overwritten in live[p]

machine == <<cast, running, holds, argv, cwd>>
sweep == <<pc, listed, named, reaping, todo, at, toSet, toRaise>>
vars == <<machine, live, registry, mux, attached, sweep, exited, dropped>>

Init ==
    /\ cast \in Castings
    /\ running = {}
    /\ holds = [p \in Pids |-> {}]
    /\ argv = [p \in Pids |-> Nil]
    /\ cwd = [p \in Pids |-> Nil]
    /\ live = [p \in Pids |-> {}]
    /\ registry = [s \in Sessions |-> Nil]
    /\ mux = [s \in Sessions |-> "absent"]
    /\ attached = {}
    /\ pc = "idle" /\ listed = {} /\ named = [p \in Pids |-> Nil]
    /\ reaping = Nil /\ todo = {} /\ at = Nil /\ toSet = {} /\ toRaise = Nil
    /\ exited = {}
    /\ dropped = {}

windows == cast.windows  \* useWindowsProcSupport

(***************************************************************************)
(* The machine and the mux, which go on whatever the watcher does.         *)
(***************************************************************************)

\* p is the process of session s.
Works(p, s) ==
    /\ p \in running
    /\ \/ s \in holds[p] \/ argv[p] = s
       \/ windows /\ p \notin Helpers /\ cwd[p] = Dir[s]

Start(p) ==
    /\ p \notin running
    /\ cast.hold[p] \cup cast.name[p] # {} \/ windows
    /\ running' = running \cup {p}
    /\ \E s \in cast.name[p] \cup {Nil} : argv' = [argv EXCEPT ![p] = s]
    /\ \E d \in (IF windows THEN Dirs ELSE {Nil}) : cwd' = [cwd EXCEPT ![p] = d]
    /\ UNCHANGED <<cast, holds, live, registry, mux, attached, sweep, exited,
                   dropped>>

Exit(p) ==
    /\ p \in running
    /\ running' = running \ {p}
    /\ holds' = [holds EXCEPT ![p] = {}]
    /\ argv' = [argv EXCEPT ![p] = Nil]
    /\ cwd' = [cwd EXCEPT ![p] = Nil]
    /\ exited' = exited \cup {p}
    /\ UNCHANGED <<cast, live, registry, mux, attached, sweep, dropped>>

\* The agent opens or closes a transcript (/clear, /resume).
Switch(p, s) ==
    /\ p \in running /\ s \in cast.hold[p]
    /\ holds' = [holds EXCEPT ![p] = IF s \in @ THEN @ \ {s} ELSE @ \cup {s}]
    /\ UNCHANGED <<cast, running, argv, cwd, live, registry, mux, attached,
                   sweep, exited, dropped>>

SetMux(s, st) ==
    /\ mux' = [mux EXCEPT ![s] = st]
    /\ UNCHANGED <<machine, live, registry, attached, sweep, exited, dropped>>

\* An event of the session; its end; its DEAD row given up at the cap.
Speaks(s) == (\E p \in Pids : Works(p, s)) /\ SetMux(s, "live")
Ends(s) == mux[s] = "live" /\ SetMux(s, "dead")
Forgets(s) == mux[s] = "dead" /\ SetMux(s, "absent")

\* runStaleReaper: a silent session is retired if isLive, a lookup in the
\* registry, says no.
AlwaysLive(s) == TRUE  \* fault: the reaper retires nothing
IsLive(s) == registry[s] # Nil
StaleReap(s) == mux[s] = "live" /\ ~IsLive(s) /\ SetMux(s, "dead")

\* The tail that Attach opened has replayed the end of the transcript.
Replay(s) ==
    /\ s \in attached
    /\ attached' = attached \ {s}
    /\ mux' = [mux EXCEPT ![s] = "live"]
    /\ UNCHANGED <<machine, live, registry, sweep, exited, dropped>>

(***************************************************************************)
(* The sweep: list, reap what has gone, refresh what has not.              *)
(***************************************************************************)

\* listAgentPIDs: pids and command lines at one moment.
ListPIDs ==
    /\ pc = "idle"
    /\ pc' = "reap"
    /\ listed' = running
    /\ named' = argv
    /\ exited' = exited \ running
    /\ UNCHANGED <<machine, live, registry, mux, attached, reaping, todo, at,
                   toSet, toRaise, dropped>>

PsFailsEmpty ==  \* fault: the error is ignored and the empty list used
    /\ pc = "idle"
    /\ pc' = "reap" /\ listed' = {} /\ named' = argv
    /\ UNCHANGED <<machine, live, registry, mux, attached, reaping, todo, at,
                   toSet, toRaise, exited, dropped>>
\* An error of ps ends the sweep.
PsFails == pc = "idle" /\ UNCHANGED vars

\* Every session last seen with a pid that is no longer listed is marked
\* dead ...
MarkDead(p, s) ==
    /\ pc = "reap" /\ reaping = Nil
    /\ p \notin listed /\ s \in live[p]
    /\ mux' = [mux EXCEPT ![s] = IF @ = "live" THEN "dead" ELSE @]
    /\ reaping' = <<p, s>>
    /\ UNCHANGED <<machine, live, registry, attached, pc, listed, named, todo, at,
                   toSet, toRaise, exited, dropped>>

KeepEndpoint(s) == registry  \* fault: the reap leaves the endpoint
Removed(s) == [registry EXCEPT ![s] = Nil]

\* ... and its endpoint removed, whichever pid it names.
RemoveEndpoint ==
    /\ reaping # Nil
    /\ registry' = Removed(reaping[2])
    /\ live' = [live EXCEPT ![reaping[1]] = @ \ {reaping[2]}]
    /\ reaping' = Nil
    /\ UNCHANGED <<machine, mux, attached, pc, listed, named, todo, at, toSet,
                   toRaise, exited, dropped>>

EndReap ==
    /\ pc = "reap" /\ reaping = Nil
    /\ \A p \in Pids \ listed : live[p] = {}
    /\ pc' = "refresh"
    /\ todo' = listed
    /\ UNCHANGED <<machine, live, registry, mux, attached, listed, named, reaping,
                   at, toSet, toRaise, exited, dropped>>

\* sessionsForWindowsCWD, then sessionsForUniqueLiveAgent (one agent type is
\* modelled, so every live session is a session of it).
LiveSessions == {s \in Sessions : mux[s] = "live"}
MatchedByCWD(p) == {s \in LiveSessions : Dir[s] = cwd[p]}
MatchedAlone(p) ==
    IF Cardinality(listed \ Helpers) = 1 /\ Cardinality(LiveSessions) = 1
    THEN LiveSessions ELSE {}
WindowsFallback(p) ==
    IF ~windows \/ p \in Helpers THEN {}
    ELSE IF MatchedByCWD(p) # {} THEN MatchedByCWD(p) ELSE MatchedAlone(p)

FoundByFiles(p, files) ==  \* fault: the command line is not looked at
    IF files = {} THEN WindowsFallback(p) ELSE files
\* What lsof (which may fail) and the listed command line tell of p.
Found(p, files) ==
    LET sessions == files \cup ({named[p]} \ {Nil})
    IN  IF sessions = {} THEN WindowsFallback(p) ELSE sessions

\* A pid without a session keeps the entry it had.
Refresh(p, files) ==
    /\ pc = "refresh" /\ p \in todo /\ toSet = {} /\ toRaise = Nil
    /\ files \in {{}, holds[p]}
    /\ todo' = todo \ {p}
    /\ IF Found(p, files) = {}
       THEN UNCHANGED <<live, at, toSet, dropped>>
       ELSE /\ live' = [live EXCEPT ![p] = Found(p, files)]
            /\ at' = p
            /\ toSet' = Found(p, files)
            /\ dropped' = (dropped \cup {<<p, s>> : s \in live[p]})
                            \ {<<p, s>> : s \in Found(p, files)}
    /\ UNCHANGED <<machine, registry, mux, attached, pc, listed, named, reaping,
                   toRaise, exited>>

\* Registry.Set, then OnSessionLive (its retry of the outbox is Delivery's).
SetEndpoint(s) ==
    /\ s \in toSet /\ toRaise = Nil
    /\ registry' = [registry EXCEPT ![s] = at]
    /\ toSet' = toSet \ {s}
    /\ toRaise' = s
    /\ UNCHANGED <<machine, live, mux, attached, pc, listed, named, reaping, todo,
                   at, exited, dropped>>

Unknown(s) == mux[s] = "absent"

\* A session the mux has no row for is attached to its transcript.
Raise ==
    /\ toRaise # Nil
    /\ attached' = IF Unknown(toRaise) THEN attached \cup {toRaise} ELSE attached
    /\ toRaise' = Nil
    /\ UNCHANGED <<machine, live, registry, mux, pc, listed, named, reaping, todo,
                   at, toSet, exited, dropped>>

EndSweep ==
    /\ pc = "refresh" /\ todo = {} /\ toSet = {} /\ toRaise = Nil
    /\ pc' = "idle" /\ listed' = {} /\ named' = [p \in Pids |-> Nil] /\ at' = Nil
    /\ UNCHANGED <<machine, live, registry, mux, attached, reaping, todo, toSet,
                   toRaise, exited, dropped>>

Machine ==
    \/ \E p \in Pids : Start(p) \/ Exit(p)
    \/ \E p \in Pids, s \in Sessions : Switch(p, s)
    \/ \E s \in Sessions : Speaks(s) \/ Ends(s) \/ Forgets(s) \/ StaleReap(s)

\* What the sweep does on its own, once ps has answered.
Sweeping ==
    \/ \E p \in Pids, s \in Sessions : MarkDead(p, s)
    \/ RemoveEndpoint
    \/ EndReap
    \/ \E p \in Pids : \E files \in {{}, holds[p]} : Refresh(p, files)
    \/ \E s \in Sessions : SetEndpoint(s)
    \/ Raise
    \/ EndSweep

Next ==
    \/ Machine
    \/ \E s \in Sessions : Replay(s)
    \/ ListPIDs
    \/ PsFails
    \/ Sweeping

Spec == Init /\ [][Next]_vars

\* The ticker sweeps for ever (proc.go:102-114), an attached tail is read, the
\* reaper's ticker fires for ever (main.go:724-737), and neither ps nor lsof
\* fails for ever.
Fairness ==
    /\ SF_vars(ListPIDs)
    /\ WF_vars(Sweeping)
    /\ \A p \in Pids : SF_vars(Refresh(p, holds[p]))
    /\ \A s \in Sessions : WF_vars(Replay(s)) /\ WF_vars(StaleReap(s))

FairSpec == Spec /\ Fairness

(***************************************************************************)
(* Type invariant and safety.                                              *)
(***************************************************************************)

TypeOK ==
    /\ cast \in Castings
    /\ running \subseteq Pids
    /\ holds \in [Pids -> SUBSET Sessions]
    /\ argv \in [Pids -> Sessions \cup {Nil}]
    /\ cwd \in [Pids -> Dirs \cup {Nil}]
    /\ live \in [Pids -> SUBSET Sessions]
    /\ registry \in [Sessions -> Pids \cup {Nil}]
    /\ mux \in [Sessions -> {"absent", "live", "dead"}]
    /\ attached \subseteq Sessions
    /\ pc \in {"idle", "reap", "refresh"}
    /\ listed \subseteq Pids
    /\ named \in [Pids -> Sessions \cup {Nil}]
    /\ reaping \in (Pids \X Sessions) \cup {Nil}
    /\ todo \subseteq Pids
    /\ at \in Pids \cup {Nil}
    /\ toSet \subseteq Sessions
    /\ toRaise \in Sessions \cup {Nil}
    /\ exited \subseteq Pids
    /\ dropped \subseteq Pids \X Sessions

\* An endpoint is tied to the watcher's record of its process, so that the
\* exit of the process will remove it, unless the record was overwritten while
\* the process had moved to another session (proc.go:144-159, 195).  That
\* overwriting is the only way an endpoint outlives its process.
LeakNeedsOverwrite ==
    \A s \in Sessions, p \in Pids :
        registry[s] = p => s \in live[p] \/ <<p, s>> \in dropped

\* The watcher takes a session for dead only if a process it was seen with has
\* really exited since it was last listed: never on a failed ps or lsof, nor
\* because an agent switched transcripts (proc.go:124-159).
KillsOnlyExited ==
    [][\A p \in Pids, s \in Sessions : MarkDead(p, s) => p \in exited]_vars

(***************************************************************************)
(* Liveness.                                                               *)
(***************************************************************************)

\* The session of a process that keeps its transcript open has an endpoint
\* again and again, although the exit of another process of the same session
\* removes it.
LiveGetsEndpoint ==
    \A p \in Pids, s \in Sessions :
        <>[](~windows /\ Works(p, s)) => []<>(registry[s] # Nil)

\* A session whose processes are all gone, and with them the one its endpoint
\* names, does not stay live: the sweep or the stale reaper ends it, unless
\* its endpoint leaked.  (On Windows any agent may be taken for its process.)
Orphan(s) ==
    ~windows /\ ~(\E p \in Pids : Works(p, s)) /\ registry[s] \notin running
OrphansDie ==
    \A s \in Sessions :
        <>[]Orphan(s) /\ []<>(\A p \in Pids : <<p, s>> \notin dropped)
            => <>[](mux[s] # "live")
=============================================================================

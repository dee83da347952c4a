--------------------------- MODULE WatcherProofs --------------------------
(***************************************************************************)
(* Proofs about Watcher, for any number of processes, sessions and         *)
(* situations: who may be taken for dead, and which endpoints outlive      *)
(* their process.                                                          *)
(***************************************************************************)
EXTENDS Watcher, TLAPS

\* The sweep is in one phase at a time, and the sessions it is about to
\* register are in the entry it has just stored.
Phased ==
    /\ reaping # Nil => pc = "reap"
    /\ toSet # {} => pc = "refresh"
    /\ todo # {} => pc = "refresh"
    /\ todo \subseteq listed
    /\ \A s \in toSet : at \in Pids /\ s \in live[at]

\* A process the watcher has an entry for, or has listed, runs or has exited
\* since it was last listed; if the entries are being reaped and it was not
\* listed, it has exited.
Accounted ==
    \A p \in Pids :
        /\ live[p] # {} => p \in running \cup exited
        /\ p \in listed => p \in running \cup exited
        /\ pc = "reap" /\ live[p] # {} /\ p \notin listed => p \in exited

IInv == TypeOK /\ Phased /\ Accounted /\ LeakNeedsOverwrite

USE CastingsAssumption, NilAssumption

\* What a sweep finds of a process are sessions.
LEMMA FoundSessions ==
    ASSUME TypeOK, NEW p \in Pids, NEW files \in {{}, holds[p]}
    PROVE  Found(p, files) \subseteq Sessions
  <1>1. files \subseteq Sessions /\ {named[p]} \ {Nil} \subseteq Sessions
    BY DEF TypeOK
  <1>2. WindowsFallback(p) \subseteq Sessions
    BY DEF WindowsFallback, MatchedByCWD, MatchedAlone, LiveSessions
  <1> QED BY <1>1, <1>2 DEF Found

LEMMA InitIInv == Init => IInv
  <1> SUFFICES ASSUME Init PROVE IInv
    OBVIOUS
  <1>1. TypeOK
    BY DEF Init, TypeOK
  <1>2. Phased /\ Accounted /\ LeakNeedsOverwrite
    BY DEF Init, Phased, Accounted, LeakNeedsOverwrite
  <1> QED BY <1>1, <1>2 DEF IInv

(***************************************************************************)
(* The machine and the mux.                                                *)
(***************************************************************************)

LEMMA StartStep ==
    ASSUME IInv, NEW p \in Pids, Start(p) PROVE IInv'
  <1> USE DEF IInv, Start, sweep
  <1>1. TypeOK'
    <2>1. \A s \in cast.name[p] \cup {Nil} : s \in Sessions \cup {Nil}
      BY DEF TypeOK
    <2> QED BY <2>1 DEF TypeOK
  <1>2. Phased' /\ Accounted' /\ LeakNeedsOverwrite'
    BY DEF TypeOK, Phased, Accounted, LeakNeedsOverwrite
  <1> QED BY <1>1, <1>2

LEMMA ExitStep ==
    ASSUME IInv, NEW p \in Pids, Exit(p) PROVE IInv'
  BY DEF IInv, Exit, sweep, TypeOK, Phased, Accounted, LeakNeedsOverwrite

LEMMA SwitchStep ==
    ASSUME IInv, NEW p \in Pids, NEW s \in Sessions, Switch(p, s) PROVE IInv'
  BY DEF IInv, Switch, sweep, TypeOK, Phased, Accounted, LeakNeedsOverwrite

\* Speaks, Ends, Forgets and StaleReap change the mux alone.
LEMMA SetMuxStep ==
    ASSUME IInv, NEW s \in Sessions, NEW st \in {"absent", "live", "dead"}, SetMux(s, st)
    PROVE  IInv'
  BY DEF IInv, SetMux, machine, sweep, TypeOK, Phased, Accounted, LeakNeedsOverwrite

LEMMA ReplayStep ==
    ASSUME IInv, NEW s \in Sessions, Replay(s) PROVE IInv'
  BY DEF IInv, Replay, machine, sweep, TypeOK, Phased, Accounted, LeakNeedsOverwrite

(***************************************************************************)
(* The sweep.                                                              *)
(***************************************************************************)

LEMMA ListPIDsStep == ASSUME IInv, ListPIDs PROVE IInv'
  <1> USE DEF IInv, ListPIDs, machine
  <1>1. TypeOK'
    BY DEF TypeOK
  <1>2. Phased' /\ LeakNeedsOverwrite'
    BY DEF TypeOK, Phased, LeakNeedsOverwrite
  <1>3. Accounted'
    BY DEF Accounted
  <1> QED BY <1>1, <1>2, <1>3

LEMMA MarkDeadStep ==
    ASSUME IInv, NEW p \in Pids, NEW s \in Sessions, MarkDead(p, s) PROVE IInv'
  BY DEF IInv, MarkDead, machine, TypeOK, Phased, Accounted, LeakNeedsOverwrite

\* The endpoint goes before the entry it is tied to.
LEMMA RemoveEndpointStep == ASSUME IInv, RemoveEndpoint PROVE IInv'
  <1> USE DEF IInv, RemoveEndpoint, Removed, machine
  <1>1. PICK p \in Pids, s \in Sessions : reaping = <<p, s>>
    BY DEF TypeOK
  <1>2. /\ registry' = [registry EXCEPT ![s] = Nil]
        /\ live' = [live EXCEPT ![p] = @ \ {s}]
    BY <1>1
  <1>3. TypeOK'
    BY <1>2 DEF TypeOK
  <1>4. Phased' /\ Accounted'
    BY <1>2 DEF TypeOK, Phased, Accounted
  <1>5. LeakNeedsOverwrite'
    BY <1>2 DEF TypeOK, LeakNeedsOverwrite
  <1> QED BY <1>3, <1>4, <1>5

LEMMA EndReapStep == ASSUME IInv, EndReap PROVE IInv'
  BY DEF IInv, EndReap, machine, TypeOK, Phased, Accounted, LeakNeedsOverwrite

\* A session that leaves the entry of its process is remembered as dropped.
LEMMA RefreshStep ==
    ASSUME IInv, NEW p \in Pids, NEW files \in {{}, holds[p]}, Refresh(p, files)
    PROVE  IInv'
  <1> USE DEF IInv, Refresh, machine
  <1>1. CASE Found(p, files) = {}
    BY <1>1 DEF TypeOK, Phased, Accounted, LeakNeedsOverwrite
  <1>2. CASE Found(p, files) # {}
    <2> DEFINE found == Found(p, files)
    <2>1. /\ found \subseteq Sessions /\ found # {}
          /\ live' = [live EXCEPT ![p] = found] /\ at' = p /\ toSet' = found
          /\ dropped' = (dropped \cup {<<p, s>> : s \in live[p]})
                            \ {<<p, s>> : s \in found}
      BY <1>2, FoundSessions
    <2> HIDE DEF found
    <2>2. TypeOK'
      BY <2>1 DEF TypeOK
    <2>3. Phased' /\ Accounted'
      BY <2>1 DEF TypeOK, Phased, Accounted
    <2>4. LeakNeedsOverwrite'
      BY <2>1 DEF TypeOK, LeakNeedsOverwrite
    <2> QED BY <2>2, <2>3, <2>4
  <1> QED BY <1>1, <1>2

LEMMA SetEndpointStep ==
    ASSUME IInv, NEW s \in Sessions, SetEndpoint(s) PROVE IInv'
  BY DEF IInv, SetEndpoint, machine, TypeOK, Phased, Accounted, LeakNeedsOverwrite

LEMMA RaiseStep == ASSUME IInv, Raise PROVE IInv'
  BY DEF IInv, Raise, machine, TypeOK, Phased, Accounted, LeakNeedsOverwrite

LEMMA EndSweepStep == ASSUME IInv, EndSweep PROVE IInv'
  BY DEF IInv, EndSweep, machine, TypeOK, Phased, Accounted, LeakNeedsOverwrite

LEMMA NextIInv == IInv /\ [Next]_vars => IInv'
  <1> SUFFICES ASSUME IInv, [Next]_vars PROVE IInv'
    OBVIOUS
  <1>1. CASE Machine
    <2>1. CASE \E p \in Pids : Start(p) \/ Exit(p)
      BY <2>1, StartStep, ExitStep
    <2>2. CASE \E p \in Pids, s \in Sessions : Switch(p, s)
      BY <2>2, SwitchStep
    <2>3. CASE \E s \in Sessions : Speaks(s) \/ Ends(s) \/ Forgets(s) \/ StaleReap(s)
      BY <2>3, SetMuxStep DEF Speaks, Ends, Forgets, StaleReap
    <2> QED BY <1>1, <2>1, <2>2, <2>3 DEF Machine
  <1>2. CASE \E s \in Sessions : Replay(s)
    BY <1>2, ReplayStep
  <1>3. CASE ListPIDs
    BY <1>3, ListPIDsStep
  <1>4. CASE Sweeping
    BY <1>4, MarkDeadStep, RemoveEndpointStep, EndReapStep, RefreshStep,
       SetEndpointStep, RaiseStep, EndSweepStep DEF Sweeping
  <1>5. CASE PsFails \/ UNCHANGED vars
    BY <1>5 DEF PsFails, vars, machine, sweep, IInv, TypeOK, windows, Phased, Accounted,
       LeakNeedsOverwrite
  <1> QED BY <1>1, <1>2, <1>3, <1>4, <1>5 DEF Next

LEMMA InvHolds == Spec => []IInv
  BY InitIInv, NextIInv, PTL DEF Spec

(***************************************************************************)
(* The theorems.                                                           *)
(***************************************************************************)

\* The watcher's maps, the registry and the sweep's frame keep their types.
THEOREM TypeCorrect == Spec => []TypeOK
  <1>1. IInv => TypeOK
    BY DEF IInv
  <1> QED BY <1>1, InvHolds, PTL

\* An endpoint outlives its process only after w.live[pid] was overwritten while
\* the process had moved to another session (proc.go:195): in every other case
\* the entry that the reap of proc.go:144-159 goes by still holds the session.
THEOREM LeaksOnlyByOverwriting == Spec => []LeakNeedsOverwrite
  <1>1. IInv => LeakNeedsOverwrite
    BY DEF IInv
  <1> QED BY <1>1, InvHolds, PTL

\* Whatever ps and lsof fail to see, however agents switch transcripts and pids
\* are reused, MarkDead is called only for a process that exited since it was
\* last listed (proc.go:124-159).
THEOREM OnlyExitsKill == Spec => KillsOnlyExited
  <1>1. ASSUME IInv, NEW p \in Pids, NEW s \in Sessions, MarkDead(p, s)
        PROVE  p \in exited
    BY <1>1 DEF IInv, Accounted, MarkDead
  <1>2. IInv => \A p \in Pids, s \in Sessions : MarkDead(p, s) => p \in exited
    BY <1>1
  <1> QED BY <1>2, InvHolds, PTL DEF KillsOnlyExited
=============================================================================

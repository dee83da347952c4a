------------------------------- MODULE Tailer -----------------------------
(***************************************************************************)
(* The transcript tailer (src/host/internal/producers/jsonl.go): one       *)
(* goroutine (Run) that watches directories and handles their events one   *)
(* by one, and one goroutine per open file (tailLoop) that turns its lines *)
(* into events for the mux.  Agents write, remove and re-create files and  *)
(* make directories meanwhile; the process watcher attaches files.         *)
(*                                                                         *)
(* A file's content is counted in halves of a line, as an agent may write  *)
(* a line in two pieces: record i is halves 2i-1 and 2i.  A path that is   *)
(* removed and created again is another generation of the file; a tail     *)
(* goes on reading the generation it opened.  Record 1 is Codex's          *)
(* session_meta, which names the working directory of all the others.      *)
(***************************************************************************)
EXTENDS Integers, Sequences, FiniteSets

CONSTANTS
    Files,       \* paths of transcripts
    Dirs,        \* directories below the root
    Root,        \* the directory the tailer was configured with
    Parent,      \* the directory a directory is in
    In,          \* the directory a file is in
    Tails,       \* tail goroutines that may run at once (bound)
    Window,      \* StartupReplayBytes, in halves
    MaxSize,     \* halves written to a file (bound)
    MaxGen,      \* generations of a file (bound)
    MaxQueue,    \* fsnotify events not yet handled (bound)
    Castings,    \* the cases explored: the paths that agents touch, the halves
                 \* they write to a file, how often they create it (bounds),
                 \* whether the daemon is stopped, and files attached; and the
                 \* value of MaxOpenFiles
    Nil

ASSUME TreeAssumption ==
    /\ Root \notin Dirs /\ Files \cap (Dirs \cup {Root}) = {}
    /\ Parent \in [Dirs -> Dirs \cup {Root}] /\ In \in [Files -> Dirs \cup {Root}]
ASSUME BoundsAssumption ==
    /\ Window \in Nat /\ Window >= 2 /\ MaxSize \in Nat
    /\ MaxGen \in Nat /\ MaxGen >= 1 /\ MaxQueue \in Nat
    /\ Castings \subseteq [touch : SUBSET (Files \cup Dirs), halves : 1..MaxSize,
                        pieces : SUBSET {1, 2}, gens : 1..MaxGen, limit : Nat \ {0},
                        stops : BOOLEAN, attaches : BOOLEAN]
ASSUME NilAssumption == Nil \notin Tails \cup Files \cup Dirs \cup {Root}
ASSUME FiniteAssumption == IsFiniteSet(Files) /\ IsFiniteSet(Tails)

VARIABLES
    cast,       \* the case that this behaviour is of
    exists,     \* the directories and files there are (and the root)
    gen,        \* the generation of a path
    size,       \* halves in each generation of a file
    watched,    \* directories added to the fsnotify watcher
    events,     \* fsnotify events not yet handled
    pc,         \* Run: "watch", "scan", "loop", "closing" or "returned"
    scanning,   \* the directory scanAndOpen is to walk
    cancelled,  \* the context is done
    stopped,    \* JSONLTailer.stopped
    open,       \* JSONLTailer.open: path -> tail, or Nil
    tail,       \* the tail goroutines
    cwds,       \* codexFileState.cwds: the paths whose directory is known
    given,      \* history: how often each record was dispatched whole (0, 1, 2)
    torn,       \* history: records dispatched in pieces
    unplaced,   \* history: records dispatched with no working directory
    replayed,   \* history: paths opened with a replay window
    refused,    \* history: paths not opened because too many were
    removed,    \* history: paths removed or renamed
    announced,  \* history: directories made and files created in a watched one
    idled       \* history: paths whose tail was closed for being idle

disk == <<cast, exists, gen, size>>
run == <<pc, scanning, cancelled, stopped>>
history == <<given, torn, unplaced, replayed, refused, removed, announced, idled>>
vars == <<disk, watched, events, run, open, tail, cwds, history>>

Records == Files \X (1..MaxGen) \X (1..MaxSize)
Gone == [pc |-> "gone", path |-> Nil, gen |-> 0, off |-> 0, from |-> Nil, stop |-> FALSE]

Init ==
    /\ cast \in Castings
    /\ exists \in {X \in SUBSET (cast.touch \cup {Root}) :
                     /\ Root \in X
                     /\ \A d \in X \cap Dirs : Parent[d] \in X
                     /\ \A f \in X \cap Files : In[f] \in X}
    /\ gen = [f \in Files |-> 1]
    /\ size \in [Files -> [1..MaxGen -> {0} \cup {cast.halves - 1}]]
    /\ \A f \in Files : size[f][1] = 0 \/ f \in exists
    /\ \A f \in Files, g \in 2..MaxGen : size[f][g] = 0
    /\ watched = {}
    /\ events = <<>>
    /\ pc = "watch" /\ scanning = Nil /\ cancelled = FALSE /\ stopped = FALSE
    /\ open = [f \in Files |-> Nil]
    /\ tail = [t \in Tails |-> Gone]
    /\ cwds = {}
    /\ given = [r \in Records |-> 0]
    /\ torn = {} /\ unplaced = {} /\ replayed = {} /\ refused = {}
    /\ removed = {} /\ announced = {} /\ idled = {}

(***************************************************************************)
(* The agents and the file system.  A watched directory reports what       *)
(* happens to its entries; the kernel merges an event with an equal last.  *)
(***************************************************************************)

Report(op, name, dir) ==
    LET ev == [op |-> op, name |-> name]
    IN  events' = IF \/ dir \notin watched
                     \/ events # <<>> /\ events[Len(events)] = ev
                  THEN events ELSE Append(events, ev)

MakeDir(d) ==
    /\ Len(events) < MaxQueue
    /\ d \in cast.touch \ exists /\ Parent[d] \in exists
    /\ exists' = exists \cup {d}
    /\ Report("create", d, Parent[d])
    /\ announced' = IF Parent[d] \in watched THEN announced \cup {<<d, 1>>} ELSE announced
    /\ UNCHANGED <<cast, gen, size, watched, run, open, tail, cwds, given, torn,
                   unplaced, replayed, refused, removed, idled>>

CreateFile(f) ==
    /\ Len(events) < MaxQueue
    /\ f \in cast.touch \ exists /\ In[f] \in exists
    /\ f \notin removed \/ gen[f] < cast.gens
    /\ exists' = exists \cup {f}
    /\ gen' = IF f \in removed THEN [gen EXCEPT ![f] = @ + 1] ELSE gen
    /\ Report("create", f, In[f])
    /\ announced' = IF In[f] \in watched THEN announced \cup {<<f, gen'[f]>>} ELSE announced
    /\ UNCHANGED <<cast, size, watched, run, open, tail, cwds, given, torn, unplaced,
                   replayed, refused, removed, idled>>

\* A piece of a line, or the whole of one.
AppendTo(f, halves) ==
    /\ Len(events) < MaxQueue
    /\ f \in exists /\ size[f][gen[f]] + halves <= cast.halves
    /\ size' = [size EXCEPT ![f][gen[f]] = @ + halves]
    /\ Report("write", f, In[f])
    /\ UNCHANGED <<cast, exists, gen, watched, run, open, tail, cwds, history>>

Remove(f) ==
    /\ Len(events) < MaxQueue
    /\ f \in exists
    /\ exists' = exists \ {f}
    /\ removed' = removed \cup {f}
    /\ Report("remove", f, In[f])
    /\ UNCHANGED <<cast, gen, size, watched, run, open, tail, cwds, given, torn,
                   unplaced, replayed, refused, announced, idled>>

(***************************************************************************)
(* openFile and closeFile, under the tailer's mutex.                       *)
(***************************************************************************)

NeverTailing(f) == FALSE  \* fault: openFile does not look
AlreadyTailing(f) == open[f] # Nil
Room == cast.limit - Cardinality({f \in Files : open[f] # Nil})

\* The result of openFile for every f in fs; at the limit only some open.
OpenFiles(fs, from) ==
    LET candidates == IF stopped THEN {} ELSE {f \in fs : ~AlreadyTailing(f)}
    IN \E chosen \in SUBSET candidates :
        /\ chosen = {} \/ Cardinality(chosen) <= Room
        /\ chosen # candidates => Cardinality(chosen) >= Room
        /\ LET free == {t \in Tails : tail[t].pc = "gone"}
               new == CHOOSE n \in [chosen -> free] : \A f, g \in chosen : n[f] = n[g] => f = g
           IN
            /\ Cardinality(chosen) <= Cardinality(free)
            /\ open' = [f \in Files |-> IF f \in chosen THEN new[f] ELSE open[f]]
            /\ tail' = [t \in Tails |->
                          IF \E f \in chosen : new[f] = t
                          THEN [pc |-> "new", path |-> CHOOSE f \in chosen : new[f] = t,
                                gen |-> 0, off |-> 0, from |-> from, stop |-> FALSE]
                          ELSE tail[t]]
        /\ replayed' = IF from = "replay" THEN replayed \cup chosen ELSE replayed
        /\ refused' = refused \cup (candidates \ chosen)

CloseFile(f) ==
    /\ tail' = [t \in Tails |-> IF t = open[f] THEN [tail[t] EXCEPT !.stop = TRUE]
                                ELSE tail[t]]
    /\ open' = [open EXCEPT ![f] = Nil]
    /\ cwds' = cwds \ {f}

(***************************************************************************)
(* Run.                                                                    *)
(***************************************************************************)

\* watchTree, before the first scan.
WatchTree ==
    /\ pc = "watch"
    /\ watched' = exists \cap (Dirs \cup {Root})
    /\ pc' = "scan" /\ scanning' = Root
    /\ UNCHANGED <<disk, events, cancelled, stopped, open, tail, cwds, history>>

Below(f, d) == d = In[f] \/ d = Root \/ (In[f] \in Dirs /\ Parent[In[f]] = d)

\* scanAndOpen: the files below that were written within StaleAge.
Scan ==
    /\ pc = "scan"
    /\ \E fresh \in SUBSET {f \in exists \cap Files : Below(f, scanning)} :
        OpenFiles(fresh, "replay")
    /\ pc' = "loop" /\ scanning' = Nil
    /\ UNCHANGED <<disk, watched, events, cancelled, stopped, cwds, given, torn,
                   unplaced, removed, announced, idled>>

WatchAlso(d) == watched \cup {d}

\* handleFsEvent: a new directory is watched, then scanned ...
NewDir ==
    /\ pc = "loop" /\ events # <<>>
    /\ Head(events).op = "create" /\ Head(events).name \in Dirs
    /\ watched' = WatchAlso(Head(events).name)
    /\ scanning' = Head(events).name
    /\ pc' = "scan"
    /\ events' = Tail(events)
    /\ UNCHANGED <<disk, cancelled, stopped, open, tail, cwds, history>>

\* ... a new file is opened at its start, a written one at its end ...
FileEvent(op, from) ==
    /\ pc = "loop" /\ events # <<>>
    /\ Head(events).op = op /\ Head(events).name \in Files
    /\ OpenFiles({Head(events).name} \cap (IF op = "create" THEN exists ELSE Files), from)
    /\ events' = Tail(events)
    /\ UNCHANGED <<disk, watched, run, cwds, given, torn, unplaced, removed, announced,
                   idled>>

\* ... and a removed or renamed one closed.
FileGone ==
    /\ pc = "loop" /\ events # <<>>
    /\ Head(events).op = "remove"
    /\ CloseFile(Head(events).name)
    /\ events' = Tail(events)
    /\ UNCHANGED <<disk, watched, run, history>>

\* Attach, from the process watcher's goroutine.
Attach(f) ==
    /\ cast.attaches /\ f \in exists
    /\ OpenFiles({f}, "replay")
    /\ UNCHANGED <<disk, watched, events, run, cwds, given, torn, unplaced, removed,
                   announced, idled>>

Cancel ==
    /\ cast.stops /\ ~cancelled
    /\ cancelled' = TRUE
    /\ UNCHANGED <<disk, watched, events, pc, scanning, stopped, open, tail, cwds,
                   history>>

StopNone(t) == FALSE  \* fault: closeAll relies on the context alone
ToStop(t) == \E f \in Files : open[f] = t

CloseAll ==
    /\ pc = "loop" /\ cancelled
    /\ stopped' = TRUE
    /\ tail' = [t \in Tails |-> IF ToStop(t) THEN [tail[t] EXCEPT !.stop = TRUE]
                                ELSE tail[t]]
    /\ open' = [f \in Files |-> Nil]
    /\ pc' = "closing"
    /\ UNCHANGED <<disk, watched, events, scanning, cancelled, cwds, history>>

\* wg.Wait: Run returns when the last tail has.
Return ==
    /\ pc = "closing"
    /\ \A t \in Tails : tail[t].pc = "gone"
    /\ pc' = "returned"
    /\ UNCHANGED <<disk, watched, events, scanning, cancelled, stopped, open, tail,
                   cwds, history>>

(***************************************************************************)
(* tailLoop.                                                               *)
(***************************************************************************)

Content(t) == size[tail[t].path][tail[t].gen]

\* Fault: the replay window is not cut off at the head of the file.
StartFarBack(from, n) ==
    CASE from = "head" -> 0 [] from = "end" -> n [] from = "replay" -> n - Window
\* codexFileState.setCWD.
Known(f) == cwds \cup {f}

\* Where a tail starts in a file of n halves.  A replay that does not start at
\* the head of the file skips to the end of the line it lands in.
StartAt(from, n) ==
    LET start == n - Window
        past == IF start % 2 = 0 THEN start + 2 ELSE start + 1
    IN  CASE from = "head" -> 0
          [] from = "end" -> n
          [] from = "replay" -> IF start <= 0 THEN 0 ELSE IF past < n THEN past ELSE n

NotPrimed(f, n, from) == FALSE  \* fault: primeCodexCWD is not called
\* primeCodexCWD: the first line, if it is complete.
Primed(f, n, from) == from # "head" /\ n >= 2

OpenTail(t) ==
    LET f == tail[t].path
        n == size[f][gen[f]]
    IN  /\ tail[t].pc = "new"
        /\ \/ /\ f \in exists
              /\ tail' = [tail EXCEPT ![t].pc = "reading", ![t].gen = gen[f],
                                      ![t].off = StartAt(tail[t].from, n)]
              /\ cwds' = IF Primed(f, n, tail[t].from) THEN Known(f) ELSE cwds
           \/ /\ f \notin exists
              /\ tail' = [tail EXCEPT ![t].pc = "ending"]
              /\ UNCHANGED cwds
        /\ UNCHANGED <<disk, watched, events, run, open, history>>

\* dispatchLine on the i-th record, whole: session_meta tells the directory,
\* and every event carries what is known of it by then.
Dispatch(f, g, i) ==
    /\ cwds' = IF i = 1 THEN Known(f) ELSE cwds
    /\ given' = [given EXCEPT ![<<f, g, i>>] = IF @ < 2 THEN @ + 1 ELSE 2]
    /\ unplaced' = IF i > 1 /\ f \notin cwds THEN unplaced \cup {<<f, g, i>>} ELSE unplaced
    /\ UNCHANGED torn

\* One ReadString: a line, or at the end of the file a piece of one, which
\* dispatchLine cannot parse and drops; so is the rest of that line.
ReadLine(t) ==
    LET off == tail[t].off
        i == off \div 2 + 1
    IN  /\ tail[t].pc = "reading" /\ off < Content(t)
        /\ \/ /\ off % 2 = 0 /\ off + 2 <= Content(t)
              /\ tail' = [tail EXCEPT ![t].off = off + 2]
              /\ Dispatch(tail[t].path, tail[t].gen, i)
           \/ /\ off % 2 = 1 \/ off + 2 > Content(t)
              /\ tail' = [tail EXCEPT ![t].off = off + 1]
              /\ torn' = torn \cup {<<tail[t].path, tail[t].gen, i>>}
              /\ UNCHANGED <<cwds, given, unplaced>>
        /\ UNCHANGED <<disk, watched, events, run, open, replayed, refused, removed,
                       announced, idled>>

AtEOF(t) ==
    /\ tail[t].pc = "reading" /\ tail[t].off = Content(t)
    /\ tail' = [tail EXCEPT ![t].pc = "waiting"]
    /\ UNCHANGED <<disk, watched, events, run, open, cwds, history>>

PollNever(t) == FALSE  \* fault: only the idle close ends the wait
Poll(t) == tail[t].pc = "waiting"

\* The select at the end of the file: the context or stop ends the tail, the
\* poll timer reads on, or ends it when nothing was read for FileIdleClose;
\* what was written since the last read is then not looked at.  Tails opened
\* by a scan or by Attach have a context of their own.
Wake(t) ==
    /\ Poll(t)
    /\ tail' = [tail EXCEPT ![t].pc = "reading"]
    /\ UNCHANGED <<disk, watched, events, run, open, cwds, history>>
EndTail(t) ==
    /\ tail[t].pc = "waiting"
    /\ tail[t].stop \/ (cancelled /\ tail[t].from # "replay")
    /\ tail' = [tail EXCEPT ![t].pc = "ending"]
    /\ UNCHANGED <<disk, watched, events, run, open, cwds, history>>
IdleClose(t) ==
    /\ tail[t].pc = "waiting"
    /\ tail' = [tail EXCEPT ![t].pc = "ending"]
    /\ idled' = idled \cup {tail[t].path}
    /\ UNCHANGED <<disk, watched, events, run, open, cwds, given, torn, unplaced,
                   replayed, refused, removed, announced>>

\* The deferred delete: by path, whichever tail is in the map by then.
Unlist(t) ==
    /\ tail[t].pc = "ending"
    /\ open' = [open EXCEPT ![tail[t].path] = Nil]
    /\ tail' = [tail EXCEPT ![t] = Gone]
    /\ UNCHANGED <<disk, watched, events, run, cwds, history>>

Agents ==
    \/ \E d \in Dirs : MakeDir(d)
    \/ \E f \in Files : CreateFile(f) \/ Remove(f) \/ Attach(f)
    \/ \E f \in Files : \E n \in cast.pieces : AppendTo(f, n)

RunStep ==
    WatchTree \/ Scan \/ NewDir \/ FileEvent("create", "head") \/ FileEvent("write", "end")
    \/ FileGone \/ CloseAll \/ Return

TailStep(t) == OpenTail(t) \/ ReadLine(t) \/ AtEOF(t) \/ Wake(t) \/ Unlist(t)

Next ==
    \/ Agents
    \/ RunStep
    \/ Cancel
    \/ \E t \in Tails : TailStep(t) \/ EndTail(t) \/ IdleClose(t)

Spec == Init /\ [][Next]_vars

\* The runtime runs Run and every tail; select takes a stop that stays ready
\* in the end although the poll timer is ready as well.  Nobody has to close
\* an idle file.
Fairness ==
    /\ WF_vars(RunStep)
    /\ \A t \in Tails : WF_vars(TailStep(t)) /\ SF_vars(EndTail(t))

FairSpec == Spec /\ Fairness

(***************************************************************************)
(* Properties.                                                             *)
(***************************************************************************)

TypeOK ==
    /\ cast \in Castings
    /\ exists \subseteq cast.touch \cup {Root}
    /\ watched \subseteq exists \cap (Dirs \cup {Root})
    /\ gen \in [Files -> 1..MaxGen] /\ size \in [Files -> [1..MaxGen -> 0..MaxSize]]
    /\ events \in Seq([op : {"create", "write", "remove"}, name : Files \cup Dirs])
    /\ Len(events) <= MaxQueue
    /\ pc \in {"watch", "scan", "loop", "closing", "returned"}
    /\ scanning \in Dirs \cup {Root, Nil}
    /\ cancelled \in BOOLEAN /\ stopped \in BOOLEAN
    /\ open \in [Files -> Tails \cup {Nil}] /\ Room >= 0
    /\ \A t \in Tails : tail[t] = Gone \/
          tail[t] \in [pc : {"new", "reading", "waiting", "ending"}, path : Files,
                      gen : 0..MaxGen, off : 0..MaxSize,
                      from : {"head", "end", "replay"}, stop : BOOLEAN]
    /\ cwds \subseteq Files
    /\ given \in [Records -> 0..2]
    /\ torn \cup unplaced \subseteq Records
    /\ replayed \cup refused \cup removed \cup idled \subseteq Files
    /\ announced \subseteq (Files \cup Dirs) \X (1..MaxGen)

\* A record reaches the mux twice only from a file that was replayed or
\* removed: scan, Attach and the file's events never make two tails of it.
GivenOnce ==
    \A f \in Files, g \in 1..MaxGen, i \in 1..MaxSize :
        given[<<f, g, i>>] > 1 => f \in replayed \cup removed

\* Wherever in its file a tail starts, its events carry the directory of the
\* session, unless the line that names it was read in two pieces.
EventsPlaced ==
    \A f \in Files, g \in 1..MaxGen, i \in 1..MaxSize :
        <<f, g, i>> \in unplaced =>
            f \in removed \/ \E h \in 1..MaxGen : <<f, h, 1>> \in torn

\* A transcript that appears in a watched directory, even under the name of one
\* that was removed, is read as far as it grows, unless it is removed, replayed
\* (a window only), closed as idle or refused at MaxOpenFiles meanwhile, or the
\* daemon is stopped.
NewFilesRead ==
    \A f \in Files, g \in 1..MaxGen, i \in 1..(MaxSize \div 2) :
        (<<f, g>> \in announced /\ size[f][g] >= 2 * i) ~>
            \/ given[<<f, g, i>>] > 0 \/ <<f, g, i>> \in torn
            \/ f \notin exists \/ gen[f] # g
            \/ f \in replayed \cup refused \cup idled \/ cancelled

\* A cancelled tailer stops all of its tails and returns, if no file it read
\* was removed: the deferred delete of a removed file's tail takes the file's
\* next tail out of the map, and nobody stops that one.
ShutdownEnds == cancelled ~> (pc = "returned" \/ removed # {})
=============================================================================

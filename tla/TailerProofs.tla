---------------------------- MODULE TailerProofs --------------------------
(***************************************************************************)
(* Proofs about Tailer, for any tree of directories and any number of      *)
(* files, tails, generations and halves: every variable keeps its type; a  *)
(* record of a file that was neither replayed nor removed is given once;   *)
(* and every event carries the directory of its session.                   *)
(***************************************************************************)
EXTENDS Tailer, FiniteSetTheorems, SequenceTheorems, TLAPS

USE TreeAssumption, BoundsAssumption, NilAssumption

Events == [op : {"create", "write", "remove"}, name : Files \cup Dirs]
Running == [pc : {"new", "reading", "waiting", "ending"}, path : Files, gen : 0..MaxGen,
            off : 0..MaxSize, from : {"head", "end", "replay"}, stop : BOOLEAN]
Opened(f, from) == [pc |-> "new", path |-> f, gen |-> 0, off |-> 0, from |-> from,
                    stop |-> FALSE]

\* The parts of the type, by who writes them.
DiskOK ==
    /\ cast \in Castings
    /\ exists \subseteq cast.touch \cup {Root}
    /\ gen \in [Files -> 1..MaxGen] /\ size \in [Files -> [1..MaxGen -> 0..MaxSize]]
    /\ removed \subseteq Files
    /\ announced \subseteq (Files \cup Dirs) \X (1..MaxGen)
EventsOK == events \in Seq(Events) /\ Len(events) <= MaxQueue
RunOK ==
    /\ watched \subseteq exists \cap (Dirs \cup {Root})
    /\ pc \in {"watch", "scan", "loop", "closing", "returned"}
    /\ scanning \in Dirs \cup {Root, Nil}
    /\ cancelled \in BOOLEAN /\ stopped \in BOOLEAN
OpenOK ==
    /\ open \in [Files -> Tails \cup {Nil}] /\ Room >= 0
    /\ replayed \subseteq Files /\ refused \subseteq Files
TailsOK == tail \in [Tails -> Running \cup {Gone}]
GivenOK ==
    /\ cwds \subseteq Files
    /\ given \in [Records -> 0..2]
    /\ torn \subseteq Records /\ unplaced \subseteq Records
    /\ idled \subseteq Files

Typed == DiskOK /\ EventsOK /\ RunOK /\ OpenOK /\ TailsOK /\ GivenOK

\* An event is of a name that was there, a removal of a file.
EventsTrue ==
    \A k \in 1..Len(events) :
        /\ events[k].op = "create" /\ events[k].name \in Dirs => events[k].name \in exists
        /\ events[k].op = "write" => events[k].name \in Files
        /\ events[k].op = "remove" => events[k].name \in removed

\* The first event of a file that was never removed is its creation.
CreatedFirst ==
    \A k \in 1..Len(events) :
        LET f == events[k].name
        IN  f \in Files \ removed =>
                /\ f \in exists
                /\ events[k].op = "create" => \A j \in 1..(k - 1) : events[j].name # f

\* A listed tail is one of that file ...
Listed == \A f \in Files : open[f] # Nil => tail[open[f]].path = f
\* ... and the tail of a file that was never removed is listed, until the
\* tailer stops; in any case it is the only one.
Alone ==
    /\ \A t \in Tails : tail[t] # Gone /\ tail[t].path \notin removed /\ ~stopped =>
            open[tail[t].path] = t
    /\ \A t, u \in Tails : /\ tail[t] # Gone /\ tail[t].path \notin removed
                           /\ tail[u].path = tail[t].path
                           => t = u

\* Where a tail is in its file.
Inside(t) ==
    /\ tail[t].from = "replay" => tail[t].path \in replayed
    /\ tail[t].pc \in {"reading", "waiting"} =>
            /\ tail[t].gen >= 1 /\ tail[t].off <= Content(t)
            /\ tail[t].path \notin removed => tail[t].gen = gen[tail[t].path]
Inward == \A t \in Tails : tail[t] # Gone => Inside(t)

Fresh(f) == f \in Files \ (replayed \cup removed)
Untouched(f) == \A g \in 1..MaxGen, i \in 1..MaxSize : given[<<f, g, i>>] = 0

\* The records given of a fresh file are there, once ...
GivenAreThere ==
    \A f \in Files, g \in 1..MaxGen, i \in 1..MaxSize :
        Fresh(f) /\ given[<<f, g, i>>] > 0 => g = gen[f] /\ 2 * i <= size[f][g]
\* ... and behind its tail; a file whose creation is not handled yet has none.
Behind ==
    \A t \in Tails : tail[t] # Gone /\ Fresh(tail[t].path) =>
        /\ tail[t].pc \in {"reading", "waiting"} =>
                \A g \in 1..MaxGen, i \in 1..MaxSize :
                    given[<<tail[t].path, g, i>>] > 0 => 2 * i <= tail[t].off
        /\ tail[t].pc = "new" /\ tail[t].from = "head" => Untouched(tail[t].path)
Unopened ==
    \A f \in Files :
        /\ Fresh(f)
        /\ \/ f \notin exists
           \/ \E k \in 1..Len(events) : events[k].op = "create" /\ events[k].name = f
        => Untouched(f) /\ \A t \in Tails : tail[t].path # f

\* A tail that is past the first line knows the directory.
Placed ==
    \A t \in Tails :
        /\ tail[t].pc \in {"reading", "waiting"} /\ tail[t].off >= 2
        /\ tail[t].path \notin removed
        => tail[t].path \in cwds \/ \E h \in 1..MaxGen : <<tail[t].path, h, 1>> \in torn

IInv ==
    /\ Typed /\ EventsTrue /\ CreatedFirst /\ Listed /\ Alone /\ Inward
    /\ GivenAreThere /\ Behind /\ Unopened /\ Placed /\ GivenOnce /\ EventsPlaced

LEMMA TypedIsTyped == Typed => TypeOK
  <1> SUFFICES ASSUME Typed PROVE TypeOK
    OBVIOUS
  <1>1. \A t \in Tails : tail[t] \in Running \cup {Gone}
    BY DEF Typed, TailsOK
  <1>2. torn \cup unplaced \subseteq Records
    BY DEF Typed, GivenOK
  <1>3. replayed \cup refused \cup removed \cup idled \subseteq Files
    BY DEF Typed, OpenOK, DiskOK, GivenOK
  <1> QED
    BY <1>1, <1>2, <1>3
    DEF TypeOK, Typed, DiskOK, EventsOK, RunOK, OpenOK, TailsOK, GivenOK, Events, Running

LEMMA TailType ==
    ASSUME TailsOK, NEW t \in Tails
    PROVE  /\ tail[t] = Gone <=> tail[t].pc = "gone"
           /\ tail[t] = Gone <=> tail[t].path \notin Files
           /\ tail[t] # Gone => tail[t] \in Running
           /\ tail[t] = Gone => tail[t].path = Nil
  <1>1. tail[t] \in Running \cup {Gone}
    BY DEF TailsOK
  <1>2. Gone.path = Nil /\ Gone.pc = "gone" /\ Nil \notin Files
    BY DEF Gone
  <1>3. \A r \in Running : r.pc # "gone" /\ r.path \in Files
    BY DEF Running
  <1> QED BY <1>1, <1>2, <1>3

LEMMA CastType ==
    ASSUME DiskOK
    PROVE  /\ cast.touch \in SUBSET (Files \cup Dirs)
           /\ cast.halves \in 1..MaxSize /\ cast.pieces \in SUBSET {1, 2}
           /\ cast.gens \in 1..MaxGen /\ cast.limit \in Nat \ {0}
  BY DEF DiskOK

(***************************************************************************)
(* Initially.                                                              *)
(***************************************************************************)

LEMMA InitIInv == Init => IInv
  <1> SUFFICES ASSUME Init PROVE IInv
    OBVIOUS
  <1>1. /\ cast.touch \in SUBSET (Files \cup Dirs)
        /\ cast.halves \in 1..MaxSize /\ cast.limit \in Nat \ {0}
    BY DEF Init
  <1>2. DiskOK
    <2>1. {0} \cup {cast.halves - 1} \subseteq 0..MaxSize
      BY <1>1
    <2>2. size \in [Files -> [1..MaxGen -> 0..MaxSize]]
      BY <2>1 DEF Init
    <2>3. exists \subseteq cast.touch \cup {Root}
      BY DEF Init
    <2> QED BY <2>2, <2>3 DEF Init, DiskOK
  <1>3. EventsOK
    BY EmptySeq DEF Init, EventsOK
  <1>4. RunOK
    BY DEF Init, RunOK
  <1>5. OpenOK
    <2>1. {f \in Files : open[f] # Nil} = {}
      BY DEF Init
    <2>2. Cardinality({f \in Files : open[f] # Nil}) = 0
      BY <2>1, FS_EmptySet
    <2>3. Room = cast.limit
      BY <2>2, <1>1 DEF Room
    <2> QED BY <2>3, <1>1 DEF Init, OpenOK
  <1>6. TailsOK
    BY DEF Init, TailsOK
  <1>7. GivenOK
    BY DEF Init, GivenOK
  <1>8. EventsTrue /\ CreatedFirst
    <2>1. Len(events) = 0
      BY EmptySeq DEF Init
    <2> QED BY <2>1 DEF EventsTrue, CreatedFirst
  <1>9. \A t \in Tails : tail[t] = Gone /\ tail[t].pc = "gone" /\ tail[t].path = Nil
    BY DEF Init, Gone
  <1>10. Listed /\ Alone /\ Inward /\ Behind /\ Placed
    <2>1. Listed
      BY DEF Init, Listed
    <2> QED BY <2>1, <1>9 DEF Alone, Inward, Behind, Placed
  <1>11. \A f \in Files, g \in 1..MaxGen, i \in 1..MaxSize : given[<<f, g, i>>] = 0
    BY DEF Init, Records
  <1>12. GivenAreThere /\ Unopened /\ GivenOnce /\ EventsPlaced
    <2>1. GivenAreThere /\ GivenOnce
      BY <1>11 DEF GivenAreThere, GivenOnce
    <2>2. Unopened
      BY <1>9, <1>11 DEF Unopened, Untouched
    <2>3. EventsPlaced
      BY DEF Init, EventsPlaced
    <2> QED BY <2>1, <2>2, <2>3
  <1> QED
    BY <1>2, <1>3, <1>4, <1>5, <1>6, <1>7, <1>8, <1>10, <1>12 DEF IInv, Typed

(***************************************************************************)
(* Events.                                                                 *)
(***************************************************************************)

LEMMA Reported ==
    ASSUME EventsOK, NEW op \in {"create", "write", "remove"}, NEW name \in Files \cup Dirs,
           NEW dir, Len(events) < MaxQueue, Report(op, name, dir)
    PROVE  /\ EventsOK'
           /\ \A k \in 1..Len(events') :
                \/ k \in 1..Len(events) /\ events'[k] = events[k]
                \/ k = Len(events) + 1 /\ events'[k] = [op |-> op, name |-> name]
           /\ \A k \in 1..Len(events) : k \in 1..Len(events') /\ events'[k] = events[k]
  <1> DEFINE ev == [op |-> op, name |-> name]
  <1>1. ev \in Events /\ events \in Seq(Events) /\ Len(events) \in Nat
    BY LenProperties DEF EventsOK, Events
  <1>2. CASE events' = events
    BY <1>1, <1>2 DEF EventsOK
  <1>3. CASE events' = Append(events, ev)
    <2>1. /\ events' \in Seq(Events) /\ Len(events') = Len(events) + 1
          /\ \A i \in 1..Len(events) : events'[i] = events[i]
          /\ events'[Len(events) + 1] = ev
      BY <1>1, <1>3, AppendProperties
    <2>2. Len(events') <= MaxQueue
      BY <2>1, <1>1
    <2>3. EventsOK'
      BY <2>1, <2>2 DEF EventsOK
    <2> QED BY <1>1, <2>1, <2>3
  <1> QED BY <1>2, <1>3 DEF Report

LEMMA Popped ==
    ASSUME EventsOK, events # <<>>, events' = Tail(events)
    PROVE  /\ EventsOK' /\ Head(events) = events[1] /\ 1 \in 1..Len(events)
           /\ events[1] \in Events
           /\ \A k \in 1..Len(events') : /\ k + 1 \in 1..Len(events)
                                        /\ events'[k] = events[k + 1]
  <1>1. events \in Seq(Events) /\ Len(events) \in Nat /\ Len(events) # 0
    BY EmptySeq, LenProperties DEF EventsOK
  <1>2. /\ Head(events) \in Events /\ Tail(events) \in Seq(Events)
        /\ Len(Tail(events)) = Len(events) - 1
        /\ \A i \in 1..Len(Tail(events)) : Tail(events)[i] = events[i + 1]
    BY <1>1, HeadTailProperties
  <1>3. Head(events) = events[1]
    BY <1>1
  <1> QED BY <1>1, <1>2, <1>3 DEF EventsOK

LEMMA PoppedTrue ==
    ASSUME IInv, events # <<>>, events' = Tail(events), exists' = exists, removed' = removed
    PROVE  /\ EventsTrue' /\ CreatedFirst'
           /\ \A f \in Files \ removed, k \in 1..Len(events') :
                events'[k].op = "create" /\ events'[k].name = f => events[1].name # f
           /\ \A f \in Files, k \in 1..Len(events') :
                events'[k].op = "create" /\ events'[k].name = f =>
                    \E j \in 1..Len(events) : events[j].op = "create" /\ events[j].name = f
  <1>1. /\ 1 \in 1..Len(events)
        /\ \A k \in 1..Len(events') : k + 1 \in 1..Len(events) /\ events'[k] = events[k + 1]
    BY Popped DEF IInv, Typed
  <1>2. EventsTrue'
    BY <1>1 DEF IInv, EventsTrue
  <1>3. \A k \in 1..Len(events') :
          LET f == events[k + 1].name
          IN  f \in Files \ removed =>
                /\ f \in exists
                /\ events[k + 1].op = "create" => \A j \in 1..k : events[j].name # f
    <2> SUFFICES ASSUME NEW k \in 1..Len(events'), events[k + 1].name \in Files \ removed
                 PROVE  /\ events[k + 1].name \in exists
                        /\ events[k + 1].op = "create" =>
                              \A j \in 1..k : events[j].name # events[k + 1].name
      OBVIOUS
    <2>1. k + 1 \in 1..Len(events) /\ (k + 1) - 1 = k
      BY <1>1
    <2> QED BY <2>1 DEF IInv, CreatedFirst
  <1>4. CreatedFirst'
    <2> SUFFICES ASSUME NEW k \in 1..Len(events'), events'[k].name \in Files \ removed
                 PROVE  /\ events'[k].name \in exists
                        /\ events'[k].op = "create" =>
                              \A j \in 1..(k - 1) : events'[j].name # events'[k].name
      BY DEF CreatedFirst
    <2>1. events'[k] = events[k + 1]
      BY <1>1
    <2>2. \A j \in 1..(k - 1) : j \in 1..Len(events') /\ j + 1 \in 1..k
      OBVIOUS
    <2> QED BY <1>1, <1>3, <2>1, <2>2
  <1>5. \A f \in Files \ removed, k \in 1..Len(events') :
            events'[k].op = "create" /\ events'[k].name = f => events[1].name # f
    <2>1. \A k \in 1..Len(events') : 1 \in 1..k
      OBVIOUS
    <2> QED BY <1>1, <1>3, <2>1
  <1> QED BY <1>1, <1>2, <1>4, <1>5

(***************************************************************************)
(* The agents' steps: the tails stay where they are.                       *)
(***************************************************************************)

\* What is left alone by all of them.
Settled == <<watched, run, open, tail, cwds, given, torn, unplaced, replayed, refused,
             idled>>

\* Given the new events, the conjuncts that are not about them.
LEMMA AgentStep ==
    ASSUME IInv, UNCHANGED Settled, cast' = cast, DiskOK', EventsOK',
           exists \cap (Dirs \cup {Root}) \subseteq exists',
           removed \subseteq removed',
           \A f \in Files \ removed : gen'[f] = gen[f],
           \A f \in Files, g \in 1..MaxGen : size'[f][g] >= size[f][g],
           Unopened'
    PROVE  /\ Typed' /\ Listed' /\ Alone' /\ Inward' /\ GivenAreThere' /\ Behind' /\ Placed'
           /\ GivenOnce' /\ EventsPlaced'
  <1> USE DEF Settled, run
  <1>1. Typed'
    <2>1. RunOK' /\ TailsOK' /\ GivenOK'
      BY DEF IInv, Typed, RunOK, TailsOK, GivenOK
    <2>2. OpenOK'
      <3>1. Room' = Room
        BY DEF Room
      <3> QED BY <3>1 DEF IInv, Typed, OpenOK
    <2> QED BY <2>1, <2>2 DEF Typed
  <1>2. /\ size \in [Files -> [1..MaxGen -> 0..MaxSize]]
        /\ size' \in [Files -> [1..MaxGen -> 0..MaxSize]]
    BY DEF IInv, Typed, DiskOK
  <1>3. Listed'
    BY DEF IInv, Listed
  <1>4. Alone'
    BY DEF IInv, Alone
  <1>5. Inward'
    <2> SUFFICES ASSUME NEW t \in Tails, tail[t] # Gone PROVE Inside(t)'
      BY DEF Inward
    <2>1. Inside(t) /\ tail[t] \in Running
      BY TailType DEF IInv, Inward, Typed
    <2>2. CASE tail[t].pc \in {"reading", "waiting"}
      <3>1. tail[t].path \in Files /\ tail[t].gen \in 1..MaxGen /\ tail[t].off \in Nat
        BY <2>1, <2>2 DEF Inside, Running
      <3>2. tail[t].off <= Content(t)'
        <4>1. Content(t) = size[tail[t].path][tail[t].gen] /\ tail[t].off <= Content(t)
          BY <2>1, <2>2 DEF Inside, Content
        <4>2. Content(t)' = size'[tail[t].path][tail[t].gen]
          BY DEF Content
        <4>3. /\ size[tail[t].path][tail[t].gen] \in Nat
              /\ size'[tail[t].path][tail[t].gen] \in Nat
              /\ size'[tail[t].path][tail[t].gen] >= size[tail[t].path][tail[t].gen]
          <5> DEFINE f == tail[t].path
                     g == tail[t].gen
          <5>1. f \in Files /\ g \in 1..MaxGen
            BY <3>1
          <5> HIDE DEF f, g
          <5>2. size[f][g] \in 0..MaxSize /\ size'[f][g] \in 0..MaxSize
            BY <1>2, <5>1
          <5>3. size'[f][g] >= size[f][g]
            BY <5>1
          <5> QED BY <5>2, <5>3 DEF f, g
        <4> QED BY <3>1, <4>1, <4>2, <4>3
      <3>3. tail[t].path \notin removed' => tail[t].gen = gen'[tail[t].path]
        BY <2>1, <2>2, <3>1 DEF Inside
      <3> QED BY <2>1, <2>2, <3>1, <3>2, <3>3 DEF Inside
    <2>3. CASE tail[t].pc \notin {"reading", "waiting"}
      BY <2>1, <2>3 DEF Inside
    <2> QED BY <2>2, <2>3
  <1>6. GivenAreThere'
    <2> SUFFICES ASSUME NEW f \in Files, NEW g \in 1..MaxGen, NEW i \in 1..MaxSize,
                        Fresh(f)', given[<<f, g, i>>] > 0
                 PROVE  g = gen'[f] /\ 2 * i <= size'[f][g]
      BY DEF GivenAreThere
    <2>1. Fresh(f) /\ f \in Files \ removed
      BY DEF Fresh
    <2>2. g = gen[f] /\ 2 * i <= size[f][g]
      BY <2>1 DEF IInv, GivenAreThere
    <2>3. g = gen'[f]
      BY <2>1, <2>2
    <2>4. size'[f][g] >= size[f][g]
      OBVIOUS
    <2>5. size[f][g] \in 0..MaxSize /\ size'[f][g] \in 0..MaxSize
      BY <1>2
    <2> QED BY <2>2, <2>3, <2>4, <2>5
  <1>7. Behind'
    BY DEF IInv, Behind, Fresh, Untouched
  <1>8. Placed' /\ GivenOnce' /\ EventsPlaced'
    BY DEF IInv, Placed, GivenOnce, EventsPlaced
  <1> QED BY <1>1, <1>3, <1>4, <1>5, <1>6, <1>7, <1>8

LEMMA MakeDirStep ==
    ASSUME IInv, NEW d \in Dirs, MakeDir(d) PROVE IInv'
  <1> USE DEF MakeDir
  <1>1. /\ EventsOK'
        /\ \A k \in 1..Len(events') :
             \/ k \in 1..Len(events) /\ events'[k] = events[k]
             \/ k = Len(events) + 1 /\ events'[k] = [op |-> "create", name |-> d]
        /\ \A k \in 1..Len(events) : k \in 1..Len(events') /\ events'[k] = events[k]
    BY Reported DEF IInv, Typed
  <1>2. DiskOK'
    <2>1. <<d, 1>> \in (Files \cup Dirs) \X (1..MaxGen)
      OBVIOUS
    <2> QED BY <2>1 DEF IInv, Typed, DiskOK
  <1>3. EventsTrue'
    BY <1>1 DEF IInv, EventsTrue
  <1>4. CreatedFirst'
    <2> SUFFICES ASSUME NEW k \in 1..Len(events'), events'[k].name \in Files \ removed
                 PROVE  /\ events'[k].name \in exists'
                        /\ events'[k].op = "create" =>
                              \A j \in 1..(k - 1) : events'[j].name # events'[k].name
      BY DEF CreatedFirst
    <2>1. k \in 1..Len(events) /\ events'[k] = events[k]
      BY <1>1
    <2>2. \A j \in 1..(k - 1) : events'[j] = events[j]
      BY <1>1, <2>1
    <2> QED BY <2>1, <2>2 DEF IInv, CreatedFirst
  <1>5. Unopened'
    <2> SUFFICES ASSUME NEW f \in Files, Fresh(f),
                        \/ f \notin exists'
                        \/ \E k \in 1..Len(events') : /\ events'[k].op = "create"
                                                      /\ events'[k].name = f
                 PROVE  Untouched(f) /\ \A t \in Tails : tail[t].path # f
      BY DEF Unopened, Untouched, Fresh
    <2>1. \/ f \notin exists
          \/ \E k \in 1..Len(events) : events[k].op = "create" /\ events[k].name = f
      BY <1>1
    <2> QED BY <2>1 DEF IInv, Unopened
  <1>6. \A x \in Files, g \in 1..MaxGen : size'[x][g] >= size[x][g]
    <2>1. \A x \in Files, g \in 1..MaxGen : size[x][g] \in Nat
      BY DEF IInv, Typed, DiskOK
    <2> QED BY <2>1
  <1> QED BY <1>1, <1>2, <1>3, <1>4, <1>5, <1>6, AgentStep DEF IInv, Settled

LEMMA CreateFileStep ==
    ASSUME IInv, NEW f \in Files, CreateFile(f) PROVE IInv'
  <1> USE DEF CreateFile
  <1>1. /\ EventsOK'
        /\ \A k \in 1..Len(events') :
             \/ k \in 1..Len(events) /\ events'[k] = events[k]
             \/ k = Len(events) + 1 /\ events'[k] = [op |-> "create", name |-> f]
        /\ \A k \in 1..Len(events) : k \in 1..Len(events') /\ events'[k] = events[k]
    BY Reported DEF IInv, Typed
  <1>2. DiskOK'
    <2>1. gen' \in [Files -> 1..MaxGen]
      <3>1. gen \in [Files -> 1..MaxGen] /\ cast.gens \in 1..MaxGen
        BY CastType DEF IInv, Typed, DiskOK
      <3>2. f \in removed => gen[f] + 1 \in 1..MaxGen
        BY <3>1
      <3> QED BY <3>1, <3>2
    <2>2. <<f, gen'[f]>> \in (Files \cup Dirs) \X (1..MaxGen)
      BY <2>1
    <2> QED BY <2>1, <2>2, ZenonT(60) DEF IInv, Typed, DiskOK
  <1>3. EventsTrue'
    BY <1>1 DEF IInv, EventsTrue
  <1>4. CreatedFirst'
    <2> SUFFICES ASSUME NEW k \in 1..Len(events'), events'[k].name \in Files \ removed
                 PROVE  /\ events'[k].name \in exists'
                        /\ events'[k].op = "create" =>
                              \A j \in 1..(k - 1) : events'[j].name # events'[k].name
      BY DEF CreatedFirst
    <2>1. \A j \in 1..(k - 1) : j \in 1..Len(events) /\ events'[j] = events[j]
      BY <1>1
    <2>2. CASE k \in 1..Len(events) /\ events'[k] = events[k]
      BY <2>1, <2>2 DEF IInv, CreatedFirst
    <2>3. CASE k = Len(events) + 1 /\ events'[k] = [op |-> "create", name |-> f]
      <3>1. \A j \in 1..Len(events) : events[j].name # f
        BY <2>3 DEF IInv, CreatedFirst
      <3> QED BY <2>1, <2>3, <3>1
    <2> QED BY <1>1, <2>2, <2>3
  <1>5. Unopened'
    <2> SUFFICES ASSUME NEW x \in Files, Fresh(x),
                        \/ x \notin exists'
                        \/ \E k \in 1..Len(events') : /\ events'[k].op = "create"
                                                      /\ events'[k].name = x
                 PROVE  Untouched(x) /\ \A t \in Tails : tail[t].path # x
      BY DEF Unopened, Untouched, Fresh
    <2>1. \/ x \notin exists
          \/ \E k \in 1..Len(events) : events[k].op = "create" /\ events[k].name = x
      BY <1>1
    <2> QED BY <2>1 DEF IInv, Unopened
  <1>6. \A x \in Files \ removed : gen'[x] = gen[x]
    BY DEF IInv, Typed, DiskOK
  <1>7. \A x \in Files, g \in 1..MaxGen : size'[x][g] >= size[x][g]
    <2>1. \A x \in Files, g \in 1..MaxGen : size[x][g] \in Nat
      BY DEF IInv, Typed, DiskOK
    <2> QED BY <2>1
  <1> QED BY <1>1, <1>2, <1>3, <1>4, <1>5, <1>6, <1>7, AgentStep DEF IInv, Settled

LEMMA AppendToStep ==
    ASSUME IInv, NEW f \in Files, NEW n \in cast.pieces, AppendTo(f, n) PROVE IInv'
  <1> USE DEF AppendTo, history
  <1>1. /\ EventsOK'
        /\ \A k \in 1..Len(events') :
             \/ k \in 1..Len(events) /\ events'[k] = events[k]
             \/ k = Len(events) + 1 /\ events'[k] = [op |-> "write", name |-> f]
        /\ \A k \in 1..Len(events) : k \in 1..Len(events') /\ events'[k] = events[k]
    BY Reported DEF IInv, Typed
  <1>2. /\ gen[f] \in 1..MaxGen /\ size \in [Files -> [1..MaxGen -> 0..MaxSize]]
        /\ n \in {1, 2} /\ cast.halves \in 1..MaxSize
    BY CastType DEF IInv, Typed, DiskOK
  <1>3. size[f][gen[f]] + n \in 0..MaxSize
    <2>1. size[f] \in [1..MaxGen -> 0..MaxSize]
      BY <1>2
    <2>2. size[f][gen[f]] \in 0..MaxSize
      BY <1>2, <2>1
    <2>3. size[f][gen[f]] + n <= cast.halves
      OBVIOUS
    <2> HIDE DEF AppendTo, history
    <2> QED BY <1>2, <2>2, <2>3
  <1>4. size' \in [Files -> [1..MaxGen -> 0..MaxSize]]
    <2> DEFINE gens == [size[f] EXCEPT ![gen[f]] = @ + n]
    <2>1. size' = [size EXCEPT ![f] = gens]
      BY <1>2
    <2>2. gens \in [1..MaxGen -> 0..MaxSize]
      BY <1>2, <1>3
    <2> HIDE DEF gens
    <2> QED BY <1>2, <2>1, <2>2
  <1>5. DiskOK'
    BY <1>4 DEF IInv, Typed, DiskOK
  <1>6. EventsTrue'
    BY <1>1 DEF IInv, EventsTrue
  <1>7. CreatedFirst'
    <2> SUFFICES ASSUME NEW k \in 1..Len(events'), events'[k].name \in Files \ removed
                 PROVE  /\ events'[k].name \in exists'
                        /\ events'[k].op = "create" =>
                              \A j \in 1..(k - 1) : events'[j].name # events'[k].name
      BY DEF CreatedFirst
    <2>1. \A j \in 1..(k - 1) : j \in 1..Len(events) /\ events'[j] = events[j]
      BY <1>1
    <2>2. CASE k \in 1..Len(events) /\ events'[k] = events[k]
      BY <2>1, <2>2 DEF IInv, CreatedFirst
    <2>3. CASE k = Len(events) + 1 /\ events'[k] = [op |-> "write", name |-> f]
      BY <2>3
    <2> QED BY <1>1, <2>2, <2>3
  <1>8. Unopened'
    <2> SUFFICES ASSUME NEW x \in Files, Fresh(x),
                        \/ x \notin exists'
                        \/ \E k \in 1..Len(events') : /\ events'[k].op = "create"
                                                      /\ events'[k].name = x
                 PROVE  Untouched(x) /\ \A t \in Tails : tail[t].path # x
      BY DEF Unopened, Untouched, Fresh
    <2>1. \/ x \notin exists
          \/ \E k \in 1..Len(events) : events[k].op = "create" /\ events[k].name = x
      BY <1>1
    <2> QED BY <2>1 DEF IInv, Unopened
  <1>9. \A x \in Files, g \in 1..MaxGen : size'[x][g] >= size[x][g]
    <2> TAKE x \in Files, g \in 1..MaxGen
    <2>1. size[x][g] \in 0..MaxSize
      <3>1. size[x] \in [1..MaxGen -> 0..MaxSize]
        BY <1>2
      <3> QED BY <3>1
    <2>2. CASE x = f /\ g = gen[f]
      <3>1. size'[x][g] = size[x][g] + n
        BY <1>2, <2>2
      <3> QED BY <1>2, <2>1, <3>1
    <2>3. CASE ~(x = f /\ g = gen[f])
      <3>1. size'[x][g] = size[x][g]
        BY <1>2, <2>3
      <3> QED BY <2>1, <3>1
    <2> QED BY <2>2, <2>3
  <1> QED BY <1>1, <1>5, <1>6, <1>7, <1>8, <1>9, AgentStep DEF IInv, Settled

LEMMA RemoveStep ==
    ASSUME IInv, NEW f \in Files, Remove(f) PROVE IInv'
  <1> USE DEF Remove
  <1>1. /\ EventsOK'
        /\ \A k \in 1..Len(events') :
             \/ k \in 1..Len(events) /\ events'[k] = events[k]
             \/ k = Len(events) + 1 /\ events'[k] = [op |-> "remove", name |-> f]
        /\ \A k \in 1..Len(events) : k \in 1..Len(events') /\ events'[k] = events[k]
    BY Reported DEF IInv, Typed
  <1>2. DiskOK' /\ exists \cap (Dirs \cup {Root}) \subseteq exists'
    BY DEF IInv, Typed, DiskOK
  <1>3. EventsTrue'
    BY <1>1, <1>2 DEF IInv, EventsTrue
  <1>4. CreatedFirst'
    <2> SUFFICES ASSUME NEW k \in 1..Len(events'), events'[k].name \in Files \ removed'
                 PROVE  /\ events'[k].name \in exists'
                        /\ events'[k].op = "create" =>
                              \A j \in 1..(k - 1) : events'[j].name # events'[k].name
      BY DEF CreatedFirst
    <2>1. \A j \in 1..(k - 1) : j \in 1..Len(events) /\ events'[j] = events[j]
      BY <1>1
    <2>2. k \in 1..Len(events) /\ events'[k] = events[k]
      BY <1>1
    <2> QED BY <2>1, <2>2 DEF IInv, CreatedFirst
  <1>5. Unopened'
    <2> SUFFICES ASSUME NEW x \in Files, Fresh(x), x # f,
                        \/ x \notin exists'
                        \/ \E k \in 1..Len(events') : /\ events'[k].op = "create"
                                                      /\ events'[k].name = x
                 PROVE  Untouched(x) /\ \A t \in Tails : tail[t].path # x
      BY DEF Unopened, Untouched, Fresh
    <2>1. \/ x \notin exists
          \/ \E k \in 1..Len(events) : events[k].op = "create" /\ events[k].name = x
      BY <1>1
    <2> QED BY <2>1 DEF IInv, Unopened
  <1>6. \A x \in Files, g \in 1..MaxGen : size'[x][g] >= size[x][g]
    <2>1. \A x \in Files, g \in 1..MaxGen : size[x][g] \in Nat
      BY DEF IInv, Typed, DiskOK
    <2> QED BY <2>1
  <1> QED BY <1>1, <1>2, <1>3, <1>4, <1>5, <1>6, AgentStep DEF IInv, Settled

(***************************************************************************)
(* openFile.                                                               *)
(***************************************************************************)

\* A set that is no larger fits into the other.
LEMMA Fits ==
    ASSUME NEW S, NEW T, IsFiniteSet(S), IsFiniteSet(T), Cardinality(S) <= Cardinality(T)
    PROVE  \E n \in [S -> T] : \A x, y \in S : n[x] = n[y] => x = y
  <1> DEFINE s == Cardinality(S)
             t == Cardinality(T)
  <1>1. s \in Nat /\ t \in Nat /\ ExistsBijection(1..s, S) /\ ExistsBijection(1..t, T)
    BY FS_CardinalityType
  <1>2. PICK a \in [1..s -> S] : \A x \in S : \E i \in 1..s : a[i] = x
    BY <1>1 DEF ExistsBijection, Bijection, Surjection
  <1>3. PICK b \in [1..t -> T] : \A i, j \in 1..t : b[i] = b[j] => i = j
    BY <1>1 DEF ExistsBijection, Bijection, Injection, IsInjective
  <1> DEFINE at == [x \in S |-> CHOOSE i \in 1..s : a[i] = x]
             n == [x \in S |-> b[at[x]]]
  <1>4. \A x \in S : at[x] \in 1..s /\ a[at[x]] = x
    BY <1>2
  <1>5. \A x \in S : at[x] \in 1..t
    BY <1>1, <1>4
  <1>6. n \in [S -> T]
    BY <1>3, <1>5
  <1>7. ASSUME NEW x \in S, NEW y \in S, n[x] = n[y] PROVE x = y
    <2>1. at[x] = at[y]
      BY <1>3, <1>5, <1>7
    <2> QED BY <1>4, <2>1
  <1> QED BY <1>6, <1>7

\* openFile has made tails of the chosen files.
Opening(chosen, from) ==
    /\ chosen # {} => ~stopped
    /\ \A f \in chosen : /\ open[f] = Nil /\ open'[f] \in Tails
                         /\ tail[open'[f]] = Gone
                         /\ tail'[open'[f]] = Opened(f, from)
    /\ \A f \in Files \ chosen : open'[f] = open[f]
    /\ \A t \in Tails : tail'[t] = tail[t] \/ \E f \in chosen : open'[f] = t
    /\ replayed' = IF from = "replay" THEN replayed \cup chosen ELSE replayed
    /\ OpenOK' /\ TailsOK'

\* What openFile does to the files of fs that it opens.
LEMMA OpenedFiles ==
    ASSUME IInv, NEW fs \in SUBSET Files, NEW from \in {"head", "end", "replay"},
           cast' = cast, OpenFiles(fs, from)
    PROVE  \E chosen \in SUBSET fs : Opening(chosen, from)
  <1> DEFINE candidates == IF stopped THEN {} ELSE {f \in fs : ~AlreadyTailing(f)}
             free == {t \in Tails : tail[t].pc = "gone"}
             New(chosen) == CHOOSE n \in [chosen -> free] :
                               \A f, g \in chosen : n[f] = n[g] => f = g
  <1>1. PICK chosen \in SUBSET candidates :
          /\ chosen = {} \/ Cardinality(chosen) <= Room
          /\ Cardinality(chosen) <= Cardinality(free)
          /\ open' = [f \in Files |-> IF f \in chosen THEN New(chosen)[f] ELSE open[f]]
          /\ tail' = [t \in Tails |->
                        IF \E f \in chosen : New(chosen)[f] = t
                        THEN [pc |-> "new", path |-> CHOOSE f \in chosen : New(chosen)[f] = t,
                              gen |-> 0, off |-> 0, from |-> from, stop |-> FALSE]
                        ELSE tail[t]]
          /\ replayed' = IF from = "replay" THEN replayed \cup chosen ELSE replayed
          /\ refused' = refused \cup (candidates \ chosen)
    BY DEF OpenFiles
  <1> DEFINE new == New(chosen)
  <1>2. chosen \in SUBSET fs /\ (chosen # {} => ~stopped) /\ \A f \in chosen : open[f] = Nil
    BY DEF AlreadyTailing
  <1>3. IsFiniteSet(chosen) /\ IsFiniteSet(free)
    BY <1>2, FiniteAssumption, FS_Subset
  <1>4. new \in [chosen -> free] /\ \A f, g \in chosen : new[f] = new[g] => f = g
    <2>1. \E n \in [chosen -> free] : \A f, g \in chosen : n[f] = n[g] => f = g
      BY <1>1, <1>3, Fits
    <2> HIDE DEF free
    <2> QED BY <2>1
  <1>5. open' = [f \in Files |-> IF f \in chosen THEN new[f] ELSE open[f]]
    BY <1>1
  <1>6. tail' = [t \in Tails |->
                   IF \E f \in chosen : new[f] = t
                   THEN Opened(CHOOSE f \in chosen : new[f] = t, from)
                   ELSE tail[t]]
    BY <1>1 DEF Opened
  <1> HIDE DEF new
  <1>7. \A f \in chosen : new[f] \in Tails /\ tail[new[f]] = Gone
    BY <1>4, TailType DEF IInv, Typed
  <1>8. open' \in [Files -> Tails \cup {Nil}]
    BY <1>5, <1>7 DEF IInv, Typed, OpenOK
  <1>9. \A f \in chosen : (CHOOSE g \in chosen : new[g] = new[f]) = f
    BY <1>4
  <1>10. \A f \in chosen : open'[f] = new[f] /\ tail'[new[f]] = Opened(f, from)
    BY <1>2, <1>5, <1>6, <1>7, <1>9
  <1>11. \A t \in Tails : tail'[t] = tail[t] \/ \E f \in chosen : open'[f] = t
    BY <1>6, <1>10
  <1>12. TailsOK'
    <2>1. \A f \in chosen : Opened(f, from) \in Running
      BY <1>2 DEF Opened, Running
    <2>2. \A t \in Tails : tail'[t] \in Running \cup {Gone}
      BY <1>10, <1>11, <2>1 DEF IInv, Typed, TailsOK
    <2> QED BY <1>6, <2>2 DEF TailsOK
  <1>13. Room' >= 0
    <2> DEFINE were == {f \in Files : open[f] # Nil}
               are == {f \in Files : open'[f] # Nil}
    <2>1. are = were \cup chosen /\ were \cap chosen = {}
      BY <1>2, <1>5, <1>7
    <2>2. IsFiniteSet(were)
      BY FiniteAssumption, FS_Subset
    <2>3. Cardinality({}) = 0
      BY FS_EmptySet
    <2>4. Cardinality(are) = Cardinality(were) + Cardinality(chosen)
      <3>1. Cardinality(were) \in Nat /\ Cardinality(chosen) \in Nat
        BY <1>3, <2>2, FS_CardinalityType
      <3>2. Cardinality(were \cup chosen)
              = Cardinality(were) + Cardinality(chosen) - Cardinality(were \cap chosen)
        BY <1>3, <2>2, FS_Union
      <3>3. Cardinality(were \cap chosen) = 0 /\ Cardinality(are) = Cardinality(were \cup chosen)
        BY <2>1, <2>3
      <3> HIDE DEF were, are
      <3> QED BY <3>1, <3>2, <3>3
    <2>5. Cardinality(were) \in Nat /\ Cardinality(chosen) \in Nat /\ cast.limit \in Nat
      BY <1>3, <2>2, FS_CardinalityType, CastType DEF IInv, Typed
    <2>6. Room = cast.limit - Cardinality(were) /\ Room' = cast.limit - Cardinality(are)
      BY DEF Room
    <2>7. Room >= 0
      BY DEF IInv, Typed, OpenOK
    <2>8. Cardinality(chosen) = 0 \/ Cardinality(chosen) <= Room
      BY <1>1, <2>3
    <2> HIDE DEF were, are
    <2> QED BY <2>4, <2>5, <2>6, <2>7, <2>8
  <1>14. OpenOK'
    <2>1. replayed' \subseteq Files /\ refused' \subseteq Files
      <3>1. candidates \subseteq Files
        OBVIOUS
      <3> QED BY <1>1, <1>2, <3>1 DEF IInv, Typed, OpenOK
    <2> QED BY <1>8, <1>13, <2>1 DEF OpenOK
  <1>15. \A f \in Files \ chosen : open'[f] = open[f]
    BY <1>5
  <1>16. replayed' = IF from = "replay" THEN replayed \cup chosen ELSE replayed
    BY <1>1
  <1>17. \A f \in chosen : /\ open[f] = Nil /\ open'[f] \in Tails
                            /\ tail[open'[f]] = Gone
                            /\ tail'[open'[f]] = Opened(f, from)
    BY <1>2, <1>7, <1>10
  <1> WITNESS chosen \in SUBSET fs
  <1> HIDE DEF candidates
  <1> QED BY <1>2, <1>11, <1>12, <1>14, <1>15, <1>16, <1>17 DEF Opening

\* Opening files keeps the invariant, given the new events, when the file of a
\* creation is new to the tailer and its other files cannot be.
LEMMA OpenStep ==
    ASSUME IInv, NEW fs \in SUBSET Files, NEW from \in {"head", "end", "replay"},
           OpenFiles(fs, from),
           UNCHANGED <<disk, stopped, cwds, given, torn, unplaced, removed, announced, idled>>,
           EventsOK', EventsTrue', CreatedFirst', RunOK',
           from = "head" => \A f \in fs : Fresh(f) => Untouched(f),
           from # "replay" => \A f \in fs : f \in removed \/ f \in exists,
           \A f \in Files, k \in 1..Len(events') :
                events'[k].op = "create" /\ events'[k].name = f =>
                    \E j \in 1..Len(events) : events[j].op = "create" /\ events[j].name = f,
           from # "replay" => \A f \in fs \ removed, k \in 1..Len(events') :
                events'[k].op = "create" => events'[k].name # f
    PROVE  IInv'
  <1> USE DEF disk
  <1>0. PICK chosen \in SUBSET fs : Opening(chosen, from)
    BY OpenedFiles
  <1>1. /\ chosen # {} => ~stopped
        /\ \A f \in chosen : /\ open[f] = Nil /\ open'[f] \in Tails
                             /\ tail[open'[f]] = Gone
                             /\ tail'[open'[f]] = Opened(f, from)
        /\ \A f \in Files \ chosen : open'[f] = open[f]
        /\ \A t \in Tails : tail'[t] = tail[t] \/ \E f \in chosen : open'[f] = t
        /\ replayed' = IF from = "replay" THEN replayed \cup chosen ELSE replayed
        /\ OpenOK' /\ TailsOK'
    BY <1>0 DEF Opening
  <1>2. Typed'
    BY <1>1 DEF IInv, Typed, DiskOK, GivenOK
  <1>3. \A f \in chosen : /\ Opened(f, from).path = f /\ Opened(f, from) # Gone
                          /\ Opened(f, from).pc = "new" /\ Opened(f, from).from = from
    BY DEF Opened, Gone
  <1>4. open \in [Files -> Tails \cup {Nil}] /\ Nil \notin Tails
    BY DEF IInv, Typed, OpenOK
  \* A tail is as it was, or one of the new.
  <1>5. \A t \in Tails :
          \/ tail'[t] = tail[t]
          \/ \E f \in chosen : open'[f] = t /\ tail'[t] = Opened(f, from) /\ tail[t] = Gone
    BY <1>1
  <1>6. \A f \in Files : open[f] # Nil => open[f] \in Tails /\ tail[open[f]] # Gone
    BY <1>4, TailType DEF IInv, Typed, Listed
  <1>7. \A t \in Tails : tail[t] # Gone => tail'[t] = tail[t]
    BY <1>5
  <1>8. Listed'
    <2> SUFFICES ASSUME NEW f \in Files, open'[f] # Nil PROVE tail'[open'[f]].path = f
      BY DEF Listed
    <2>1. CASE f \in chosen
      BY <1>1, <1>3, <2>1
    <2>2. CASE f \notin chosen
      BY <1>1, <1>6, <1>7, <2>2 DEF IInv, Listed
    <2> QED BY <2>1, <2>2
  \* No tail has a file that is opened, unless the file was removed.
  <1>9. \A t \in Tails : tail[t] # Gone => tail[t].path \in removed \/ tail[t].path \notin chosen
    BY <1>1, <1>4 DEF IInv, Alone
  <1>10. \A t, u \in Tails :
            tail'[t] # Gone /\ tail'[t].path \notin removed /\ tail'[u].path = tail'[t].path
              => t = u
    <2> SUFFICES ASSUME NEW t \in Tails, NEW u \in Tails, tail'[t] # Gone,
                        tail'[t].path \notin removed, tail'[u].path = tail'[t].path
                 PROVE  t = u
      OBVIOUS
    <2>1. tail'[t].path \in Files /\ tail'[u] # Gone
      <3>1. TailsOK'
        BY <1>1
      <3>2. \A r \in Running : r.path \in Files
        BY DEF Running
      <3>3. Gone.path \notin Files
        BY DEF Gone
      <3> QED BY <3>1, <3>2, <3>3 DEF TailsOK
    <2>2. CASE tail'[t] = tail[t] /\ tail'[u] = tail[u]
      BY <2>2 DEF IInv, Alone
    <2>3. CASE \E f \in chosen : open'[f] = t /\ tail'[t] = Opened(f, from) /\ tail[t] = Gone
      BY <1>3, <1>5, <1>9, <2>1, <2>3
    <2>4. CASE \E f \in chosen : open'[f] = u /\ tail'[u] = Opened(f, from) /\ tail[u] = Gone
      BY <1>3, <1>5, <1>9, <2>1, <2>4
    <2> QED BY <1>5, <2>2, <2>3, <2>4
  <1>11. Alone'
    <2>1. ASSUME NEW t \in Tails, tail'[t] # Gone, tail'[t].path \notin removed, ~stopped
          PROVE  open'[tail'[t].path] = t
      <3>1. CASE tail'[t] = tail[t]
        <4>1. tail[t].path \in Files /\ tail[t].path \notin chosen
          BY <1>9, <2>1, <3>1, TailType DEF IInv, Typed
        <4> QED BY <1>1, <2>1, <3>1, <4>1 DEF IInv, Alone
      <3>2. CASE tail'[t] # tail[t]
        BY <1>3, <1>5, <3>2
      <3> QED BY <3>1, <3>2
    <2> QED BY <1>10, <2>1 DEF Alone
  <1>12. replayed \subseteq replayed' /\ (from = "replay" => chosen \subseteq replayed')
    BY <1>1
  <1>13. Inward'
    <2> SUFFICES ASSUME NEW t \in Tails, tail'[t] # Gone PROVE Inside(t)'
      BY DEF Inward
    <2>1. CASE tail'[t] = tail[t]
      BY <1>12, <2>1 DEF IInv, Inward, Inside, Content
    <2>2. CASE tail'[t] # tail[t]
      <3>1. PICK f \in chosen : tail'[t] = Opened(f, from)
        BY <1>5, <2>2
      <3>2. tail'[t].path = f /\ tail'[t].pc = "new" /\ tail'[t].from = from
        BY <1>3, <3>1
      <3> QED BY <1>12, <3>2 DEF Inside
    <2> QED BY <2>1, <2>2
  <1>14. \A f : Fresh(f)' => Fresh(f)
    BY <1>12 DEF Fresh
  <1>15. GivenAreThere'
    BY <1>14 DEF IInv, GivenAreThere
  <1>16. Behind'
    <2> SUFFICES ASSUME NEW t \in Tails, tail'[t] # Gone, NEW x, x = tail'[t].path, Fresh(x)'
                 PROVE  /\ tail'[t].pc \in {"reading", "waiting"} =>
                              \A g \in 1..MaxGen, i \in 1..MaxSize :
                                given[<<x, g, i>>] > 0 => 2 * i <= tail'[t].off
                        /\ tail'[t].pc = "new" /\ tail'[t].from = "head" => Untouched(x)
      BY DEF Behind, Untouched, Fresh
    <2>1. CASE tail'[t] = tail[t]
      BY <1>14, <2>1 DEF IInv, Behind
    <2>2. CASE tail'[t] # tail[t]
      <3>1. PICK f \in chosen : tail'[t] = Opened(f, from)
        BY <1>5, <2>2
      <3>2. x = f /\ tail'[t].pc = "new" /\ tail'[t].from = from
        BY <1>3, <3>1
      <3>3. from = "head" => Untouched(f)
        BY <1>14, <3>2
      <3> QED BY <3>2, <3>3
    <2> QED BY <2>1, <2>2
  <1>17. Unopened'
    <2> SUFFICES ASSUME NEW f \in Files, Fresh(f)',
                        \/ f \notin exists
                        \/ \E k \in 1..Len(events') : /\ events'[k].op = "create"
                                                      /\ events'[k].name = f
                 PROVE  Untouched(f) /\ \A t \in Tails : tail'[t].path # f
      BY DEF Unopened, Untouched
    <2>1. Untouched(f) /\ \A t \in Tails : tail[t].path # f
      BY <1>14 DEF IInv, Unopened
    <2>2. f \notin removed
      BY DEF Fresh
    <2>3. f \notin chosen
      <3>1. CASE from = "replay"
        BY <1>12, <3>1 DEF Fresh
      <3>2. CASE from # "replay"
        BY <2>2, <3>2
      <3> QED BY <3>1, <3>2
    <2> QED BY <1>3, <1>5, <2>1, <2>3
  <1>18. Placed'
    <2> SUFFICES ASSUME NEW t \in Tails, tail'[t].pc \in {"reading", "waiting"},
                        tail'[t].off >= 2, tail'[t].path \notin removed
                 PROVE  \/ tail'[t].path \in cwds
                        \/ \E h \in 1..MaxGen : <<tail'[t].path, h, 1>> \in torn
      BY DEF Placed
    <2>1. tail'[t] = tail[t]
      BY <1>3, <1>5
    <2> QED BY <2>1 DEF IInv, Placed
  <1>19. GivenOnce' /\ EventsPlaced'
    BY <1>12 DEF IInv, GivenOnce, EventsPlaced
  <1> QED BY <1>2, <1>8, <1>11, <1>13, <1>15, <1>16, <1>17, <1>18, <1>19 DEF IInv

LEMMA ScanStep == ASSUME IInv, Scan PROVE IInv'
  <1>1. PICK fresh \in SUBSET {f \in exists \cap Files : Below(f, scanning)} :
            OpenFiles(fresh, "replay")
    BY DEF Scan
  <1>2. fresh \in SUBSET Files
    OBVIOUS
  <1>3. RunOK'
    BY DEF IInv, Typed, RunOK, Scan, disk
  <1>4. EventsOK' /\ EventsTrue' /\ CreatedFirst' /\ events' = events
    BY DEF IInv, Typed, EventsOK, EventsTrue, CreatedFirst, Scan, disk
  <1> QED BY <1>1, <1>2, <1>3, <1>4, OpenStep DEF Scan

LEMMA AttachStep == ASSUME IInv, NEW f \in Files, Attach(f) PROVE IInv'
  <1>1. OpenFiles({f}, "replay") /\ {f} \in SUBSET Files
    BY DEF Attach
  <1>2. RunOK'
    BY DEF IInv, Typed, RunOK, Attach, disk, run
  <1>3. EventsOK' /\ EventsTrue' /\ CreatedFirst' /\ events' = events
    BY DEF IInv, Typed, EventsOK, EventsTrue, CreatedFirst, Attach, disk
  <1> QED BY <1>1, <1>2, <1>3, OpenStep DEF Attach, run

LEMMA FileEventStep ==
    ASSUME IInv, NEW op \in {"create", "write"}, NEW from \in {"head", "end"},
           op = "create" <=> from = "head", FileEvent(op, from)
    PROVE  IInv'
  <1> DEFINE name == Head(events).name
             fs == {name} \cap (IF op = "create" THEN exists ELSE Files)
  <1>1. OpenFiles(fs, from) /\ fs \in SUBSET Files
    BY DEF FileEvent
  <1>2. RunOK'
    BY DEF IInv, Typed, RunOK, FileEvent, disk, run
  <1>3. /\ EventsOK' /\ events[1] = Head(events) /\ 1 \in 1..Len(events)
        /\ events # <<>> /\ events' = Tail(events)
    BY Popped DEF IInv, Typed, FileEvent
  <1>4. /\ EventsTrue' /\ CreatedFirst'
        /\ \A f \in Files \ removed, k \in 1..Len(events') :
             events'[k].op = "create" /\ events'[k].name = f => events[1].name # f
        /\ \A f \in Files, k \in 1..Len(events') :
             events'[k].op = "create" /\ events'[k].name = f =>
                 \E j \in 1..Len(events) : events[j].op = "create" /\ events[j].name = f
    BY <1>3, PoppedTrue DEF FileEvent, disk
  <1>5. events[1].name = name /\ events[1].op = op /\ \A f \in fs : f = name
    BY <1>3 DEF FileEvent
  <1>6. from = "head" => \A f \in fs : Fresh(f) => Untouched(f)
    BY <1>1, <1>3, <1>5 DEF IInv, Unopened
  <1>7. \A f \in fs : f \in removed \/ f \in exists
    BY <1>1, <1>3, <1>5 DEF IInv, CreatedFirst
  <1>8. \A f \in fs \ removed, k \in 1..Len(events') :
            events'[k].op = "create" => events'[k].name # f
    BY <1>1, <1>4, <1>5
  <1>9. UNCHANGED <<disk, stopped, cwds, given, torn, unplaced, removed, announced, idled>>
    BY DEF FileEvent, run
  <1> HIDE DEF fs
  <1> QED BY <1>1, <1>2, <1>3, <1>4, <1>6, <1>7, <1>8, <1>9, OpenStep

(***************************************************************************)
(* Run's other steps.                                                      *)
(***************************************************************************)

LEMMA StillStep ==
    ASSUME IInv, RunOK', stopped' = stopped,
           UNCHANGED <<disk, events, open, tail, cwds, history>>
    PROVE  IInv'
  <1> USE DEF disk, history
  <1>1. Typed'
    <2>1. Room' = Room
      BY DEF Room
    <2>2. DiskOK' /\ EventsOK' /\ TailsOK' /\ GivenOK'
      BY DEF IInv, Typed, DiskOK, EventsOK, TailsOK, GivenOK
    <2> QED BY <2>1, <2>2 DEF IInv, Typed, OpenOK
  <1>2. EventsTrue' /\ CreatedFirst' /\ Unopened'
    BY DEF IInv, EventsTrue, CreatedFirst, Unopened, Fresh, Untouched
  <1>3. Listed' /\ Alone' /\ Placed'
    BY DEF IInv, Listed, Alone, Placed
  <1>4. Inward' /\ Behind'
    BY DEF IInv, Inward, Inside, Content, Behind, Fresh, Untouched
  <1>5. GivenAreThere' /\ GivenOnce' /\ EventsPlaced'
    BY DEF IInv, GivenAreThere, Fresh, GivenOnce, EventsPlaced
  <1> QED BY <1>1, <1>2, <1>3, <1>4, <1>5 DEF IInv

LEMMA RunStill == ASSUME IInv, WatchTree \/ Cancel \/ Return PROVE IInv'
  <1>1. RunOK' /\ stopped' = stopped
    BY DEF IInv, Typed, RunOK, WatchTree, Cancel, Return, disk
  <1>2. UNCHANGED <<disk, events, open, tail, cwds, history>>
    BY DEF WatchTree, Cancel, Return
  <1> QED BY <1>1, <1>2, StillStep

LEMMA NewDirStep == ASSUME IInv, NewDir PROVE IInv'
  <1> USE DEF NewDir, disk, history
  <1>1. /\ EventsOK' /\ events[1] = Head(events) /\ 1 \in 1..Len(events)
        /\ events # <<>> /\ events' = Tail(events)
    BY Popped DEF IInv, Typed
  <1>2. /\ EventsTrue' /\ CreatedFirst'
        /\ \A f \in Files, k \in 1..Len(events') :
             events'[k].op = "create" /\ events'[k].name = f =>
                 \E j \in 1..Len(events) : events[j].op = "create" /\ events[j].name = f
    BY <1>1, PoppedTrue
  <1>3. Typed'
    <2>1. Room' = Room
      BY DEF Room
    <2>2. DiskOK' /\ TailsOK' /\ GivenOK'
      BY DEF IInv, Typed, DiskOK, TailsOK, GivenOK
    <2>3. Head(events).name \in exists \cap Dirs
      BY <1>1 DEF IInv, EventsTrue
    <2>4. RunOK'
      BY <2>3 DEF IInv, Typed, RunOK, WatchAlso
    <2> QED BY <1>1, <2>1, <2>2, <2>4 DEF IInv, Typed, OpenOK
  <1>4. Unopened'
    <2> SUFFICES ASSUME NEW f \in Files, Fresh(f),
                        \/ f \notin exists
                        \/ \E k \in 1..Len(events') : /\ events'[k].op = "create"
                                                      /\ events'[k].name = f
                 PROVE  Untouched(f) /\ \A t \in Tails : tail[t].path # f
      BY DEF Unopened, Untouched, Fresh
    <2> QED BY <1>2 DEF IInv, Unopened
  <1>5. Listed' /\ Alone' /\ Placed'
    BY DEF IInv, Listed, Alone, Placed, run
  <1>6. Inward' /\ Behind'
    BY DEF IInv, Inward, Inside, Content, Behind, Fresh, Untouched
  <1>7. GivenAreThere' /\ GivenOnce' /\ EventsPlaced'
    BY DEF IInv, GivenAreThere, Fresh, GivenOnce, EventsPlaced
  <1> QED BY <1>2, <1>3, <1>4, <1>5, <1>6, <1>7 DEF IInv

\* Tails are told to stop and taken out of the map, but for those of files
\* that were never removed, unless all are.
LEMMA StopStep ==
    ASSUME IInv, NEW fs \in SUBSET Files,
           tail' = [t \in Tails |-> IF \E f \in fs : open[f] = t
                                    THEN [tail[t] EXCEPT !.stop = TRUE] ELSE tail[t]],
           open' = [f \in Files |-> IF f \in fs THEN Nil ELSE open[f]],
           stopped' \in BOOLEAN, stopped => stopped',
           stopped' \/ fs \subseteq removed,
           cwds' \subseteq cwds, cwds \ removed \subseteq cwds',
           RunOK', EventsOK', EventsTrue', CreatedFirst',
           \A f \in Files, k \in 1..Len(events') :
             events'[k].op = "create" /\ events'[k].name = f =>
                 \E j \in 1..Len(events) : events[j].op = "create" /\ events[j].name = f,
           UNCHANGED <<disk, history>>
    PROVE  IInv'
  <1> USE DEF disk, history
  <1>1. /\ open \in [Files -> Tails \cup {Nil}] /\ Nil \notin Tails
        /\ tail \in [Tails -> Running \cup {Gone}]
    BY DEF IInv, Typed, OpenOK, TailsOK
  <1>2. \A t \in Tails : (\E f \in fs : open[f] = t) => tail[t] \in Running
    <2> SUFFICES ASSUME NEW f \in fs, open[f] \in Tails PROVE tail[open[f]] \in Running
      OBVIOUS
    <2>1. tail[open[f]].path = f /\ f \in Files
      BY <1>1 DEF IInv, Listed
    <2> QED BY <2>1, TailType DEF IInv, Typed
  <1>3. \A t \in Tails :
          \/ tail'[t] = tail[t]
          \/ /\ tail[t] \in Running /\ tail'[t] \in Running
             /\ tail'[t] = [tail[t] EXCEPT !.stop = TRUE]
    <2>1. \A r \in Running : [r EXCEPT !.stop = TRUE] \in Running
      BY DEF Running
    <2> QED BY <1>2, <2>1
  \* Nothing but stop changes in a tail.
  <1>4. \A t \in Tails :
          /\ tail'[t] = Gone <=> tail[t] = Gone
          /\ tail'[t].pc = tail[t].pc /\ tail'[t].path = tail[t].path
          /\ tail'[t].gen = tail[t].gen /\ tail'[t].off = tail[t].off
          /\ tail'[t].from = tail[t].from
    BY <1>3 DEF Running, Gone
  <1>5. tail' \in [Tails -> Running \cup {Gone}]
    BY <1>1, <1>3
  <1>6. OpenOK'
    <2>1. {f \in Files : open'[f] # Nil} \subseteq {f \in Files : open[f] # Nil}
      OBVIOUS
    <2>2. IsFiniteSet({f \in Files : open[f] # Nil})
      BY FiniteAssumption, FS_Subset
    <2>3. /\ Cardinality({f \in Files : open'[f] # Nil}) \in Nat
          /\ Cardinality({f \in Files : open[f] # Nil}) \in Nat
          /\ Cardinality({f \in Files : open'[f] # Nil})
               <= Cardinality({f \in Files : open[f] # Nil})
      BY <2>1, <2>2, FS_Subset, FS_CardinalityType
    <2>4. Room' >= 0
      BY <2>3, CastType DEF Room, IInv, Typed, OpenOK
    <2>5. open' \in [Files -> Tails \cup {Nil}]
      BY <1>1
    <2> QED BY <2>4, <2>5 DEF IInv, Typed, OpenOK
  <1>7. Typed'
    BY <1>5, <1>6 DEF IInv, Typed, DiskOK, TailsOK, GivenOK
  <1>8. Listed'
    BY <1>1, <1>4 DEF IInv, Listed
  <1>9. Alone'
    <2>1. ASSUME NEW t \in Tails, tail'[t] # Gone, tail'[t].path \notin removed, ~stopped'
          PROVE  open'[tail'[t].path] = t
      <3>1. open[tail[t].path] = t /\ tail[t].path \in Files
        BY <1>4, <2>1, TailType DEF IInv, Alone, Typed
      <3>2. tail[t].path \notin fs
        BY <1>4, <2>1
      <3> QED BY <1>4, <3>1, <3>2
    <2>2. \A t, u \in Tails :
            tail'[t] # Gone /\ tail'[t].path \notin removed /\ tail'[u].path = tail'[t].path
              => t = u
      BY <1>4 DEF IInv, Alone
    <2>3. removed' = removed
      OBVIOUS
    <2>4. \A t \in Tails : tail'[t] # Gone /\ tail'[t].path \notin removed' /\ ~stopped' =>
                            open'[tail'[t].path] = t
      BY <2>1, <2>3
    <2>5. \A t, u \in Tails : /\ tail'[t] # Gone /\ tail'[t].path \notin removed'
                               /\ tail'[u].path = tail'[t].path
                               => t = u
      BY <2>2, <2>3
    <2> QED BY <2>4, <2>5 DEF Alone
  <1>10. Inward'
    <2> SUFFICES ASSUME NEW t \in Tails, tail'[t] # Gone PROVE Inside(t)'
      BY DEF Inward
    <2>1. Inside(t)
      BY <1>4 DEF IInv, Inward
    <2>2. Content(t)' = Content(t)
      BY <1>4 DEF Content
    <2> QED BY <1>4, <2>1, <2>2 DEF Inside
  <1>11. Behind'
    <2> SUFFICES ASSUME NEW t \in Tails, tail'[t] # Gone, NEW x, x = tail'[t].path, Fresh(x)
                 PROVE  /\ tail'[t].pc \in {"reading", "waiting"} =>
                              \A g \in 1..MaxGen, i \in 1..MaxSize :
                                given[<<x, g, i>>] > 0 => 2 * i <= tail'[t].off
                        /\ tail'[t].pc = "new" /\ tail'[t].from = "head" => Untouched(x)
      BY SMTT(90) DEF Behind, Untouched, Fresh
    <2> QED BY <1>4 DEF IInv, Behind
  <1>12. Unopened'
    <2> SUFFICES ASSUME NEW f \in Files, Fresh(f),
                        \/ f \notin exists
                        \/ \E k \in 1..Len(events') : /\ events'[k].op = "create"
                                                      /\ events'[k].name = f
                 PROVE  Untouched(f) /\ \A t \in Tails : tail'[t].path # f
      BY DEF Unopened, Untouched, Fresh
    <2> QED BY <1>4 DEF IInv, Unopened
  <1>13. Placed'
    BY <1>4 DEF IInv, Placed
  <1>14. GivenAreThere' /\ GivenOnce' /\ EventsPlaced'
    BY DEF IInv, GivenAreThere, Fresh, GivenOnce, EventsPlaced
  <1> QED BY <1>7, <1>8, <1>9, <1>10, <1>11, <1>12, <1>13, <1>14 DEF IInv

LEMMA FileGoneStep == ASSUME IInv, FileGone PROVE IInv'
  <1> USE DEF FileGone, CloseFile
  <1> DEFINE name == Head(events).name
  <1>1. /\ EventsOK' /\ events[1] = Head(events) /\ 1 \in 1..Len(events)
        /\ events # <<>> /\ events' = Tail(events)
    BY Popped DEF IInv, Typed
  <1>2. /\ EventsTrue' /\ CreatedFirst'
        /\ \A f \in Files, k \in 1..Len(events') :
             events'[k].op = "create" /\ events'[k].name = f =>
                 \E j \in 1..Len(events) : events[j].op = "create" /\ events[j].name = f
    BY <1>1, PoppedTrue DEF disk, history
  <1>3. name \in removed /\ name \in Files
    BY <1>1 DEF IInv, EventsTrue, Typed, DiskOK
  <1>4. /\ tail' = [t \in Tails |-> IF \E f \in {name} : open[f] = t
                                    THEN [tail[t] EXCEPT !.stop = TRUE] ELSE tail[t]]
        /\ open' = [f \in Files |-> IF f \in {name} THEN Nil ELSE open[f]]
    BY DEF IInv, Typed, OpenOK
  <1>5. RunOK' /\ stopped' \in BOOLEAN /\ stopped' = stopped
    BY DEF IInv, Typed, RunOK, run, disk
  <1>6. /\ cwds' \subseteq cwds /\ cwds \ removed \subseteq cwds'
        /\ {name} \in SUBSET Files /\ {name} \subseteq removed
    BY <1>3
  <1> QED BY <1>1, <1>2, <1>3, <1>4, <1>5, <1>6, StopStep

LEMMA CloseAllStep == ASSUME IInv, CloseAll PROVE IInv'
  <1> USE DEF CloseAll, ToStop, disk
  <1>1. /\ tail' = [t \in Tails |-> IF \E f \in Files : open[f] = t
                                    THEN [tail[t] EXCEPT !.stop = TRUE] ELSE tail[t]]
        /\ open' = [f \in Files |-> IF f \in Files THEN Nil ELSE open[f]]
    OBVIOUS
  <1>2. EventsOK' /\ EventsTrue' /\ CreatedFirst' /\ events' = events
    BY DEF IInv, Typed, EventsOK, EventsTrue, CreatedFirst, history
  <1>3. RunOK' /\ stopped' \in BOOLEAN /\ stopped' = TRUE
    BY DEF IInv, Typed, RunOK
  <1> QED BY <1>1, <1>2, <1>3, StopStep

(***************************************************************************)
(* The tails' steps.                                                       *)
(***************************************************************************)

\* The variables that no tail writes but at its end.
Others == <<disk, events, watched, run, replayed, refused, removed, announced>>

\* A tail goes on, where it is in its file and what it gave being right.
LEMMA TailGoesOn ==
    ASSUME IInv, NEW t \in Tails, tail[t] # Gone,
           NEW to \in Running, tail' = [tail EXCEPT ![t] = to],
           to.path = tail[t].path, to.from = tail[t].from,
           UNCHANGED Others, open' = open, GivenOK', cwds \subseteq cwds', torn \subseteq torn',
           Inside(t)',
           GivenOnce', EventsPlaced', GivenAreThere',
           \A f \in Files, g \in 1..MaxGen, i \in 1..MaxSize :
               f # to.path => given'[<<f, g, i>>] = given[<<f, g, i>>],
           Fresh(to.path) /\ to.pc \in {"reading", "waiting"} =>
               \A g \in 1..MaxGen, i \in 1..MaxSize :
                   given'[<<to.path, g, i>>] > 0 => 2 * i <= to.off,
           Fresh(to.path) /\ to.pc = "new" => given' = given /\ tail[t].pc = "new",
           to.pc \in {"reading", "waiting"} /\ to.off >= 2 /\ to.path \notin removed =>
               to.path \in cwds' \/ \E h \in 1..MaxGen : <<to.path, h, 1>> \in torn'
    PROVE  IInv'
  <1> USE DEF Others, disk, run
  <1>1. /\ tail \in [Tails -> Running \cup {Gone}]
        /\ tail' \in [Tails -> Running \cup {Gone}]
        /\ tail'[t] = to /\ \A u \in Tails \ {t} : tail'[u] = tail[u]
    BY DEF IInv, Typed, TailsOK
  <1>2. to # Gone /\ to.path \in Files
    BY DEF Running, Gone
  <1>3. \A u \in Tails : /\ tail'[u].path = tail[u].path
                         /\ tail'[u] = Gone <=> tail[u] = Gone
    BY <1>1, <1>2
  <1>4. Typed'
    <2>1. Room' = Room
      BY DEF Room
    <2> QED BY <1>1, <2>1 DEF IInv, Typed, DiskOK, EventsOK, RunOK, OpenOK, TailsOK
  <1>5. EventsTrue' /\ CreatedFirst'
    BY DEF IInv, EventsTrue, CreatedFirst
  <1>6. Listed'
    <2>1. \A f \in Files : open[f] # Nil => open[f] \in Tails
      BY DEF IInv, Typed, OpenOK
    <2> QED BY <1>3, <2>1 DEF IInv, Listed
  <1>7. Alone'
    BY <1>3 DEF IInv, Alone
  <1>8. Inward'
    <2> SUFFICES ASSUME NEW u \in Tails, tail'[u] # Gone, u # t PROVE Inside(u)'
      BY DEF Inward
    <2>1. tail'[u] = tail[u] /\ Inside(u)
      BY <1>1, <1>3 DEF IInv, Inward
    <2> QED BY <2>1 DEF Inside, Content
  <1>9. Behind'
    <2> SUFFICES ASSUME NEW u \in Tails, tail'[u] # Gone, NEW x, x = tail'[u].path, Fresh(x)
                 PROVE  /\ tail'[u].pc \in {"reading", "waiting"} =>
                              \A g \in 1..MaxGen, i \in 1..MaxSize :
                                given'[<<x, g, i>>] > 0 => 2 * i <= tail'[u].off
                        /\ tail'[u].pc = "new" /\ tail'[u].from = "head" =>
                              \A g \in 1..MaxGen, i \in 1..MaxSize : given'[<<x, g, i>>] = 0
      BY DEF Behind, Untouched, Fresh
    <2>1. CASE u = t
      <3>1. tail'[u] = to
        BY <1>1, <2>1
      <3>2. to.pc = "new" /\ to.from = "head" =>
               \A g \in 1..MaxGen, i \in 1..MaxSize : given'[<<x, g, i>>] = 0
        <4> SUFFICES ASSUME to.pc = "new", to.from = "head"
                     PROVE  \A g \in 1..MaxGen, i \in 1..MaxSize : given'[<<x, g, i>>] = 0
          OBVIOUS
        <4>1. x = to.path /\ x = tail[t].path
          BY <3>1
        <4>2. given' = given /\ tail[t].pc = "new"
          BY <4>1
        <4>3. Untouched(x)
          BY <4>1, <4>2 DEF IInv, Behind
        <4> QED BY <4>2, <4>3 DEF Untouched
      <3> QED BY <3>1, <3>2
    <2>2. CASE u # t
      <3>1. tail'[u] = tail[u] /\ x # to.path /\ x \in Files
        BY <1>1, <1>3, <2>2 DEF IInv, Alone, Fresh
      <3> QED BY <3>1 DEF IInv, Behind, Untouched
    <2> QED BY <2>1, <2>2
  <1>10. Unopened'
    <2> SUFFICES ASSUME NEW f \in Files, Fresh(f),
                        \/ f \notin exists
                        \/ \E k \in 1..Len(events) : /\ events[k].op = "create"
                                                     /\ events[k].name = f
                 PROVE  /\ \A g \in 1..MaxGen, i \in 1..MaxSize : given'[<<f, g, i>>] = 0
                        /\ \A u \in Tails : tail'[u].path # f
      BY DEF Unopened, Untouched, Fresh
    <2>1. Untouched(f) /\ \A u \in Tails : tail[u].path # f
      BY DEF IInv, Unopened
    <2> QED BY <1>3, <2>1 DEF Untouched
  <1>11. Placed'
    <2> SUFFICES ASSUME NEW u \in Tails, tail'[u].pc \in {"reading", "waiting"},
                        tail'[u].off >= 2, tail'[u].path \notin removed
                 PROVE  \/ tail'[u].path \in cwds'
                        \/ \E h \in 1..MaxGen : <<tail'[u].path, h, 1>> \in torn'
      BY DEF Placed
    <2>1. CASE u = t
      BY <1>1, <2>1
    <2>2. CASE u # t
      <3>1. tail'[u] = tail[u]
        BY <1>1, <2>2
      <3>2. tail[u].path \in cwds \/ \E h \in 1..MaxGen : <<tail[u].path, h, 1>> \in torn
        BY <3>1 DEF IInv, Placed
      <3> QED BY <3>1, <3>2
    <2> QED BY <2>1, <2>2
  <1> QED BY <1>4, <1>5, <1>6, <1>7, <1>8, <1>9, <1>10, <1>11 DEF IInv

\* The steps that read nothing.
LEMMA PhaseStep ==
    ASSUME IInv, NEW t \in Tails, tail[t] # Gone,
           NEW phase \in {"reading", "waiting", "ending"},
           tail[t].pc \in {"reading", "waiting"} \/ phase = "ending",
           tail' = [tail EXCEPT ![t].pc = phase],
           UNCHANGED <<Others, open, cwds, given, torn, unplaced>>, idled' \subseteq Files
    PROVE  IInv'
  <1> USE DEF Others, disk
  <1> DEFINE to == [tail[t] EXCEPT !.pc = phase]
  <1>1. tail[t] \in Running /\ tail' = [tail EXCEPT ![t] = to] /\ tail \in [Tails -> Running \cup {Gone}]
    BY TailType DEF IInv, Typed, TailsOK
  <1>2. /\ to \in Running /\ to.path = tail[t].path /\ to.from = tail[t].from
        /\ to.pc = phase /\ to.off = tail[t].off /\ to.gen = tail[t].gen
    BY <1>1 DEF Running
  <1>3. Inside(t)'
    <2>1. Inside(t) /\ tail'[t] = to
      BY <1>1 DEF IInv, Inward
    <2> HIDE DEF to
    <2> QED BY <1>2, <2>1 DEF Inside, Content
  <1>4. GivenOK' /\ GivenOnce' /\ EventsPlaced' /\ GivenAreThere'
    BY DEF IInv, Typed, GivenOK, GivenOnce, EventsPlaced, GivenAreThere, Fresh
  <1>5. Fresh(to.path) /\ to.pc \in {"reading", "waiting"} =>
          \A g \in 1..MaxGen, i \in 1..MaxSize :
              given'[<<to.path, g, i>>] > 0 => 2 * i <= to.off
    BY <1>2 DEF IInv, Behind
  <1>6. to.pc \in {"reading", "waiting"} /\ to.off >= 2 /\ to.path \notin removed =>
          to.path \in cwds' \/ \E h \in 1..MaxGen : <<to.path, h, 1>> \in torn'
    BY <1>2 DEF IInv, Placed
  <1> HIDE DEF to
  <1>7. given' = given /\ cwds' = cwds /\ torn' = torn /\ open' = open /\ UNCHANGED Others
    OBVIOUS
  <1>8. ~(to.pc = "new")
    BY <1>2
  <1> QED BY <1>1, <1>2, <1>3, <1>4, <1>5, <1>6, <1>7, <1>8, TailGoesOn

LEMMA TailPhases ==
    ASSUME IInv, NEW t \in Tails, AtEOF(t) \/ Wake(t) \/ EndTail(t) \/ IdleClose(t)
    PROVE  IInv'
  <1>1. tail[t].pc = "waiting" \/ tail[t].pc = "reading"
    BY DEF AtEOF, Wake, Poll, EndTail, IdleClose
  <1>2. tail[t] # Gone /\ tail[t].path \in Files
    BY <1>1, TailType DEF Gone, IInv, Typed, Running
  <1>3. idled \subseteq Files
    BY DEF IInv, Typed, GivenOK
  <1>4. CASE AtEOF(t)
    BY <1>1, <1>2, <1>3, <1>4, PhaseStep DEF AtEOF, Others, history
  <1>5. CASE Wake(t)
    BY <1>1, <1>2, <1>3, <1>5, PhaseStep DEF Wake, Others, history
  <1>6. CASE EndTail(t)
    BY <1>1, <1>2, <1>3, <1>6, PhaseStep DEF EndTail, Others, history
  <1>7. CASE IdleClose(t)
    <2>1. idled' \subseteq Files
      BY <1>2, <1>3, <1>7 DEF IdleClose
    <2> QED BY <1>1, <1>2, <1>7, <2>1, PhaseStep DEF IdleClose, Others
  <1> QED BY <1>4, <1>5, <1>6, <1>7

\* A tail starts within its file, and past the first line only if it was read
\* for the directory or is not there yet.
LEMMA Starts ==
    ASSUME NEW from \in {"head", "end", "replay"}, NEW n \in Nat
    PROVE  /\ StartAt(from, n) \in 0..n
           /\ from = "end" => StartAt(from, n) = n
           /\ StartAt(from, n) >= 2 => from # "head" /\ n >= 2
  <1>1. CASE from = "head"
    BY <1>1 DEF StartAt
  <1>2. CASE from = "end"
    BY <1>2 DEF StartAt
  <1>3. CASE from = "replay"
    <2> DEFINE start == n - Window
               past == IF start % 2 = 0 THEN start + 2 ELSE start + 1
    <2>1. StartAt(from, n) = IF start <= 0 THEN 0 ELSE IF past < n THEN past ELSE n
      BY <1>3 DEF StartAt
    <2>2. start \in Int /\ past \in Int /\ past >= start + 1 /\ start <= n - 2
      OBVIOUS
    <2> HIDE DEF start, past
    <2> QED BY <1>3, <2>1, <2>2
  <1> QED BY <1>1, <1>2, <1>3

LEMMA OpenTailStep == ASSUME IInv, NEW t \in Tails, OpenTail(t) PROVE IInv'
  <1> DEFINE f == tail[t].path
             n == size[f][gen[f]]
  <1>1. tail[t].pc = "new" /\ tail[t] # Gone /\ tail[t] \in Running /\ f \in Files
    BY TailType DEF OpenTail, Gone, IInv, Typed, Running
  <1>2. CASE f \notin exists
    <2>1. tail' = [tail EXCEPT ![t].pc = "ending"] /\ idled' \subseteq Files
      BY <1>2 DEF OpenTail, history, IInv, Typed, GivenOK
    <2>2. UNCHANGED <<Others, open, cwds, given, torn, unplaced>>
      BY <1>2 DEF OpenTail, Others, history
    <2> QED BY <1>1, <2>1, <2>2, PhaseStep
  <1>3. CASE f \in exists
    <2> DEFINE start == StartAt(tail[t].from, n)
               to == [tail[t] EXCEPT !.pc = "reading", !.gen = gen[f], !.off = start]
    <2>1. gen[f] \in 1..MaxGen /\ n \in 0..MaxSize
      BY <1>1 DEF IInv, Typed, DiskOK
    <2>2. tail[t].from \in {"head", "end", "replay"}
      BY <1>1 DEF Running
    <2>3. /\ start \in 0..n
          /\ tail[t].from = "end" => start = n
          /\ start >= 2 => tail[t].from # "head" /\ n >= 2
      BY <2>1, <2>2, Starts
    <2>4. tail' = [tail EXCEPT ![t] = to] /\ tail \in [Tails -> Running \cup {Gone}]
      BY <1>3 DEF OpenTail, IInv, Typed, TailsOK
    <2> HIDE DEF n, start
    <2>5. start \in 0..MaxSize
      BY <2>1, <2>3
    <2>6. /\ to \in Running /\ to.path = f /\ to.from = tail[t].from
          /\ to.pc = "reading" /\ to.gen = gen[f] /\ to.off = start
      <3>1. gen[f] \in 0..MaxGen /\ tail[t] \in Running /\ start \in 0..MaxSize
        BY <1>1, <2>1, <2>5
      <3>2. PICK r \in Running, g \in 0..MaxGen, off \in 0..MaxSize :
                r = tail[t] /\ g = gen[f] /\ off = start
        BY <3>1
      <3>3. to = [r EXCEPT !.pc = "reading", !.gen = g, !.off = off]
        BY <3>2
      <3> HIDE DEF to
      <3>4. /\ to \in Running /\ to.path = r.path /\ to.from = r.from
            /\ to.pc = "reading" /\ to.gen = g /\ to.off = off
        BY <3>3 DEF Running
      <3> QED BY <3>2, <3>4
    <2> HIDE DEF to
    <2>7. cwds' = IF Primed(f, n, tail[t].from) THEN Known(f) ELSE cwds
      BY <1>3 DEF OpenTail, n
    <2>8. UNCHANGED <<Others, open, given, torn, unplaced, idled>>
      BY <1>3 DEF OpenTail, Others, history
    <2>9. GivenOK' /\ cwds \subseteq cwds'
      BY <1>1, <2>7, <2>8 DEF IInv, Typed, GivenOK, Known
    <2>10. Inside(t)'
      <3>1. tail'[t] = to
        BY <2>4
      <3>2. Content(t)' = n
        BY <2>6, <2>8, <3>1 DEF Content, n, Others, disk
      <3>3. tail[t].from = "replay" => f \in replayed
        BY <1>1 DEF IInv, Inward, Inside
      <3>4. gen[f] >= 1 /\ start <= n
        BY <2>1, <2>3
      <3> QED BY <2>6, <2>8, <3>1, <3>2, <3>3, <3>4 DEF Inside, Others, disk
    <2>11. GivenOnce' /\ EventsPlaced' /\ GivenAreThere'
      BY <2>8 DEF IInv, GivenOnce, EventsPlaced, GivenAreThere, Fresh, Others, disk
    \* What was given of a fresh file is before the start.
    <2>12. ASSUME Fresh(f), NEW g \in 1..MaxGen, NEW i \in 1..MaxSize, given[<<f, g, i>>] > 0
           PROVE  2 * i <= start
      <3>1. f \notin replayed /\ tail[t].from # "replay"
        BY <1>1, <2>12 DEF Fresh, IInv, Inward, Inside
      <3>2. CASE tail[t].from = "head"
        <4>1. Untouched(f)
          BY <1>1, <2>12, <3>2 DEF IInv, Behind
        <4> QED BY <2>12, <4>1 DEF Untouched
      <3>3. CASE tail[t].from = "end"
        <4>1. g = gen[f] /\ 2 * i <= n
          BY <1>1, <2>12 DEF IInv, GivenAreThere, n
        <4> QED BY <2>3, <3>3, <4>1
      <3> QED BY <2>2, <3>1, <3>2, <3>3
    <2>13. start >= 2 => f \in cwds'
      BY <2>3, <2>7 DEF Primed, Known
    <2>14. given' = given /\ torn' = torn /\ open' = open /\ UNCHANGED Others
      BY <2>8
    <2> QED BY <1>1, <2>4, <2>6, <2>9, <2>10, <2>11, <2>12, <2>13, <2>14, TailGoesOn
  <1> QED BY <1>2, <1>3

LEMMA ReadLineStep == ASSUME IInv, NEW t \in Tails, ReadLine(t) PROVE IInv'
  <1> DEFINE f == tail[t].path
             g == tail[t].gen
             off == tail[t].off
             i == off \div 2 + 1
  <1>1. /\ tail[t].pc = "reading" /\ tail[t] # Gone /\ tail[t] \in Running /\ f \in Files
        /\ off < Content(t)
    BY TailType DEF ReadLine, Gone, IInv, Typed, Running
  <1>2. /\ Inside(t) /\ g \in 1..MaxGen /\ off \in Nat
        /\ Content(t) \in 0..MaxSize /\ Content(t) = size[f][g]
    <2>1. Inside(t)
      BY <1>1 DEF IInv, Inward
    <2>2. g \in 1..MaxGen /\ off \in Nat
      BY <1>1, <2>1 DEF Inside, Running
    <2>3. /\ size \in [Files -> [1..MaxGen -> 0..MaxSize]] /\ Content(t) = size[f][g]
      BY DEF Content, IInv, Typed, DiskOK
    <2> HIDE DEF f, g
    <2>4. size[f] \in [1..MaxGen -> 0..MaxSize] /\ f \in Files
      BY <1>1, <2>3
    <2>5. Content(t) \in 0..MaxSize
      BY <2>2, <2>3, <2>4
    <2> QED BY <2>1, <2>2, <2>3, <2>5
  <1>3. i \in 1..MaxSize /\ 2 * i >= off + 1 /\ 2 * i <= off + 2 /\ (off % 2 = 0 => 2 * i = off + 2)
    BY <1>1, <1>2
  <1>4. <<f, g, i>> \in Records
    BY <1>1, <1>2, <1>3 DEF Records
  <1>5. UNCHANGED <<Others, open, idled>>
    BY DEF ReadLine, Others, history
  <1> DEFINE rest == Others
  <1>6. f \notin removed => g = gen[f]
    BY <1>1, <1>2 DEF Inside
  <1>7. i > 1 => off >= 2
    BY <1>2, <1>3
  <1>8. i = 1 => off < 2
    BY <1>2, <1>3
  <1>9. off >= 2 /\ f \notin removed => f \in cwds \/ \E h \in 1..MaxGen : <<f, h, 1>> \in torn
    BY <1>1 DEF IInv, Placed
  <1>10. tail \in [Tails -> Running \cup {Gone}]
    BY DEF IInv, Typed, TailsOK
  <1>11. \A r \in Running, n \in 0..MaxSize :
            LET q == [r EXCEPT !.off = n]
            IN  /\ q \in Running /\ q.path = r.path /\ q.from = r.from /\ q.pc = r.pc
                /\ q.gen = r.gen /\ q.off = n
    BY DEF Running
  <1> HIDE DEF i
  <1>12. CASE off % 2 = 0 /\ off + 2 <= Content(t) /\ tail' = [tail EXCEPT ![t].off = off + 2]
              /\ Dispatch(f, g, i)
    <2> DEFINE to == [tail[t] EXCEPT !.off = off + 2]
    <2>1. tail' = [tail EXCEPT ![t] = to]
      BY <1>12
    <2>2. /\ to \in Running /\ to.path = f /\ to.from = tail[t].from /\ to.pc = "reading"
          /\ to.gen = g /\ to.off = off + 2
      <3>1. off + 2 \in 0..MaxSize
        BY <1>2, <1>12
      <3> QED BY <1>1, <1>11, <3>1
    <2> HIDE DEF to
    <2>3. Inside(t)'
      <3>1. tail'[t] = to
        BY <1>10, <2>1
      <3>2. Content(t)' = Content(t)
        BY <1>5, <2>2, <3>1 DEF Content, Others, disk
      <3> QED BY <1>1, <1>2, <1>5, <1>12, <2>2, <3>1, <3>2 DEF Inside, Others, disk
    <2>4. /\ given \in [Records -> 0..2]
          /\ given' = [given EXCEPT ![<<f, g, i>>] = IF @ < 2 THEN @ + 1 ELSE 2]
          /\ cwds' = IF i = 1 THEN Known(f) ELSE cwds
          /\ unplaced' = IF i > 1 /\ f \notin cwds THEN unplaced \cup {<<f, g, i>>}
                         ELSE unplaced
          /\ torn' = torn
      BY <1>12 DEF Dispatch, IInv, Typed, GivenOK
    <2>5. given' \in [Records -> 0..2]
      BY <1>4, <2>4
    <2>6. GivenOK' /\ cwds \subseteq cwds'
      BY <1>1, <1>4, <1>5, <2>4, <2>5 DEF IInv, Typed, GivenOK, Known
    \* The record was not given before.
    <2>7. Fresh(f) => given[<<f, g, i>>] = 0
      <3>1. Fresh(f) /\ given[<<f, g, i>>] > 0 => 2 * i <= off
        BY <1>1, <1>2, <1>3 DEF IInv, Behind
      <3> QED BY <1>2, <1>3, <1>4, <2>4, <3>1
    <2>8. \A x \in Files, h \in 1..MaxGen, j \in 1..MaxSize :
            /\ <<x, h, j>> \in Records
            /\ <<x, h, j>> # <<f, g, i>> => given'[<<x, h, j>>] = given[<<x, h, j>>]
      BY <2>4 DEF Records
    <2>9. GivenOnce'
      <3> SUFFICES ASSUME NEW x \in Files, NEW h \in 1..MaxGen, NEW j \in 1..MaxSize,
                          given'[<<x, h, j>>] > 1, x \notin replayed \cup removed
                   PROVE  FALSE
        BY <1>5 DEF GivenOnce, Others
      <3>1. given[<<x, h, j>>] <= 1
        BY <2>4, <2>8 DEF IInv, GivenOnce
      <3>2. <<x, h, j>> = <<f, g, i>>
        BY <2>4, <2>8, <3>1
      <3>3. given'[<<f, g, i>>] = 1
        BY <1>4, <2>4, <2>7, <3>2 DEF Fresh
      <3> QED BY <3>2, <3>3
    <2>10. GivenAreThere'
      <3> SUFFICES ASSUME NEW x \in Files, NEW h \in 1..MaxGen, NEW j \in 1..MaxSize,
                          Fresh(x), given'[<<x, h, j>>] > 0
                   PROVE  h = gen[x] /\ 2 * j <= size[x][h]
        BY <1>5 DEF GivenAreThere, Fresh, Others, disk
      <3>1. CASE <<x, h, j>> = <<f, g, i>>
        BY <1>2, <1>3, <1>6, <1>12, <3>1 DEF Fresh
      <3>2. CASE <<x, h, j>> # <<f, g, i>>
        BY <2>8, <3>2 DEF IInv, GivenAreThere
      <3> QED BY <3>1, <3>2
    <2>11. ASSUME Fresh(f), NEW h \in 1..MaxGen, NEW j \in 1..MaxSize,
                  given'[<<f, h, j>>] > 0
           PROVE  2 * j <= to.off
      <3>1. CASE <<f, h, j>> = <<f, g, i>>
        BY <1>3, <1>12, <2>2, <3>1
      <3>2. CASE <<f, h, j>> # <<f, g, i>>
        <4>1. 2 * j <= off
          BY <1>1, <2>8, <2>11, <3>2 DEF IInv, Behind
        <4> QED BY <1>2, <2>2, <4>1
      <3> QED BY <3>1, <3>2
    <2>12. EventsPlaced'
      <3> SUFFICES ASSUME NEW x \in Files, NEW h \in 1..MaxGen, NEW j \in 1..MaxSize,
                          <<x, h, j>> \in unplaced'
                   PROVE  x \in removed \/ \E k \in 1..MaxGen : <<x, k, 1>> \in torn
        BY <1>5, <2>4 DEF EventsPlaced, Others
      <3>1. CASE <<x, h, j>> \in unplaced
        BY <3>1 DEF IInv, EventsPlaced
      <3>2. CASE <<x, h, j>> \notin unplaced
        <4>1. x = f /\ i > 1 /\ f \notin cwds
          BY <2>4, <3>2
        <4> QED BY <1>7, <1>9, <4>1
      <3> QED BY <3>1, <3>2
    <2>13. f \notin removed => f \in cwds' \/ \E h \in 1..MaxGen : <<f, h, 1>> \in torn'
      <3>1. i = 1 \/ off >= 2
        BY <1>3, <1>7
      <3> QED BY <1>9, <2>4, <2>6, <3>1 DEF Known
    <2>14. \A x \in Files, h \in 1..MaxGen, j \in 1..MaxSize :
             x # to.path => given'[<<x, h, j>>] = given[<<x, h, j>>]
      BY <2>2, <2>8
    <2>15. UNCHANGED Others /\ open' = open /\ torn \subseteq torn'
      BY <1>5, <2>4
    <2> QED BY <1>1, <2>1, <2>2, <2>3, <2>6, <2>9, <2>10, <2>11, <2>12, <2>13, <2>14, <2>15,
               TailGoesOn
  <1>13. CASE tail' = [tail EXCEPT ![t].off = off + 1]
              /\ torn' = torn \cup {<<f, g, i>>} /\ UNCHANGED <<cwds, given, unplaced>>
    <2> DEFINE to == [tail[t] EXCEPT !.off = off + 1]
    <2>1. tail' = [tail EXCEPT ![t] = to]
      BY <1>13
    <2>2. /\ to \in Running /\ to.path = f /\ to.from = tail[t].from /\ to.pc = "reading"
          /\ to.gen = g /\ to.off = off + 1
      <3>1. off + 1 \in 0..MaxSize
        BY <1>1, <1>2
      <3> QED BY <1>1, <1>11, <3>1
    <2> HIDE DEF to
    <2>3. Inside(t)'
      <3>1. tail'[t] = to
        BY <1>10, <2>1
      <3>2. Content(t)' = Content(t)
        BY <1>5, <2>2, <3>1 DEF Content, Others, disk
      <3> QED BY <1>1, <1>2, <1>5, <2>2, <3>1, <3>2 DEF Inside, Others, disk
    <2>4. GivenOK' /\ cwds \subseteq cwds' /\ torn \subseteq torn'
      BY <1>4, <1>5, <1>13 DEF IInv, Typed, GivenOK
    <2>5. GivenOnce' /\ EventsPlaced' /\ GivenAreThere'
      BY <1>5, <1>13 DEF IInv, GivenOnce, EventsPlaced, GivenAreThere, Fresh, Others, disk
    <2>6. ASSUME Fresh(f), NEW h \in 1..MaxGen, NEW j \in 1..MaxSize, given[<<f, h, j>>] > 0
          PROVE  2 * j <= to.off
      <3>1. 2 * j <= off
        BY <1>1, <2>6 DEF IInv, Behind
      <3> QED BY <1>2, <2>2, <3>1
    <2>7. to.off >= 2 /\ f \notin removed =>
            f \in cwds' \/ \E h \in 1..MaxGen : <<f, h, 1>> \in torn'
      <3>1. i = 1 \/ off >= 2
        BY <1>3, <1>7
      <3> QED BY <1>2, <1>9, <1>13, <3>1
    <2>8. UNCHANGED Others /\ open' = open /\ given' = given
      BY <1>5, <1>13
    <2> QED BY <1>1, <2>1, <2>2, <2>3, <2>4, <2>5, <2>6, <2>7, <2>8, TailGoesOn
  <1> QED BY <1>12, <1>13 DEF ReadLine, i

(***************************************************************************)
(* The unlisted tail was the last of its file, or the file was removed.    *)
(***************************************************************************)

LEMMA UnlistStep == ASSUME IInv, NEW t \in Tails, Unlist(t) PROVE IInv'
  <1> USE DEF Unlist, disk, run, history
  <1> DEFINE f == tail[t].path
  <1>1. tail[t] # Gone /\ f \in Files
    BY TailType DEF Gone, IInv, Typed, Running
  <1>2. /\ open \in [Files -> Tails \cup {Nil}] /\ Nil \notin Tails
        /\ tail \in [Tails -> Running \cup {Gone}]
    BY DEF IInv, Typed, OpenOK, TailsOK
  <1>3. /\ tail'[t] = Gone /\ \A u \in Tails \ {t} : tail'[u] = tail[u]
        /\ tail' \in [Tails -> Running \cup {Gone}]
    BY <1>2
  <1>4. /\ open'[f] = Nil /\ \A x \in Files \ {f} : open'[x] = open[x]
        /\ open' \in [Files -> Tails \cup {Nil}]
    BY <1>1, <1>2
  <1>5. Gone.path = Nil /\ Gone.pc = "gone"
    BY DEF Gone
  <1>6. OpenOK'
    <2>1. {x \in Files : open'[x] # Nil} \subseteq {x \in Files : open[x] # Nil}
      BY <1>4
    <2>2. IsFiniteSet({x \in Files : open[x] # Nil})
      BY FiniteAssumption, FS_Subset
    <2>3. /\ Cardinality({x \in Files : open'[x] # Nil}) \in Nat
          /\ Cardinality({x \in Files : open[x] # Nil}) \in Nat
          /\ Cardinality({x \in Files : open'[x] # Nil})
               <= Cardinality({x \in Files : open[x] # Nil})
      BY <2>1, <2>2, FS_Subset, FS_CardinalityType
    <2>4. Room' >= 0
      BY <2>3, CastType DEF Room, IInv, Typed, OpenOK
    <2> QED BY <1>4, <2>4 DEF IInv, Typed, OpenOK
  <1>7. Typed'
    BY <1>3, <1>6 DEF IInv, Typed, DiskOK, EventsOK, RunOK, TailsOK, GivenOK
  <1>8. EventsTrue' /\ CreatedFirst'
    BY DEF IInv, EventsTrue, CreatedFirst
  <1>9. Listed'
    <2> SUFFICES ASSUME NEW x \in Files, open'[x] # Nil PROVE tail'[open'[x]].path = x
      BY DEF Listed
    <2>1. x # f /\ open'[x] = open[x] /\ tail[open[x]].path = x /\ open[x] \in Tails
      BY <1>2, <1>4 DEF IInv, Listed
    <2> QED BY <1>3, <2>1
  <1>10. Alone'
    <2>1. ASSUME NEW u \in Tails, tail'[u] # Gone, tail'[u].path \notin removed, ~stopped
          PROVE  open'[tail'[u].path] = u
      <3>1. u # t /\ tail'[u] = tail[u] /\ tail[u].path \in Files /\ open[tail[u].path] = u
        BY <1>3, <2>1, TailType DEF IInv, Alone, Typed
      <3>2. tail[u].path # f
        BY <1>1, <2>1, <3>1 DEF IInv, Alone
      <3> QED BY <1>4, <3>1, <3>2
    <2>2. \A u, v \in Tails :
            tail'[u] # Gone /\ tail'[u].path \notin removed /\ tail'[v].path = tail'[u].path
              => u = v
      <3> SUFFICES ASSUME NEW u \in Tails, NEW v \in Tails, tail'[u] # Gone,
                          tail'[u].path \notin removed, tail'[v].path = tail'[u].path
                   PROVE  u = v
        OBVIOUS
      <3>1. u # t /\ tail'[u] = tail[u] /\ tail[u].path \in Files
        BY <1>3, TailType DEF IInv, Typed
      <3>2. v # t /\ tail'[v] = tail[v]
        BY <1>3, <1>5, <3>1
      <3> QED BY <3>1, <3>2 DEF IInv, Alone
    <2> QED BY <2>1, <2>2 DEF Alone
  <1>11. Inward'
    <2> SUFFICES ASSUME NEW u \in Tails, tail'[u] # Gone PROVE Inside(u)'
      BY DEF Inward
    <2>1. tail'[u] = tail[u] /\ Inside(u)
      BY <1>3 DEF IInv, Inward
    <2> QED BY <2>1 DEF Inside, Content
  <1>12. Behind' /\ Placed'
    BY <1>3, <1>5 DEF IInv, Behind, Placed, Fresh, Untouched
  <1>13. Unopened'
    <2> SUFFICES ASSUME NEW x \in Files, Fresh(x),
                        \/ x \notin exists
                        \/ \E k \in 1..Len(events) : /\ events[k].op = "create"
                                                     /\ events[k].name = x
                 PROVE  Untouched(x) /\ \A u \in Tails : tail'[u].path # x
      BY DEF Unopened, Untouched, Fresh
    <2> QED BY <1>3, <1>5 DEF IInv, Unopened
  <1>14. GivenAreThere' /\ GivenOnce' /\ EventsPlaced'
    BY DEF IInv, GivenAreThere, Fresh, GivenOnce, EventsPlaced
  <1> QED
    BY <1>7, <1>8, <1>9, <1>10, <1>11, <1>12, <1>13, <1>14 DEF IInv

(***************************************************************************)
(* The theorems.                                                           *)
(***************************************************************************)

LEMMA NextIInv == IInv /\ [Next]_vars => IInv'
  <1> SUFFICES ASSUME IInv, [Next]_vars PROVE IInv'
    OBVIOUS
  <1>1. CASE Agents
    BY <1>1, MakeDirStep, CreateFileStep, RemoveStep, AttachStep, AppendToStep DEF Agents
  <1>2. CASE RunStep
    <2>1. CASE WatchTree \/ Return
      BY <2>1, RunStill
    <2>2. CASE Scan \/ NewDir \/ FileGone \/ CloseAll
      BY <2>2, ScanStep, NewDirStep, FileGoneStep, CloseAllStep
    <2>3. CASE FileEvent("create", "head")
      BY <2>3, FileEventStep
    <2>4. CASE FileEvent("write", "end")
      BY <2>4, FileEventStep
    <2> QED BY <1>2, <2>1, <2>2, <2>3, <2>4 DEF RunStep
  <1>3. CASE Cancel
    BY <1>3, RunStill
  <1>4. ASSUME NEW t \in Tails, TailStep(t) \/ EndTail(t) \/ IdleClose(t) PROVE IInv'
    BY <1>4, OpenTailStep, ReadLineStep, TailPhases, UnlistStep DEF TailStep
  <1>5. CASE UNCHANGED vars
    <2>1. RunOK' /\ stopped' = stopped
      BY <1>5 DEF vars, IInv, Typed, RunOK, disk, run
    <2> QED BY <1>5, <2>1, StillStep DEF vars
  <1> QED BY <1>1, <1>2, <1>3, <1>4, <1>5 DEF Next

LEMMA InvHolds == Spec => []IInv
  BY InitIInv, NextIInv, PTL DEF Spec

\* Every variable of the tailer keeps its type; MaxOpenFiles is never exceeded.
THEOREM TypeCorrect == Spec => []TypeOK
  <1>1. IInv => TypeOK
    BY TypedIsTyped DEF IInv
  <1> QED BY InvHolds, <1>1, PTL

\* Scan, Attach and the events of a file never make two tails of it: a record
\* is dispatched once unless its file was replayed or removed.
THEOREM RecordsGivenOnce == Spec => []GivenOnce
  <1>1. IInv => GivenOnce
    BY DEF IInv
  <1> QED BY InvHolds, <1>1, PTL

\* Wherever a tail starts, primeCodexCWD or the first line tells the directory
\* before any other record is dispatched.
THEOREM EventsArePlaced == Spec => []EventsPlaced
  <1>1. IInv => EventsPlaced
    BY DEF IInv
  <1> QED BY InvHolds, <1>1, PTL
=============================================================================

----------------------------- MODULE CloudProofs --------------------------
(***************************************************************************)
(* Proofs about CloudBridge, for any number of sessions, threads and       *)
(* connections and any buffer: every variable keeps its type; the proxy    *)
(* has the laptop's sessions whenever nothing is under way; and nothing is *)
(* left of them when the laptop has gone.                                  *)
(***************************************************************************)
EXTENDS CloudBridge, SequenceTheorems, TLAPS

USE BoundAssumption, NilAssumption

StateOrNone == States \cup {Absent}
Messages == Frames \cup Hellos
Phases == {"none", "accepted", "reading", "greeted", "syncing", "applying", "casting",
           "dropping", "clearing", "telling", "done"}
Working == {"greeted", "syncing", "applying", "casting"}
Serving == Working \cup {"reading"}

\* The parts of the type, by who writes them.
LaptopOK ==
    /\ cast \in Castings
    /\ laptop \in [Sessions -> StateOrNone]
    /\ due \in [Sessions -> BOOLEAN] /\ changes \in 0..MaxChanges
    /\ out \in Seq(Frames) /\ Len(out) <= Buffer
    /\ bridge \in Conns \cup {Nil} /\ dialed \in {0} \cup Conns
WireOK ==
    /\ link \in [Conns -> {"none", "open", "broken", "closed"}]
    /\ up \in [Conns -> Seq(Messages)]
    /\ down \in [Conns -> Seq(Inputs)]
HandlersOK ==
    /\ peer \in Conns \cup {Nil}
    /\ handler \in [Conns -> Phases]
    /\ frame \in [Conns -> Messages \cup {Nil}]
    /\ views \in [Conns -> SUBSET Sessions]
MuxOK ==
    /\ proxy \in [Sessions -> StateOrNone]
    /\ web \in [Sessions -> StateOrNone]
InputsOK ==
    /\ input \in [Inputs -> {"none", "sent", "failed"}]
    /\ via \in [Inputs -> Conns \cup {Nil}] /\ arrived \subseteq Inputs
HistoryOK ==
    /\ missed \subseteq Sessions /\ hushed \subseteq Sessions
    /\ strayed \subseteq Sessions /\ spoiled \in BOOLEAN

Typed == LaptopOK /\ WireOK /\ HandlersOK /\ MuxOK /\ InputsOK /\ HistoryOK

\* Connections are made one by one, and the newest is the laptop's.
Dialed ==
    /\ dialed <= cast.conns
    /\ \A c \in Conns : c > dialed => link[c] = "none" /\ handler[c] = "none"
    /\ bridge # Nil => bridge = dialed /\ handler[bridge] # "none"

\* What a change leaves to be mirrored is a state.
DueHasState == \A s \in Sessions : due[s] => laptop[s] \in States

\* A handler works on a frame of the kind that its place in the code says.
InHand ==
    \A c \in Conns :
        /\ At(c, "greeted") \/ At(c, "syncing") => frame[c] \in Hellos
        /\ At(c, "applying") \/ At(c, "casting") => frame[c] \in Frames

\* The peer's handler serves it; of the others none has an open connection
\* but one that is not attached yet.
PeerServes ==
    /\ peer # Nil => handler[peer] \in Serving
    /\ \A c \in Conns : link[c] = "open" => At(c, "accepted") \/ peer = c

\* Every connection starts with a hello.
HelloFirst ==
    \A c \in Conns : At(c, "accepted") /\ link[c] = "open" =>
        up[c] # <<>> /\ up[c][1] \in Hellos

(***************************************************************************)
(* What is under way tells the laptop's state.                             *)
(***************************************************************************)

Mentions(f, s) == f \in Hellos \/ f.sid = s
Says(f, s) == IF f \in Hellos THEN f.states[s] ELSE f.to

Silent(q, s) == \A i \in 1..Len(q) : ~Mentions(q[i], s)
\* The last frame of q about s says st.
LastSays(q, s, st) ==
    \A i \in 1..Len(q) :
        Mentions(q[i], s) /\ (\A j \in (i + 1)..Len(q) : ~Mentions(q[j], s))
            => Says(q[i], s) = st

Unapplied == {"greeted", "syncing", "applying"}
InWork(c, s) == handler[c] \in Unapplied /\ Mentions(frame[c], s)

Linked == bridge # Nil /\ link[bridge] = "open"

\* In the order in which it will come to count: the buffer, the wire, the
\* handler, the mux.
Followed(s) ==
    /\ LastSays(out, s, laptop[s])
    /\ Silent(out, s) /\ Linked =>
        /\ LastSays(up[bridge], s, laptop[s])
        /\ Silent(up[bridge], s) =>
             /\ InWork(bridge, s) => Says(frame[bridge], s) = laptop[s]
             /\ ~InWork(bridge, s) /\ ~spoiled /\ s \notin strayed
                    => Same(proxy[s], laptop[s])

AllFollowed == \A s \in Sessions : ~due[s] /\ s \notin missed => Followed(s)

\* Between a hello's two steps the peer's mux is empty.
Cleared ==
    peer # Nil /\ At(peer, "syncing") /\ ~spoiled => \A s \in Sessions : proxy[s] = Absent

(***************************************************************************)
(* What is left of a laptop that has gone.                                 *)
(***************************************************************************)

\* A mux with no peer is empty or about to be.
NoneLeft ==
    peer = Nil /\ ~spoiled =>
        \/ \A s \in Sessions : proxy[s] = Absent
        \/ \E c \in Conns : At(c, "dropping") \/ At(c, "clearing")

\* A session that the web clients show has a row, or they will be told of its
\* end, or they never will.
Shown ==
    \A s \in Sessions : Alive(web[s]) =>
        \/ s \in hushed \cup strayed
        \/ proxy[s] # Absent
        \/ \E c \in Conns : At(c, "telling") /\ s \in views[c]

IInv ==
    /\ Typed /\ Dialed /\ DueHasState /\ InHand /\ PeerServes /\ HelloFirst
    /\ AllFollowed /\ Cleared /\ NoneLeft /\ Shown

LEMMA TypedIsTyped == Typed => TypeOK
  BY DEF TypeOK, Typed, LaptopOK, WireOK, HandlersOK, MuxOK, InputsOK, HistoryOK,
         StateOrNone, Messages, Phases

LEMMA Kinds ==
    /\ \A f \in Messages : IsHello(f) <=> f \in Hellos
    /\ \A f \in Frames : f \notin Hellos /\ f.sid \in Sessions /\ f.to \in States
    /\ \A f \in Hellos : f.states \in [Sessions -> StateOrNone]
    /\ Frames \subseteq Messages /\ Hellos \subseteq Messages
    /\ "DEAD" \in States /\ Absent \notin States /\ ~Alive(Absent) /\ Absent \in StateOrNone
  BY DEF Messages, Frames, Hellos, IsHello, States, StateOrNone, Absent, Alive

(***************************************************************************)
(* Buffers and wires.                                                      *)
(***************************************************************************)

LEMMA Appended ==
    ASSUME NEW q \in Seq(Messages), NEW x \in Messages, NEW s, NEW st
    PROVE  /\ Silent(Append(q, x), s) <=> Silent(q, s) /\ ~Mentions(x, s)
           /\ /\ Mentions(x, s) => Says(x, s) = st
              /\ ~Mentions(x, s) => LastSays(q, s, st)
              => LastSays(Append(q, x), s, st)
  <1> DEFINE longer == Append(q, x)
  <1>1. /\ Len(q) \in Nat /\ Len(longer) = Len(q) + 1
        /\ \A i \in 1..Len(q) : longer[i] = q[i]
        /\ longer[Len(q) + 1] = x
    BY AppendProperties, LenProperties
  <1> HIDE DEF longer
  <1>2. Silent(longer, s) <=> Silent(q, s) /\ ~Mentions(x, s)
    BY <1>1 DEF Silent
  <1>3. ASSUME Mentions(x, s) => Says(x, s) = st, ~Mentions(x, s) => LastSays(q, s, st)
        PROVE  LastSays(longer, s, st)
    <2> SUFFICES ASSUME NEW i \in 1..Len(longer), Mentions(longer[i], s),
                        \A j \in (i + 1)..Len(longer) : ~Mentions(longer[j], s)
                 PROVE  Says(longer[i], s) = st
      BY DEF LastSays
    <2>1. CASE i = Len(q) + 1
      BY <1>1, <1>3, <2>1
    <2>2. CASE i # Len(q) + 1
      <3>1. i \in 1..Len(q) /\ longer[i] = q[i]
        BY <1>1, <2>2
      <3>2. Len(q) + 1 \in (i + 1)..Len(longer)
        BY <1>1, <3>1
      <3>3. ~Mentions(x, s)
        BY <1>1, <3>2
      <3>4. \A j \in (i + 1)..Len(q) : j \in (i + 1)..Len(longer) /\ longer[j] = q[j]
        BY <1>1, <3>1
      <3>5. \A j \in (i + 1)..Len(q) : ~Mentions(q[j], s)
        BY <3>4
      <3> QED BY <1>3, <3>1, <3>3, <3>5 DEF LastSays
    <2> QED BY <2>1, <2>2
  <1> QED BY <1>2, <1>3 DEF longer

LEMMA Shortened ==
    ASSUME NEW q \in Seq(Messages), q # <<>>, NEW s, NEW st
    PROVE  /\ Head(q) \in Messages /\ Tail(q) \in Seq(Messages) /\ Len(Tail(q)) = Len(q) - 1
           /\ Silent(q, s) <=> Silent(Tail(q), s) /\ ~Mentions(Head(q), s)
           /\ LastSays(q, s, st) => LastSays(Tail(q), s, st)
           /\ LastSays(q, s, st) /\ Silent(Tail(q), s) /\ Mentions(Head(q), s)
                => Says(Head(q), s) = st
  <1> DEFINE rest == Tail(q)
  <1>1. /\ Len(q) \in Nat /\ Len(q) # 0 /\ Head(q) = q[1] /\ Head(q) \in Messages
        /\ rest \in Seq(Messages) /\ Len(rest) = Len(q) - 1
        /\ \A i \in 1..Len(rest) : rest[i] = q[i + 1]
    BY HeadTailProperties, LenProperties, EmptySeq
  <1> HIDE DEF rest
  <1>2. \A i \in 2..Len(q) : i - 1 \in 1..Len(rest) /\ rest[i - 1] = q[i]
    BY <1>1
  <1>3. Silent(q, s) <=> Silent(rest, s) /\ ~Mentions(Head(q), s)
    <2>1. Silent(q, s) => Silent(rest, s) /\ ~Mentions(Head(q), s)
      BY <1>1 DEF Silent
    <2>2. ASSUME Silent(rest, s), ~Mentions(Head(q), s), NEW i \in 1..Len(q)
          PROVE  ~Mentions(q[i], s)
      <3>1. i = 1 \/ i \in 2..Len(q)
        OBVIOUS
      <3> QED BY <1>1, <1>2, <2>2, <3>1 DEF Silent
    <2> QED BY <2>1, <2>2 DEF Silent
  <1>4. ASSUME LastSays(q, s, st) PROVE LastSays(rest, s, st)
    <2> SUFFICES ASSUME NEW i \in 1..Len(rest), Mentions(rest[i], s),
                        \A j \in (i + 1)..Len(rest) : ~Mentions(rest[j], s)
                 PROVE  Says(rest[i], s) = st
      BY DEF LastSays
    <2>1. i + 1 \in 1..Len(q) /\ rest[i] = q[i + 1]
      BY <1>1
    <2>2. \A j \in ((i + 1) + 1)..Len(q) : j - 1 \in (i + 1)..Len(rest) /\ rest[j - 1] = q[j]
      BY <1>1, <1>2
    <2>3. \A j \in ((i + 1) + 1)..Len(q) : ~Mentions(q[j], s)
      BY <2>2
    <2> QED BY <1>4, <2>1, <2>3 DEF LastSays
  <1>5. ASSUME LastSays(q, s, st), Silent(rest, s), Mentions(Head(q), s)
        PROVE  Says(Head(q), s) = st
    <2>1. \A j \in (1 + 1)..Len(q) : ~Mentions(q[j], s)
      BY <1>2, <1>5 DEF Silent
    <2>2. 1 \in 1..Len(q)
      BY <1>1
    <2> QED BY <1>1, <1>5, <2>1, <2>2 DEF LastSays
  <1> QED BY <1>1, <1>3, <1>4, <1>5 DEF rest

LEMMA Short ==
    ASSUME NEW s, NEW st
    PROVE  /\ Silent(<<>>, s) /\ LastSays(<<>>, s, st)
           /\ \A f : Says(f, s) = st => LastSays(<<f>>, s, st)
           /\ \A f \in Hellos : ~Silent(<<f>>, s)
  <1>1. Len(<<>>) = 0 /\ \A f : Len(<<f>>) = 1 /\ <<f>>[1] = f
    OBVIOUS
  <1> QED BY <1>1 DEF Silent, LastSays, Mentions

(***************************************************************************)
(* Initially.                                                              *)
(***************************************************************************)

LEMMA InitIInv == Init => IInv
  <1> SUFFICES ASSUME Init PROVE IInv
    OBVIOUS
  <1>1. Typed
    <2>1. LaptopOK
      <3>1. <<>> \in Seq(Frames) /\ Len(<<>>) = 0
        BY EmptySeq
      <3> QED BY <3>1, Kinds DEF Init, LaptopOK
    <2>2. WireOK
      <3>1. <<>> \in Seq(Messages) /\ <<>> \in Seq(Inputs)
        BY EmptySeq
      <3> QED BY <3>1 DEF Init, WireOK
    <2>3. HandlersOK
      BY DEF Init, HandlersOK, Phases
    <2>4. MuxOK /\ InputsOK /\ HistoryOK
      BY Kinds DEF Init, MuxOK, InputsOK, HistoryOK
    <2> QED BY <2>1, <2>2, <2>3, <2>4 DEF Typed
  <1>2. Dialed /\ DueHasState /\ InHand /\ PeerServes /\ HelloFirst
    BY DEF Init, Dialed, DueHasState, InHand, PeerServes, HelloFirst, At
  <1>3. AllFollowed
    BY Short DEF Init, AllFollowed, Followed, Linked
  <1>4. Cleared /\ NoneLeft /\ Shown
    BY Kinds DEF Init, Cleared, NoneLeft, Shown
  <1> QED BY <1>1, <1>2, <1>3, <1>4 DEF IInv

(***************************************************************************)
(* What is followed stays so.                                              *)
(***************************************************************************)

\* A frame that is about s on the way, or its handler is the peer's.
LEMMA SilentPeer ==
    ASSUME IInv, Linked, NEW s, Silent(up[bridge], s)
    PROVE  /\ peer = bridge /\ handler[bridge] \in Serving /\ bridge \in Conns
           /\ ~At(bridge, "accepted")
  <1>1. bridge \in Conns /\ up[bridge] \in Seq(Messages)
    BY DEF Linked, IInv, Typed, LaptopOK, WireOK
  <1>2. ~At(bridge, "accepted")
    <2>1. ASSUME At(bridge, "accepted") PROVE FALSE
      <3>1. up[bridge] # <<>> /\ up[bridge][1] \in Hellos
        BY <1>1, <2>1 DEF Linked, IInv, HelloFirst
      <3>2. 1 \in 1..Len(up[bridge])
        BY <1>1, <3>1, EmptySeq, LenProperties
      <3> QED BY <3>1, <3>2 DEF Silent, Mentions
    <2> QED BY <2>1
  <1> QED BY <1>1, <1>2 DEF Linked, IInv, PeerServes

\* The steps that touch neither the laptop's end nor what follows it.
LEMMA FollowedKept ==
    ASSUME IInv, UNCHANGED <<laptop, due, out, missed>>,
           Linked' => Linked /\ bridge' = bridge /\ up'[bridge] = up[bridge],
           Linked' =>
               \/ handler'[bridge] = handler[bridge] /\ frame'[bridge] = frame[bridge]
               \/ handler[bridge] \notin Unapplied /\ handler'[bridge] \notin Unapplied,
           Linked' /\ peer = bridge /\ handler[bridge] \in Serving =>
               spoiled' \/ (~spoiled /\ proxy' = proxy /\ strayed \subseteq strayed')
    PROVE  AllFollowed'
  <1> SUFFICES ASSUME NEW s \in Sessions, ~due[s], s \notin missed PROVE Followed(s)'
    BY DEF AllFollowed
  <1>1. Followed(s)
    BY DEF IInv, AllFollowed
  <1>2. CASE ~(Silent(out, s) /\ Linked')
    BY <1>1, <1>2 DEF Followed
  <1>3. CASE Silent(out, s) /\ Linked'
    <2>1. /\ Linked /\ bridge' = bridge /\ up'[bridge'] = up[bridge]
      BY <1>3
    <2>2. LastSays(up'[bridge'], s, laptop'[s])
      BY <1>1, <1>3, <2>1 DEF Followed
    <2>3. ASSUME Silent(up'[bridge'], s)
          PROVE  /\ InWork(bridge, s)' => Says(frame'[bridge'], s) = laptop'[s]
                 /\ ~InWork(bridge, s)' /\ ~spoiled' /\ s \notin strayed'
                        => Same(proxy'[s], laptop'[s])
      <3>1. peer = bridge /\ handler[bridge] \in Serving
        BY <2>1, <2>3, SilentPeer
      <3>2. spoiled' \/ (~spoiled /\ proxy' = proxy /\ strayed \subseteq strayed')
        BY <1>3, <3>1
      <3>3. /\ InWork(bridge, s)' <=> InWork(bridge, s)
            /\ InWork(bridge, s) => frame'[bridge'] = frame[bridge]
        BY <1>3, <2>1 DEF InWork
      <3>4. /\ InWork(bridge, s) => Says(frame[bridge], s) = laptop[s]
            /\ ~InWork(bridge, s) /\ ~spoiled /\ s \notin strayed
                    => Same(proxy[s], laptop[s])
        BY <1>1, <1>3, <2>1, <2>3 DEF Followed
      <3> QED BY <2>1, <3>2, <3>3, <3>4
    <2> QED BY <1>1, <1>3, <2>1, <2>2, <2>3 DEF Followed
  <1> QED BY <1>2, <1>3

(***************************************************************************)
(* The laptop's steps.                                                     *)
(***************************************************************************)

LEMMA ChangeStep ==
    ASSUME IInv, NEW s \in Sessions, NEW st \in States, Change(s, st) PROVE IInv'
  <1> USE DEF Change, wire, proxyVars, inputVars, history
  <1>1. Typed'
    <2>1. LaptopOK'
      BY DEF IInv, Typed, LaptopOK, StateOrNone
    <2> QED BY <2>1 DEF IInv, Typed, WireOK, HandlersOK, MuxOK, InputsOK, HistoryOK
  <1>2. Dialed' /\ DueHasState' /\ InHand' /\ PeerServes' /\ HelloFirst'
    BY DEF IInv, Typed, LaptopOK, Dialed, DueHasState, InHand, PeerServes, HelloFirst, At
  <1>3. AllFollowed'
    <2> SUFFICES ASSUME NEW u \in Sessions, ~due'[u], u \notin missed PROVE Followed(u)'
      BY DEF AllFollowed
    <2>1. u # s /\ ~due[u] /\ laptop'[u] = laptop[u]
      BY DEF IInv, Typed, LaptopOK
    <2>2. Followed(u)
      BY <2>1 DEF IInv, AllFollowed
    <2> QED BY <2>1, <2>2 DEF Followed, Linked, InWork
  <1>4. Cleared' /\ NoneLeft' /\ Shown'
    BY DEF IInv, Cleared, NoneLeft, Shown, At
  <1> QED BY <1>1, <1>2, <1>3, <1>4 DEF IInv

LEMMA MirrorStep ==
    ASSUME IInv, NEW s \in Sessions, Mirror(s) PROVE IInv'
  <1> USE DEF Mirror, wire, proxyVars, inputVars
  <1>1. Frame(s) \in Frames /\ out \in Seq(Frames) /\ out \in Seq(Messages) /\ Frame(s) \in Messages
    <2>1. Frame(s) \in Frames
      BY DEF IInv, DueHasState, Frame, Frames
    <2>2. out \in Seq(Frames) /\ out \in Seq(Messages)
      BY Kinds, SeqMonotonic DEF IInv, Typed, LaptopOK
    <2> QED BY <2>1, <2>2, Kinds
  <1>2. Typed'
    <2>1. LaptopOK'
      <3>1. Fits(out) => Append(out, Frame(s)) \in Seq(Frames)
                         /\ Len(Append(out, Frame(s))) <= Buffer
        BY <1>1, AppendProperties, LenProperties DEF Fits
      <3>2. out' \in Seq(Frames) /\ Len(out') <= Buffer
        BY <1>1, <3>1 DEF IInv, Typed, LaptopOK
      <3> QED BY <3>2 DEF IInv, Typed, LaptopOK
    <2> QED BY <2>1 DEF IInv, Typed, WireOK, HandlersOK, MuxOK, InputsOK, HistoryOK
  <1>3. Dialed' /\ DueHasState' /\ InHand' /\ PeerServes' /\ HelloFirst'
    BY DEF IInv, Typed, LaptopOK, Dialed, DueHasState, InHand, PeerServes, HelloFirst, At
  <1>4. AllFollowed'
    <2> SUFFICES ASSUME NEW u \in Sessions, ~due'[u], u \notin missed' PROVE Followed(u)'
      BY DEF AllFollowed
    <2>1. CASE u = s
      <3>1. out' = Append(out, Frame(s))
        BY <2>1
      <3>2. Mentions(Frame(s), s) /\ Says(Frame(s), s) = laptop[s]
        <4>1. Frame(s).sid = s /\ Frame(s).to = laptop[s] /\ Frame(s) \notin Hellos
          BY <1>1, Kinds DEF Frame
        <4> QED BY <4>1 DEF Mentions, Says
      <3>3. LastSays(out', s, laptop[s]) /\ ~Silent(out', s)
        BY <1>1, <3>1, <3>2, Appended
      <3> QED BY <2>1, <3>3 DEF Followed
    <2>2. CASE u # s
      <3>1. ~due[u] /\ u \notin missed /\ Followed(u)
        BY <2>2 DEF IInv, AllFollowed, Typed, LaptopOK
      <3>2. CASE out' = out
        BY <3>1, <3>2 DEF Followed, Linked, InWork
      <3>3. CASE out' = Append(out, Frame(s))
        <4>1. ~Mentions(Frame(s), u)
          BY <1>1, <2>2, Kinds DEF Mentions, Frame
        <4>2. LastSays(out, u, laptop[u])
          BY <3>1 DEF Followed
        <4>3. LastSays(out', u, laptop[u]) /\ (Silent(out', u) <=> Silent(out, u))
          BY <1>1, <3>3, <4>1, <4>2, Appended
        <4> QED BY <3>1, <4>3 DEF Followed, Linked, InWork
      <3> QED BY <3>2, <3>3
    <2> QED BY <2>1, <2>2
  <1>5. Cleared' /\ NoneLeft' /\ Shown'
    BY DEF IInv, Cleared, NoneLeft, Shown, At
  <1> QED BY <1>2, <1>3, <1>4, <1>5 DEF IInv

LEMMA DialStep == ASSUME IInv, Dial PROVE IInv'
  <1> USE DEF Dial, inputVars
  <1> DEFINE b == dialed + 1
  <1>1. /\ b \in Conns /\ b <= cast.conns /\ b > dialed /\ link[b] = "none" /\ handler[b] = "none"
        /\ dialed \in Nat
    <2>1. dialed \in Nat /\ cast.conns \in 1..MaxConns
      BY DEF IInv, Typed, LaptopOK, Conns
    <2>2. b \in Conns
      BY <2>1 DEF Conns
    <2> QED BY <2>1, <2>2 DEF IInv, Dialed
  <1>2. Hello \in Hellos /\ Hello \in Messages /\ \A s \in Sessions : Says(Hello, s) = laptop[s]
    <2>1. Hello \in Hellos /\ Hello.states = laptop
      BY DEF IInv, Typed, LaptopOK, StateOrNone, Hello, Hellos
    <2> QED BY <2>1, Kinds DEF Says
  <1>3. /\ bridge' = b /\ b # Nil /\ dialed' = b
        /\ link'[b] = "open" /\ \A c \in Conns \ {b} : link'[c] = link[c]
        /\ handler'[b] = "accepted" /\ \A c \in Conns \ {b} : handler'[c] = handler[c]
        /\ up'[b] = <<Hello>> /\ \A c \in Conns \ {b} : up'[c] = up[c]
    BY <1>1 DEF IInv, Typed, WireOK, HandlersOK, FirstFrames
  <1>4. Typed'
    <2>1. <<Hello>> \in Seq(Messages)
      BY <1>2
    <2>2. WireOK'
      BY <1>1, <2>1 DEF IInv, Typed, WireOK, FirstFrames
    <2>3. HandlersOK'
      BY DEF IInv, Typed, HandlersOK, Phases
    <2>4. LaptopOK' /\ HistoryOK'
      BY <1>1 DEF IInv, Typed, LaptopOK, HistoryOK
    <2> QED BY <2>2, <2>3, <2>4 DEF IInv, Typed, MuxOK, InputsOK
  <1>5. Dialed'
    <2>1. ASSUME NEW c \in Conns, c > b PROVE link'[c] = "none" /\ handler'[c] = "none"
      <3>1. c > dialed /\ c # b
        BY <1>1, <2>1 DEF Conns
      <3> QED BY <1>3, <3>1 DEF IInv, Dialed
    <2> QED BY <1>1, <1>3, <2>1 DEF Dialed
  <1>6. DueHasState' /\ InHand'
    BY <1>3 DEF IInv, DueHasState, InHand, At
  <1>7. PeerServes'
    <2>1. peer # b
      BY <1>1 DEF IInv, PeerServes, Serving, Working
    <2>2. peer # Nil => peer \in Conns \ {b}
      BY <2>1 DEF IInv, Typed, HandlersOK
    <2> QED BY <1>3, <2>2 DEF IInv, PeerServes, At
  <1>8. HelloFirst'
    <2>1. <<Hello>> # <<>> /\ <<Hello>>[1] = Hello
      OBVIOUS
    <2> QED BY <1>2, <1>3, <2>1 DEF IInv, HelloFirst, At
  <1>9. AllFollowed'
    <2> SUFFICES ASSUME NEW s \in Sessions, ~due[s], s \notin missed' PROVE Followed(s)'
      BY DEF AllFollowed
    <2>1. LastSays(out, s, laptop[s])
      <3>1. CASE s \notin missed
        BY <3>1 DEF IInv, AllFollowed, Followed
      <3>2. CASE s \in missed
        <4>1. \A i \in 1..Len(out) : out[i] \in Frames /\ out[i].sid # s
          BY <3>2, ElementOfSeq DEF Repaired, IInv, Typed, LaptopOK
        <4> QED BY <4>1, Kinds DEF LastSays, Mentions
      <3> QED BY <3>1, <3>2
    <2>2. LastSays(up'[b], s, laptop[s]) /\ ~Silent(up'[b], s)
      <3>1. Says(Hello, s) = laptop[s] /\ Hello \in Hellos
        BY <1>2
      <3>2. LastSays(<<Hello>>, s, laptop[s]) /\ ~Silent(<<Hello>>, s)
        BY <3>1, Short
      <3> QED BY <1>3, <3>2
    <2> QED BY <1>3, <2>1, <2>2 DEF Followed
  <1>10. Cleared' /\ NoneLeft' /\ Shown'
    <2>1. \A c \in Conns : handler[c] # "none" => handler'[c] = handler[c]
      BY <1>1, <1>3
    <2>2. peer # Nil => peer \in Conns
      BY DEF IInv, Typed, HandlersOK
    <2>3. Cleared'
      BY <1>3, <2>2 DEF IInv, Cleared, At
    <2>4. NoneLeft' /\ Shown'
      BY <2>1 DEF IInv, NoneLeft, Shown, At
    <2> QED BY <2>3, <2>4
  <1> QED BY <1>4, <1>5, <1>6, <1>7, <1>8, <1>9, <1>10 DEF IInv

LEMMA SendStep == ASSUME IInv, Send PROVE IInv'
  <1> USE DEF Send, proxyVars, inputVars, history
  <1>1. /\ bridge \in Conns /\ out \in Seq(Frames) /\ out \in Seq(Messages) /\ out # <<>>
        /\ Head(out) \in Frames /\ Head(out) \in Messages
        /\ Tail(out) \in Seq(Frames) /\ Len(Tail(out)) <= Buffer
        /\ up[bridge] \in Seq(Messages)
    <2>1. bridge \in Conns /\ out \in Seq(Frames) /\ Len(out) <= Buffer /\ out # <<>>
      BY DEF IInv, Typed, LaptopOK
    <2>2. out \in Seq(Messages)
      BY <2>1, Kinds, SeqMonotonic
    <2>3. Head(out) \in Frames /\ Tail(out) \in Seq(Frames) /\ Len(Tail(out)) = Len(out) - 1
      BY <2>1, HeadTailProperties
    <2>4. Len(Tail(out)) <= Buffer
      BY <2>1, <2>3, LenProperties
    <2> QED BY <2>1, <2>2, <2>3, <2>4, Kinds DEF IInv, Typed, WireOK
  <1>2. LaptopOK'
    BY <1>1 DEF IInv, Typed, LaptopOK
  <1>3. HandlersOK' /\ MuxOK' /\ InputsOK' /\ HistoryOK'
    BY DEF IInv, Typed, HandlersOK, MuxOK, InputsOK, HistoryOK
  <1>4. DueHasState' /\ InHand' /\ PeerServes'
    BY DEF IInv, DueHasState, InHand, PeerServes, At
  <1>5. Cleared' /\ NoneLeft' /\ Shown'
    BY DEF IInv, Cleared, NoneLeft, Shown, At
  <1>6. Dialed'
    BY DEF IInv, Dialed
  <1>7. CASE bridge' = bridge /\ up' = [up EXCEPT ![bridge] = Append(@, Head(out))]
             /\ down' = down
    <2>1. Append(up[bridge], Head(out)) \in Seq(Messages) /\ Append(up[bridge], Head(out)) # <<>>
      BY <1>1, AppendProperties
    <2>2. WireOK'
      BY <1>7, <2>1 DEF IInv, Typed, WireOK
    <2>3. HelloFirst'
      <3> SUFFICES ASSUME NEW c \in Conns, At(c, "accepted"), link[c] = "open"
                   PROVE  up'[c] # <<>> /\ up'[c][1] \in Hellos
        BY DEF HelloFirst, At
      <3>1. up[c] # <<>> /\ up[c][1] \in Hellos
        BY DEF IInv, HelloFirst
      <3>2. CASE c = bridge
        <4>1. up'[c] = Append(up[c], Head(out))
          BY <1>7, <3>2 DEF IInv, Typed, WireOK
        <4>2. 1 \in 1..Len(up[c])
          BY <1>1, <3>1, <3>2, EmptySeq, LenProperties
        <4>3. Append(up[c], Head(out))[1] = up[c][1]
          BY <1>1, <3>2, <4>2, AppendProperties
        <4> QED BY <2>1, <3>1, <3>2, <4>1, <4>3
      <3>3. CASE c # bridge
        BY <1>7, <3>1, <3>3 DEF IInv, Typed, WireOK
      <3> QED BY <3>2, <3>3
    <2>4. AllFollowed'
      <3> SUFFICES ASSUME NEW s \in Sessions, ~due[s], s \notin missed PROVE Followed(s)'
        BY DEF AllFollowed
      <3>1. Followed(s)
        BY DEF IInv, AllFollowed
      <3>2. LastSays(out, s, laptop[s])
        BY <3>1 DEF Followed
      <3>3. /\ LastSays(Tail(out), s, laptop[s])
            /\ Silent(out, s) <=> Silent(Tail(out), s) /\ ~Mentions(Head(out), s)
            /\ Silent(Tail(out), s) /\ Mentions(Head(out), s) => Says(Head(out), s) = laptop[s]
        BY <1>1, <3>2, Shortened
      <3>4. ASSUME Silent(Tail(out), s), Linked
            PROVE  LastSays(up'[bridge], s, laptop[s])
        <4>1. ~Mentions(Head(out), s) => LastSays(up[bridge], s, laptop[s])
          BY <3>1, <3>3, <3>4 DEF Followed
        <4>2. up'[bridge] = Append(up[bridge], Head(out))
          BY <1>1, <1>7 DEF IInv, Typed, WireOK
        <4> QED BY <1>1, <3>3, <3>4, <4>1, <4>2, Appended
      <3>5. Silent(up'[bridge], s) <=> Silent(up[bridge], s) /\ ~Mentions(Head(out), s)
        <4>1. up'[bridge] = Append(up[bridge], Head(out))
          BY <1>1, <1>7 DEF IInv, Typed, WireOK
        <4>2. Silent(Append(up[bridge], Head(out)), s)
                <=> Silent(up[bridge], s) /\ ~Mentions(Head(out), s)
          BY <1>1, Appended
        <4> QED BY <4>1, <4>2
      <3>6. out' = Tail(out) /\ (Linked' <=> Linked)
        BY <1>7 DEF Linked
      <3>7. ASSUME Silent(Tail(out), s), Linked, Silent(up'[bridge], s)
            PROVE  /\ InWork(bridge, s)' => Says(frame'[bridge'], s) = laptop'[s]
                   /\ ~InWork(bridge, s)' /\ ~spoiled' /\ s \notin strayed'
                          => Same(proxy'[s], laptop'[s])
        <4>1. Silent(out, s) /\ Silent(up[bridge], s)
          BY <3>3, <3>5, <3>7
        <4>2. InWork(bridge, s)' <=> InWork(bridge, s)
          BY <1>7 DEF InWork
        <4> QED BY <1>7, <3>1, <3>7, <4>1, <4>2 DEF Followed
      <3> QED BY <1>7, <3>3, <3>4, <3>6, <3>7 DEF Followed
    <2> QED BY <1>2, <1>3, <1>4, <1>5, <1>6, <2>2, <2>3, <2>4 DEF IInv, Typed
  <1>8. CASE bridge' = Nil /\ down' = [down EXCEPT ![bridge] = <<>>] /\ up' = up
    <2>1. WireOK'
      <3>1. <<>> \in Seq(Inputs)
        BY EmptySeq
      <3> QED BY <1>8, <3>1 DEF IInv, Typed, WireOK
    <2>2. HelloFirst'
      BY <1>8 DEF IInv, HelloFirst, At
    <2>3. AllFollowed'
      <3> SUFFICES ASSUME NEW s \in Sessions, ~due[s], s \notin missed PROVE Followed(s)'
        BY DEF AllFollowed
      <3>1. LastSays(out, s, laptop[s])
        BY DEF IInv, AllFollowed, Followed
      <3>2. LastSays(Tail(out), s, laptop[s])
        BY <1>1, <3>1, Shortened
      <3>3. ~Linked'
        BY <1>8 DEF Linked
      <3> QED BY <3>2, <3>3 DEF Followed
    <2> QED BY <1>2, <1>3, <1>4, <1>5, <1>6, <2>1, <2>2, <2>3 DEF IInv, Typed
  <1> QED BY <1>7, <1>8

\* What only the laptop's end of the connection and the inputs see.
LEMMA LinkStep ==
    ASSUME IInv, UNCHANGED <<cast, laptop, due, changes, out, dialed, link, up, proxyVars,
                             history>>,
           bridge' \in {bridge, Nil}, down' \in [Conns -> Seq(Inputs)], InputsOK'
    PROVE  IInv'
  <1> USE DEF proxyVars, history
  <1>1. Typed'
    BY DEF IInv, Typed, LaptopOK, WireOK, HandlersOK, MuxOK, HistoryOK
  <1>2. Dialed' /\ DueHasState' /\ InHand' /\ PeerServes' /\ HelloFirst'
    BY DEF IInv, Dialed, DueHasState, InHand, PeerServes, HelloFirst, At
  <1>3. AllFollowed'
    BY FollowedKept DEF Linked
  <1>4. Cleared' /\ NoneLeft' /\ Shown'
    BY DEF IInv, Cleared, NoneLeft, Shown, At
  <1> QED BY <1>1, <1>2, <1>3, <1>4 DEF IInv

LEMMA LinkSteps ==
    ASSUME IInv, EndSession \/ Receive \/ (\E i \in Inputs : Forward(i)) PROVE IInv'
  <1>1. /\ down \in [Conns -> Seq(Inputs)] /\ bridge \in Conns \cup {Nil}
        /\ peer \in Conns \cup {Nil}
    BY DEF IInv, Typed, WireOK, LaptopOK, HandlersOK
  <1>2. CASE EndSession
    <2>1. <<>> \in Seq(Inputs)
      BY EmptySeq
    <2>2. down' \in [Conns -> Seq(Inputs)] /\ bridge' = Nil /\ InputsOK'
      BY <1>1, <1>2, <2>1 DEF EndSession, inputVars, IInv, Typed, InputsOK
    <2> QED BY <1>2, <2>2, LinkStep DEF EndSession
  <1>3. CASE Receive
    <2>1. /\ bridge \in Conns /\ Head(down[bridge]) \in Inputs
          /\ Tail(down[bridge]) \in Seq(Inputs)
      BY <1>1, <1>3, HeadTailProperties DEF Receive
    <2>2. down' \in [Conns -> Seq(Inputs)] /\ InputsOK'
      BY <1>1, <1>3, <2>1 DEF Receive, Delivers, IInv, Typed, InputsOK
    <2> QED BY <1>3, <2>2, LinkStep DEF Receive, laptopVars
  <1>4. ASSUME NEW i \in Inputs, Forward(i) PROVE IInv'
    <2>1. down' \in [Conns -> Seq(Inputs)] /\ InputsOK'
      <3>1. CASE peer # Nil /\ SendInput(i) /\ input' = [input EXCEPT ![i] = "sent"]
        <4>1. peer \in Conns /\ Append(down[peer], i) \in Seq(Inputs)
          BY <1>1, <3>1, AppendProperties
        <4> QED BY <1>1, <1>4, <3>1, <4>1 DEF SendInput, Forward, IInv, Typed, InputsOK
      <3>2. CASE input' = [input EXCEPT ![i] = "failed"] /\ UNCHANGED <<via, down>>
        BY <1>1, <1>4, <3>2 DEF Forward, IInv, Typed, InputsOK
      <3> QED BY <1>4, <3>1, <3>2 DEF Forward
    <2> QED BY <1>4, <2>1, LinkStep DEF Forward, laptopVars
  <1> QED BY <1>2, <1>3, <1>4

LEMMA RestartStep == ASSUME IInv, Restart PROVE IInv'
  <1> USE DEF Restart, proxyVars, inputVars
  <1>1. /\ bridge' = Nil /\ out' = <<>> /\ missed' = {}
        /\ \A s \in Sessions : laptop'[s] = Absent /\ due'[s] = FALSE
        /\ \A c \in Conns : link'[c] = link[c] \/ (link[c] = "open" /\ link'[c] = "broken")
    OBVIOUS
  <1>2. Typed'
    <2>1. LaptopOK'
      <3>1. <<>> \in Seq(Frames) /\ Len(<<>>) = 0
        BY EmptySeq
      <3>2. changes' \in 0..MaxChanges
        BY DEF IInv, Typed, LaptopOK
      <3> QED BY <3>1, <3>2, Kinds DEF IInv, Typed, LaptopOK
    <2>2. WireOK'
      <3>1. <<>> \in Seq(Inputs)
        BY EmptySeq
      <3> QED BY <3>1 DEF IInv, Typed, WireOK
    <2> QED BY <2>1, <2>2 DEF IInv, Typed, HandlersOK, MuxOK, InputsOK, HistoryOK
  <1>3. Dialed' /\ DueHasState' /\ InHand' /\ PeerServes' /\ HelloFirst'
    BY <1>1 DEF IInv, Dialed, DueHasState, InHand, PeerServes, HelloFirst, At
  <1>4. AllFollowed'
    BY <1>1, Short DEF AllFollowed, Followed, Linked
  <1>5. Cleared' /\ NoneLeft' /\ Shown'
    BY DEF IInv, Cleared, NoneLeft, Shown, At
  <1> QED BY <1>2, <1>3, <1>4, <1>5 DEF IInv

LEMMA BreakStep == ASSUME IInv, NEW c \in Conns, Break(c) PROVE IInv'
  <1> USE DEF Break, laptopVars, proxyVars, inputVars, history
  <1>1. PICK n \in 0..Len(up[c]) : up' = [up EXCEPT ![c] = SubSeq(@, 1, n)]
    OBVIOUS
  <1>2. PICK m \in 0..Len(down[c]) : down' = [down EXCEPT ![c] = SubSeq(@, 1, m)]
    OBVIOUS
  <1>3. /\ link'[c] = "broken" /\ \A d \in Conns \ {c} : link'[d] = link[d] /\ up'[d] = up[d]
    BY <1>1 DEF IInv, Typed, WireOK
  <1>4. Typed'
    <2>1. up[c] \in Seq(Messages) /\ down[c] \in Seq(Inputs)
      BY DEF IInv, Typed, WireOK
    <2>2. SubSeq(up[c], 1, n) \in Seq(Messages)
      <3>1. \A i \in 1..n : up[c][i] \in Messages
        BY <2>1, ElementOfSeq, LenProperties
      <3> QED BY <2>1, <3>1, SubSeqProperties, LenProperties
    <2>3. SubSeq(down[c], 1, m) \in Seq(Inputs)
      <3>1. \A i \in 1..m : down[c][i] \in Inputs
        BY <2>1, ElementOfSeq, LenProperties
      <3> QED BY <2>1, <3>1, SubSeqProperties, LenProperties
    <2>4. WireOK'
      BY <1>1, <1>2, <2>2, <2>3 DEF IInv, Typed, WireOK
    <2> QED BY <2>4 DEF IInv, Typed, LaptopOK, HandlersOK, MuxOK, InputsOK, HistoryOK
  <1>5. Dialed' /\ DueHasState' /\ InHand' /\ PeerServes' /\ HelloFirst'
    <2>1. Dialed'
      BY <1>3 DEF IInv, Dialed
    <2> QED BY <1>3, <2>1 DEF IInv, DueHasState, InHand, PeerServes, HelloFirst, At
  <1>6. AllFollowed'
    <2>1. bridge \in Conns \cup {Nil}
      BY DEF IInv, Typed, LaptopOK
    <2>2. Linked' => Linked /\ bridge # c /\ up'[bridge] = up[bridge]
      BY <1>3, <2>1 DEF Linked
    <2> QED BY <2>2, FollowedKept
  <1>7. Cleared' /\ NoneLeft' /\ Shown'
    BY DEF IInv, Cleared, NoneLeft, Shown, At
  <1> QED BY <1>4, <1>5, <1>6, <1>7 DEF IInv

(***************************************************************************)
(* The proxy's steps.                                                      *)
(***************************************************************************)

LEMMA Gone ==
    ASSUME Typed, NEW c \in Conns, NEW pc \in Phases, GoTo(c, pc)
    PROVE  /\ handler' \in [Conns -> Phases] /\ handler'[c] = pc
           /\ \A d \in Conns \ {c} : handler'[d] = handler[d]
  BY DEF GoTo, Typed, HandlersOK

\* The steps of a handler that is attached leave the connections as they are.
LEMMA AtWork ==
    ASSUME IInv, NEW c \in Conns, NEW pc \in Phases, GoTo(c, pc),
           handler[c] \notin {"none", "accepted"}, pc \notin {"none", "accepted"},
           c = peer => pc \in Serving,
           UNCHANGED <<laptopVars, link, peer>>,
           \A d \in Conns \ {c} : up'[d] = up[d]
    PROVE  Dialed' /\ DueHasState' /\ PeerServes' /\ HelloFirst'
  <1>1. /\ handler'[c] = pc /\ \A d \in Conns \ {c} : handler'[d] = handler[d]
        /\ peer \in Conns \cup {Nil} /\ bridge \in Conns \cup {Nil}
    BY Gone DEF IInv, Typed, HandlersOK, LaptopOK
  <1>2. Dialed'
    <2>1. \A d \in Conns : d > dialed => d # c
      BY DEF IInv, Dialed
    <2> QED BY <1>1, <2>1 DEF IInv, Dialed, laptopVars
  <1>3. PeerServes'
    BY <1>1 DEF IInv, PeerServes, At
  <1>4. DueHasState' /\ HelloFirst'
    BY <1>1 DEF IInv, DueHasState, HelloFirst, At, laptopVars
  <1> QED BY <1>2, <1>3, <1>4

LEMMA AttachStep == ASSUME IInv, NEW c \in Conns, Attach(c) PROVE IInv'
  <1> USE DEF Attach, laptopVars, inputVars, history
  <1>1. /\ handler[c] = "accepted" /\ handler'[c] = "reading" /\ peer' = c
        /\ handler' \in [Conns -> Phases]
        /\ \A d \in Conns \ {c} : handler'[d] = handler[d]
        /\ peer # c /\ peer \in Conns \cup {Nil} /\ bridge \in Conns \cup {Nil}
    <2>1. "reading" \in Phases
      BY DEF Phases
    <2>2. peer # c
      BY DEF IInv, PeerServes, Serving, Working, At
    <2> QED BY <2>1, <2>2, Gone DEF IInv, Typed, HandlersOK, LaptopOK, At
  <1>2. /\ \A d \in Conns \ {peer} : link'[d] = link[d] /\ up'[d] = up[d]
        /\ peer # Nil => link'[peer] = "closed"
    BY <1>1 DEF IInv, Typed, WireOK
  <1>3. Typed'
    <2>1. <<>> \in Seq(Messages)
      BY EmptySeq
    <2>2. WireOK'
      BY <1>1, <2>1 DEF IInv, Typed, WireOK
    <2>3. HandlersOK'
      BY <1>1 DEF IInv, Typed, HandlersOK
    <2> QED BY <2>2, <2>3 DEF IInv, Typed, LaptopOK, MuxOK, InputsOK, HistoryOK
  <1>4. Dialed'
    <2>1. ASSUME NEW d \in Conns, d > dialed PROVE link'[d] = "none" /\ handler'[d] = "none"
      <3>1. link[d] = "none" /\ handler[d] = "none"
        BY <2>1 DEF IInv, Dialed
      <3>2. d # c /\ d # peer
        BY <1>1, <3>1 DEF IInv, PeerServes, Serving, Working
      <3> QED BY <1>1, <1>2, <3>1, <3>2
    <2> QED BY <1>1, <2>1 DEF IInv, Dialed
  <1>5. DueHasState' /\ InHand'
    BY <1>1 DEF IInv, DueHasState, InHand, At
  <1>6. PeerServes'
    <2>1. \A d \in Conns : link'[d] = "open" => d # peer /\ link[d] = "open"
      BY <1>1, <1>2
    <2> QED BY <1>1, <2>1 DEF IInv, PeerServes, At, Serving
  <1>7. HelloFirst'
    <2>1. \A d \in Conns : link'[d] = "open" => d # peer /\ link[d] = "open"
      BY <1>1, <1>2
    <2>2. \A d \in Conns : handler'[d] = "accepted" => handler[d] = "accepted"
      BY <1>1
    <2> QED BY <1>2, <2>1, <2>2 DEF IInv, HelloFirst, At
  <1>8. AllFollowed'
    <2>1. Linked' => Linked /\ bridge # peer /\ up'[bridge] = up[bridge]
      BY <1>1, <1>2 DEF Linked
    <2>2. CASE c # bridge
      BY <1>1, <2>1, <2>2, FollowedKept DEF Linked
    <2>3. CASE c = bridge
      <3> SUFFICES ASSUME NEW s \in Sessions, ~due[s], s \notin missed PROVE Followed(s)'
        BY DEF AllFollowed
      <3>1. Followed(s)
        BY DEF IInv, AllFollowed
      <3>2. Linked' => ~Silent(up[bridge], s)
        BY <1>1, <2>1, <2>3, SilentPeer DEF At
      <3> QED BY <2>1, <3>1, <3>2 DEF Followed
    <2> QED BY <2>2, <2>3
  <1>9. Cleared' /\ NoneLeft' /\ Shown'
    <2>1. Cleared' /\ NoneLeft'
      BY <1>1 DEF Cleared, NoneLeft, At
    <2>2. Shown'
      BY <1>1 DEF IInv, Shown, At
    <2> QED BY <2>1, <2>2
  <1> QED BY <1>3, <1>4, <1>5, <1>6, <1>7, <1>8, <1>9 DEF IInv

LEMMA ReadStep == ASSUME IInv, NEW c \in Conns, Read(c) PROVE IInv'
  <1> USE DEF Read, laptopVars, inputVars, history
  <1> DEFINE f == Head(up[c])
  <1>1. /\ up[c] \in Seq(Messages) /\ up[c] # <<>> /\ f \in Messages
        /\ Tail(up[c]) \in Seq(Messages)
    BY HeadTailProperties DEF IInv, Typed, WireOK
  <1>2. /\ frame'[c] = f /\ up'[c] = Tail(up[c])
        /\ \A d \in Conns \ {c} : frame'[d] = frame[d] /\ up'[d] = up[d]
    BY DEF IInv, Typed, WireOK, HandlersOK
  <1>3. PICK pc \in {"greeted", "applying"} :
            GoTo(c, pc) /\ (pc = "greeted" <=> f \in Hellos)
    BY <1>1, Kinds
  <1>4. /\ pc \in Phases /\ pc \in Working /\ handler[c] = "reading" /\ handler'[c] = pc
        /\ handler' \in [Conns -> Phases]
        /\ \A d \in Conns \ {c} : handler'[d] = handler[d]
    <2>1. pc \in Phases /\ pc \in Working
      BY DEF Phases, Working
    <2> QED BY <1>3, <2>1, Gone DEF IInv, At
  <1>5. Typed'
    <2>1. WireOK'
      BY <1>1 DEF IInv, Typed, WireOK
    <2>2. HandlersOK'
      BY <1>1, <1>4 DEF IInv, Typed, HandlersOK
    <2> QED BY <2>1, <2>2 DEF IInv, Typed, LaptopOK, MuxOK, InputsOK, HistoryOK
  <1>6. Dialed' /\ DueHasState' /\ PeerServes' /\ HelloFirst'
    <2>1. handler[c] \notin {"none", "accepted"} /\ pc \notin {"none", "accepted"}
      BY <1>4
    <2> QED BY <1>2, <1>3, <1>4, <2>1, AtWork DEF Serving
  <1>7. InHand'
    BY <1>1, <1>2, <1>3, <1>4 DEF IInv, InHand, At, Messages
  <1>8. AllFollowed'
    <2>0. bridge \in Conns \cup {Nil} /\ spoiled \in BOOLEAN
      BY DEF IInv, Typed, LaptopOK, HistoryOK
    <2>1. CASE c # bridge
      <3>1. Linked' => bridge \in Conns \ {c}
        BY <2>0, <2>1 DEF Linked
      <3>2. Linked' => Linked
        BY DEF Linked
      <3> QED BY <1>2, <1>4, <2>0, <3>1, <3>2, FollowedKept
    <2>2. CASE c = bridge
      <3> SUFFICES ASSUME NEW s \in Sessions, ~due[s], s \notin missed PROVE Followed(s)'
        BY DEF AllFollowed
      <3>1. Followed(s)
        BY DEF IInv, AllFollowed
      <3>2. ASSUME Silent(out, s), Linked
            PROVE  /\ LastSays(Tail(up[c]), s, laptop[s])
                   /\ Silent(up[c], s) <=> Silent(Tail(up[c]), s) /\ ~Mentions(f, s)
                   /\ Silent(Tail(up[c]), s) /\ Mentions(f, s) => Says(f, s) = laptop[s]
        <4>1. LastSays(up[c], s, laptop[s])
          BY <2>2, <3>1, <3>2 DEF Followed
        <4> QED BY <1>1, <4>1, Shortened
      <3>3. InWork(c, s)' <=> Mentions(f, s)
        BY <1>2, <1>4 DEF InWork, Unapplied
      <3>4. ~InWork(c, s)
        BY <1>4 DEF InWork, Unapplied
      <3>5. Linked' <=> Linked
        BY DEF Linked
      <3>6. ASSUME Silent(out, s), Linked, Silent(Tail(up[c]), s)
            PROVE  /\ Mentions(f, s) => Says(f, s) = laptop[s]
                   /\ ~Mentions(f, s) /\ ~spoiled /\ s \notin strayed
                          => Same(proxy[s], laptop[s])
        BY <2>2, <3>1, <3>2, <3>4, <3>6 DEF Followed
      <3>7. LastSays(out, s, laptop[s])
        BY <3>1 DEF Followed
      <3>8. bridge' = c /\ up'[bridge'] = Tail(up[c]) /\ frame'[bridge'] = f
        BY <1>2, <2>2
      <3>9. InWork(bridge, s)' <=> Mentions(f, s)
        BY <2>2, <3>3, <3>8 DEF InWork
      <3> QED BY <3>2, <3>5, <3>6, <3>7, <3>8, <3>9 DEF Followed
    <2> QED BY <2>1, <2>2
  <1>9. Cleared' /\ NoneLeft' /\ Shown'
    <2>1. peer \in Conns \cup {Nil}
      BY DEF IInv, Typed, HandlersOK
    <2> QED BY <1>4, <2>1 DEF IInv, Cleared, NoneLeft, Shown, At
  <1> QED BY <1>5, <1>6, <1>7, <1>8, <1>9 DEF IInv

LEMMA DropForHelloStep == ASSUME IInv, NEW c \in Conns, DropForHello(c) PROVE IInv'
  <1> USE DEF DropForHello, Dropped, laptopVars, wire, inputVars
  <1>1. /\ handler[c] = "greeted" /\ handler'[c] = "syncing" /\ GoTo(c, "syncing")
        /\ handler' \in [Conns -> Phases] /\ "syncing" \in Phases
        /\ \A d \in Conns \ {c} : handler'[d] = handler[d]
        /\ frame[c] \in Hellos
    <2>1. "syncing" \in Phases
      BY DEF Phases
    <2> QED BY <2>1, Gone DEF IInv, InHand, At
  <1>2. \A s \in Sessions : proxy'[s] = Absent
    BY DEF Empty
  <1>3. Typed'
    <2>1. MuxOK'
      BY <1>2, Kinds DEF IInv, Typed, MuxOK, Empty
    <2>2. HandlersOK' /\ HistoryOK'
      BY <1>1 DEF IInv, Typed, HandlersOK, HistoryOK
    <2> QED BY <2>1, <2>2 DEF IInv, Typed, LaptopOK, WireOK, InputsOK
  <1>4. Dialed' /\ DueHasState' /\ PeerServes' /\ HelloFirst'
    <2>1. "syncing" \in Serving
      BY DEF Serving, Working
    <2> QED BY <1>1, <2>1, AtWork
  <1>5. InHand'
    BY <1>1 DEF IInv, InHand, At
  <1>6. AllFollowed'
    <2>1. CASE c # bridge
      <3>1. bridge \in Conns \cup {Nil}
        BY DEF IInv, Typed, LaptopOK
      <3>2. Linked' => Linked /\ handler'[bridge] = handler[bridge]
        BY <1>1, <2>1, <3>1 DEF Linked
      <3> QED BY <2>1, <3>2, FollowedKept
    <2>2. CASE c = bridge
      <3> SUFFICES ASSUME NEW s \in Sessions, ~due[s], s \notin missed PROVE Followed(s)'
        BY DEF AllFollowed
      <3>1. Followed(s)
        BY DEF IInv, AllFollowed
      <3>2. InWork(bridge, s) /\ InWork(bridge, s)'
        BY <1>1, <2>2 DEF InWork, Unapplied, Mentions
      <3>3. Linked' <=> Linked
        BY DEF Linked
      <3> QED BY <3>1, <3>2, <3>3 DEF Followed
    <2> QED BY <2>1, <2>2
  <1>7. Cleared' /\ NoneLeft' /\ Shown'
    <2>1. Cleared' /\ NoneLeft'
      BY <1>2 DEF Cleared, NoneLeft
    <2>2. Shown'
      BY <1>1 DEF IInv, Shown, At
    <2> QED BY <2>1, <2>2
  <1> QED BY <1>3, <1>4, <1>5, <1>6, <1>7 DEF IInv

LEMMA SyncSessionsStep == ASSUME IInv, NEW c \in Conns, SyncSessions(c) PROVE IInv'
  <1> USE DEF SyncSessions, Again, laptopVars, wire, inputVars
  <1> DEFINE told == frame[c].states
  <1>1. /\ handler[c] = "syncing" /\ handler'[c] = "reading" /\ GoTo(c, "reading")
        /\ handler' \in [Conns -> Phases] /\ "reading" \in Phases
        /\ \A d \in Conns \ {c} : handler'[d] = handler[d]
        /\ frame[c] \in Hellos /\ told \in [Sessions -> StateOrNone]
    <2>1. "reading" \in Phases
      BY DEF Phases
    <2>2. frame[c] \in Hellos
      BY DEF IInv, InHand, At
    <2> QED BY <2>1, <2>2, Gone, Kinds DEF IInv, At
  <1>2. /\ \A d \in Conns \ {c} : frame'[d] = frame[d]
        /\ frame' \in [Conns -> Messages \cup {Nil}]
    BY DEF IInv, Typed, HandlersOK
  <1>3. \A s \in Sessions : proxy'[s] = IF Alive(told[s]) THEN told[s] ELSE proxy[s]
    OBVIOUS
  <1>4. Typed'
    <2>1. MuxOK'
      BY <1>1 DEF IInv, Typed, MuxOK
    <2>2. HandlersOK' /\ HistoryOK'
      BY <1>1, <1>2 DEF IInv, Typed, HandlersOK, HistoryOK
    <2> QED BY <2>1, <2>2 DEF IInv, Typed, LaptopOK, WireOK, InputsOK
  <1>5. Dialed' /\ DueHasState' /\ PeerServes' /\ HelloFirst'
    <2>1. "reading" \in Serving
      BY DEF Serving
    <2> QED BY <1>1, <2>1, AtWork
  <1>6. InHand'
    BY <1>1, <1>2 DEF IInv, InHand, At
  <1>7. AllFollowed'
    <2>1. CASE c # bridge
      <3>1. bridge \in Conns \cup {Nil}
        BY DEF IInv, Typed, LaptopOK
      <3>2. Linked' => Linked /\ handler'[bridge] = handler[bridge] /\ frame'[bridge] = frame[bridge]
        BY <1>1, <1>2, <2>1, <3>1 DEF Linked
      <3> QED BY <2>1, <3>2, FollowedKept
    <2>2. CASE c = bridge
      <3> SUFFICES ASSUME NEW s \in Sessions, ~due[s], s \notin missed PROVE Followed(s)'
        BY DEF AllFollowed
      <3>1. Followed(s)
        BY DEF IInv, AllFollowed
      <3>2. InWork(bridge, s) /\ ~InWork(bridge, s)' /\ Says(frame[bridge], s) = told[s]
        BY <1>1, <2>2 DEF InWork, Unapplied, Mentions, Says
      <3>3. Linked' <=> Linked
        BY DEF Linked
      <3>4. ASSUME Silent(out, s), Linked, Silent(up[bridge], s), ~spoiled'
            PROVE  Same(proxy'[s], laptop[s])
        <4>1. told[s] = laptop[s]
          BY <3>1, <3>2, <3>4 DEF Followed
        <4>2. proxy[s] = Absent
          BY <1>1, <2>2, <3>4, SilentPeer DEF IInv, Cleared, At
        <4> QED BY <1>3, <4>1, <4>2, Kinds DEF Same
      <3> QED BY <3>1, <3>2, <3>3, <3>4 DEF Followed
    <2> QED BY <2>1, <2>2
  <1>8. Cleared' /\ NoneLeft' /\ Shown'
    <2>1. Cleared' /\ NoneLeft'
      BY <1>1 DEF Cleared, NoneLeft, At
    <2>2. \A s \in Sessions : /\ proxy[s] # Absent => proxy'[s] # Absent
                              /\ s \in hushed => s \in hushed' \/ proxy'[s] # Absent
      BY <1>3, Kinds
    <2>3. Shown'
      BY <1>1, <2>2 DEF IInv, Shown, At
    <2> QED BY <2>1, <2>3
  <1> QED BY <1>4, <1>5, <1>6, <1>7, <1>8 DEF IInv

LEMMA ApplyUpstreamStep == ASSUME IInv, NEW c \in Conns, ApplyUpstream(c) PROVE IInv'
  <1> USE DEF ApplyUpstream, laptopVars, wire, inputVars
  <1> DEFINE sid == frame[c].sid
             to == frame[c].to
  <1>1. /\ handler[c] = "applying" /\ handler'[c] = "casting" /\ GoTo(c, "casting")
        /\ handler' \in [Conns -> Phases] /\ "casting" \in Phases
        /\ \A d \in Conns \ {c} : handler'[d] = handler[d]
        /\ frame[c] \in Frames /\ frame[c] \notin Hellos /\ sid \in Sessions /\ to \in States
    <2>1. "casting" \in Phases
      BY DEF Phases
    <2>2. frame[c] \in Frames
      BY DEF IInv, InHand, At
    <2> QED BY <2>1, <2>2, Gone, Kinds DEF IInv, At
  <1>2. PICK t \in Matches(sid) :
            /\ proxy' = [proxy EXCEPT ![t] = to]
            /\ strayed' = IF t = sid THEN strayed \ {t} ELSE strayed \cup {t, sid}
    OBVIOUS
  <1>3. /\ t \in Sessions /\ proxy'[t] = to /\ to # Absent
        /\ \A u \in Sessions \ {t} : proxy'[u] = proxy[u]
    <2>1. t \in Sessions
      BY <1>1 DEF Matches
    <2> QED BY <1>1, <1>2, <2>1, Kinds DEF IInv, Typed, MuxOK
  <1>4. Typed'
    <2>1. MuxOK'
      BY <1>1, <1>2 DEF IInv, Typed, MuxOK, StateOrNone
    <2>2. HandlersOK' /\ HistoryOK'
      BY <1>1, <1>2, <1>3 DEF IInv, Typed, HandlersOK, HistoryOK
    <2> QED BY <2>1, <2>2 DEF IInv, Typed, LaptopOK, WireOK, InputsOK
  <1>5. Dialed' /\ DueHasState' /\ PeerServes' /\ HelloFirst'
    <2>1. "casting" \in Serving
      BY DEF Serving, Working
    <2> QED BY <1>1, <2>1, AtWork
  <1>6. InHand'
    BY <1>1 DEF IInv, InHand, At
  <1>7. AllFollowed'
    <2>1. CASE c # bridge
      <3>1. bridge \in Conns \cup {Nil}
        BY DEF IInv, Typed, LaptopOK
      <3>2. Linked' => Linked /\ handler'[bridge] = handler[bridge]
        BY <1>1, <2>1, <3>1 DEF Linked
      <3> QED BY <2>1, <3>2, FollowedKept
    <2>2. CASE c = bridge
      <3> SUFFICES ASSUME NEW s \in Sessions, ~due[s], s \notin missed PROVE Followed(s)'
        BY DEF AllFollowed
      <3>1. Followed(s)
        BY DEF IInv, AllFollowed
      <3>2. /\ InWork(bridge, s) <=> s = sid
            /\ ~InWork(bridge, s)'
            /\ s = sid => Says(frame[bridge], s) = to
        BY <1>1, <2>2 DEF InWork, Unapplied, Mentions, Says
      <3>3. Linked' <=> Linked
        BY DEF Linked
      <3>4. ASSUME Silent(out, s), Linked, Silent(up[bridge], s), ~spoiled', s \notin strayed'
            PROVE  Same(proxy'[s], laptop[s])
        <4>1. CASE s = sid
          <5>1. to = laptop[s]
            BY <3>1, <3>2, <3>4, <4>1 DEF Followed
          <5>2. t = sid
            BY <1>2, <3>4, <4>1
          <5> QED BY <1>3, <4>1, <5>1, <5>2 DEF Same
        <4>2. CASE s # sid
          <5>1. s # t /\ s \notin strayed
            BY <1>2, <3>4, <4>2
          <5>2. Same(proxy[s], laptop[s])
            BY <3>1, <3>2, <3>4, <4>2, <5>1 DEF Followed
          <5> QED BY <1>3, <5>1, <5>2
        <4> QED BY <4>1, <4>2
      <3> QED BY <3>1, <3>2, <3>3, <3>4 DEF Followed
    <2> QED BY <2>1, <2>2
  <1>8. Cleared' /\ NoneLeft' /\ Shown'
    <2>1. Cleared' /\ NoneLeft'
      BY <1>1 DEF Cleared, NoneLeft, At
    <2>2. \A s \in Sessions : /\ proxy[s] # Absent => proxy'[s] # Absent
                              /\ s \in strayed => s \in strayed' \/ proxy'[s] # Absent
      BY <1>2, <1>3
    <2>3. Shown'
      BY <1>1, <2>2 DEF IInv, Shown, At
    <2> QED BY <2>1, <2>3
  <1> QED BY <1>4, <1>5, <1>6, <1>7, <1>8 DEF IInv

LEMMA CastStep == ASSUME IInv, NEW c \in Conns, Cast(c) PROVE IInv'
  <1> USE DEF Cast, Again, laptopVars, wire, inputVars
  <1> DEFINE sid == frame[c].sid
             to == frame[c].to
  <1>1. /\ handler[c] = "casting" /\ handler'[c] = "reading" /\ GoTo(c, "reading")
        /\ handler' \in [Conns -> Phases] /\ "reading" \in Phases
        /\ \A d \in Conns \ {c} : handler'[d] = handler[d]
        /\ sid \in Sessions /\ to \in States
    <2>1. "reading" \in Phases
      BY DEF Phases
    <2>2. frame[c] \in Frames
      BY DEF IInv, InHand, At
    <2> QED BY <2>1, <2>2, Gone, Kinds DEF IInv, At
  <1>2. /\ \A d \in Conns \ {c} : frame'[d] = frame[d]
        /\ frame' \in [Conns -> Messages \cup {Nil}]
    BY DEF IInv, Typed, HandlersOK
  <1>3. /\ \A u \in Sessions \ {sid} : web'[u] = web[u]
        /\ web' \in [Sessions -> StateOrNone]
    BY <1>1 DEF IInv, Typed, MuxOK, StateOrNone
  <1>4. Typed'
    <2>1. HandlersOK' /\ HistoryOK'
      BY <1>1, <1>2 DEF IInv, Typed, HandlersOK, HistoryOK
    <2> QED BY <1>3, <2>1 DEF IInv, Typed, LaptopOK, WireOK, MuxOK, InputsOK
  <1>5. Dialed' /\ DueHasState' /\ PeerServes' /\ HelloFirst'
    <2>1. "reading" \in Serving
      BY DEF Serving
    <2> QED BY <1>1, <2>1, AtWork
  <1>6. InHand'
    BY <1>1, <1>2 DEF IInv, InHand, At
  <1>7. AllFollowed'
    <2>1. bridge \in Conns \cup {Nil} /\ spoiled \in BOOLEAN
      BY DEF IInv, Typed, LaptopOK, HistoryOK
    <2>2. ASSUME Linked'
          PROVE  \/ handler'[bridge] = handler[bridge] /\ frame'[bridge] = frame[bridge]
                 \/ handler[bridge] \notin Unapplied /\ handler'[bridge] \notin Unapplied
      BY <1>1, <1>2, <2>1, <2>2 DEF Linked, Unapplied
    <2>3. Linked' => Linked
      BY DEF Linked
    <2> QED BY <2>1, <2>2, <2>3, FollowedKept
  <1>8. Cleared' /\ NoneLeft' /\ Shown'
    <2>1. peer \in Conns \cup {Nil}
      BY DEF IInv, Typed, HandlersOK
    <2>2. Cleared' /\ NoneLeft'
      BY <1>1, <2>1 DEF IInv, Cleared, NoneLeft, At
    <2>3. Shown'
      BY <1>1, <1>3 DEF IInv, Shown, At
    <2> QED BY <2>2, <2>3
  <1> QED BY <1>4, <1>5, <1>6, <1>7, <1>8 DEF IInv

LEMMA EndReadStep == ASSUME IInv, NEW c \in Conns, EndRead(c) PROVE IInv'
  <1> USE DEF EndRead, laptopVars, inputVars, history
  <1>1. PICK pc \in {"dropping", "done"} :
            GoTo(c, pc) /\ (peer = c => pc = "dropping")
    BY DEF IsLast
  <1>2. /\ handler[c] = "reading" /\ handler'[c] = pc /\ pc \in Phases
        /\ handler' \in [Conns -> Phases]
        /\ \A d \in Conns \ {c} : handler'[d] = handler[d]
        /\ link[c] # "open" /\ link'[c] = "closed"
        /\ \A d \in Conns \ {c} : link'[d] = link[d]
        /\ peer \in Conns \cup {Nil} /\ bridge \in Conns \cup {Nil}
    <2>1. pc \in Phases
      BY DEF Phases
    <2> QED BY <1>1, <2>1, Gone DEF IInv, Typed, WireOK, HandlersOK, LaptopOK, At
  <1>3. Typed'
    BY <1>2 DEF IInv, Typed, LaptopOK, WireOK, HandlersOK, MuxOK, InputsOK, HistoryOK
  <1>4. Dialed'
    <2>1. \A d \in Conns : d > dialed => d # c
      BY <1>2 DEF IInv, Dialed
    <2> QED BY <1>2, <2>1 DEF IInv, Dialed
  <1>5. DueHasState' /\ InHand' /\ HelloFirst'
    BY <1>2 DEF IInv, DueHasState, InHand, HelloFirst, At
  <1>6. PeerServes'
    BY <1>2 DEF IInv, PeerServes, At
  <1>7. AllFollowed'
    <2>1. Linked' => Linked /\ bridge \in Conns \ {c}
      BY <1>2 DEF Linked
    <2>2. spoiled \in BOOLEAN
      BY DEF IInv, Typed, HistoryOK
    <2> QED BY <1>2, <2>1, <2>2, FollowedKept
  <1>8. Cleared' /\ NoneLeft' /\ Shown'
    <2>1. Cleared'
      BY <1>2 DEF IInv, Cleared, At
    <2>2. NoneLeft'
      BY <1>1, <1>2 DEF IInv, NoneLeft, At
    <2>3. Shown'
      BY <1>2 DEF IInv, Shown, At
    <2> QED BY <2>1, <2>2, <2>3
  <1> QED BY <1>3, <1>4, <1>5, <1>6, <1>7, <1>8 DEF IInv

\* The clean-up when the peer has gone.  Its handler serves nobody any more.
Leaving == {"dropping", "clearing", "telling", "done"}

LEMMA LeavingStep ==
    ASSUME IInv, NEW c \in Conns, NEW pc \in Leaving, GoTo(c, pc),
           handler[c] \in Leaving \ {"done"},
           UNCHANGED <<laptopVars, wire, peer, frame, inputVars, missed, strayed>>,
           views' \in [Conns -> SUBSET Sessions], MuxOK', HistoryOK',
           spoiled' \/ (~spoiled /\ (peer # Nil => proxy' = proxy)),
           NoneLeft', Shown'
    PROVE  IInv'
  <1> USE DEF laptopVars, wire, inputVars
  <1>1. /\ handler'[c] = pc /\ pc \in Phases /\ handler' \in [Conns -> Phases]
        /\ \A d \in Conns \ {c} : handler'[d] = handler[d]
        /\ peer # c /\ peer \in Conns \cup {Nil} /\ bridge \in Conns \cup {Nil}
    <2>1. pc \in Phases
      BY DEF Phases, Leaving
    <2>2. peer # c
      BY DEF IInv, PeerServes, Serving, Working, Leaving
    <2> QED BY <2>1, <2>2, Gone DEF IInv, Typed, HandlersOK, LaptopOK
  <1>2. Typed'
    BY <1>1 DEF IInv, Typed, LaptopOK, WireOK, HandlersOK, InputsOK
  <1>3. Dialed' /\ DueHasState' /\ PeerServes' /\ HelloFirst'
    <2>1. handler[c] \notin {"none", "accepted"} /\ pc \notin {"none", "accepted"}
      BY DEF Leaving
    <2> QED BY <1>1, <2>1, AtWork
  <1>4. InHand'
    <2>1. pc \notin {"greeted", "syncing", "applying", "casting"}
      BY DEF Leaving
    <2> QED BY <1>1, <2>1 DEF IInv, InHand, At
  <1>5. AllFollowed'
    <2>1. Linked' => Linked /\ bridge # Nil
      BY DEF Linked
    <2>2. handler[c] \notin Unapplied /\ pc \notin Unapplied
      BY DEF Leaving, Unapplied
    <2>3. ASSUME Linked'
          PROVE  \/ handler'[bridge] = handler[bridge] /\ frame'[bridge] = frame[bridge]
                 \/ handler[bridge] \notin Unapplied /\ handler'[bridge] \notin Unapplied
      BY <1>1, <2>1, <2>2, <2>3
    <2> QED BY <2>1, <2>3, FollowedKept
  <1>6. Cleared'
    BY <1>1 DEF IInv, Cleared, At
  <1> QED BY <1>2, <1>3, <1>4, <1>5, <1>6 DEF IInv

LEMMA TakeViewsStep == ASSUME IInv, NEW c \in Conns, TakeViews(c) PROVE IInv'
  <1> USE DEF TakeViews
  <1>1. /\ handler[c] = "dropping" /\ handler'[c] = "clearing"
        /\ \A d \in Conns \ {c} : handler'[d] = handler[d] /\ views'[d] = views[d]
        /\ views' \in [Conns -> SUBSET Sessions]
    <2>1. "clearing" \in Phases
      BY DEF Phases
    <2> QED BY <2>1, Gone DEF IInv, Typed, HandlersOK, At
  <1>2. MuxOK' /\ HistoryOK' /\ spoiled \in BOOLEAN
    BY DEF IInv, Typed, MuxOK, HistoryOK, history
  <1>3. NoneLeft'
    BY <1>1 DEF IInv, NoneLeft, At, history
  <1>4. Shown'
    BY <1>1 DEF IInv, Shown, At, history
  <1> QED BY <1>1, <1>2, <1>3, <1>4, LeavingStep DEF Leaving, history, At

LEMMA ClearStep == ASSUME IInv, NEW c \in Conns, Clear(c) PROVE IInv'
  <1> USE DEF Clear
  <1>1. /\ handler[c] = "clearing" /\ handler'[c] = "telling"
        /\ \A d \in Conns \ {c} : handler'[d] = handler[d]
        /\ views \in [Conns -> SUBSET Sessions]
    <2>1. "telling" \in Phases
      BY DEF Phases
    <2> QED BY <2>1, Gone DEF IInv, Typed, HandlersOK, At
  <1>2. \A s \in Sessions : proxy'[s] = Absent
    BY DEF Empty
  <1>3. MuxOK' /\ HistoryOK' /\ spoiled \in BOOLEAN
    BY Kinds DEF IInv, Typed, MuxOK, HistoryOK, Empty
  <1>4. NoneLeft'
    BY <1>2 DEF NoneLeft
  <1>5. Shown'
    BY <1>1 DEF IInv, Shown, At
  <1> QED BY <1>1, <1>3, <1>4, <1>5, LeavingStep DEF Leaving, At

LEMMA TellStep == ASSUME IInv, NEW c \in Conns, Tell(c) PROVE IInv'
  <1> USE DEF Tell, ToTell
  <1>1. /\ handler[c] = "telling" /\ spoiled \in BOOLEAN
        /\ handler \in [Conns -> Phases] /\ views \in [Conns -> SUBSET Sessions]
        /\ web \in [Sessions -> StateOrNone]
    BY DEF IInv, Typed, HandlersOK, MuxOK, HistoryOK, At
  <1>2. ASSUME NEW s \in views[c], UNCHANGED handler,
               web' = [web EXCEPT ![s] = "DEAD"],
               views' = [views EXCEPT ![c] = @ \ {s}],
               hushed' = hushed \ {s}
        PROVE  IInv'
    <2>1. s \in Sessions /\ GoTo(c, "telling")
      BY <1>1, <1>2 DEF GoTo
    <2>2. /\ web'[s] = "DEAD" /\ \A u \in Sessions \ {s} : web'[u] = web[u]
          /\ views' \in [Conns -> SUBSET Sessions] /\ web' \in [Sessions -> StateOrNone]
          /\ \A d \in Conns, u \in Sessions \ {s} : u \in views[d] => u \in views'[d]
      BY <1>1, <1>2, <2>1, Kinds DEF StateOrNone
    <2>3. MuxOK' /\ HistoryOK'
      BY <1>2, <2>2 DEF IInv, Typed, MuxOK, HistoryOK
    <2>4. NoneLeft'
      BY <1>2 DEF IInv, NoneLeft, At
    <2>5. Shown'
      <3>1. ~Alive("DEAD")
        BY DEF Alive
      <3> QED BY <1>2, <2>2, <3>1 DEF IInv, Shown, At
    <2> QED BY <1>1, <2>1, <2>2, <2>3, <2>4, <2>5, LeavingStep DEF Leaving
  <1>3. ASSUME views[c] = {}, GoTo(c, "done"), UNCHANGED <<web, views, hushed>> PROVE IInv'
    <2>1. handler'[c] = "done" /\ \A d \in Conns \ {c} : handler'[d] = handler[d]
      BY <1>1, <1>3 DEF GoTo
    <2>2. MuxOK' /\ HistoryOK'
      BY <1>3 DEF IInv, Typed, MuxOK, HistoryOK
    <2>3. NoneLeft'
      BY <1>1, <1>3, <2>1 DEF IInv, NoneLeft, At
    <2>4. Shown'
      BY <1>1, <1>3, <2>1 DEF IInv, Shown, At
    <2> QED BY <1>1, <1>3, <2>2, <2>3, <2>4, LeavingStep DEF Leaving
  <1> QED BY <1>2, <1>3

(***************************************************************************)
(* The theorems.                                                           *)
(***************************************************************************)

LEMMA NextIInv == IInv /\ [Next]_vars => IInv'
  <1> SUFFICES ASSUME IInv, [Next]_vars PROVE IInv'
    OBVIOUS
  <1>1. CASE UNCHANGED vars
    <2>1. UNCHANGED <<laptopVars, wire, proxyVars, inputVars, history>>
      BY <1>1 DEF vars
    <2>2. Typed'
      BY <2>1 DEF laptopVars, wire, proxyVars, inputVars, history, IInv, Typed, LaptopOK,
                  WireOK, HandlersOK, MuxOK, InputsOK, HistoryOK
    <2>3. AllFollowed'
      BY <2>1 DEF laptopVars, wire, proxyVars, history, IInv, AllFollowed, Followed, Linked,
                  InWork
    <2>4. Dialed' /\ DueHasState' /\ InHand' /\ PeerServes' /\ HelloFirst'
      BY <2>1 DEF laptopVars, wire, proxyVars, IInv, Dialed, DueHasState, InHand, PeerServes,
                  HelloFirst, At
    <2>5. Cleared' /\ NoneLeft' /\ Shown'
      BY <2>1 DEF proxyVars, history, IInv, Cleared, NoneLeft, Shown, At
    <2> QED BY <2>2, <2>3, <2>4, <2>5 DEF IInv
  <1>2. CASE Laptop
    BY <1>2, ChangeStep, MirrorStep, DialStep, SendStep, LinkSteps, RestartStep DEF Laptop
  <1>3. ASSUME NEW c \in Conns, Handle(c) PROVE IInv'
    BY <1>3, AttachStep, ReadStep, DropForHelloStep, SyncSessionsStep, ApplyUpstreamStep,
       CastStep, EndReadStep, TakeViewsStep, ClearStep, TellStep DEF Handle
  <1>4. ASSUME NEW c \in Conns, Break(c) PROVE IInv'
    BY <1>4, BreakStep
  <1>5. CASE \E i \in Inputs : Forward(i)
    BY <1>5, LinkSteps
  <1> QED BY <1>1, <1>2, <1>3, <1>4, <1>5 DEF Next

LEMMA InvHolds == Spec => []IInv
  BY InitIInv, NextIInv, PTL DEF Spec

\* Every variable keeps its type, and Bridge.out its capacity.
THEOREM TypeCorrect == Spec => []TypeOK
  <1>1. IInv => TypeOK
    BY TypedIsTyped DEF IInv
  <1> QED BY <1>1, InvHolds, PTL

LEMMA FollowedIsEqual == IInv => QuietMeansEqual
  <1> SUFFICES ASSUME IInv, Quiet, ~spoiled, NEW s \in Sessions \ (missed \cup strayed)
               PROVE  Same(proxy[s], laptop[s])
    BY DEF QuietMeansEqual
  <1>1. Followed(s)
    BY DEF Quiet, IInv, AllFollowed
  <1>2. Silent(out, s) /\ Linked /\ Silent(up[bridge], s)
    BY Short DEF Quiet, Linked
  <1>3. ~InWork(bridge, s)
    BY DEF Quiet, At, InWork, Unapplied
  <1> QED BY <1>1, <1>2, <1>3 DEF Followed

\* The proxy's mirror is right whenever nothing is under way, after any number
\* of broken links, restarts and replaced connections (cloud.go's Mirror and
\* session, server.go's ServeHTTP, the mux's DropAll and ApplyUpstream), unless
\* a frame was dropped or strayed, or a handler of an older connection
\* interfered.
THEOREM QuietIsEqual == Spec => []QuietMeansEqual
  BY InvHolds, FollowedIsEqual, PTL

LEMMA NoneLeftIsEmpty == IInv => GoneMeansEmpty
  <1> SUFFICES ASSUME IInv, peer = Nil, \A c \in Conns : Settled(c), ~spoiled,
                      NEW s \in Sessions
               PROVE  proxy[s] = Absent /\ (Alive(web[s]) => s \in hushed \cup strayed)
    BY DEF GoneMeansEmpty
  <1>1. \A c \in Conns : ~At(c, "dropping") /\ ~At(c, "clearing") /\ ~At(c, "telling")
    BY DEF Settled, At
  <1>2. proxy[s] = Absent
    BY <1>1 DEF IInv, NoneLeft
  <1> QED BY <1>1, <1>2 DEF IInv, Shown

\* DropSyncedSessions leaves neither a session in the proxy's mux nor one that
\* the web clients still take for alive.
THEOREM GoneIsEmpty == Spec => []GoneMeansEmpty
  BY InvHolds, NoneLeftIsEmpty, PTL
=============================================================================

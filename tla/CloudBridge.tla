---------------------------- MODULE CloudBridge ---------------------------
(***************************************************************************)
(* The cloud reverse channel: the Bridge of a laptop's relay               *)
(* (src/host/internal/cloud/cloud.go), the PeerServer of the proxy         *)
(* (cloud/server.go) and what the proxy's hub and mux do with the frames   *)
(* (sink/ws.go, mux/mux.go).  The laptop's sessions change; every change   *)
(* is mirrored up as one frame; every connection starts with a relay_hello *)
(* that carries all sessions.  Connections break, the laptop's relay is    *)
(* restarted, a new connection replaces the old one while the handler of   *)
(* the old one still runs.                                                 *)
(*                                                                         *)
(* A frame is <<session, state>>, a hello the function of all states.      *)
(* thread_started frames name no session and change nothing at the proxy;  *)
(* snippets and labels are left out.  A session's changes are mirrored in  *)
(* the order they happen (module Mux has the races of several producers).  *)
(***************************************************************************)
EXTENDS Integers, Sequences, FiniteSets

CONSTANTS
    Sessions,    \* the laptop's session ids
    Thread,      \* the thread of a session
    MaxConns,    \* connections the laptop makes (bound)
    Inputs,      \* messages web clients send down
    Buffer,      \* capacity of Bridge.out (256)
    MaxFlight,   \* frames on the wire of a connection (bound)
    MaxChanges,  \* session changes at the laptop (bound)
    Castings,    \* the cases explored: the sessions there may be, and how many
                 \* connections
    Nil

States == {"BUSY", "IDLE", "DEAD"}
Absent == "absent"
Alive(st) == st \in {"BUSY", "IDLE"}

Conns == 1..MaxConns

ASSUME BoundAssumption ==
    /\ MaxConns \in Nat /\ MaxChanges \in Nat
    /\ Buffer \in Nat \ {0} /\ MaxFlight \in Nat \ {0}
    /\ Castings \subseteq [sessions : SUBSET Sessions, conns : Conns]
ASSUME NilAssumption == Nil \notin Conns /\ Nil \notin Sessions

VARIABLES
    cast,     \* the case that this behaviour is of
    laptop,   \* the laptop's mux: session -> state, or Absent
    due,      \* changes whose broadcast has not reached Mirror yet: session -> BOOLEAN
    changes,  \* how many changes there were (bound)
    out,      \* Bridge.out
    bridge,   \* Bridge.conn: a connection or Nil
    dialed,   \* connections made so far
    link,     \* each connection: "none", "open", "broken" or "closed" (by the proxy)
    up,       \* frames on the wire to the proxy
    down,     \* messages on the wire to the laptop
    peer,     \* PeerServer.conn: a connection or Nil
    handler,  \* PeerServer.ServeHTTP of each connection: where it is
    frame,    \* the frame that handler works on
    views,    \* the views DropAll gave to that handler
    proxy,    \* the proxy's mux: session -> state, or Absent
    web,      \* the last lifecycle broadcast to the web clients: session -> state
    input,    \* fate of an input: "none", "sent" or "failed"
    via,      \* the connection an input was written to, or Nil
    arrived,  \* history: inputs the laptop delivered
    missed,   \* history: sessions whose newest frame was dropped by Mirror
    spoiled,  \* history: a handler that is not the peer's changed the mux, or told
              \*   the web clients of a change, since the last hello
    hushed,   \* history: sessions dropped without telling the web clients: by a
              \*   hello, when added between the two sections of DropAll, or
              \*   between their last frame's ApplyUpstream and its Broadcast
    strayed   \* history: sessions one of whose frames went to another session of
              \*   the thread, or that got such a frame, since their own last one

laptopVars == <<cast, laptop, due, changes, out, bridge, dialed>>
wire == <<link, up, down>>
proxyVars == <<peer, handler, frame, views, proxy, web>>
inputVars == <<input, via, arrived>>
history == <<missed, spoiled, hushed, strayed>>
vars == <<laptopVars, wire, proxyVars, inputVars, history>>

IsHello(f) == f.type = "hello"
Hello == [type |-> "hello", states |-> laptop]
Frame(s) == [type |-> "state", sid |-> s, to |-> laptop[s]]

Init ==
    /\ cast \in Castings
    /\ laptop = [s \in Sessions |-> Absent]
    /\ due = [s \in Sessions |-> FALSE]
    /\ changes = 0
    /\ out = <<>> /\ bridge = Nil /\ dialed = 0
    /\ link = [c \in Conns |-> "none"]
    /\ up = [c \in Conns |-> <<>>] /\ down = [c \in Conns |-> <<>>]
    /\ peer = Nil
    /\ handler = [c \in Conns |-> "none"]
    /\ frame = [c \in Conns |-> Nil]
    /\ views = [c \in Conns |-> {}]
    /\ proxy = [s \in Sessions |-> Absent]
    /\ web = [s \in Sessions |-> Absent]
    /\ input = [i \in Inputs |-> "none"] /\ via = [i \in Inputs |-> Nil]
    /\ arrived = {}
    /\ missed = {} /\ spoiled = FALSE /\ hushed = {} /\ strayed = {}

(***************************************************************************)
(* The laptop.                                                             *)
(***************************************************************************)

\* A session appears, moves on or dies ...
Change(s, st) ==
    /\ s \in cast.sessions /\ changes < MaxChanges
    /\ ~due[s] /\ laptop[s] # st
    /\ laptop[s] \in {Absent, "DEAD"} => Alive(st)
    /\ laptop' = [laptop EXCEPT ![s] = st]
    /\ due' = [due EXCEPT ![s] = TRUE]
    /\ changes' = changes + 1
    /\ UNCHANGED <<cast, out, bridge, dialed, wire, proxyVars, inputVars, history>>

\* ... and Hub.Broadcast hands the frame to Mirror, which drops it when the
\* buffer is full.
FitsAlways(frames) == TRUE  \* fault: the buffer has no limit
Fits(frames) == Len(frames) < Buffer
Mirror(s) ==
    /\ due[s]
    /\ due' = [due EXCEPT ![s] = FALSE]
    /\ out' = IF Fits(out) THEN Append(out, Frame(s)) ELSE out
    /\ missed' = IF Fits(out) THEN missed \ {s} ELSE missed \cup {s}
    /\ UNCHANGED <<cast, laptop, changes, bridge, dialed, wire, proxyVars, inputVars,
                   spoiled, hushed, strayed>>

\* A session that is still buffered is not repaired by a hello: its old frame
\* goes up after it.
Repaired == {s \in missed : \A i \in 1..Len(out) : out[i].sid # s}

FirstFrames == <<Hello>>

\* Run and the head of session: dial, keep the connection, send the snapshot.
Dial ==
    /\ bridge = Nil /\ dialed < cast.conns
    /\ dialed' = dialed + 1
    /\ bridge' = dialed + 1
    /\ link' = [link EXCEPT ![dialed + 1] = "open"]
    /\ up' = [up EXCEPT ![dialed + 1] = FirstFrames]
    /\ handler' = [handler EXCEPT ![dialed + 1] = "accepted"]
    /\ missed' = missed \ Repaired
    /\ UNCHANGED <<cast, laptop, due, changes, out, down, peer, frame, views, proxy, web,
                   inputVars, spoiled, hushed, strayed>>

\* The writer: a frame leaves the buffer before it is written, so a failed
\* write loses it.
Send ==
    /\ bridge # Nil /\ out # <<>>
    /\ out' = Tail(out)
    /\ \/ /\ link[bridge] = "open" /\ Len(up[bridge]) < MaxFlight
          /\ up' = [up EXCEPT ![bridge] = Append(@, Head(out))]
          /\ UNCHANGED <<bridge, down>>
       \/ /\ link[bridge] # "open"
          /\ bridge' = Nil
          /\ down' = [down EXCEPT ![bridge] = <<>>]
          /\ UNCHANGED up
    /\ UNCHANGED <<cast, laptop, due, changes, dialed, link, proxyVars, inputVars, history>>

\* The reader fails, the session ends; Run dials again after the backoff.
EndSession ==
    /\ bridge # Nil /\ link[bridge] # "open"
    /\ bridge' = Nil
    /\ down' = [down EXCEPT ![bridge] = <<>>]
    /\ UNCHANGED <<cast, laptop, due, changes, out, dialed, link, up, proxyVars, inputVars,
                   history>>

DeliverUnset(i) == {}  \* fault: the configuration has no Deliver
Delivers(i) == {i}

\* handleDownstream.
Receive ==
    /\ bridge # Nil /\ down[bridge] # <<>>
    /\ arrived' = arrived \cup Delivers(Head(down[bridge]))
    /\ down' = [down EXCEPT ![bridge] = Tail(@)]
    /\ UNCHANGED <<laptopVars, link, up, proxyVars, input, via, history>>

\* The relay on the laptop is restarted: the mux, the buffer and the
\* connection are gone.
Restart ==
    /\ changes < MaxChanges
    /\ laptop # [s \in Sessions |-> Absent]
    /\ laptop' = [s \in Sessions |-> Absent]
    /\ due' = [s \in Sessions |-> FALSE]
    /\ changes' = changes + 1
    /\ out' = <<>>
    /\ bridge' = Nil
    /\ link' = [c \in Conns |-> IF c = bridge /\ link[c] = "open" THEN "broken" ELSE link[c]]
    /\ down' = [c \in Conns |-> IF c = bridge THEN <<>> ELSE down[c]]
    /\ missed' = {}
    /\ UNCHANGED <<cast, dialed, up, proxyVars, inputVars, spoiled, hushed, strayed>>

\* The network gives a connection up, with some of what is on the wire.
Break(c) ==
    /\ link[c] = "open"
    /\ link' = [link EXCEPT ![c] = "broken"]
    /\ \E n \in 0..Len(up[c]) : up' = [up EXCEPT ![c] = SubSeq(@, 1, n)]
    /\ \E n \in 0..Len(down[c]) : down' = [down EXCEPT ![c] = SubSeq(@, 1, n)]
    /\ UNCHANGED <<laptopVars, proxyVars, inputVars, history>>

(***************************************************************************)
(* The proxy: PeerServer.ServeHTTP, one goroutine per connection.          *)
(***************************************************************************)

At(c, pc) == handler[c] = pc
GoTo(c, pc) == handler' = [handler EXCEPT ![c] = pc]

Leave(c) == GoTo(c, "done")  \* fault: the loop ends after the first frame
Again(c) == GoTo(c, "reading")

\* A new peer closes the old one.
Attach(c) ==
    /\ At(c, "accepted") /\ GoTo(c, "reading")
    /\ link' = IF peer = Nil THEN link ELSE [link EXCEPT ![peer] = "closed"]
    /\ up' = IF peer = Nil THEN up ELSE [up EXCEPT ![peer] = <<>>]
    /\ peer' = c
    /\ UNCHANGED <<laptopVars, down, frame, views, proxy, web, inputVars, history>>

Read(c) ==
    /\ At(c, "reading") /\ link[c] \in {"open", "broken"} /\ up[c] # <<>>
    /\ frame' = [frame EXCEPT ![c] = Head(up[c])]
    /\ up' = [up EXCEPT ![c] = Tail(@)]
    /\ GoTo(c, IF IsHello(Head(up[c])) THEN "greeted" ELSE "applying")
    /\ UNCHANGED <<laptopVars, link, down, peer, views, proxy, web, inputVars, history>>

Empty == [s \in Sessions |-> Absent]

Kept == proxy  \* fault: a hello is merged into what is there
Dropped == Empty

\* ApplyRelayHello of a proxy: DropAll, whose views it does not look at ...
DropForHello(c) ==
    /\ At(c, "greeted") /\ GoTo(c, "syncing")
    /\ proxy' = Dropped
    /\ hushed' = hushed \cup strayed \cup {s \in Sessions : proxy[s] # Absent}
    /\ strayed' = {}
    /\ spoiled' = (c # peer)
    /\ UNCHANGED <<laptopVars, wire, peer, frame, views, web, inputVars, missed>>

\* ... then SyncSessions, which skips the dead.  Neither broadcasts.
SyncSessions(c) ==
    /\ At(c, "syncing") /\ Again(c)
    /\ proxy' = [s \in Sessions |->
                   IF Alive(frame[c].states[s]) THEN frame[c].states[s] ELSE proxy[s]]
    /\ hushed' = {s \in hushed : ~Alive(frame[c].states[s])}
    /\ frame' = [frame EXCEPT ![c] = Nil]
    /\ spoiled' = (spoiled \/ c # peer)
    /\ UNCHANGED <<laptopVars, wire, peer, views, web, inputVars, missed, strayed>>

\* sessionForUpstreamLocked: the session of that id, else the best live one of
\* the thread (any of them may have the latest event), else a new one.
Matches(s) ==
    LET others == {u \in Sessions : Thread[u] = Thread[s] /\ Alive(proxy[u])}
    IN  IF proxy[s] # Absent \/ others = {} THEN {s} ELSE others

\* ApplyUpstreamBroadcast: ApplyUpstream under the mux's lock ...
ApplyUpstream(c) ==
    /\ At(c, "applying") /\ GoTo(c, "casting")
    /\ \E s \in Matches(frame[c].sid) :
        /\ proxy' = [proxy EXCEPT ![s] = frame[c].to]
        /\ strayed' = IF s = frame[c].sid THEN strayed \ {s}
                      ELSE strayed \cup {s, frame[c].sid}
    /\ spoiled' = (spoiled \/ c # peer)
    /\ UNCHANGED <<laptopVars, wire, peer, frame, views, web, inputVars, missed, hushed>>

\* ... and Broadcast to the web clients.
Cast(c) ==
    /\ At(c, "casting") /\ Again(c)
    /\ web' = [web EXCEPT ![frame[c].sid] = frame[c].to]
    /\ hushed' = IF proxy[frame[c].sid] = Absent THEN hushed \cup {frame[c].sid}
                                                 ELSE hushed \ {frame[c].sid}
    /\ frame' = [frame EXCEPT ![c] = Nil]
    /\ spoiled' = (spoiled \/ c # peer)
    /\ UNCHANGED <<laptopVars, wire, peer, views, proxy, inputVars, missed, strayed>>

IsLast(c) == peer = c

\* The read fails.  Whether this was the active peer is decided under the
\* lock; what follows from it is done without.
EndRead(c) ==
    /\ At(c, "reading")
    /\ link[c] = "closed" \/ (link[c] = "broken" /\ up[c] = <<>>)
    /\ GoTo(c, IF IsLast(c) THEN "dropping" ELSE "done")
    /\ peer' = IF peer = c THEN Nil ELSE peer
    /\ link' = [link EXCEPT ![c] = "closed"]
    /\ UNCHANGED <<laptopVars, up, down, frame, views, proxy, web, inputVars, history>>

\* OnDisconnect is DropSyncedSessions: DropAll takes the views and clears the
\* mux in two critical sections, then each view is announced as ended.
TakeViews(c) ==
    /\ At(c, "dropping") /\ GoTo(c, "clearing")
    /\ views' = [views EXCEPT ![c] = {s \in Sessions : proxy[s] # Absent}]
    /\ UNCHANGED <<laptopVars, wire, peer, frame, proxy, web, inputVars, history>>

Clear(c) ==
    /\ At(c, "clearing") /\ GoTo(c, "telling")
    /\ proxy' = Empty
    /\ spoiled' = (spoiled \/ peer # Nil)
    /\ hushed' = hushed \cup {s \in Sessions : proxy[s] # Absent /\ s \notin views[c]}
    /\ UNCHANGED <<laptopVars, wire, peer, frame, views, web, inputVars, missed, strayed>>

TellNobody(c) == {}  \* fault: the web clients are not told
ToTell(c) == views[c]

Tell(c) ==
    /\ At(c, "telling")
    /\ \/ \E s \in ToTell(c) :
            /\ web' = [web EXCEPT ![s] = "DEAD"]
            /\ views' = [views EXCEPT ![c] = @ \ {s}]
            /\ hushed' = hushed \ {s}
            /\ UNCHANGED handler
       \/ /\ ToTell(c) = {} /\ GoTo(c, "done")
          /\ UNCHANGED <<web, views, hushed>>
    /\ UNCHANGED <<laptopVars, wire, peer, frame, proxy, inputVars, missed, spoiled,
                   strayed>>

\* tryCloudForward for a web client: SendInput writes to the peer.  On a broken
\* connection the write may go into a socket buffer all the same.  Whatever is
\* not forwarded is tried locally, where a proxy has no endpoint.
SendInput(i) ==
    /\ via' = [via EXCEPT ![i] = peer]
    /\ down' = IF link[peer] = "open" THEN [down EXCEPT ![peer] = Append(@, i)] ELSE down

Forward(i) ==
    /\ input[i] = "none"
    /\ \/ /\ peer # Nil
          /\ SendInput(i)
          /\ input' = [input EXCEPT ![i] = "sent"]
       \/ /\ ~(peer # Nil /\ link[peer] # "broken")
          /\ input' = [input EXCEPT ![i] = "failed"]
          /\ UNCHANGED <<via, down>>
    /\ UNCHANGED <<laptopVars, link, up, proxyVars, arrived, history>>

Laptop ==
    \/ \E s \in Sessions, st \in States : Change(s, st)
    \/ \E s \in Sessions : Mirror(s)
    \/ Dial \/ Send \/ EndSession \/ Receive \/ Restart

Handle(c) ==
    \/ Attach(c) \/ Read(c) \/ DropForHello(c) \/ SyncSessions(c) \/ ApplyUpstream(c)
    \/ Cast(c) \/ EndRead(c) \/ TakeViews(c) \/ Clear(c) \/ Tell(c)

Next ==
    \/ Laptop
    \/ \E c \in Conns : Handle(c) \/ Break(c)
    \/ \E i \in Inputs : Forward(i)

Spec == Init /\ [][Next]_vars

\* The goroutines run; TCP's keep-alive tells either end of a broken link.
\* Nobody has to change a session, break a link, restart or type.
Fairness ==
    /\ WF_vars(Dial) /\ WF_vars(Send) /\ WF_vars(EndSession) /\ WF_vars(Receive)
    /\ \A s \in Sessions : WF_vars(Mirror(s))
    /\ \A c \in Conns : WF_vars(Handle(c))

FairSpec == Spec /\ Fairness

(***************************************************************************)
(* Properties.                                                             *)
(***************************************************************************)

Frames == [type : {"state"}, sid : Sessions, to : States]
Hellos == [type : {"hello"}, states : [Sessions -> States \cup {Absent}]]

TypeOK ==
    /\ cast \in Castings
    /\ laptop \in [Sessions -> States \cup {Absent}]
    /\ due \in [Sessions -> BOOLEAN] /\ changes \in 0..MaxChanges
    /\ out \in Seq(Frames) /\ Len(out) <= Buffer
    /\ bridge \in Conns \cup {Nil} /\ dialed \in {0} \cup Conns
    /\ link \in [Conns -> {"none", "open", "broken", "closed"}]
    /\ up \in [Conns -> Seq(Frames \cup Hellos)]
    /\ down \in [Conns -> Seq(Inputs)]
    /\ peer \in Conns \cup {Nil}
    /\ handler \in [Conns -> {"none", "accepted", "reading", "greeted", "syncing",
                              "applying", "casting", "dropping", "clearing",
                              "telling", "done"}]
    /\ \A c \in Conns : frame[c] \in Frames \cup Hellos \cup {Nil}
    /\ views \in [Conns -> SUBSET Sessions]
    /\ proxy \in [Sessions -> States \cup {Absent}]
    /\ web \in [Sessions -> States \cup {Absent}]
    /\ input \in [Inputs -> {"none", "sent", "failed"}]
    /\ via \in [Inputs -> Conns \cup {Nil}] /\ arrived \subseteq Inputs
    /\ missed \cup hushed \cup strayed \subseteq Sessions /\ spoiled \in BOOLEAN

Same(st, other) == st = other \/ (~Alive(st) /\ ~Alive(other))
Settled(c) == At(c, "none") \/ At(c, "done")

\* Nothing is under way between a connected laptop and the proxy.
Quiet ==
    /\ peer # Nil /\ bridge = peer /\ link[peer] = "open"
    /\ At(peer, "reading") /\ out = <<>> /\ up[peer] = <<>>
    /\ \A s \in Sessions : ~due[s]
    /\ \A c \in Conns \ {peer} : Settled(c)

\* The mirror is right whenever it has caught up: after broken links, restarts
\* and replaced connections the proxy has the laptop's sessions in the laptop's
\* states, unless a frame was dropped for good, was applied to another session
\* of the thread, or a handler of another connection interfered after the hello.
QuietMeansEqual ==
    Quiet /\ ~spoiled =>
        \A s \in Sessions \ (missed \cup strayed) : Same(proxy[s], laptop[s])

\* Nothing outlives its laptop: with no peer and no handler left the proxy has
\* no sessions, and every session the web clients saw was announced as ended,
\* but for those that were dropped without a word or never had a row.
GoneMeansEmpty ==
    peer = Nil /\ (\A c \in Conns : Settled(c)) /\ ~spoiled =>
        \A s \in Sessions : proxy[s] = Absent /\ (Alive(web[s]) => s \in hushed \cup strayed)

\* What a web client is told was sent reaches the laptop, or its link failed.
SentArrives ==
    \A i \in Inputs :
        (input[i] = "sent") ~>
            (i \in arrived \/ \E c \in Conns : via[i] = c /\ (link[c] # "open" \/ bridge # c))

\* The mirror catches up: as long as nothing breaks, the laptop's latest state
\* comes to be the proxy's.
MirrorCatchesUp ==
    (\A s \in Sessions : <>[](~due[s])) /\ <>[](bridge # Nil /\ link[bridge] = "open")
        => <>[]Quiet
=============================================================================

----------------------------- MODULE LiveReload -----------------------------
(***************************************************************************)
(* How an edit of the served files reaches the screen.  nethosd counts a   *)
(* generation up and publishes a "reload" event to the stream that         *)
(* nethos-view holds (payload/nethosd/nethosd.py, class Events);           *)
(* nethos-view hands every event to each of its surfaces (nethos-view and  *)
(* nethos-view-native/src/events.c); a surface compares the generation     *)
(* with the one it was loaded against and reloads itself                   *)
(* (payload/shell/shell.js, window.nethosEvent).                           *)
(*                                                                         *)
(* The files are one number, the version last saved.  Of the many kinds of *)
(* events a surface tells "reload" from the others only; "tick" stands for *)
(* the others.  inbox[s] is everything between the handler of the stream   *)
(* in nethosd and the page: the socket, nethos-view's idle callbacks and   *)
(* the scripts WebKit has not yet run, all of them first in, first out.    *)
(***************************************************************************)
EXTENDS Integers, Sequences, FiniteSets, SequencesExt

CONSTANTS
  Surfaces,   \* the pages of the one nethos-view of the session
  Requests,   \* the threads of requests that broadcast a reload
  Others,     \* threads that publish other events, the ticker among them
  QueueSize,  \* Queue(maxsize=...) of a stream
  MaxInbox,   \* bound: events under way to one surface
  MaxEdits,   \* bound: times the served files are saved
  MaxPosts,   \* bound: times POST /api/reload is called
  MaxStops    \* bound: times nethosd stops

ASSUME SurfacesAssumption == Surfaces # {}
ASSUME ThreadsAssumption ==
  /\ IsFiniteSet(Requests) /\ IsFiniteSet(Others) /\ Requests \cap Others = {}
  /\ "watcher" \notin Requests \cup Others
ASSUME QueueAssumption == QueueSize \in Nat \ {0} /\ MaxInbox \in Nat \ {0}
ASSUME BoundsAssumption ==
  MaxEdits \in Nat /\ MaxPosts \in Nat /\ MaxStops \in Nat

VARIABLES
  disk,        \* the version of the served files
  \* nethosd
  up,          \* whether it runs
  generation,  \* EVENTS.generation
  watched,     \* the version the watcher has last seen
  pc,          \* how far each publishing thread is
  msg,         \* the event each of them has made
  subscribed,  \* whether the stream's queue is in EVENTS.subscribers
  queue,       \* that queue
  \* nethos-view and its surfaces
  conn,        \* the stream's state
  inbox,       \* events under way to each surface
  phase,       \* whether the page of a surface is there
  version,     \* the version that page was parsed from
  hostGeneration, \* the generation that page compares with
  \* observation and bounds
  sound,       \* hostGeneration comes from the stream as it is now
  owed,        \* the version a surface is owed by a broadcast
  reloads,     \* times a surface has reloaded itself
  bumps,       \* times the generation was counted up
  posts, stops

daemon == <<up, generation, watched, pc, msg, subscribed, queue>>
pages == <<phase, version, hostGeneration>>
history == <<sound, owed, reloads, bumps, posts, stops>>
vars == <<disk, daemon, conn, inbox, pages, history>>

Broadcasters == {"watcher"} \cup Requests
Threads == Broadcasters \cup Others
Unset == -1
Generations == 0 .. MaxEdits + MaxPosts
Events == [kind : {"hello", "reload", "tick"}, generation : Generations]
Event(kind, g) == [kind |-> kind, generation |-> g]

\* A session that has been up for a while: everything is loaded and listens.
Init ==
  /\ disk = 0 /\ up = TRUE /\ generation = 0 /\ watched = 0
  /\ pc = [t \in Threads |-> "idle"]
  /\ msg = [t \in Threads |-> Event("tick", 0)]
  /\ subscribed = TRUE /\ queue = <<>> /\ conn = "open"
  /\ inbox = [s \in Surfaces |-> <<>>]
  /\ phase = [s \in Surfaces |-> "ready"]
  /\ version = [s \in Surfaces |-> 0]
  /\ hostGeneration = [s \in Surfaces |-> 0]
  /\ sound = [s \in Surfaces |-> TRUE]
  /\ owed = [s \in Surfaces |-> 0]
  /\ reloads = [s \in Surfaces |-> 0]
  /\ bumps = 0 /\ posts = 0 /\ stops = 0

TypeOK ==
  /\ disk \in 0 .. MaxEdits /\ watched \in 0 .. disk
  /\ up \in BOOLEAN /\ subscribed \in BOOLEAN
  /\ generation \in Generations
  /\ pc \in [Threads -> {"idle", "bumped", "built"}]
  /\ msg \in [Threads -> Events]
  /\ queue \in Seq(Events) /\ Len(queue) <= QueueSize
  /\ conn \in {"closed", "subscribed", "open"}
  /\ inbox \in [Surfaces -> Seq(Events)]
  /\ phase \in [Surfaces -> {"ready", "loading", "failed"}]
  /\ version \in [Surfaces -> 0 .. MaxEdits]
  /\ hostGeneration \in [Surfaces -> Generations \cup {Unset}]
  /\ sound \in [Surfaces -> BOOLEAN]
  /\ owed \in [Surfaces -> 0 .. MaxEdits]
  /\ reloads \in [Surfaces -> Nat]
  /\ bumps \in Generations
  /\ posts \in 0 .. MaxPosts /\ stops \in 0 .. MaxStops

-----------------------------------------------------------------------------
(* Publishing.  bump counts up under the lock and then calls publish, which *)
(* makes the event, generation included, before it takes the lock again.    *)

\* A file of the served tree is saved.
Edit ==
  /\ disk < MaxEdits
  /\ disk' = disk + 1
  /\ UNCHANGED <<daemon, conn, inbox, pages, history>>

\* A surface that compares with a generation of this stream, which is still
\* subscribed, is owed what a broadcast announces.
Attentive(s) ==
  /\ phase[s] = "ready" /\ hostGeneration[s] # Unset
  /\ conn = "open" /\ subscribed /\ sound[s]

\* A bug: the event is made before the generation is counted up.
MutBump(t) ==
  /\ pc[t] = "idle" /\ up
  /\ pc' = [pc EXCEPT ![t] = "built"]
  /\ msg' = [msg EXCEPT ![t] = Event("reload", generation)]
  /\ generation' = generation + 1
  /\ bumps' = bumps + 1
  /\ owed' = [s \in Surfaces |-> IF Attentive(s) THEN disk ELSE owed[s]]

Bump(t) ==
  /\ pc[t] = "idle" /\ up
  /\ pc' = [pc EXCEPT ![t] = "bumped"]
  /\ generation' = generation + 1
  /\ bumps' = bumps + 1
  /\ owed' = [s \in Surfaces |-> IF Attentive(s) THEN disk ELSE owed[s]]
  /\ UNCHANGED msg

\* The watcher's poll finds a change.
FilesChanged ==
  /\ watched # disk
  /\ watched' = disk
  /\ Bump("watcher")
  /\ UNCHANGED <<disk, up, subscribed, queue, conn, inbox, pages, sound,
                 reloads, posts, stops>>

\* POST /api/reload, as nethos-reload sends it; every request has a thread.
Post(t) ==
  /\ posts < MaxPosts
  /\ posts' = posts + 1
  /\ Bump(t)
  /\ UNCHANGED <<disk, up, watched, subscribed, queue, conn, inbox, pages,
                 sound, reloads, stops>>

\* publish makes the event; others than a broadcaster publish without a bump.
Build(t) ==
  /\ up
  /\ pc[t] = IF t \in Others THEN "idle" ELSE "bumped"
  /\ pc' = [pc EXCEPT ![t] = "built"]
  /\ msg' = [msg EXCEPT ![t] =
       Event(IF t \in Others THEN "tick" ELSE "reload", generation)]
  /\ UNCHANGED <<disk, up, generation, watched, subscribed, queue, conn,
                 inbox, pages, history>>

\* A bug: the queue has no bound.
MutEnqueue(m) ==
  /\ queue' = IF subscribed THEN Append(queue, m) ELSE queue
  /\ UNCHANGED <<subscribed, owed>>

\* A queue that is full loses its place among the subscribers, not its stream.
Enqueue(m) ==
  IF subscribed /\ Len(queue) < QueueSize
  THEN queue' = Append(queue, m) /\ UNCHANGED <<subscribed, owed>>
  ELSE /\ subscribed' = FALSE
       /\ owed' = [s \in Surfaces |-> 0]
       /\ UNCHANGED queue

Put(t) ==
  /\ pc[t] = "built"
  /\ pc' = [pc EXCEPT ![t] = "idle"]
  /\ msg' = [msg EXCEPT ![t] = Event("tick", 0)]
  /\ Enqueue(msg[t])
  /\ UNCHANGED <<disk, up, generation, watched, conn, inbox, pages,
                 sound, reloads, bumps, posts, stops>>

-----------------------------------------------------------------------------
(* The stream. *)

InboxesFree == \A s \in Surfaces : Len(inbox[s]) < MaxInbox
ToAll(m) == inbox' = [s \in Surfaces |-> Append(inbox[s], m)]

\* nethos-view has found nethosd; serve_events subscribes a new queue.
Connect ==
  /\ up /\ conn = "closed"
  /\ conn' = "subscribed" /\ subscribed' = TRUE /\ queue' = <<>>
  /\ UNCHANGED <<disk, up, generation, watched, pc, msg, inbox, pages,
                 history>>

\* The first event of a stream, with the generation of this moment.
Hello ==
  /\ conn = "subscribed" /\ InboxesFree
  /\ conn' = "open"
  /\ ToAll(Event("hello", generation))
  /\ sound' = [s \in Surfaces |-> FALSE]
  /\ UNCHANGED <<disk, daemon, pages, owed, reloads, bumps, posts, stops>>

\* The stream's handler takes an event from the queue and writes it.
Write ==
  /\ conn = "open" /\ queue # <<>> /\ InboxesFree
  /\ ToAll(Head(queue))
  /\ queue' = Tail(queue)
  /\ UNCHANGED <<disk, up, generation, watched, pc, msg, subscribed, conn,
                 pages, history>>

\* nethosd stops, by systemctl or by a crash: its queues and its threads are
\* gone, what it has written still arrives.
Stop ==
  /\ up /\ stops < MaxStops
  /\ stops' = stops + 1
  /\ up' = FALSE
  /\ pc' = [t \in Threads |-> "idle"]
  /\ msg' = [t \in Threads |-> Event("tick", 0)]
  /\ subscribed' = FALSE /\ queue' = <<>> /\ conn' = "closed"
  /\ owed' = [s \in Surfaces |-> 0]
  /\ UNCHANGED <<disk, generation, watched, inbox, pages, sound, reloads,
                 bumps, posts>>

\* A new nethosd counts from 0 and takes the files as it finds them.
Start ==
  /\ ~up
  /\ up' = TRUE /\ generation' = 0 /\ watched' = disk
  /\ UNCHANGED <<disk, pc, msg, subscribed, queue, conn, inbox, pages,
                 history>>

-----------------------------------------------------------------------------
(* The surfaces. *)

\* Every event of the current stream that s has not read comes after its hello.
FromThisStream(rest) == \A i \in DOMAIN rest : rest[i].kind # "hello"

\* A bug: every event with another generation counts as a reload.
MutNewer(s, m) == m.generation # hostGeneration[s]

Newer(s, m) == m.kind = "reload" /\ m.generation # hostGeneration[s]

\* No page, or one that is not parsed yet: nethosEvent does not exist.
Lose(s) ==
  /\ inbox[s] # <<>> /\ phase[s] # "ready"
  /\ inbox' = [inbox EXCEPT ![s] = Tail(@)]
  /\ UNCHANGED <<disk, daemon, conn, pages, history>>

\* The first event a page hears sets the generation it compares with.
Baseline(s) ==
  /\ inbox[s] # <<>> /\ phase[s] = "ready" /\ hostGeneration[s] = Unset
  /\ hostGeneration' = [hostGeneration EXCEPT ![s] = Head(inbox[s]).generation]
  /\ sound' = [sound EXCEPT ![s] = FromThisStream(Tail(inbox[s]))]
  /\ inbox' = [inbox EXCEPT ![s] = Tail(@)]
  /\ UNCHANGED <<disk, daemon, conn, phase, version, owed, reloads, bumps,
                 posts, stops>>

\* A reload event with another generation: location.reload().
Reload(s) ==
  /\ inbox[s] # <<>> /\ phase[s] = "ready" /\ hostGeneration[s] # Unset
  /\ Newer(s, Head(inbox[s]))
  /\ phase' = [phase EXCEPT ![s] = "loading"]
  /\ hostGeneration' = [hostGeneration EXCEPT ![s] = Unset]
  /\ sound' = [sound EXCEPT ![s] = FALSE]
  /\ reloads' = [reloads EXCEPT ![s] = @ + 1]
  /\ inbox' = [inbox EXCEPT ![s] = Tail(@)]
  /\ UNCHANGED <<disk, daemon, conn, version, owed, bumps, posts, stops>>

\* A bug: the page follows the generation of every event it hears.
MutHandle(s) ==
  /\ inbox[s] # <<>> /\ phase[s] = "ready" /\ hostGeneration[s] # Unset
  /\ ~Newer(s, Head(inbox[s]))
  /\ hostGeneration' = [hostGeneration EXCEPT ![s] = Head(inbox[s]).generation]
  /\ inbox' = [inbox EXCEPT ![s] = Tail(@)]
  /\ UNCHANGED <<disk, daemon, conn, phase, version, history>>

\* Any other event goes to the page's handlers.
Handle(s) ==
  /\ inbox[s] # <<>> /\ phase[s] = "ready" /\ hostGeneration[s] # Unset
  /\ ~Newer(s, Head(inbox[s]))
  /\ inbox' = [inbox EXCEPT ![s] = Tail(@)]
  /\ UNCHANGED <<disk, daemon, conn, pages, history>>

\* The page is fetched from nethosd and parsed; without nethosd WebKit shows
\* its error page, which nothing replaces.
Load(s) ==
  /\ phase[s] = "loading"
  /\ IF up
     THEN /\ phase' = [phase EXCEPT ![s] = "ready"]
          /\ version' = [version EXCEPT ![s] = disk]
     ELSE phase' = [phase EXCEPT ![s] = "failed"] /\ UNCHANGED version
  /\ UNCHANGED <<disk, daemon, conn, inbox, hostGeneration, history>>

-----------------------------------------------------------------------------
Nethosd ==
  \/ FilesChanged \/ \E t \in Requests : Post(t)
  \/ \E t \in Threads : Build(t) \/ Put(t)
  \/ Hello \/ Write \/ Stop \/ Start

Hear(s) == Lose(s) \/ Baseline(s) \/ Reload(s) \/ Handle(s)

Next == Edit \/ Nethosd \/ Connect \/ \E s \in Surfaces : Hear(s) \/ Load(s)

\* A thread that has counted up goes on to publish, the stream's handler and
\* nethos-view go on reading, WebKit runs what it is given.  Nobody has to save
\* a file, call the API or restart nethosd, and the others may fall silent.
Fairness ==
  /\ \A t \in Broadcasters : WF_vars(Build(t)) /\ WF_vars(Put(t))
  /\ WF_vars(Hello) /\ WF_vars(Write)
  /\ \A s \in Surfaces : WF_vars(Hear(s)) /\ WF_vars(Load(s))

Spec == Init /\ [][Next]_vars /\ Fairness

-----------------------------------------------------------------------------
(* Properties *)

Owed(s) == owed[s] > version[s]

\* Where a reload that s will follow can still be: read last, to be read, to be
\* written, made, or about to be made.
OnItsWay(s) ==
  \/ \E m \in ToSet(inbox[s]) \cup ToSet(queue) : Newer(s, m)
  \/ \E t \in Broadcasters :
       \/ pc[t] = "built" /\ Newer(s, msg[t])
       \/ pc[t] = "bumped" /\ generation # hostGeneration[s]

\* A surface that listened when a change was broadcast and does not show it
\* yet is loading, or an event that makes it reload is on its way: none of the
\* unlocked steps between bump, publish and the page loses it, whatever order
\* two broadcasts, the ticker and the hello come in.
ReloadOnItsWay ==
  \A s \in Surfaces : Owed(s) => phase[s] = "loading" \/ OnItsWay(s)

\* No surface reloads itself more often than reloads were broadcast, although
\* generations start again with every nethosd: a restart and the hello of a
\* new stream reload nothing, and no page is caught in reloading.
ReloadsEarned == \A s \in Surfaces : reloads[s] <= bumps

\* A surface that listened when a change was broadcast comes to show it,
\* unless nethosd stops or drops the stream for a full queue first.
OwedIsShown == \A s \in Surfaces : Owed(s) ~> ~Owed(s)

\* docs/UPDATING.md: a saved file needs nothing, every open surface is
\* subscribed and reloads itself.  Once nothing is under way, every surface
\* shows what was saved.
Quiet ==
  /\ up /\ watched = disk /\ conn = "open" /\ subscribed /\ queue = <<>>
  /\ \A t \in Threads : pc[t] = "idle"
  /\ \A s \in Surfaces : inbox[s] = <<>> /\ phase[s] = "ready"

SavedIsShown == Quiet => \A s \in Surfaces : version[s] = disk
=============================================================================

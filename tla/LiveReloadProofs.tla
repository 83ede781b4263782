-------------------------- MODULE LiveReloadProofs --------------------------
(***************************************************************************)
(* Proofs about LiveReload, for any number of surfaces and of publishing   *)
(* threads, any length of a stream's queue and of what is under way to a   *)
(* page, and any number of saves, reloads and restarts.                    *)
(***************************************************************************)
EXTENDS LiveReload, SequenceLemmas

-----------------------------------------------------------------------------
(* Types.  A count of the generation is paid for by a save or by a call.   *)

Paid == bumps <= posts + watched /\ generation <= bumps
TypeInv == TypeOK /\ Paid

LEMMA EventType ==
  \A kind \in {"hello", "reload", "tick"}, g \in Generations :
    /\ Event(kind, g) \in Events
    /\ Event(kind, g).kind = kind /\ Event(kind, g).generation = g
BY DEF Event, Events

LEMMA InitType == Init => TypeInv
<1>1. Event("tick", 0) \in Events /\ 0 \in Generations
  BY EventType, BoundsAssumption DEF Generations
<1> QED BY <1>1, QueueAssumption, BoundsAssumption
        DEF Init, TypeInv, TypeOK, Paid, Generations

\* Counting up, by the watcher or for a call.
LEMMA BumpType ==
  ASSUME TypeInv, NEW t \in Threads, Bump(t), disk' = disk,
         watched + posts + 1 <= watched' + posts', watched' \in 0 .. disk, posts' \in 0 .. MaxPosts
  PROVE  /\ generation' = generation + 1 /\ generation' \in Generations
         /\ bumps' \in Generations /\ Paid'
         /\ pc' \in [Threads -> {"idle", "bumped", "built"}]
         /\ msg' \in [Threads -> Events] /\ owed' \in [Surfaces -> 0 .. MaxEdits]
<1>1. /\ generation \in Nat /\ bumps \in Nat /\ watched \in Nat /\ posts \in Nat /\ disk \in Nat
      /\ MaxEdits \in Nat /\ MaxPosts \in Nat /\ disk <= MaxEdits
      /\ generation <= bumps /\ bumps <= posts + watched
  BY BoundsAssumption DEF TypeInv, TypeOK, Paid, Generations
<1>2. generation' = generation + 1 /\ bumps' = bumps + 1
  BY DEF Bump
<1>3. Paid' /\ bumps' <= MaxEdits + MaxPosts
  <2>1. watched' \in Nat /\ posts' \in Nat /\ watched' <= MaxEdits /\ posts' <= MaxPosts
    BY <1>1
  <2>2. \A b, w, p, w1, p1 \in Nat : b <= p + w /\ w + p + 1 <= w1 + p1 => b + 1 <= p1 + w1
    OBVIOUS
  <2>3. bumps + 1 <= posts' + watched'
    BY <1>1, <2>1, <2>2
  <2>4. \A b, g, w, p, e, q \in Nat :
           g <= b /\ b + 1 <= p + w /\ w <= e /\ p <= q => g + 1 <= b + 1 /\ b + 1 <= e + q
    OBVIOUS
  <2>5. generation + 1 <= bumps + 1 /\ bumps + 1 <= MaxEdits + MaxPosts
    BY <1>1, <2>1, <2>3, <2>4
  <2> QED BY <1>2, <2>3, <2>5 DEF Paid
<1>4. generation' \in Generations /\ bumps' \in Generations
  BY <1>1, <1>2, <1>3 DEF Generations, Paid
<1>5. owed' \in [Surfaces -> 0 .. MaxEdits]
  <2>1. owed' = [s \in Surfaces |-> IF Attentive(s) THEN disk ELSE owed[s]]
    BY DEF Bump
  <2>2. disk \in 0 .. MaxEdits /\ owed \in [Surfaces -> 0 .. MaxEdits]
    BY DEF TypeInv, TypeOK
  <2> QED BY <2>1, <2>2
<1>6. pc' \in [Threads -> {"idle", "bumped", "built"}] /\ msg' \in [Threads -> Events]
  BY DEF Bump, TypeInv, TypeOK
<1> QED BY <1>2, <1>3, <1>4, <1>5, <1>6

LEMMA StepType == ASSUME TypeInv, Next PROVE TypeInv'
<1> USE DEF daemon, pages, history
<1>0. /\ QueueSize \in Nat \ {0} /\ MaxEdits \in Nat /\ MaxPosts \in Nat /\ MaxStops \in Nat
      /\ 0 \in Generations /\ Unset = -1
  BY QueueAssumption, BoundsAssumption DEF Generations, Unset
<1>1. CASE Edit
  BY <1>0, <1>1 DEF Edit, TypeInv, TypeOK, Paid, Generations
<1>2. CASE FilesChanged
  <2>1. /\ watched # disk /\ watched' = disk /\ Bump("watcher")
        /\ UNCHANGED <<disk, up, subscribed, queue, conn, inbox, pages, sound, reloads, posts, stops>>
    BY <1>2 DEF FilesChanged
  <2>2. watched + posts + 1 <= watched' + posts' /\ watched' \in 0 .. disk /\ posts' \in 0 .. MaxPosts
    BY <2>1 DEF TypeInv, TypeOK
  <2>3. "watcher" \in Threads
    BY DEF Threads, Broadcasters
  <2> QED BY <2>1, <2>2, <2>3, BumpType DEF TypeInv, TypeOK
<1>3. ASSUME NEW t \in Requests, Post(t) PROVE TypeInv'
  <2>1. /\ posts < MaxPosts /\ posts' = posts + 1 /\ Bump(t)
        /\ UNCHANGED <<disk, up, watched, subscribed, queue, conn, inbox, pages, sound, reloads, stops>>
    BY <1>3 DEF Post
  <2>2. watched + posts + 1 <= watched' + posts' /\ watched' \in 0 .. disk /\ posts' \in 0 .. MaxPosts
    BY <1>0, <2>1 DEF TypeInv, TypeOK
  <2>3. t \in Threads
    BY DEF Threads, Broadcasters
  <2> QED BY <2>1, <2>2, <2>3, BumpType DEF TypeInv, TypeOK
<1>4. ASSUME NEW t \in Threads, Build(t) PROVE TypeInv'
  <2>1. Event(IF t \in Others THEN "tick" ELSE "reload", generation) \in Events
    BY EventType DEF TypeInv, TypeOK
  <2> QED BY <1>4, <2>1 DEF Build, TypeInv, TypeOK, Paid
<1>5. ASSUME NEW t \in Threads, Put(t) PROVE TypeInv'
  <2>1. Event("tick", 0) \in Events /\ msg[t] \in Events
    BY <1>0, EventType DEF TypeInv, TypeOK
  <2>2. /\ pc' = [pc EXCEPT ![t] = "idle"] /\ msg' = [msg EXCEPT ![t] = Event("tick", 0)]
        /\ Enqueue(msg[t])
        /\ UNCHANGED <<disk, up, generation, watched, conn, inbox, pages, sound, reloads,
                       bumps, posts, stops>>
    BY <1>5 DEF Put
  <2>3. /\ queue' \in Seq(Events) /\ Len(queue') <= QueueSize /\ subscribed' \in BOOLEAN
        /\ owed' \in [Surfaces -> 0 .. MaxEdits]
    <3>1. CASE subscribed /\ Len(queue) < QueueSize
      <4>1. queue' = Append(queue, msg[t]) /\ UNCHANGED <<subscribed, owed>>
        BY <2>2, <3>1 DEF Enqueue
      <4>2. queue \in Seq(Events) /\ subscribed \in BOOLEAN /\ owed \in [Surfaces -> 0 .. MaxEdits]
        BY DEF TypeInv, TypeOK
      <4> QED BY <1>0, <2>1, <3>1, <4>1, <4>2
    <3>2. CASE ~(subscribed /\ Len(queue) < QueueSize)
      <4>1. subscribed' = FALSE /\ owed' = [s \in Surfaces |-> 0] /\ UNCHANGED queue
        BY <2>2, <3>2 DEF Enqueue
      <4>2. queue \in Seq(Events) /\ Len(queue) <= QueueSize
        BY DEF TypeInv, TypeOK
      <4>3. 0 \in 0 .. MaxEdits
        BY <1>0
      <4> QED BY <4>1, <4>2, <4>3
    <3> QED BY <3>1, <3>2
  <2>4. pc' \in [Threads -> {"idle", "bumped", "built"}] /\ msg' \in [Threads -> Events]
    BY <2>1, <2>2 DEF TypeInv, TypeOK
  <2> QED BY <2>2, <2>3, <2>4 DEF TypeInv, TypeOK, Paid
<1>6. CASE Hello
  <2>1. Event("hello", generation) \in Events
    BY EventType DEF TypeInv, TypeOK
  <2>2. inbox' \in [Surfaces -> Seq(Events)]
    BY <1>6, <2>1 DEF Hello, ToAll, TypeInv, TypeOK
  <2> QED BY <1>6, <2>2 DEF Hello, TypeInv, TypeOK, Paid
<1>7. CASE Write
  <2>1. Head(queue) \in Events /\ queue' \in Seq(Events) /\ Len(queue') <= QueueSize
    BY <1>0, <1>7 DEF Write, TypeInv, TypeOK
  <2>2. inbox' \in [Surfaces -> Seq(Events)]
    BY <1>7, <2>1 DEF Write, ToAll, TypeInv, TypeOK
  <2> QED BY <1>7, <2>1, <2>2 DEF Write, TypeInv, TypeOK, Paid
<1>8. CASE Stop
  <2>1. Event("tick", 0) \in Events
    BY <1>0, EventType
  <2>2. stops' \in 0 .. MaxStops
    BY <1>0, <1>8 DEF Stop, TypeInv, TypeOK
  <2>3. /\ pc' \in [Threads -> {"idle", "bumped", "built"}] /\ msg' \in [Threads -> Events]
        /\ owed' \in [Surfaces -> 0 .. MaxEdits]
        /\ queue' \in Seq(Events) /\ Len(queue') <= QueueSize
    BY <1>0, <1>8, <2>1 DEF Stop
  <2> QED BY <1>8, <2>2, <2>3 DEF Stop, TypeInv, TypeOK, Paid
<1>9. CASE Start
  BY <1>0, <1>9 DEF Start, TypeInv, TypeOK, Paid, Generations
<1>10. CASE Connect
  BY <1>0, <1>10 DEF Connect, TypeInv, TypeOK, Paid
<1>11. ASSUME NEW s \in Surfaces, Lose(s) \/ Handle(s) PROVE TypeInv'
  <2>1. inbox' = [inbox EXCEPT ![s] = Tail(@)] /\ inbox[s] # <<>> /\ inbox[s] \in Seq(Events)
    BY <1>11 DEF Lose, Handle, TypeInv, TypeOK
  <2>2. inbox' \in [Surfaces -> Seq(Events)]
    BY <2>1 DEF TypeInv, TypeOK
  <2> QED BY <1>11, <2>2 DEF Lose, Handle, TypeInv, TypeOK, Paid
<1>12. ASSUME NEW s \in Surfaces, Baseline(s) PROVE TypeInv'
  <2>1. Head(inbox[s]).generation \in Generations /\ FromThisStream(Tail(inbox[s])) \in BOOLEAN
    <3>1. inbox[s] # <<>> /\ inbox[s] \in Seq(Events)
      BY <1>12 DEF Baseline, TypeInv, TypeOK
    <3>2. Head(inbox[s]) \in Events
      BY <3>1
    <3> QED BY <3>2 DEF Events, FromThisStream
  <2> HIDE DEF FromThisStream
  <2> QED BY <1>12, <2>1 DEF Baseline, TypeInv, TypeOK, Paid
<1>13. ASSUME NEW s \in Surfaces, Reload(s) PROVE TypeInv'
  BY <1>13 DEF Reload, TypeInv, TypeOK, Paid
<1>14. ASSUME NEW s \in Surfaces, Load(s) PROVE TypeInv'
  BY <1>14 DEF Load, TypeInv, TypeOK, Paid
<1> QED BY <1>1, <1>2, <1>3, <1>4, <1>5, <1>6, <1>7, <1>8, <1>9, <1>10, <1>11, <1>12, <1>13, <1>14
        DEF Next, Nethosd, Hear

LEMMA StutterType == TypeInv /\ UNCHANGED vars => TypeInv'
BY DEF vars, daemon, pages, history, TypeInv, TypeOK, Paid

\* The values every variable keeps to; a generation is never more than the
\* saves and calls there have been.
THEOREM LiveReloadTypes == Spec => []TypeOK
<1>1. TypeInv /\ [Next]_vars => TypeInv'
  BY StepType, StutterType
<1>2. TypeInv => TypeOK
  BY DEF TypeInv
<1> QED BY <1>1, <1>2, InitType, PTL DEF Spec

-----------------------------------------------------------------------------
(* The stream.  A restart of nethosd begins its generations anew, so an    *)
(* event tells something only when no later hello is behind it.            *)

Current(q, g) ==
  \A i \in 1 .. Len(q) : (\A j \in 1 .. Len(q) : j > i => q[j].kind # "hello") => q[i].generation <= g

LEMMA CurrentTail ==
  ASSUME NEW q \in Seq(Events), NEW g \in Nat, Current(q, g), q # <<>>
  PROVE  /\ Current(Tail(q), g)
         /\ FromThisStream(Tail(q)) => Head(q).generation <= g
<1>1. /\ Len(q) \in Nat \ {0} /\ Len(Tail(q)) = Len(q) - 1 /\ DOMAIN Tail(q) = 1 .. Len(q) - 1
      /\ \A i \in 1 .. Len(q) - 1 : Tail(q)[i] = q[i + 1]
      /\ Head(q) = q[1]
  OBVIOUS
<1>2. ASSUME NEW i \in 1 .. Len(q) - 1,
             \A j \in 1 .. Len(q) - 1 : j > i => Tail(q)[j].kind # "hello"
      PROVE  Tail(q)[i].generation <= g
  <2>1. ASSUME NEW j \in 1 .. Len(q), j > i + 1 PROVE q[j].kind # "hello"
    <3>1. j - 1 \in 1 .. Len(q) - 1 /\ j - 1 > i /\ Tail(q)[j - 1] = q[j]
      BY <1>1, <2>1
    <3> QED BY <1>2, <3>1
  <2>2. i + 1 \in 1 .. Len(q) /\ Tail(q)[i] = q[i + 1]
    BY <1>1
  <2> QED BY <2>1, <2>2 DEF Current
<1>3. ASSUME FromThisStream(Tail(q)) PROVE Head(q).generation <= g
  <2>1. ASSUME NEW j \in 1 .. Len(q), j > 1 PROVE q[j].kind # "hello"
    <3>1. j - 1 \in 1 .. Len(q) - 1 /\ Tail(q)[j - 1] = q[j]
      BY <1>1, <2>1
    <3> QED BY <1>1, <1>3, <3>1 DEF FromThisStream
  <2>2. 1 \in 1 .. Len(q)
    BY <1>1
  <2> QED BY <1>1, <2>1, <2>2 DEF Current
<1> QED BY <1>1, <1>2, <1>3 DEF Current

LEMMA CurrentAppend ==
  ASSUME NEW q \in Seq(Events), NEW g \in Nat, NEW m \in Events, m.generation <= g,
         Current(q, g) \/ m.kind = "hello"
  PROVE  Current(Append(q, m), g)
<1>1. /\ Len(q) \in Nat /\ Len(Append(q, m)) = Len(q) + 1
      /\ \A i \in 1 .. Len(q) : Append(q, m)[i] = q[i]
      /\ Append(q, m)[Len(q) + 1] = m
  OBVIOUS
<1>2. SUFFICES ASSUME NEW i \in 1 .. Len(q) + 1,
                      \A j \in 1 .. Len(q) + 1 : j > i => Append(q, m)[j].kind # "hello"
               PROVE  Append(q, m)[i].generation <= g
  BY <1>1 DEF Current
<1>3. CASE i = Len(q) + 1
  BY <1>1, <1>3
<1>4. CASE i # Len(q) + 1
  <2>1. i \in 1 .. Len(q) /\ Len(q) + 1 \in 1 .. Len(q) + 1 /\ Len(q) + 1 > i
    BY <1>1, <1>4
  <2>2. m.kind # "hello"
    BY <1>1, <1>2, <2>1
  <2>3. \A j \in 1 .. Len(q) : j > i => q[j].kind # "hello"
    BY <1>1, <1>2
  <2> QED BY <1>1, <2>1, <2>2, <2>3 DEF Current
<1> QED BY <1>3, <1>4

LEMMA CurrentLater ==
  ASSUME NEW q \in Seq(Events), NEW g \in Nat, NEW h \in Nat, g <= h, Current(q, g)
  PROVE  Current(q, h)
<1>1. \A i \in 1 .. Len(q) : q[i] \in Events
  OBVIOUS
<1>2. \A m \in Events : m.generation \in Nat
  BY BoundsAssumption DEF Events, Generations
<1>3. \A i \in 1 .. Len(q) : q[i].generation <= g => q[i].generation <= h
  BY <1>1, <1>2
<1> QED BY <1>3 DEF Current

\* Only what an open, subscribed stream announces is owed, and what is read
\* from it, or will be, was counted in this run of nethosd.
StreamInv ==
  /\ ~up => conn = "closed" /\ queue = <<>> /\ \A t \in Threads : pc[t] = "idle"
  /\ \A s \in Surfaces : owed[s] <= disk
  /\ conn # "open" \/ ~subscribed => \A s \in Surfaces : owed[s] = 0
  /\ \A m \in ToSet(queue) : m.generation <= generation
  /\ \A t \in Threads : pc[t] = "built" => msg[t].generation <= generation
  /\ conn = "open" => \A s \in Surfaces :
       /\ Current(inbox[s], generation)
       /\ sound[s] => hostGeneration[s] <= generation

LEMMA InitStream == Init => StreamInv
<1> SUFFICES ASSUME Init PROVE StreamInv
  OBVIOUS
<1>1. /\ \A s \in Surfaces : inbox[s] = <<>> /\ hostGeneration[s] = 0
      /\ generation = 0 /\ queue = <<>>
      /\ \A t \in Threads : pc[t] = "idle"
      /\ \A s \in Surfaces : owed[s] = 0
  BY DEF Init
<1>2. \A s \in Surfaces : Current(inbox[s], generation)
  BY <1>1 DEF Current
<1>3. ToSet(queue) = {}
  BY <1>1 DEF ToSet
<1> QED BY <1>1, <1>2, <1>3 DEF StreamInv, Init

\* What an element of a queue that changes can be.
LEMMA QueueAppend ==
  ASSUME NEW q \in Seq(Events), NEW m \in Events
  PROVE  ToSet(Append(q, m)) = ToSet(q) \cup {m}
<1>1. /\ Len(q) \in Nat /\ DOMAIN q = 1 .. Len(q) /\ DOMAIN Append(q, m) = 1 .. Len(q) + 1
      /\ \A i \in 1 .. Len(q) : Append(q, m)[i] = q[i]
      /\ Append(q, m)[Len(q) + 1] = m
  OBVIOUS
<1>2. \A i \in 1 .. Len(q) : i \in 1 .. Len(q) + 1
  BY <1>1
<1>3. Len(q) + 1 \in 1 .. Len(q) + 1
  BY <1>1
<1>4. \A i \in 1 .. Len(q) + 1 : i \in 1 .. Len(q) \/ i = Len(q) + 1
  BY <1>1
<1> QED BY <1>1, <1>2, <1>3, <1>4 DEF ToSet

LEMMA QueueTail ==
  ASSUME NEW q \in Seq(Events), q # <<>>
  PROVE  ToSet(q) = {Head(q)} \cup ToSet(Tail(q)) /\ Head(q) \in Events /\ Tail(q) \in Seq(Events)
BY SeqOwn, ToSetTail

LEMMA NumberTypes ==
  ASSUME TypeInv
  PROVE  /\ generation \in Nat /\ disk \in Nat
         /\ queue \in Seq(Events) /\ \A m \in ToSet(queue) : m \in Events
         /\ \A m \in Events : m.generation \in Nat /\ m.kind \in {"hello", "reload", "tick"}
         /\ \A s \in Surfaces : /\ inbox[s] \in Seq(Events) /\ owed[s] \in Nat /\ version[s] \in Nat
                                /\ hostGeneration[s] \in Int
         /\ \A t \in Threads : msg[t] \in Events
<1>1. MaxEdits \in Nat /\ MaxPosts \in Nat /\ Generations \subseteq Nat /\ Unset \in Int
  BY BoundsAssumption DEF Generations, Unset
<1>2. queue \in Seq(Events)
  BY DEF TypeInv, TypeOK
<1>3. \A m \in ToSet(queue) : m \in Events
  BY <1>2 DEF ToSet
<1>4. \A m \in Events : m.generation \in Nat /\ m.kind \in {"hello", "reload", "tick"}
  BY <1>1 DEF Events
<1>5. \A s \in Surfaces : /\ inbox[s] \in Seq(Events) /\ owed[s] \in Nat /\ version[s] \in Nat
                          /\ hostGeneration[s] \in Int
  <2> TAKE s \in Surfaces
  <2>1. /\ inbox[s] \in Seq(Events) /\ owed[s] \in 0 .. MaxEdits /\ version[s] \in 0 .. MaxEdits
        /\ hostGeneration[s] \in Generations \cup {Unset}
    BY DEF TypeInv, TypeOK
  <2>2. owed[s] \in Nat /\ version[s] \in Nat
    BY <2>1
  <2>3. hostGeneration[s] \in Int
    <3>1. hostGeneration[s] \in Nat \/ hostGeneration[s] = Unset
      BY <1>1, <2>1
    <3> QED BY <3>1 DEF Unset
  <2> QED BY <2>1, <2>2, <2>3
<1>6. generation \in Nat /\ disk \in Nat /\ \A t \in Threads : msg[t] \in Events
  BY <1>1 DEF TypeInv, TypeOK
<1> QED BY <1>2, <1>3, <1>4, <1>5, <1>6

\* A thread that counts up makes no event of the stream older than it was.
LEMMA BumpStream ==
  ASSUME TypeInv, StreamInv, NEW t \in Threads, Bump(t),
         UNCHANGED <<disk, up, subscribed, queue, conn, inbox, pages, sound>>
  PROVE  StreamInv'
<1> USE NumberTypes DEF pages
<1>1. /\ generation' = generation + 1 /\ pc' = [pc EXCEPT ![t] = "bumped"] /\ up /\ msg' = msg
      /\ owed' = [s \in Surfaces |-> IF Attentive(s) THEN disk ELSE owed[s]]
  BY DEF Bump
<1>2. \A s \in Surfaces : owed'[s] <= disk /\ (owed'[s] = owed[s] \/ (conn = "open" /\ subscribed))
  BY <1>1 DEF StreamInv, Attentive
<1>3. \A m \in Events : m.generation <= generation => m.generation <= generation'
  BY <1>1
<1>4. \A u \in Threads : pc'[u] = "built" => pc[u] = "built"
  BY <1>1 DEF TypeInv, TypeOK
<1>5. conn = "open" => \A s \in Surfaces : /\ Current(inbox[s], generation')
                                           /\ sound[s] => hostGeneration[s] <= generation'
  BY <1>1, CurrentLater DEF StreamInv
<1> QED BY <1>1, <1>2, <1>3, <1>4, <1>5 DEF StreamInv

\* A surface that takes what is first in its inbox.
LEMMA HearStream ==
  ASSUME TypeInv, StreamInv, NEW s \in Surfaces, inbox[s] # <<>>,
         inbox' = [inbox EXCEPT ![s] = Tail(@)],
         UNCHANGED <<disk, daemon, conn, owed>>,
         \A u \in Surfaces \ {s} : sound'[u] = sound[u] /\ hostGeneration'[u] = hostGeneration[u],
         \/ ~sound'[s]
         \/ sound'[s] = sound[s] /\ hostGeneration'[s] = hostGeneration[s]
         \/ FromThisStream(Tail(inbox[s])) /\ hostGeneration'[s] = Head(inbox[s]).generation
  PROVE  StreamInv'
<1> USE NumberTypes DEF daemon
<1>1. inbox'[s] = Tail(inbox[s]) /\ \A u \in Surfaces \ {s} : inbox'[u] = inbox[u]
  BY DEF TypeInv, TypeOK
<1>2. ASSUME conn = "open", NEW u \in Surfaces
      PROVE  Current(inbox'[u], generation) /\ (sound'[u] => hostGeneration'[u] <= generation)
  <2>1. CASE u = s
    <3>1. inbox[s] \in Seq(Events) /\ Current(inbox[s], generation)
      BY <1>2, NumberTypes DEF StreamInv
    <3>2. /\ Current(inbox'[s], generation)
          /\ FromThisStream(Tail(inbox[s])) => Head(inbox[s]).generation <= generation
      BY <1>1, <3>1, CurrentTail
    <3>3. sound[s] => hostGeneration[s] <= generation
      BY <1>2 DEF StreamInv
    <3> QED BY <2>1, <3>2, <3>3
  <2>2. CASE u # s
    BY <1>1, <1>2, <2>2 DEF StreamInv
  <2> QED BY <2>1, <2>2
<1> QED BY <1>2 DEF StreamInv

LEMMA StepStream == ASSUME TypeInv, StreamInv, Next PROVE StreamInv'
<1> USE DEF daemon, pages, history
<1>1. CASE Edit
  <2>1. \A s \in Surfaces : owed'[s] <= disk'
    BY <1>1, NumberTypes DEF Edit, StreamInv
  <2> QED BY <1>1, <2>1 DEF Edit, StreamInv
<1>2. CASE FilesChanged
  BY <1>2, BumpStream DEF FilesChanged, Threads, Broadcasters
<1>3. ASSUME NEW t \in Requests, Post(t) PROVE StreamInv'
  BY <1>3, BumpStream DEF Post, Threads, Broadcasters
<1>4. ASSUME NEW t \in Threads, Build(t) PROVE StreamInv'
  <2>1. /\ up /\ pc' = [pc EXCEPT ![t] = "built"]
        /\ msg' = [msg EXCEPT ![t] = Event(IF t \in Others THEN "tick" ELSE "reload", generation)]
        /\ UNCHANGED <<disk, up, generation, subscribed, queue, conn, inbox, pages, sound, owed>>
    BY <1>4 DEF Build
  <2>2. msg'[t].generation = generation
    BY <2>1 DEF Event, TypeInv, TypeOK
  <2>3. \A u \in Threads \ {t} : pc'[u] = pc[u] /\ msg'[u] = msg[u]
    BY <2>1 DEF TypeInv, TypeOK
  <2>4. \A u \in Threads : pc'[u] = "built" => msg'[u].generation <= generation
    BY <2>2, <2>3, NumberTypes DEF StreamInv
  <2> QED BY <2>1, <2>4 DEF StreamInv
<1>5. ASSUME NEW t \in Threads, Put(t) PROVE StreamInv'
  <2>1. /\ pc[t] = "built" /\ pc' = [pc EXCEPT ![t] = "idle"]
        /\ msg' = [msg EXCEPT ![t] = Event("tick", 0)] /\ Enqueue(msg[t])
        /\ UNCHANGED <<disk, up, generation, conn, inbox, pages, sound>>
    BY <1>5 DEF Put
  <2>2. \A u \in Threads : pc'[u] = "built" => pc[u] = "built" /\ msg'[u] = msg[u]
    BY <2>1 DEF TypeInv, TypeOK
  <2>3. up
    BY <2>1 DEF StreamInv
  <2>4. CASE queue' = Append(queue, msg[t]) /\ UNCHANGED <<subscribed, owed>>
    <3>1. ToSet(queue') = ToSet(queue) \cup {msg[t]}
      BY <2>4, NumberTypes, QueueAppend
    <3> QED BY <2>1, <2>2, <2>3, <2>4, <3>1 DEF StreamInv
  <2>5. CASE subscribed' = FALSE /\ owed' = [s \in Surfaces |-> 0] /\ UNCHANGED queue
    <3>1. \A s \in Surfaces : owed'[s] = 0 /\ owed'[s] <= disk
      BY <2>5, NumberTypes
    <3> QED BY <2>1, <2>2, <2>3, <2>5, <3>1 DEF StreamInv
  <2> QED BY <2>1, <2>4, <2>5 DEF Enqueue
<1>6. CASE Hello
  <2>1. /\ conn = "subscribed" /\ conn' = "open" /\ sound' = [s \in Surfaces |-> FALSE]
        /\ inbox' = [s \in Surfaces |-> Append(inbox[s], Event("hello", generation))]
        /\ UNCHANGED <<disk, up, generation, pc, msg, subscribed, queue, owed>>
    BY <1>6 DEF Hello, ToAll
  <2>2. /\ Event("hello", generation) \in Events
        /\ Event("hello", generation).kind = "hello"
        /\ Event("hello", generation).generation = generation
    BY EventType DEF TypeInv, TypeOK
  <2>3. \A s \in Surfaces : Current(inbox'[s], generation)
    BY <2>1, <2>2, NumberTypes, CurrentAppend
  <2> QED BY <2>1, <2>3 DEF StreamInv
<1>7. CASE Write
  <2>1. /\ conn = "open" /\ queue # <<>> /\ queue' = Tail(queue)
        /\ inbox' = [s \in Surfaces |-> Append(inbox[s], Head(queue))]
        /\ UNCHANGED <<disk, up, generation, pc, msg, subscribed, conn, hostGeneration, owed, sound>>
    BY <1>7 DEF Write, ToAll
  <2>2. ToSet(queue) = {Head(queue)} \cup ToSet(queue') /\ Head(queue) \in Events
    BY <2>1, NumberTypes, QueueTail
  <2>3. Head(queue).generation <= generation
    BY <2>2 DEF StreamInv
  <2>4. \A s \in Surfaces : Current(inbox'[s], generation)
    BY <2>1, <2>2, <2>3, NumberTypes, CurrentAppend DEF StreamInv
  <2>5. up
    BY <2>1 DEF StreamInv
  <2> QED BY <2>1, <2>2, <2>4, <2>5 DEF StreamInv
<1>8. CASE Stop
  <2>1. ToSet(<<>>) = {}
    BY DEF ToSet
  <2>2. \A s \in Surfaces : owed'[s] = 0 /\ 0 <= disk
    BY <1>8, NumberTypes DEF Stop
  <2> QED BY <1>8, <2>1, <2>2 DEF Stop, StreamInv
<1>9. CASE Start
  <2>1. ToSet(queue) = {}
    BY <1>9 DEF Start, StreamInv, ToSet
  <2> QED BY <1>9, <2>1 DEF Start, StreamInv
<1>10. CASE Connect
  <2>1. ToSet(<<>>) = {}
    BY DEF ToSet
  <2> QED BY <1>10, <2>1 DEF Connect, StreamInv
<1>11. ASSUME NEW s \in Surfaces, Lose(s) \/ Handle(s) PROVE StreamInv'
  BY <1>11, HearStream DEF Lose, Handle
<1>12. ASSUME NEW s \in Surfaces, Baseline(s) PROVE StreamInv'
  <2>1. /\ inbox[s] # <<>> /\ inbox' = [inbox EXCEPT ![s] = Tail(@)]
        /\ UNCHANGED <<disk, daemon, conn, owed>>
        /\ hostGeneration' = [hostGeneration EXCEPT ![s] = Head(inbox[s]).generation]
        /\ sound' = [sound EXCEPT ![s] = FromThisStream(Tail(inbox[s]))]
    BY <1>12 DEF Baseline
  <2>2. /\ hostGeneration'[s] = Head(inbox[s]).generation
        /\ sound'[s] = FromThisStream(Tail(inbox[s]))
        /\ \A u \in Surfaces \ {s} : sound'[u] = sound[u] /\ hostGeneration'[u] = hostGeneration[u]
    BY <2>1 DEF TypeInv, TypeOK
  <2> QED BY <2>1, <2>2, HearStream
<1>13. ASSUME NEW s \in Surfaces, Reload(s) PROVE StreamInv'
  <2>1. /\ ~sound'[s]
        /\ \A u \in Surfaces \ {s} : sound'[u] = sound[u] /\ hostGeneration'[u] = hostGeneration[u]
    BY <1>13 DEF Reload, TypeInv, TypeOK
  <2> QED BY <1>13, <2>1, HearStream DEF Reload
<1>14. ASSUME NEW s \in Surfaces, Load(s) PROVE StreamInv'
  BY <1>14 DEF Load, StreamInv
<1> QED BY <1>1, <1>2, <1>3, <1>4, <1>5, <1>6, <1>7, <1>8, <1>9, <1>10, <1>11, <1>12, <1>13, <1>14
        DEF Next, Nethosd, Hear

-----------------------------------------------------------------------------
(* What is owed is on its way.                                             *)

\* Some thread has counted up past what the page compares with, or has made
\* the event; or it is in the stream.
Coming(s) ==
  \/ \E m \in ToSet(inbox[s]) \cup ToSet(queue) : Newer(s, m)
  \/ \E t \in Broadcasters :
       \/ pc[t] = "built" /\ Newer(s, msg[t])
       \/ pc[t] = "bumped" /\ hostGeneration[s] < generation

Due(s) ==
  /\ phase[s] = "ready" /\ hostGeneration[s] # Unset /\ sound[s] /\ Coming(s)

OwedInv == \A s \in Surfaces : Owed(s) => phase[s] = "loading" \/ Due(s)

\* Steps that neither owe anything new nor touch the page.
LEMMA StillOwed ==
  ASSUME OwedInv, UNCHANGED <<phase, version, hostGeneration, sound>>,
         \A s \in Surfaces : owed'[s] = owed[s] \/ (owed'[s] = 0 /\ version[s] \in Nat),
         \A s \in Surfaces : phase[s] = "ready" /\ owed'[s] = owed[s] /\ Coming(s) => Coming(s)'
  PROVE  OwedInv'
<1> SUFFICES ASSUME NEW s \in Surfaces, Owed(s)' PROVE phase'[s] = "loading" \/ Due(s)'
  BY DEF OwedInv
<1>1. owed'[s] = owed[s]
  BY DEF Owed
<1>2. Owed(s)
  BY <1>1 DEF Owed
<1> QED BY <1>1, <1>2 DEF OwedInv, Due

LEMMA BumpOwed ==
  ASSUME TypeInv, StreamInv, OwedInv, NEW t \in Broadcasters, Bump(t),
         UNCHANGED <<disk, queue, conn, inbox, pages, sound>>
  PROVE  OwedInv'
<1> USE NumberTypes DEF pages
<1>0. Broadcasters \subseteq Threads
  BY DEF Threads
<1> SUFFICES ASSUME NEW s \in Surfaces, Owed(s)' PROVE phase'[s] = "loading" \/ Due(s)'
  BY DEF OwedInv
<1>1. /\ pc[t] = "idle" /\ pc' = [pc EXCEPT ![t] = "bumped"] /\ generation' = generation + 1
      /\ owed' = [u \in Surfaces |-> IF Attentive(u) THEN disk ELSE owed[u]] /\ msg' = msg
  BY DEF Bump
<1>2. pc'[t] = "bumped" /\ \A u \in Broadcasters \ {t} : pc'[u] = pc[u]
  BY <1>0, <1>1 DEF TypeInv, TypeOK
<1>3. CASE Attentive(s)
  <2>1. /\ phase[s] = "ready" /\ hostGeneration[s] # Unset /\ sound[s]
        /\ hostGeneration[s] <= generation
    BY <1>3 DEF Attentive, StreamInv
  <2>2. hostGeneration[s] < generation'
    BY <1>1, <2>1
  <2> QED BY <1>2, <2>1, <2>2 DEF Due, Coming
<1>4. CASE ~Attentive(s)
  <2>1. owed'[s] = owed[s]
    BY <1>1, <1>4
  <2>2. phase[s] = "loading" \/ Due(s)
    BY <2>1 DEF OwedInv, Owed
  <2>3. hostGeneration[s] < generation => hostGeneration[s] < generation'
    BY <1>1
  <2>4. Coming(s) => Coming(s)'
    BY <1>1, <1>2, <2>3 DEF Coming, Newer
  <2> QED BY <2>2, <2>4 DEF Due
<1> QED BY <1>3, <1>4

LEMMA StepOwed == ASSUME TypeInv, StreamInv, OwedInv, Next PROVE OwedInv'
<1> USE NumberTypes DEF daemon, pages, history
<1>0. Broadcasters \subseteq Threads \ Others
  BY ThreadsAssumption DEF Threads, Broadcasters
<1>1. CASE Edit
  BY <1>1 DEF Edit, OwedInv, Owed, Due, Coming, Newer
<1>2. CASE FilesChanged
  BY <1>2, BumpOwed DEF FilesChanged, Threads, Broadcasters
<1>3. ASSUME NEW t \in Requests, Post(t) PROVE OwedInv'
  BY <1>3, BumpOwed DEF Post, Threads, Broadcasters
<1>4. ASSUME NEW t \in Threads, Build(t) PROVE OwedInv'
  <2>1. /\ pc[t] = IF t \in Others THEN "idle" ELSE "bumped"
        /\ pc' = [pc EXCEPT ![t] = "built"]
        /\ msg' = [msg EXCEPT ![t] = Event(IF t \in Others THEN "tick" ELSE "reload", generation)]
        /\ UNCHANGED <<generation, queue, inbox, pages, sound, owed>>
    BY <1>4 DEF Build
  <2>2. /\ pc'[t] = "built" /\ msg'[t].generation = generation
        /\ t \notin Others => msg'[t].kind = "reload"
    BY <2>1 DEF Event, TypeInv, TypeOK
  <2>3. \A u \in Threads \ {t} : pc'[u] = pc[u] /\ msg'[u] = msg[u]
    BY <2>1 DEF TypeInv, TypeOK
  <2>4. ASSUME NEW s \in Surfaces, Coming(s) PROVE Coming(s)'
    <3>1. CASE \E m \in ToSet(inbox[s]) \cup ToSet(queue) : Newer(s, m)
      BY <2>1, <3>1 DEF Coming, Newer
    <3>2. ASSUME NEW u \in Broadcasters,
                 \/ pc[u] = "built" /\ Newer(s, msg[u])
                 \/ pc[u] = "bumped" /\ hostGeneration[s] < generation
          PROVE  Coming(s)'
      <4>1. CASE u = t
        BY <1>0, <2>1, <2>2, <3>2, <4>1 DEF Coming, Newer
      <4>2. CASE u # t
        BY <1>0, <2>1, <2>3, <3>2, <4>2 DEF Coming, Newer
      <4> QED BY <4>1, <4>2
    <3> QED BY <2>4, <3>1, <3>2 DEF Coming
  <2> QED BY <2>1, <2>4, StillOwed
<1>5. ASSUME NEW t \in Threads, Put(t) PROVE OwedInv'
  <2>1. /\ pc' = [pc EXCEPT ![t] = "idle"] /\ msg' = [msg EXCEPT ![t] = Event("tick", 0)]
        /\ Enqueue(msg[t]) /\ pc[t] = "built"
        /\ UNCHANGED <<generation, inbox, pages, sound>>
    BY <1>5 DEF Put
  <2>2. \A u \in Threads \ {t} : pc'[u] = pc[u] /\ msg'[u] = msg[u]
    BY <2>1 DEF TypeInv, TypeOK
  <2>3. CASE queue' = Append(queue, msg[t]) /\ UNCHANGED <<subscribed, owed>>
    <3>1. ToSet(queue') = ToSet(queue) \cup {msg[t]}
      BY <2>3, QueueAppend
    <3>2. \A s \in Surfaces : Coming(s) => Coming(s)'
      BY <1>0, <2>1, <2>2, <3>1 DEF Coming, Newer
    <3> QED BY <2>1, <2>3, <3>2, StillOwed
  <2>4. CASE owed' = [s \in Surfaces |-> 0]
    <3>1. \A s \in Surfaces : ~Owed(s)'
      BY <2>1, <2>4 DEF Owed
    <3> QED BY <3>1 DEF OwedInv
  <2> QED BY <2>1, <2>3, <2>4 DEF Enqueue
<1>6. CASE Hello \/ Connect \/ Start \/ Stop
  <2>1. \A s \in Surfaces : owed'[s] = 0 /\ version'[s] = version[s]
    BY <1>6 DEF Hello, Connect, Start, Stop, StreamInv
  <2> QED BY <2>1 DEF OwedInv, Owed
<1>7. CASE Write
  <2>1. /\ queue # <<>> /\ queue' = Tail(queue)
        /\ inbox' = [s \in Surfaces |-> Append(inbox[s], Head(queue))]
        /\ UNCHANGED <<generation, pc, msg, pages, owed, sound>>
    BY <1>7 DEF Write, ToAll
  <2>2. ToSet(queue) = {Head(queue)} \cup ToSet(queue') /\ Head(queue) \in Events
    BY <2>1, QueueTail
  <2>3. \A s \in Surfaces : ToSet(inbox'[s]) = ToSet(inbox[s]) \cup {Head(queue)}
    BY <2>1, <2>2, QueueAppend
  <2>4. \A s \in Surfaces : Coming(s) => Coming(s)'
    BY <2>1, <2>2, <2>3 DEF Coming, Newer
  <2> QED BY <2>1, <2>4, StillOwed
<1>8. ASSUME NEW s \in Surfaces, inbox[s] # <<>>, inbox' = [inbox EXCEPT ![s] = Tail(@)],
             UNCHANGED <<daemon, owed, version>>,
             \A u \in Surfaces \ {s} : /\ phase'[u] = phase[u] /\ sound'[u] = sound[u]
                                       /\ hostGeneration'[u] = hostGeneration[u],
             Owed(s) => phase'[s] = "loading" \/ Due(s)'
      PROVE  OwedInv'
  <2>1. \A u \in Surfaces \ {s} : inbox'[u] = inbox[u]
    BY <1>8 DEF TypeInv, TypeOK
  <2> SUFFICES ASSUME NEW u \in Surfaces, Owed(u)' PROVE phase'[u] = "loading" \/ Due(u)'
    BY DEF OwedInv
  <2>2. Owed(u)
    BY <1>8 DEF Owed
  <2>3. CASE u # s
    BY <1>8, <2>1, <2>2, <2>3 DEF OwedInv, Due, Coming, Newer
  <2> QED BY <1>8, <2>2, <2>3
<1>9. ASSUME NEW s \in Surfaces, Lose(s) PROVE OwedInv'
  <2>1. Owed(s) => phase'[s] = "loading"
    BY <1>9 DEF Lose, OwedInv, Due
  <2> QED BY <1>8, <1>9, <2>1 DEF Lose
<1>10. ASSUME NEW s \in Surfaces, Baseline(s) PROVE OwedInv'
  <2>1. ~Owed(s)
    BY <1>10 DEF Baseline, OwedInv, Due
  <2>2. \A u \in Surfaces \ {s} : sound'[u] = sound[u] /\ hostGeneration'[u] = hostGeneration[u]
    BY <1>10 DEF Baseline, TypeInv, TypeOK
  <2> QED BY <1>8, <1>10, <2>1, <2>2 DEF Baseline
<1>11. ASSUME NEW s \in Surfaces, Reload(s) PROVE OwedInv'
  <2>1. /\ phase'[s] = "loading"
        /\ \A u \in Surfaces \ {s} : /\ phase'[u] = phase[u] /\ sound'[u] = sound[u]
                                     /\ hostGeneration'[u] = hostGeneration[u]
    BY <1>11 DEF Reload, TypeInv, TypeOK
  <2> QED BY <1>8, <1>11, <2>1 DEF Reload
<1>12. ASSUME NEW s \in Surfaces, Handle(s) PROVE OwedInv'
  <2>1. /\ inbox[s] # <<>> /\ inbox' = [inbox EXCEPT ![s] = Tail(@)] /\ phase[s] = "ready"
        /\ ~Newer(s, Head(inbox[s])) /\ UNCHANGED <<daemon, pages, owed, sound>>
    BY <1>12 DEF Handle
  <2>2. ToSet(inbox[s]) = {Head(inbox[s])} \cup ToSet(inbox'[s])
    BY <2>1, QueueTail DEF TypeInv, TypeOK
  <2>3. Due(s) => Due(s)'
    BY <2>1, <2>2 DEF Due, Coming, Newer
  <2> QED BY <1>8, <2>1, <2>3 DEF OwedInv
<1>13. ASSUME NEW s \in Surfaces, Load(s) PROVE OwedInv'
  <2>1. /\ phase[s] = "loading" /\ UNCHANGED <<disk, daemon, conn, inbox, hostGeneration, history>>
        /\ up => version' = [version EXCEPT ![s] = disk]
        /\ ~up => version' = version
        /\ \A u \in Surfaces \ {s} : phase'[u] = phase[u]
    BY <1>13 DEF Load, TypeInv, TypeOK
  <2>2. ~Owed(s)'
    <3>1. owed[s] <= disk
      BY DEF StreamInv
    <3>2. CASE up
      BY <2>1, <3>1, <3>2 DEF Owed, TypeInv, TypeOK
    <3>3. CASE ~up
      BY <2>1, <3>3 DEF Owed, StreamInv
    <3> QED BY <3>2, <3>3
  <2>3. \A u \in Surfaces \ {s} : version'[u] = version[u]
    BY <2>1 DEF TypeInv, TypeOK
  <2> SUFFICES ASSUME NEW u \in Surfaces \ {s}, Owed(u)' PROVE phase'[u] = "loading" \/ Due(u)'
    BY <2>2 DEF OwedInv
  <2>4. Owed(u)
    BY <2>1, <2>3 DEF Owed
  <2> QED BY <2>1, <2>4 DEF OwedInv, Due, Coming, Newer
<1> QED BY <1>1, <1>2, <1>3, <1>4, <1>5, <1>6, <1>7, <1>9, <1>10, <1>11, <1>12, <1>13
        DEF Next, Nethosd, Hear

ReloadInv == TypeInv /\ StreamInv /\ OwedInv

LEMMA InitReload == Init => ReloadInv
<1>1. Init => OwedInv
  BY DEF Init, OwedInv, Owed
<1> QED BY <1>1, InitType, InitStream DEF ReloadInv

LEMMA ReloadInductive == ReloadInv /\ [Next]_vars => ReloadInv'
<1>1. ASSUME ReloadInv, Next PROVE ReloadInv'
  BY <1>1, StepType, StepStream, StepOwed DEF ReloadInv
<1>2. ASSUME ReloadInv, UNCHANGED vars PROVE ReloadInv'
  BY <1>2, StutterType DEF vars, daemon, pages, history, ReloadInv, StreamInv, OwedInv,
     Owed, Due, Coming, Newer
<1> QED BY <1>1, <1>2

\* Whatever order the broadcasts, the ticker, the hello, a full queue and the
\* restarts of nethosd come in, no surface loses the reload it is owed.
THEOREM ReloadsOnTheirWay == Spec => []ReloadOnItsWay
<1>1. ReloadInv => ReloadOnItsWay
  <2> SUFFICES ASSUME ReloadInv, NEW s \in Surfaces, Owed(s)
               PROVE  phase[s] = "loading" \/ OnItsWay(s)
    BY DEF ReloadOnItsWay
  <2>1. hostGeneration[s] < generation => generation # hostGeneration[s]
    BY NumberTypes DEF ReloadInv
  <2> QED BY <2>1 DEF ReloadInv, OwedInv, Due, Coming, OnItsWay
<1> QED BY <1>1, InitReload, ReloadInductive, PTL DEF Spec

-----------------------------------------------------------------------------
(* Reloads are earned.  A broadcast is one reload to come for every        *)
(* surface: in a thread, in the queue, or in the inbox.                    *)

Marks(q) == {i \in 1 .. Len(q) : q[i].kind = "reload"}
Count(q) == Cardinality(Marks(q))
Announcing(t) == pc[t] = "bumped" \/ (pc[t] = "built" /\ msg[t].kind = "reload")
Announced == {t \in Threads : Announcing(t)}

EarnedInv ==
  \A s \in Surfaces : reloads[s] + Count(inbox[s]) + Count(queue) + Cardinality(Announced) <= bumps

LEMMA CountType ==
  ASSUME NEW q \in Seq(Events)
  PROVE  IsFiniteSet(Marks(q)) /\ Count(q) \in Nat
<1>1. Len(q) \in Nat /\ IsFiniteSet(1 .. Len(q))
  BY FS_Interval
<1>2. IsFiniteSet(Marks(q))
  BY <1>1, FS_Subset DEF Marks
<1> QED BY <1>2, FS_CardinalityType DEF Count

LEMMA CountEmpty == Count(<<>>) = 0
<1>1. Marks(<<>>) = {}
  BY DEF Marks
<1> QED BY <1>1, FS_EmptySet DEF Count

LEMMA CountAppend ==
  ASSUME NEW q \in Seq(Events), NEW m \in Events
  PROVE  Count(Append(q, m)) = IF m.kind = "reload" THEN Count(q) + 1 ELSE Count(q)
<1>1. /\ Len(q) \in Nat /\ Len(Append(q, m)) = Len(q) + 1
      /\ \A i \in 1 .. Len(q) : Append(q, m)[i] = q[i]
      /\ Append(q, m)[Len(q) + 1] = m
  OBVIOUS
<1>2. \A i : i \in 1 .. Len(q) + 1 <=> i \in 1 .. Len(q) \/ i = Len(q) + 1
  BY <1>1
<1>3. Marks(Append(q, m)) = IF m.kind = "reload" THEN Marks(q) \cup {Len(q) + 1} ELSE Marks(q)
  BY <1>1, <1>2 DEF Marks
<1>4. Len(q) + 1 \notin Marks(q)
  BY <1>1 DEF Marks
<1> QED BY <1>3, <1>4, CountType, FS_AddElement DEF Count

LEMMA CountTail ==
  ASSUME NEW q \in Seq(Events), q # <<>>
  PROVE  Count(q) = IF Head(q).kind = "reload" THEN Count(Tail(q)) + 1 ELSE Count(Tail(q))
<1> DEFINE S == Marks(Tail(q))
           T == Marks(q) \ {1}
           f == [i \in S |-> i + 1]
<1>1. /\ Len(q) \in Nat \ {0} /\ Len(Tail(q)) = Len(q) - 1 /\ Tail(q) \in Seq(Events)
      /\ \A i \in 1 .. Len(q) - 1 : Tail(q)[i] = q[i + 1]
      /\ Head(q) = q[1]
  OBVIOUS
<1>2. S \subseteq 1 .. Len(q) - 1
  BY <1>1 DEF Marks
<1>3. \A i \in S : i \in Nat /\ i + 1 \in T
  BY <1>1 DEF Marks
<1>4. \A j \in T : j - 1 \in S /\ j - 1 + 1 = j
  BY <1>1 DEF Marks
<1>5. f \in Bijection(S, T)
  <2> HIDE DEF S, T
  <2>1. f \in [S -> T]
    BY <1>3
  <2>2. \A a, b \in S : f[a] = f[b] => a = b
    BY <1>3
  <2>3. \A t \in T : \E s \in S : f[s] = t
    BY <1>4
  <2> QED BY <2>1, <2>2, <2>3, Fun_IsBij
<1>6. IsFiniteSet(S) /\ IsFiniteSet(Marks(q)) /\ Cardinality(S) \in Nat
  BY <1>1, CountType, FS_CardinalityType
<1>7. Cardinality(T) = Cardinality(S)
  <2> HIDE DEF S, T, f
  <2>1. ExistsBijection(S, T)
    BY <1>5, Fun_ExistsBij
  <2> QED BY <1>6, <2>1, FS_Bijection
<1>8. 1 \in Marks(q) <=> Head(q).kind = "reload"
  BY <1>1 DEF Marks
<1>9. Cardinality(T) = IF 1 \in Marks(q) THEN Cardinality(Marks(q)) - 1 ELSE Cardinality(Marks(q))
  BY <1>6, FS_RemoveElement
<1>10. Cardinality(Marks(q)) \in Nat
  BY <1>6, FS_CardinalityType
<1> QED BY <1>6, <1>7, <1>8, <1>9, <1>10 DEF Count

LEMMA AnnouncedType == IsFiniteSet(Announced) /\ Cardinality(Announced) \in Nat
<1>1. IsFiniteSet({"watcher"} \cup Requests \cup Others)
  <2>1. IsFiniteSet({"watcher"} \cup Requests)
    BY ThreadsAssumption, FS_AddElement
  <2> QED BY <2>1, ThreadsAssumption, FS_Union
<1>2. IsFiniteSet(Announced)
  BY <1>1, FS_Subset DEF Announced, Threads, Broadcasters
<1> QED BY <1>2, FS_CardinalityType

LEMMA FewerAnnounced ==
  ASSUME Announced' \subseteq Announced
  PROVE  Cardinality(Announced') \in Nat /\ Cardinality(Announced') <= Cardinality(Announced)
BY AnnouncedType, FS_Subset, FS_CardinalityType

\* The sums of the steps that bring no surface more than they take.
LEMMA NoneGained ==
  ASSUME TypeInv, TypeInv', EarnedInv, UNCHANGED <<reloads, bumps>>,
         Announced' \subseteq Announced, Count(queue') <= Count(queue),
         \A s \in Surfaces : Count(inbox'[s]) <= Count(inbox[s])
  PROVE  EarnedInv'
<1> SUFFICES ASSUME NEW s \in Surfaces
             PROVE  reloads[s] + Count(inbox'[s]) + Count(queue') + Cardinality(Announced') <= bumps
  BY DEF EarnedInv, Announced, Announcing
<1>1. /\ Cardinality(Announced') <= Cardinality(Announced)
      /\ Cardinality(Announced) \in Nat /\ Cardinality(Announced') \in Nat
  BY FewerAnnounced, AnnouncedType
<1>2. /\ Count(queue) \in Nat /\ Count(queue') \in Nat
      /\ Count(inbox[s]) \in Nat /\ Count(inbox'[s]) \in Nat
      /\ reloads[s] \in Nat /\ bumps \in Nat
  BY CountType, BoundsAssumption DEF TypeInv, TypeOK, Generations
<1>3. \A r, i, q, a, i1, q1, a1, b \in Nat :
        r + i + q + a <= b /\ i1 <= i /\ q1 <= q /\ a1 <= a => r + i1 + q1 + a1 <= b
  OBVIOUS
<1> QED BY <1>1, <1>2, <1>3 DEF EarnedInv

LEMMA BumpEarned ==
  ASSUME TypeInv, EarnedInv, NEW t \in Threads, Bump(t), UNCHANGED <<queue, inbox, reloads>>
  PROVE  EarnedInv'
<1> SUFFICES ASSUME NEW s \in Surfaces
             PROVE  reloads[s] + Count(inbox[s]) + Count(queue) + Cardinality(Announced') <= bumps'
  BY DEF EarnedInv, Count, Marks
<1>1. /\ pc' = [pc EXCEPT ![t] = "bumped"] /\ pc[t] = "idle" /\ bumps' = bumps + 1 /\ msg' = msg
  BY DEF Bump
<1>2. Announced' = Announced \cup {t}
  <2>1. pc'[t] = "bumped" /\ \A u \in Threads \ {t} : pc'[u] = pc[u]
    BY <1>1 DEF TypeInv, TypeOK
  <2>2. Announcing(t)' /\ \A u \in Threads \ {t} : Announcing(u)' <=> Announcing(u)
    BY <1>1, <2>1 DEF Announcing
  <2> HIDE DEF Announcing
  <2> QED BY <2>2 DEF Announced
<1>3. t \notin Announced
  BY <1>1 DEF Announced, Announcing
<1>4. Cardinality(Announced') = Cardinality(Announced) + 1
  BY <1>2, <1>3, AnnouncedType, FS_AddElement
<1>5. /\ Count(queue) \in Nat /\ Count(inbox[s]) \in Nat /\ reloads[s] \in Nat /\ bumps \in Nat
      /\ Cardinality(Announced) \in Nat
  BY CountType, AnnouncedType, BoundsAssumption DEF TypeInv, TypeOK, Generations
<1>6. reloads[s] + Count(inbox[s]) + Count(queue) + Cardinality(Announced) <= bumps
  BY DEF EarnedInv
<1>7. \A r, i, q, a, b \in Nat : r + i + q + a <= b => r + i + q + (a + 1) <= b + 1
  OBVIOUS
<1> QED BY <1>1, <1>4, <1>5, <1>6, <1>7

\* An event goes from a thread to the queue, or from there to every inbox.
LEMMA PutEarned == ASSUME TypeInv, TypeInv', EarnedInv, NEW t \in Threads, Put(t) PROVE EarnedInv'
<1>1. /\ pc[t] = "built" /\ pc' = [pc EXCEPT ![t] = "idle"]
      /\ msg' = [msg EXCEPT ![t] = Event("tick", 0)] /\ Enqueue(msg[t])
      /\ UNCHANGED <<inbox, reloads, bumps>>
  BY DEF Put
<1>2. Announced' = Announced \ {t}
  <2>1. /\ pc'[t] = "idle"
        /\ \A u \in Threads \ {t} : pc'[u] = pc[u] /\ msg'[u] = msg[u]
    BY <1>1 DEF TypeInv, TypeOK
  <2>2. ~Announcing(t)' /\ \A u \in Threads \ {t} : Announcing(u)' <=> Announcing(u)
    BY <2>1 DEF Announcing
  <2> HIDE DEF Announcing
  <2> QED BY <2>2 DEF Announced
<1>3. CASE queue' = queue
  <2>1. Count(queue') <= Count(queue) /\ \A s \in Surfaces : Count(inbox'[s]) <= Count(inbox[s])
    BY <1>1, <1>3, CountType DEF TypeInv, TypeOK
  <2> QED BY <1>1, <1>2, <2>1, NoneGained
<1>4. CASE queue' = Append(queue, msg[t])
  <2>1. Count(queue') = IF msg[t].kind = "reload" THEN Count(queue) + 1 ELSE Count(queue)
    BY <1>4, CountAppend DEF TypeInv, TypeOK
  <2>2. CASE msg[t].kind # "reload"
    <3>1. Count(queue') <= Count(queue) /\ \A s \in Surfaces : Count(inbox'[s]) <= Count(inbox[s])
      BY <1>1, <2>1, <2>2, CountType DEF TypeInv, TypeOK
    <3> QED BY <1>1, <1>2, <3>1, NoneGained
  <2>3. CASE msg[t].kind = "reload"
    <3>1. t \in Announced
      BY <1>1, <2>3 DEF Announced, Announcing
    <3>2. Cardinality(Announced') = Cardinality(Announced) - 1
      BY <1>2, <3>1, AnnouncedType, FS_RemoveElement
    <3> SUFFICES ASSUME NEW s \in Surfaces
                 PROVE  reloads[s] + Count(inbox[s]) + Count(queue') + Cardinality(Announced') <= bumps
      BY <1>1 DEF EarnedInv, Count, Marks
    <3>3. /\ Count(queue) \in Nat /\ Count(inbox[s]) \in Nat /\ reloads[s] \in Nat /\ bumps \in Nat
          /\ Cardinality(Announced) \in Nat
      BY CountType, AnnouncedType, BoundsAssumption DEF TypeInv, TypeOK, Generations
    <3>4. reloads[s] + Count(inbox[s]) + Count(queue) + Cardinality(Announced) <= bumps
      BY DEF EarnedInv
    <3>5. \A r, i, q, a, b \in Nat : r + i + q + a <= b => r + i + (q + 1) + (a - 1) <= b
      OBVIOUS
    <3> QED BY <2>1, <2>3, <3>2, <3>3, <3>4, <3>5
  <2> QED BY <2>2, <2>3
<1> QED BY <1>1, <1>3, <1>4 DEF Enqueue

LEMMA WriteEarned == ASSUME TypeInv, EarnedInv, Write PROVE EarnedInv'
<1>1. /\ queue # <<>> /\ queue' = Tail(queue)
      /\ inbox' = [s \in Surfaces |-> Append(inbox[s], Head(queue))]
      /\ UNCHANGED <<pc, msg, reloads, bumps>>
  BY DEF Write, ToAll, history
<1> SUFFICES ASSUME NEW s \in Surfaces
             PROVE  reloads[s] + Count(inbox'[s]) + Count(queue') + Cardinality(Announced) <= bumps
  BY <1>1 DEF EarnedInv, Announced, Announcing, Count, Marks
<1>2. /\ queue \in Seq(Events) /\ inbox[s] \in Seq(Events) /\ Head(queue) \in Events
      /\ Tail(queue) \in Seq(Events)
  BY <1>1 DEF TypeInv, TypeOK
<1>3. /\ Count(queue) = IF Head(queue).kind = "reload" THEN Count(queue') + 1 ELSE Count(queue')
      /\ Count(inbox'[s]) = IF Head(queue).kind = "reload" THEN Count(inbox[s]) + 1 ELSE Count(inbox[s])
  BY <1>1, <1>2, CountTail, CountAppend
<1>4. /\ Count(queue') \in Nat /\ Count(inbox[s]) \in Nat /\ reloads[s] \in Nat /\ bumps \in Nat
      /\ Cardinality(Announced) \in Nat
  <2>1. Count(Tail(queue)) \in Nat /\ Count(inbox[s]) \in Nat
    BY <1>2, CountType
  <2> QED BY <1>1, <2>1, AnnouncedType, BoundsAssumption DEF TypeInv, TypeOK, Generations
<1>5. reloads[s] + Count(inbox[s]) + Count(queue) + Cardinality(Announced) <= bumps
  BY DEF EarnedInv
<1>6. \A r, i, q, a, b \in Nat : r + i + (q + 1) + a <= b => r + (i + 1) + q + a <= b
  OBVIOUS
<1> QED BY <1>3, <1>4, <1>5, <1>6

LEMMA StepEarned == ASSUME TypeInv, TypeInv', EarnedInv, Next PROVE EarnedInv'
<1> USE DEF daemon, pages, history
<1>0. /\ Count(queue) \in Nat /\ \A s \in Surfaces : Count(inbox[s]) \in Nat
  BY CountType DEF TypeInv, TypeOK
<1>1. ASSUME UNCHANGED <<queue, inbox, reloads, bumps>>, Announced' \subseteq Announced PROVE EarnedInv'
  BY <1>0, <1>1, NoneGained
<1>2. CASE Edit
  BY <1>1, <1>2 DEF Edit, Announced, Announcing
<1>3. CASE FilesChanged
  BY <1>3, BumpEarned DEF FilesChanged, Threads, Broadcasters
<1>4. ASSUME NEW t \in Requests, Post(t) PROVE EarnedInv'
  BY <1>4, BumpEarned DEF Post, Threads, Broadcasters
<1>5. ASSUME NEW t \in Threads, Build(t) PROVE EarnedInv'
  <2>1. /\ pc[t] = IF t \in Others THEN "idle" ELSE "bumped"
        /\ pc' = [pc EXCEPT ![t] = "built"]
        /\ msg' = [msg EXCEPT ![t] = Event(IF t \in Others THEN "tick" ELSE "reload", generation)]
        /\ UNCHANGED <<queue, inbox, reloads, bumps>>
    BY <1>5 DEF Build
  <2>2. /\ pc'[t] = "built"
        /\ t \in Others => msg'[t].kind = "tick"
        /\ \A u \in Threads \ {t} : pc'[u] = pc[u] /\ msg'[u] = msg[u]
    BY <2>1 DEF Event, TypeInv, TypeOK
  <2>3. \A u \in Threads : Announcing(u)' => Announcing(u)
    BY <2>1, <2>2 DEF Announcing
  <2>4. Announced' \subseteq Announced
    <3> HIDE DEF Announcing
    <3> QED BY <2>3 DEF Announced
  <2> QED BY <1>1, <2>1, <2>4
<1>6. ASSUME NEW t \in Threads, Put(t) PROVE EarnedInv'
  BY <1>6, PutEarned
<1>7. CASE Hello
  <2>1. /\ inbox' = [s \in Surfaces |-> Append(inbox[s], Event("hello", generation))]
        /\ UNCHANGED <<pc, msg, queue, reloads, bumps>>
    BY <1>7 DEF Hello, ToAll
  <2>2. Event("hello", generation) \in Events /\ Event("hello", generation).kind = "hello"
    BY EventType DEF TypeInv, TypeOK
  <2>3. \A s \in Surfaces : Count(inbox'[s]) = Count(inbox[s])
    BY <2>1, <2>2, CountAppend DEF TypeInv, TypeOK
  <2>4. Announced' \subseteq Announced
    BY <2>1 DEF Announced, Announcing
  <2> QED BY <1>0, <2>1, <2>3, <2>4, NoneGained
<1>8. CASE Write
  BY <1>8, WriteEarned
<1>9. CASE Stop \/ Connect
  <2>1. UNCHANGED <<inbox, reloads, bumps>> /\ queue' = <<>>
    BY <1>9 DEF Stop, Connect
  <2>2. Announced' \subseteq Announced
    BY <1>9 DEF Stop, Connect, Announced, Announcing
  <2>3. Count(queue') <= Count(queue)
    BY <1>0, <2>1, CountEmpty
  <2> QED BY <1>0, <2>1, <2>2, <2>3, NoneGained
<1>10. CASE Start
  BY <1>1, <1>10 DEF Start, Announced, Announcing
<1>11. ASSUME NEW s \in Surfaces, inbox[s] # <<>>, inbox' = [inbox EXCEPT ![s] = Tail(@)]
       PROVE  /\ inbox'[s] = Tail(inbox[s]) /\ \A u \in Surfaces \ {s} : inbox'[u] = inbox[u]
              /\ Count(inbox[s]) = IF Head(inbox[s]).kind = "reload" THEN Count(inbox'[s]) + 1
                                   ELSE Count(inbox'[s])
              /\ Count(inbox'[s]) \in Nat
  <2>1. inbox[s] \in Seq(Events) /\ Tail(inbox[s]) \in Seq(Events)
    BY <1>11 DEF TypeInv, TypeOK
  <2>2. inbox'[s] = Tail(inbox[s]) /\ \A u \in Surfaces \ {s} : inbox'[u] = inbox[u]
    BY <1>11 DEF TypeInv, TypeOK
  <2> QED BY <1>11, <2>1, <2>2, CountTail, CountType
<1>12. ASSUME NEW s \in Surfaces, Lose(s) \/ Baseline(s) \/ Handle(s) PROVE EarnedInv'
  <2>1. /\ inbox[s] # <<>> /\ inbox' = [inbox EXCEPT ![s] = Tail(@)]
        /\ UNCHANGED <<pc, msg, queue, reloads, bumps>>
    BY <1>12 DEF Lose, Baseline, Handle
  <2>2. ASSUME NEW u \in Surfaces PROVE Count(inbox'[u]) <= Count(inbox[u])
    <3>0. /\ \A v \in Surfaces \ {s} : inbox'[v] = inbox[v]
          /\ Count(inbox[s]) = Count(inbox'[s]) \/ Count(inbox[s]) = Count(inbox'[s]) + 1
          /\ Count(inbox'[s]) \in Nat
      BY <1>11, <2>1
    <3>1. CASE u = s
      BY <3>0, <3>1
    <3>2. CASE u # s
      BY <1>0, <3>0, <3>2
    <3> QED BY <3>1, <3>2
  <2>3. Announced' \subseteq Announced
    BY <2>1 DEF Announced, Announcing
  <2> QED BY <1>0, <2>1, <2>2, <2>3, NoneGained
<1>13. ASSUME NEW s \in Surfaces, Reload(s) PROVE EarnedInv'
  <2>1. /\ inbox[s] # <<>> /\ inbox' = [inbox EXCEPT ![s] = Tail(@)]
        /\ reloads' = [reloads EXCEPT ![s] = @ + 1] /\ Head(inbox[s]).kind = "reload"
        /\ UNCHANGED <<pc, msg, queue, bumps>>
    BY <1>13 DEF Reload, Newer
  <2>2. reloads'[s] = reloads[s] + 1 /\ \A u \in Surfaces \ {s} : reloads'[u] = reloads[u]
    BY <2>1 DEF TypeInv, TypeOK
  <2>3. Count(inbox[s]) = Count(inbox'[s]) + 1 /\ Count(inbox'[s]) \in Nat
    BY <1>11, <2>1
  <2>4. \A u \in Surfaces \ {s} : inbox'[u] = inbox[u]
    BY <1>11, <2>1
  <2> SUFFICES ASSUME NEW u \in Surfaces
               PROVE  reloads'[u] + Count(inbox'[u]) + Count(queue) + Cardinality(Announced) <= bumps
    BY <2>1 DEF EarnedInv, Announced, Announcing, Count, Marks
  <2>5. reloads[u] + Count(inbox[u]) + Count(queue) + Cardinality(Announced) <= bumps
    BY DEF EarnedInv
  <2>6. CASE u # s
    BY <2>2, <2>4, <2>5, <2>6
  <2>7. CASE u = s
    <3>1. /\ reloads[s] \in Nat /\ bumps \in Nat /\ Cardinality(Announced) \in Nat
      BY AnnouncedType, BoundsAssumption DEF TypeInv, TypeOK, Generations
    <3>2. \A r, i, q, a, b \in Nat : r + (i + 1) + q + a <= b => (r + 1) + i + q + a <= b
      OBVIOUS
    <3> QED BY <1>0, <2>2, <2>3, <2>5, <2>7, <3>1, <3>2
  <2> QED BY <2>6, <2>7
<1>14. ASSUME NEW s \in Surfaces, Load(s) PROVE EarnedInv'
  BY <1>1, <1>14 DEF Load, Announced, Announcing
<1> QED BY <1>2, <1>3, <1>4, <1>5, <1>6, <1>7, <1>8, <1>9, <1>10, <1>12, <1>13, <1>14
        DEF Next, Nethosd, Hear

\* However often nethosd starts its count anew, a surface has reloaded itself
\* no more often than a reload was broadcast.
THEOREM ReloadsAreEarned == Spec => []ReloadsEarned
<1>1. Init => EarnedInv
  <2> SUFFICES ASSUME Init PROVE EarnedInv
    OBVIOUS
  <2>1. Announced = {} /\ queue = <<>> /\ bumps = 0
        /\ \A s \in Surfaces : inbox[s] = <<>> /\ reloads[s] = 0
    BY DEF Init, Announced, Announcing
  <2>2. Cardinality(Announced) = 0
    BY <2>1, FS_EmptySet
  <2> QED BY <2>1, <2>2, CountEmpty DEF EarnedInv
<1>2. ReloadInv /\ EarnedInv /\ [Next]_vars => EarnedInv'
  <2>1. ASSUME ReloadInv, EarnedInv, Next PROVE EarnedInv'
    BY <2>1, StepType, StepEarned DEF ReloadInv
  <2>2. ASSUME EarnedInv, UNCHANGED vars PROVE EarnedInv'
    BY <2>2 DEF vars, daemon, history, EarnedInv, Announced, Announcing, Count, Marks
  <2> QED BY <2>1, <2>2
<1>3. ReloadInv /\ EarnedInv => ReloadsEarned
  <2> SUFFICES ASSUME ReloadInv, EarnedInv, NEW s \in Surfaces PROVE reloads[s] <= bumps
    BY DEF ReloadsEarned
  <2>1. /\ reloads[s] \in Nat /\ bumps \in Nat /\ Count(inbox[s]) \in Nat /\ Count(queue) \in Nat
        /\ Cardinality(Announced) \in Nat
    BY CountType, AnnouncedType, BoundsAssumption DEF ReloadInv, TypeInv, TypeOK, Generations
  <2>2. reloads[s] + Count(inbox[s]) + Count(queue) + Cardinality(Announced) <= bumps
    BY DEF EarnedInv
  <2>3. \A r, i, q, a, b \in Nat : r + i + q + a <= b => r <= b
    OBVIOUS
  <2> QED BY <2>1, <2>2, <2>3
<1> QED BY <1>1, <1>2, <1>3, InitReload, ReloadInductive, PTL DEF Spec
==============================================================================

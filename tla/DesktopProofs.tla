---------------------------- MODULE DesktopProofs ----------------------------
(***************************************************************************)
(* What nethosd keeps true, for any number of applications, requests,      *)
(* archives, settings and files: its tray, what its background jobs tell,  *)
(* the files it keeps settings and data in, and the files of the home; and *)
(* that the state of each of its parts is well formed.                     *)
(***************************************************************************)
EXTENDS MCDesktop, SnapshotsProofs, SequenceLemmas

-----------------------------------------------------------------------------
(* The tray.  An icon is on its way while its registration waits, while    *)
(* its properties are asked for, and once it is in the list or they were   *)
(* not had.  Of an application that runs those are the icons it has        *)
(* registered; what is left of another in the list is still to be taken    *)
(* out by a message.                                                       *)

Registration(i) == [type |-> "register", service |-> i[1], path |-> i[2]]
Farewell(a) == [type |-> "gone", service |-> a, path |-> NoItem]
Icons == TrayApps \X TrayPaths
OnItsWay(i) == i \in items \cup unread \/ reading = i \/ Registration(i) \in ToSet(bus)

TrayTypes ==
  /\ alive \subseteq TrayApps /\ alive \subseteq started
  /\ registered \in [TrayApps -> SUBSET TrayPaths]
  /\ items \subseteq Icons /\ reading \in Icons \cup {NoItem}
  /\ bus \in Seq(ToSet(bus))
  /\ \A m \in ToSet(bus) : \/ \E i \in Icons : m = Registration(i)
                           \/ \E a \in TrayApps : m = Farewell(a)

\* Nothing is taken before the loop runs, and nobody registers before there is
\* a watcher.
Listening ==
  /\ tray # "running" => items = {} /\ unread = {} /\ reading = NoItem
  /\ tray = "off" => bus = <<>> /\ \A a \in TrayApps : registered[a] = {}

\* A name is given out once: only an application that has started is heard of,
\* and none that has gone comes back.
Names ==
  /\ \A a \in TrayApps \ alive : registered[a] = {}
  /\ \A i \in Icons : OnItsWay(i) => i[1] \in started
  /\ \A a \in TrayApps : Farewell(a) \in ToSet(bus) => a \in started \ alive

TrayInv ==
  /\ TrayTypes /\ Listening /\ Names
  /\ \A i \in Icons : i[1] \in alive => (i[2] \in registered[i[1]] <=> OnItsWay(i))
  /\ \A i \in items : i[1] \notin alive => Farewell(i[1]) \in ToSet(bus)
  /\ items \cap unread = {}

LEMMA TrayStarts == TrayInit => TrayInv
<1>1. ToSet(<<>>) = {} /\ <<>> \in Seq({})
  BY DEF ToSet
<1> QED BY <1>1, ItemsAssumption
        DEF TrayInit, TrayInv, TrayTypes, Listening, Names, OnItsWay, Icons

\* A registration is not a farewell, and each says whose it is.
LEMMA MessagesDiffer ==
  /\ \A i \in Icons, j \in Icons : Registration(i) = Registration(j) => i = j
  /\ \A i \in Icons, a \in TrayApps : Registration(i) # Farewell(a)
  /\ \A a \in TrayApps, b \in TrayApps : Farewell(a) = Farewell(b) => a = b
<1>1. ASSUME NEW i \in Icons, NEW j \in Icons, Registration(i) = Registration(j)
      PROVE  i = j
  <2>1. i[1] = j[1] /\ i[2] = j[2]
    BY <1>1 DEF Registration
  <2> QED BY <2>1 DEF Icons
<1>2. ASSUME NEW i \in Icons, NEW a \in TrayApps
      PROVE  Registration(i) # Farewell(a)
  BY DEF Registration, Farewell
<1>3. ASSUME NEW a \in TrayApps, NEW b \in TrayApps, Farewell(a) = Farewell(b)
      PROVE  a = b
  BY <1>3 DEF Farewell
<1> QED BY <1>1, <1>2, <1>3

LEMMA AppStartsKeeps ==
  ASSUME TrayInv, NEW a \in TrayApps, AppStarts(a)
  PROVE  TrayInv'
BY DEF AppStarts, TrayInv, TrayTypes, Listening, Names, OnItsWay, Icons

LEMMA AppRegistersKeeps ==
  ASSUME TrayInv, NEW a \in TrayApps, NEW p \in TrayPaths, AppRegisters(a, p)
  PROVE  TrayInv'
<1> DEFINE i0 == <<a, p>>
<1>1. /\ a \in alive /\ tray # "off"
      /\ registered' = [registered EXCEPT ![a] = @ \cup {p}]
      /\ bus' = Append(bus, Registration(i0)) /\ i0 \in Icons
      /\ alive' = alive /\ tray' = tray /\ reading' = reading /\ items' = items
      /\ started' = started /\ unread' = unread
  BY DEF AppRegisters, Registration, Icons
<1>2. /\ ToSet(bus') = ToSet(bus) \cup {Registration(i0)}
      /\ bus' \in Seq(ToSet(bus'))
  BY <1>1, ToSetAppend DEF TrayInv, TrayTypes
<1>3. \A i \in Icons : OnItsWay(i)' <=> OnItsWay(i) \/ i = i0
  BY <1>1, <1>2, MessagesDiffer DEF OnItsWay
<1>4. \A b \in TrayApps : Farewell(b) \in ToSet(bus') <=> Farewell(b) \in ToSet(bus)
  BY <1>1, <1>2, MessagesDiffer
<1>5. TrayTypes'
  BY <1>1, <1>2 DEF TrayInv, TrayTypes, Icons
<1>6. Listening'
  BY <1>1 DEF TrayInv, Listening
<1>7. \A i \in Icons : i[2] \in registered'[i[1]] <=> i[2] \in registered[i[1]] \/ i = i0
  BY <1>1 DEF TrayInv, TrayTypes, Icons
<1>8. Names'
  <2>1. i0[1] = a /\ a \in started /\ Names
    BY <1>1 DEF TrayInv, TrayTypes
  <2>2. \A b \in TrayApps \ alive : registered'[b] = {}
    BY <1>1, <2>1 DEF TrayInv, TrayTypes, Names
  <2> HIDE DEF i0
  <2> QED BY <1>1, <1>3, <1>4, <2>1, <2>2 DEF Names
<1>9. \A i \in items' : i[1] \in TrayApps
  BY <1>1 DEF TrayInv, TrayTypes, Icons
<1> QED BY <1>1, <1>3, <1>4, <1>5, <1>6, <1>7, <1>8, <1>9 DEF TrayInv

LEMMA AppQuitsKeeps ==
  ASSUME TrayInv, NEW a \in TrayApps, AppQuits(a)
  PROVE  TrayInv'
<1>1. /\ a \in alive /\ alive' = alive \ {a}
      /\ registered' = [registered EXCEPT ![a] = {}]
      /\ tray' = tray /\ reading' = reading /\ items' = items /\ started' = started
      /\ unread' = unread
      /\ a \in started /\ TrayTypes
  BY DEF AppQuits, TrayInv, TrayTypes
<1>2. /\ bus' \in Seq(ToSet(bus'))
      /\ ToSet(bus') = ToSet(bus) \cup (IF tray = "running" THEN {Farewell(a)} ELSE {})
      /\ tray = "off" => bus' = <<>>
  <2>1. CASE tray = "running"
    <3>1. bus' = Append(bus, Farewell(a))
      BY <2>1 DEF AppQuits, Farewell
    <3> QED BY <3>1, <2>1, <1>1, ToSetAppend DEF TrayTypes
  <2>2. CASE tray # "running"
    <3>1. bus' = bus
      BY <2>2 DEF AppQuits
    <3> QED BY <3>1, <2>2, <1>1 DEF TrayTypes, TrayInv, Listening
  <2> QED BY <2>1, <2>2
<1>3. \A i \in Icons : OnItsWay(i)' <=> OnItsWay(i)
  BY <1>1, <1>2, MessagesDiffer DEF OnItsWay
<1>4. \A b \in TrayApps : Farewell(b) \in ToSet(bus') =>
        Farewell(b) \in ToSet(bus) \/ b = a
  BY <1>1, <1>2, MessagesDiffer
<1>5. TrayTypes'
  BY <1>1, <1>2 DEF TrayTypes
<1>6. /\ registered'[a] = {}
      /\ \A b \in TrayApps : b # a => registered'[b] = registered[b]
  BY <1>1 DEF TrayTypes
<1>7. Listening'
  BY <1>1, <1>2, <1>6 DEF TrayInv, Listening
<1>8. Names'
  BY <1>1, <1>3, <1>4, <1>6 DEF TrayInv, Names
<1>9. \A i \in Icons : i[1] \in alive' => (i[2] \in registered'[i[1]] <=> OnItsWay(i)')
  BY <1>1, <1>3, <1>6 DEF TrayInv, TrayTypes
<1>10. \A i \in items' : i[1] \notin alive' => Farewell(i[1]) \in ToSet(bus')
  BY <1>1, <1>2 DEF TrayInv, Listening
<1> QED BY <1>1, <1>5, <1>7, <1>8, <1>9, <1>10 DEF TrayInv

\* The message nethosd's loop takes, and what then waits.
LEMMA Taken ==
  ASSUME TrayInv, NEW type, Ready(type)
  PROVE  /\ bus' \in Seq(ToSet(bus')) /\ ToSet(bus) = {Head(bus)} \cup ToSet(bus')
         /\ Head(bus).type = type
         /\ tray = "running" /\ reading = NoItem
BY ToSetTail DEF Ready, TrayInv, TrayTypes

LEMMA TakeRegistrationKeeps ==
  ASSUME TrayInv, TakeRegistration
  PROVE  TrayInv'
<1> DEFINE m == Head(bus)
<1>1. /\ Ready("register") /\ reading' = <<m.service, m.path>>
      /\ alive' = alive /\ registered' = registered /\ tray' = tray /\ items' = items
      /\ started' = started /\ unread' = unread /\ TrayTypes
  BY DEF TakeRegistration, TrayInv
<1>2. /\ bus' \in Seq(ToSet(bus')) /\ ToSet(bus) = {m} \cup ToSet(bus')
      /\ m.type = "register" /\ tray = "running" /\ reading = NoItem
  BY <1>1, Taken
<1>3. PICK i0 \in Icons : m = Registration(i0)
  BY <1>1, <1>2 DEF TrayTypes, Farewell
<1>4. reading' = i0
  BY <1>1, <1>3 DEF Registration, Icons
<1>5. \A i \in Icons : OnItsWay(i)' <=> OnItsWay(i)
  BY <1>1, <1>2, <1>3, <1>4, MessagesDiffer, ItemsAssumption DEF OnItsWay, Icons
<1>6. \A b \in TrayApps : Farewell(b) \in ToSet(bus') <=> Farewell(b) \in ToSet(bus)
  BY <1>2, <1>3, MessagesDiffer
<1>7. TrayTypes'
  BY <1>1, <1>2, <1>4 DEF TrayTypes
<1>8. Listening'
  BY <1>1, <1>2 DEF TrayInv, Listening
<1>9. Names'
  BY <1>1, <1>5, <1>6 DEF TrayInv, Names
<1>10. \A i \in items' : i[1] \in TrayApps
  BY <1>7 DEF TrayTypes, Icons
<1> QED BY <1>1, <1>5, <1>6, <1>7, <1>8, <1>9, <1>10 DEF TrayInv

LEMMA AddItemKeeps ==
  ASSUME TrayInv, AddItem
  PROVE  TrayInv'
<1>1. /\ reading # NoItem /\ reading' = NoItem /\ unread' = (unread \cup {reading}) \ items'
      /\ items' = items \/ (reading[1] \in alive /\ items' = items \cup {reading})
      /\ alive' = alive /\ registered' = registered /\ tray' = tray /\ bus' = bus
      /\ started' = started /\ TrayTypes
  BY DEF AddItem, Answered, TrayInv
<1>2. reading \in Icons /\ NoItem \notin Icons /\ tray = "running"
  BY <1>1, ItemsAssumption DEF TrayInv, TrayTypes, Listening, Icons
<1>3. \A i \in Icons : OnItsWay(i)' <=> OnItsWay(i)
  BY <1>1, <1>2 DEF OnItsWay
<1>4. TrayTypes'
  BY <1>1, <1>2 DEF TrayTypes
<1>5. Listening'
  BY <1>1, <1>2 DEF TrayInv, Listening
<1>6. Names'
  BY <1>1, <1>3 DEF TrayInv, Names
<1>7. \A i \in items' : i[1] \notin alive => i \in items
  BY <1>1
<1> QED BY <1>1, <1>3, <1>4, <1>5, <1>6, <1>7 DEF TrayInv

LEMMA FarewellKeeps ==
  ASSUME TrayInv, on_name_owner_changed
  PROVE  TrayInv'
<1> DEFINE m == Head(bus)
<1>1. /\ Ready("gone") /\ items' = {i \in items : i[1] # m.service}
      /\ alive' = alive /\ registered' = registered /\ tray' = tray /\ reading' = reading
      /\ started' = started /\ unread' = unread /\ TrayTypes
  BY DEF on_name_owner_changed, TrayInv
<1>2. /\ bus' \in Seq(ToSet(bus')) /\ ToSet(bus) = {m} \cup ToSet(bus')
      /\ m.type = "gone" /\ tray = "running" /\ reading = NoItem
  BY <1>1, Taken
<1>3. PICK a \in TrayApps : m = Farewell(a)
  <2>1. \A i : Registration(i).type # "gone"
    BY DEF Registration
  <2>2. m \in ToSet(bus)
    BY <1>2
  <2>3. \/ \E i \in Icons : m = Registration(i)
        \/ \E a \in TrayApps : m = Farewell(a)
    BY <1>1, <2>2 DEF TrayTypes
  <2> HIDE DEF m
  <2> QED BY <1>2, <2>1, <2>3
<1>4. a \notin alive /\ m.service = a
  <2>1. Farewell(a).service = a
    BY DEF Farewell
  <2>2. Farewell(a) \in ToSet(bus)
    BY <1>2, <1>3
  <2> HIDE DEF m
  <2> QED BY <1>3, <2>1, <2>2 DEF TrayInv, Names
<1>5. \A i \in Icons : /\ OnItsWay(i)' => OnItsWay(i)
                       /\ OnItsWay(i) /\ i[1] \in alive => OnItsWay(i)'
  BY <1>1, <1>2, <1>3, <1>4, MessagesDiffer DEF OnItsWay
<1>6. \A b \in TrayApps : Farewell(b) \in ToSet(bus) /\ b # a => Farewell(b) \in ToSet(bus')
  BY <1>2, <1>3, MessagesDiffer
<1>7. TrayTypes'
  BY <1>1, <1>2 DEF TrayTypes
<1>8. Listening'
  BY <1>1, <1>2 DEF TrayInv, Listening
<1>9. Names'
  BY <1>1, <1>2, <1>5 DEF TrayInv, Names
<1>10. \A i \in items' : i[1] \in TrayApps /\ i \in items /\ i[1] # a
  BY <1>1, <1>4, <1>7 DEF TrayTypes, Icons
<1> QED BY <1>1, <1>5, <1>6, <1>7, <1>8, <1>9, <1>10 DEF TrayInv

\* The invariant the theorem rests on.
LEMMA TrayKeeps == TrayInv /\ [TrayNext]_trayVars => TrayInv'
<1> SUFFICES ASSUME TrayInv, [TrayNext]_trayVars PROVE TrayInv'
  OBVIOUS
<1>1. ASSUME NEW a \in TrayApps, AppStarts(a) PROVE TrayInv'
  BY <1>1, AppStartsKeeps
<1>2. ASSUME NEW a \in TrayApps, AppQuits(a) PROVE TrayInv'
  BY <1>2, AppQuitsKeeps
<1>3. ASSUME NEW a \in TrayApps, NEW p \in TrayPaths, AppRegisters(a, p) PROVE TrayInv'
  BY <1>3, AppRegistersKeeps
<1>4. CASE TakeName
  BY <1>4 DEF TakeName, TrayInv, TrayTypes, Listening, Names, OnItsWay, Icons
<1>5. CASE RunLoop
  BY <1>5 DEF RunLoop, TrayInv, TrayTypes, Listening, Names, OnItsWay, Icons
<1>6. CASE TakeRegistration
  BY <1>6, TakeRegistrationKeeps
<1>7. CASE AddItem
  BY <1>7, AddItemKeeps
<1>8. CASE on_name_owner_changed
  BY <1>8, FarewellKeeps
<1>9. CASE UNCHANGED trayVars
  BY <1>9 DEF trayVars, TrayInv, TrayTypes, Listening, Names, OnItsWay, Icons
<1> QED BY <1>1, <1>2, <1>3, <1>4, <1>5, <1>6, <1>7, <1>8, <1>9 DEF TrayNext

LEMMA TrayInvariant == TraySpec => []TrayInv
BY TrayStarts, TrayKeeps, PTL DEF TraySpec

\* However many applications come, register and go while nethosd waits for the
\* properties of others, the tray has their icons and no other once the loop
\* has taken every message, but for those whose properties were not had (add and
\* on_name_owner_changed of tray_run).
THEOREM TrayIsTrue == TraySpec => []TrayMatches
<1>1. TrayInv => TrayMatches
  <2> SUFFICES ASSUME TrayInv, tray = "running", bus = <<>>, reading = NoItem
               PROVE  items = {i \in TrayApps \X TrayPaths : i[2] \in registered[i[1]]} \ unread
    BY DEF TrayMatches
  <2>1. ToSet(bus) = {}
    BY DEF ToSet
  <2>2. \A i \in Icons : OnItsWay(i) <=> i \in items \cup unread
    BY <2>1, ItemsAssumption DEF OnItsWay, Icons
  <2>3. \A i \in items : i \in Icons /\ i[1] \in alive
    BY <2>1 DEF TrayInv, TrayTypes
  <2>4. \A i \in Icons : i[2] \in registered[i[1]] => i[1] \in alive
    BY DEF TrayInv, Names, Icons
  <2> QED BY <2>2, <2>3, <2>4 DEF TrayInv, Icons
<1> QED BY <1>1, TrayInvariant, PTL

-----------------------------------------------------------------------------
(* Package jobs.  A job that has begun holds the lock to its end, so what  *)
(* the status tells was written by it.                                     *)

Holding == {"starting", "working", "exited", "judged", "reported"}
Phases == Holding \cup {"idle", "waiting", "orphan", "done"}

JobTypes ==
  /\ job \in [Jobs -> [phase : Phases, op : {"install", "remove"},
                       name : Entries \cup {NoEntry}, rc : Verdict]]
  /\ PKG_JOB \in [active : Entries \cup {NoEntry, NoJob}, ok : Verdict]

LockHeld == \A j \in Jobs : job[j].phase \in Holding => PKG_LOCK = j

StatusOfHolder ==
  \A j \in Jobs :
    /\ job[j].phase \in {"starting", "working", "exited", "judged"} => PKG_JOB.active = job[j].name
    /\ job[j].phase \in {"working", "exited"} => PKG_JOB.ok = "none"

JobsInv == JobTypes /\ LockHeld /\ StatusOfHolder

LEMMA JobsStart == JobsInit => JobsInv
BY DEF JobsInit, JobsInitAt, JobsInv, JobTypes, LockHeld, StatusOfHolder, IdleJob, NoStatus,
       Verdict, Phases, Holding

\* The phases of a job that does not hold the lock and of one that does.
LEMMA OnlyHolder ==
  ASSUME JobsInv, NEW j \in Jobs, job[j].phase \in Holding
  PROVE  \A k \in Jobs \ {j} : job[k].phase \notin Holding
BY DEF JobsInv, LockHeld

LEMMA NobodyHolds ==
  ASSUME JobsInv, Free
  PROVE  \A k \in Jobs : job[k].phase \notin Holding
BY JobsAssumption DEF JobsInv, LockHeld, Free

LEMMA JobStepKeeps ==
  ASSUME JobsInv, NEW j \in Jobs, JobSteps(j)
  PROVE  JobsInv'
<1> USE DEF JobsInv, JobTypes
<1>1. CASE BeginJob(j)
  <2>1. \A k \in Jobs : job[k].phase \notin Holding
    BY <1>1, NobodyHolds DEF BeginJob
  <2>2. /\ PKG_LOCK' = j /\ job' = [job EXCEPT ![j].phase = "starting"]
        /\ PKG_JOB' = [PKG_JOB EXCEPT !.active = job[j].name]
    BY <1>1 DEF BeginJob, Phase
  <2>3. JobTypes'
    BY <2>2 DEF Phases, Holding
  <2>4. LockHeld' /\ StatusOfHolder'
    BY <2>1, <2>2 DEF LockHeld, StatusOfHolder, Holding
  <2> QED BY <2>3, <2>4
<1>2. CASE StartNpkg(j)
  <2>1. \A k \in Jobs \ {j} : job[k].phase \notin Holding
    BY <1>2, OnlyHolder DEF StartNpkg, Holding
  <2>2. /\ job[j].phase = "starting" /\ job' = [job EXCEPT ![j].phase = "working"]
        /\ PKG_LOCK' = PKG_LOCK /\ PKG_JOB' = [PKG_JOB EXCEPT !.ok = "none"]
    BY <1>2 DEF StartNpkg, Phase
  <2>3. JobTypes'
    BY <2>2 DEF Phases, Holding, Verdict
  <2>4. LockHeld' /\ StatusOfHolder'
    BY <2>1, <2>2 DEF LockHeld, StatusOfHolder, Holding
  <2> QED BY <2>3, <2>4
<1>3. CASE NpkgEnds(j)
  <2>1. PICK rc \in {"ok", "failed"} :
          job' = [job EXCEPT ![j] = [job[j] EXCEPT !.phase = "exited", !.rc = rc]]
    BY <1>3 DEF NpkgEnds
  <2>2. job[j].phase = "working" /\ PKG_LOCK' = PKG_LOCK /\ PKG_JOB' = PKG_JOB
    BY <1>3 DEF NpkgEnds
  <2>3. JobTypes'
    BY <2>1, <2>2 DEF Phases, Holding, Verdict
  <2>4. LockHeld' /\ StatusOfHolder'
    BY <2>1, <2>2 DEF LockHeld, StatusOfHolder, Holding
  <2> QED BY <2>3, <2>4
<1>4. CASE ReportJob(j)
  <2>1. \A k \in Jobs \ {j} : job[k].phase \notin Holding
    BY <1>4, OnlyHolder DEF ReportJob, Holding
  <2>2. /\ job[j].phase = "exited" /\ job' = [job EXCEPT ![j].phase = "judged"]
        /\ PKG_LOCK' = PKG_LOCK /\ PKG_JOB' = [PKG_JOB EXCEPT !.ok = job[j].rc]
    BY <1>4 DEF ReportJob, Phase
  <2>3. JobTypes'
    BY <2>2 DEF Phases, Holding
  <2>4. LockHeld' /\ StatusOfHolder'
    BY <2>1, <2>2 DEF LockHeld, StatusOfHolder, Holding
  <2> QED BY <2>3, <2>4
<1>5. CASE LeaveJob(j)
  <2>1. \A k \in Jobs \ {j} : job[k].phase \notin Holding
    BY <1>5, OnlyHolder DEF LeaveJob, Holding
  <2>2. /\ job[j].phase = "judged" /\ job' = [job EXCEPT ![j].phase = "reported"]
        /\ PKG_LOCK' = PKG_LOCK /\ PKG_JOB' = [PKG_JOB EXCEPT !.active = NoJob]
    BY <1>5 DEF LeaveJob, Phase
  <2>3. JobTypes'
    BY <2>2 DEF Phases, Holding
  <2>4. LockHeld' /\ StatusOfHolder'
    BY <2>1, <2>2 DEF LockHeld, StatusOfHolder, Holding
  <2> QED BY <2>3, <2>4
<1>6. CASE EndJob(j)
  <2>1. \A k \in Jobs \ {j} : job[k].phase \notin Holding
    BY <1>6, OnlyHolder DEF EndJob, Holding
  <2>2. job' = [job EXCEPT ![j] = [IdleJob EXCEPT !.phase = "done"]] /\ PKG_JOB' = PKG_JOB
    BY <1>6 DEF EndJob
  <2>3. JobTypes'
    BY <2>2 DEF Phases, IdleJob, Verdict
  <2>4. LockHeld' /\ StatusOfHolder'
    BY <2>1, <2>2 DEF LockHeld, StatusOfHolder, Holding, IdleJob
  <2> QED BY <2>3, <2>4
<1>7. CASE OrphanEnds(j)
  <2>1. /\ job' = [job EXCEPT ![j] = [IdleJob EXCEPT !.phase = "done"]]
        /\ PKG_JOB' = PKG_JOB /\ PKG_LOCK' = PKG_LOCK
    BY <1>7 DEF OrphanEnds
  <2>2. JobTypes'
    BY <2>1 DEF Phases, IdleJob, Verdict
  <2>3. LockHeld' /\ StatusOfHolder'
    BY <2>1 DEF LockHeld, StatusOfHolder, Holding, IdleJob
  <2> QED BY <2>2, <2>3
<1> QED BY <1>1, <1>2, <1>3, <1>4, <1>5, <1>6, <1>7 DEF JobSteps

LEMMA RequestJobKeeps ==
  ASSUME JobsInv, NEW j \in Jobs, RequestJob(j)
  PROVE  JobsInv'
<1>1. PICK op \in {"install", "remove"}, n \in Entries :
        job' = [job EXCEPT ![j] = [phase |-> "waiting", op |-> op, name |-> n, rc |-> "none"]]
  BY DEF RequestJob
<1>2. PKG_LOCK' = PKG_LOCK /\ PKG_JOB' = PKG_JOB
  BY DEF RequestJob
<1>3. JobTypes'
  BY <1>1, <1>2 DEF JobsInv, JobTypes, Phases, Verdict
<1>4. LockHeld' /\ StatusOfHolder'
  BY <1>1, <1>2 DEF JobsInv, JobTypes, LockHeld, StatusOfHolder, Holding
<1> QED BY <1>3, <1>4 DEF JobsInv

LEMMA RestartJobsKeeps ==
  ASSUME JobsInv, RestartJobs
  PROVE  JobsInv'
<1>1. \A j \in Jobs : /\ job'[j] \in [phase : Phases \ Holding, op : {"install", "remove"},
                                     name : Entries \cup {NoEntry}, rc : Verdict]
  BY DEF RestartJobs, JobsInv, JobTypes, Phases, Holding, IdleJob, Verdict
<1>2. job' = [j \in Jobs |-> job'[j]] /\ PKG_JOB' = NoStatus
  BY DEF RestartJobs
<1>3. JobTypes'
  <2>1. job' \in [Jobs -> [phase : Phases \ Holding, op : {"install", "remove"},
                           name : Entries \cup {NoEntry}, rc : Verdict]]
    BY <1>1, <1>2
  <2> QED BY <1>2, <2>1 DEF JobTypes, NoStatus, Verdict
<1> QED BY <1>1, <1>3 DEF JobsInv, LockHeld, StatusOfHolder, Holding

LEMMA JobsKeep == JobsInv /\ [JobsNext]_jobVars => JobsInv'
<1> SUFFICES ASSUME JobsInv, [JobsNext]_jobVars PROVE JobsInv'
  OBVIOUS
<1>1. ASSUME NEW j \in Jobs, RequestJob(j) PROVE JobsInv'
  BY <1>1, RequestJobKeeps
<1>2. ASSUME NEW j \in Jobs, JobSteps(j) PROVE JobsInv'
  BY <1>2, JobStepKeeps
<1>3. CASE RestartJobs
  BY <1>3, RestartJobsKeeps
<1>4. CASE UNCHANGED <<job, PKG_LOCK, PKG_JOB>>
  BY <1>4 DEF JobsInv, JobTypes, LockHeld, StatusOfHolder
<1>5. ASSUME NEW r \in Readers, ListSteps(r) PROVE UNCHANGED <<job, PKG_LOCK, PKG_JOB>>
  BY <1>5 DEF ListSteps, AnswerSteps, AskApps, ReadDirs, StoreApps, pkgVars
<1>6. Tick => UNCHANGED <<job, PKG_LOCK, PKG_JOB>>
  BY DEF Tick, pkgVars
<1>7. UNCHANGED jobVars => UNCHANGED <<job, PKG_LOCK, PKG_JOB>>
  BY DEF jobVars
<1> QED BY <1>1, <1>2, <1>3, <1>4, <1>5, <1>6, <1>7 DEF JobsNext

LEMMA JobsInvariant == JobsSpec => []JobsInv
BY JobsStart, JobsKeep, PTL DEF JobsSpec

LEMMA JobsTellTheTruth == JobsSpec => []JobsTruthful
<1>1. JobsInv => JobsTruthful
  BY DEF JobsInv, LockHeld, StatusOfHolder, Holding, JobsTruthful
<1> QED BY <1>1, JobsInvariant, PTL

-----------------------------------------------------------------------------
(* Extractions.  A folder with nothing in it has an extraction that still  *)
(* comes to it, and takes it away if it leaves it so, unless nethosd ended *)
(* meanwhile; what was unpacked keeps a folder from being taken away.      *)

ExtractPhases == {"idle", "started", "naming", "making", "unpacking", "ended", "done", "lost"}
FolderNames == 1 .. Cardinality(Extracts)

ExtractTypes ==
  /\ extraction \in [Extracts -> [phase : ExtractPhases, target : {0} \cup FolderNames,
                                  rc : {"none", "ok", "failed"}]]
  /\ folders \in [FolderNames -> {NoFolder} \cup SUBSET Extracts]
  /\ \A e \in Extracts :
       extraction[e].phase \in {"making", "unpacking", "ended", "done"} =>
         extraction[e].target \in FolderNames

Unpacked ==
  \A e \in Extracts : extraction[e].phase \in {"ended", "done"} /\ extraction[e].rc = "ok" =>
    e \in folders[extraction[e].target] /\ folders[extraction[e].target] # NoFolder

ComesTo(e, n) ==
  /\ extraction[e].target = n
  /\ \/ extraction[e].phase = "unpacking"
     \/ extraction[e].phase = "ended" /\ extraction[e].rc = "failed"

ExtractInv ==
  /\ ExtractTypes /\ Unpacked
  /\ \A n \in FolderNames : folders[n] = {} =>
       \E e \in Extracts : extraction[e].phase = "lost" \/ ComesTo(e, n)

LEMMA ExtractStarts == ExtractInit => ExtractInv
<1>1. NoFolder # {}
  BY FoldersAssumption
<1> QED BY <1>1 DEF ExtractInit, ExtractInv, ExtractTypes, Unpacked, IdleExtract, ExtractPhases, FolderNames

\* A step to a phase in which an extraction has no folder leaves what holds.
LEMMA PhaseOnly ==
  ASSUME ExtractInv, NEW e \in Extracts, NEW p \in {"started", "naming"},
         extraction[e].phase \in {"idle", "started"},
         extraction' = [extraction EXCEPT ![e].phase = p], folders' = folders
  PROVE  ExtractInv'
<1>1. ExtractTypes'
  BY DEF ExtractInv, ExtractTypes, ExtractPhases
<1>2. Unpacked'
  BY DEF ExtractInv, ExtractTypes, Unpacked
<1>3. \A x \in Extracts : \A n \in FolderNames :
        extraction[x].phase = "lost" \/ ComesTo(x, n) =>
          (extraction[x].phase = "lost")' \/ ComesTo(x, n)'
  BY DEF ExtractInv, ExtractTypes, ComesTo
<1> QED BY <1>1, <1>2, <1>3 DEF ExtractInv

LEMMA ChooseFolderKeeps ==
  ASSUME ExtractInv, NEW e \in Extracts, ChooseFolder(e)
  PROVE  ExtractInv'
<1>1. DOMAIN folders = FolderNames
  BY DEF ExtractInv, ExtractTypes
<1>2. PICK n \in FolderNames :
        extraction' = [extraction EXCEPT ![e] = [extraction[e] EXCEPT !.phase = "making",
                                                                     !.target = n]]
  BY <1>1 DEF ChooseFolder
<1>3. extraction[e].phase = "naming" /\ folders' = folders
  BY DEF ChooseFolder
<1>4. ExtractTypes'
  BY <1>2, <1>3 DEF ExtractInv, ExtractTypes, ExtractPhases
<1>5. Unpacked'
  BY <1>2, <1>3 DEF ExtractInv, ExtractTypes, Unpacked
<1>6. \A x \in Extracts : \A k \in FolderNames :
        extraction[x].phase = "lost" \/ ComesTo(x, k) =>
          (extraction[x].phase = "lost")' \/ ComesTo(x, k)'
  BY <1>2, <1>3 DEF ExtractInv, ExtractTypes, ComesTo
<1> QED BY <1>3, <1>4, <1>5, <1>6 DEF ExtractInv

LEMMA MakeFolderKeeps ==
  ASSUME ExtractInv, NEW e \in Extracts, MakeFolder(e)
  PROVE  ExtractInv'
<1> DEFINE n == extraction[e].target
<1>1. /\ extraction[e].phase = "making" /\ n \in FolderNames
      /\ extraction' = [extraction EXCEPT ![e].phase = "unpacking"]
  BY DEF MakeFolder, ExtractInv, ExtractTypes
<1>2. /\ folders' \in [FolderNames -> {NoFolder} \cup SUBSET Extracts]
      /\ \A k \in FolderNames : folders'[k] = IF k = n /\ folders[k] = NoFolder THEN {} ELSE folders[k]
  BY <1>1 DEF MakeFolder, ExtractInv, ExtractTypes
<1>3. ExtractTypes'
  BY <1>1, <1>2 DEF ExtractInv, ExtractTypes, ExtractPhases
<1>4. Unpacked'
  BY <1>1, <1>2 DEF ExtractInv, ExtractTypes, Unpacked
<1>5. \A x \in Extracts : \A k \in FolderNames :
        extraction[x].phase = "lost" \/ ComesTo(x, k) =>
          (extraction[x].phase = "lost")' \/ ComesTo(x, k)'
  BY <1>1 DEF ExtractInv, ExtractTypes, ComesTo
<1>6. \A k \in FolderNames : k = n => ComesTo(e, k)'
  BY <1>1 DEF ExtractInv, ExtractTypes, ComesTo
<1>7. \A k \in FolderNames : folders'[k] = {} => k = n \/ folders[k] = {}
  BY <1>2
<1> QED BY <1>3, <1>4, <1>5, <1>6, <1>7 DEF ExtractInv

LEMMA UnpackKeeps ==
  ASSUME ExtractInv, NEW e \in Extracts, Unpack(e)
  PROVE  ExtractInv'
<1> DEFINE n == extraction[e].target
<1>1. PICK rc \in {"ok", "failed"}, left \in BOOLEAN :
        /\ rc = "ok" => left
        /\ left => folders[n] # NoFolder
        /\ folders' = IF left THEN [folders EXCEPT ![n] = @ \cup {e}] ELSE folders
        /\ extraction' = [extraction EXCEPT ![e] = [extraction[e] EXCEPT !.phase = "ended",
                                                                     !.rc = rc]]
  BY DEF Unpack
<1>2. extraction[e].phase = "unpacking" /\ n \in FolderNames
  BY DEF Unpack, ExtractInv, ExtractTypes
<1>3. /\ folders' \in [FolderNames -> {NoFolder} \cup SUBSET Extracts]
      /\ \A k \in FolderNames :
           folders'[k] = IF k = n /\ left THEN folders[k] \cup {e} ELSE folders[k]
      /\ left => folders[n] \in SUBSET Extracts
  BY <1>1, <1>2 DEF ExtractInv, ExtractTypes
<1>4. \A k \in FolderNames : folders[k] # NoFolder => folders'[k] # NoFolder
  BY <1>3, FoldersAssumption
<1>5. ExtractTypes'
  <2>1. extraction \in [Extracts -> [phase : ExtractPhases, target : {0} \cup FolderNames,
                                     rc : {"none", "ok", "failed"}]]
    BY DEF ExtractInv, ExtractTypes
  <2>2. extraction' \in [Extracts -> [phase : ExtractPhases, target : {0} \cup FolderNames,
                                      rc : {"none", "ok", "failed"}]]
    <3>1. [extraction[e] EXCEPT !.phase = "ended", !.rc = rc] \in
            [phase : ExtractPhases, target : {0} \cup FolderNames, rc : {"none", "ok", "failed"}]
      BY <2>1 DEF ExtractPhases
    <3> QED BY <2>1, <3>1, <1>1
  <2>3. \A x \in Extracts : /\ extraction'[x].target = extraction[x].target
                            /\ x # e => extraction'[x].phase = extraction[x].phase
    BY <2>1, <1>1
  <2>4. ASSUME NEW x \in Extracts,
               extraction'[x].phase \in {"making", "unpacking", "ended", "done"}
        PROVE  extraction'[x].target \in FolderNames
    <3>1. CASE x = e
      BY <2>3, <3>1, <1>2
    <3>2. CASE x # e
      BY <2>3, <2>4, <3>2 DEF ExtractInv, ExtractTypes
    <3> QED BY <3>1, <3>2
  <2>5. FolderNames' = FolderNames
    BY DEF FolderNames
  <2> QED BY <2>2, <2>4, <2>5, <1>3 DEF ExtractTypes
<1>6. /\ extraction'[e].target = n /\ extraction'[e].phase = "ended" /\ extraction'[e].rc = rc
      /\ \A x \in Extracts : x # e => extraction'[x] = extraction[x]
  BY <1>1 DEF ExtractInv, ExtractTypes
<1>7. Unpacked'
  <2> SUFFICES ASSUME NEW x \in Extracts, extraction'[x].phase \in {"ended", "done"},
                      extraction'[x].rc = "ok"
               PROVE  /\ x \in folders'[extraction'[x].target]
                      /\ folders'[extraction'[x].target] # NoFolder
    BY DEF Unpacked
  <2>1. CASE x = e
    BY <2>1, <1>1, <1>2, <1>3, <1>4, <1>6
  <2>2. CASE x # e
    <3>1. /\ extraction[x].target \in FolderNames /\ x \in folders[extraction[x].target]
          /\ folders[extraction[x].target] # NoFolder
      BY <2>2, <1>6 DEF ExtractInv, ExtractTypes, Unpacked
    <3> QED BY <3>1, <2>2, <1>3, <1>4, <1>6
  <2> QED BY <2>1, <2>2
<1>8. ASSUME NEW k \in FolderNames, folders'[k] = {}
      PROVE  \E x \in Extracts : (extraction[x].phase = "lost")' \/ ComesTo(x, k)'
  <2>1. folders[k] = {} /\ (k = n => ~ left)
    BY <1>3, <1>8
  <2>2. PICK x \in Extracts : extraction[x].phase = "lost" \/ ComesTo(x, k)
    BY <2>1 DEF ExtractInv
  <2>3. CASE x = e
    BY <2>1, <2>2, <2>3, <1>1, <1>2, <1>6 DEF ComesTo
  <2>4. CASE x # e
    BY <2>2, <2>4, <1>6 DEF ComesTo
  <2> QED BY <2>3, <2>4
<1> QED BY <1>5, <1>7, <1>8 DEF ExtractInv

LEMMA EndExtractKeeps ==
  ASSUME ExtractInv, NEW e \in Extracts, EndExtract(e)
  PROVE  ExtractInv'
<1> DEFINE n == extraction[e].target
           empty == extraction[e].rc = "failed" /\ folders[n] = {}
<1>1. /\ extraction[e].phase = "ended" /\ n \in FolderNames
      /\ extraction' = [extraction EXCEPT ![e].phase = "done"]
      /\ folders' = IF empty THEN [folders EXCEPT ![n] = NoFolder] ELSE folders
  BY DEF EndExtract, ExtractInv, ExtractTypes
<1>2. /\ folders' \in [FolderNames -> {NoFolder} \cup SUBSET Extracts]
      /\ \A k \in FolderNames : folders'[k] = IF k = n /\ empty THEN NoFolder ELSE folders[k]
  BY <1>1 DEF ExtractInv, ExtractTypes
<1>3. ExtractTypes'
  BY <1>1, <1>2 DEF ExtractInv, ExtractTypes, ExtractPhases
<1>4. /\ extraction'[e].target = n /\ extraction'[e].phase = "done"
      /\ extraction'[e].rc = extraction[e].rc
      /\ \A x \in Extracts : x # e => extraction'[x] = extraction[x]
  BY <1>1 DEF ExtractInv, ExtractTypes
<1>5. Unpacked'
  <2> SUFFICES ASSUME NEW x \in Extracts, extraction'[x].phase \in {"ended", "done"},
                      extraction'[x].rc = "ok"
               PROVE  /\ x \in folders'[extraction'[x].target]
                      /\ folders'[extraction'[x].target] # NoFolder
    BY DEF Unpacked
  <2>1. /\ extraction[x].target \in FolderNames /\ x \in folders[extraction[x].target]
        /\ folders[extraction[x].target] # NoFolder
        /\ extraction'[x].target = extraction[x].target
    BY <1>1, <1>4 DEF ExtractInv, ExtractTypes, Unpacked
  <2> QED BY <2>1, <1>2
<1>6. ASSUME NEW k \in FolderNames, folders'[k] = {}
      PROVE  \E x \in Extracts : (extraction[x].phase = "lost")' \/ ComesTo(x, k)'
  <2>1. folders[k] = {} /\ (k = n => ~ empty)
    BY <1>2, <1>6, FoldersAssumption
  <2>2. PICK x \in Extracts : extraction[x].phase = "lost" \/ ComesTo(x, k)
    BY <2>1 DEF ExtractInv
  <2>3. x # e
    BY <2>1, <2>2, <1>1 DEF ComesTo
  <2> QED BY <2>2, <2>3, <1>4 DEF ComesTo
<1> QED BY <1>3, <1>5, <1>6 DEF ExtractInv

LEMMA StopExtractsKeeps ==
  ASSUME ExtractInv, StopExtracts
  PROVE  ExtractInv'
<1>1. /\ folders' = folders
      /\ extraction' = [e \in Extracts |->
           IF extraction[e].phase \in {"idle", "done"} THEN extraction[e]
           ELSE [IdleExtract EXCEPT !.phase = "lost"]]
  BY DEF StopExtracts
<1>2. ExtractTypes'
  BY <1>1 DEF ExtractInv, ExtractTypes, ExtractPhases, IdleExtract
<1>3. Unpacked'
  BY <1>1 DEF ExtractInv, ExtractTypes, Unpacked, IdleExtract
<1>4. \E e \in Extracts : extraction'[e].phase = "lost"
  <2>1. PICK e \in Extracts : extraction[e].phase \notin {"idle", "done"}
    BY DEF StopExtracts
  <2> QED BY <1>1, <2>1 DEF IdleExtract
<1> QED BY <1>2, <1>3, <1>4 DEF ExtractInv

LEMMA ExtractsKeep == ExtractInv /\ [ExtractNext]_extractVars => ExtractInv'
<1> SUFFICES ASSUME ExtractInv, [ExtractNext]_extractVars PROVE ExtractInv'
  OBVIOUS
<1>1. ASSUME NEW e \in Extracts, RequestExtract(e) \/ BeginExtract(e) PROVE ExtractInv'
  BY <1>1, PhaseOnly DEF RequestExtract, BeginExtract
<1>2. ASSUME NEW e \in Extracts, ChooseFolder(e) PROVE ExtractInv'
  BY <1>2, ChooseFolderKeeps
<1>3. ASSUME NEW e \in Extracts, MakeFolder(e) PROVE ExtractInv'
  BY <1>3, MakeFolderKeeps
<1>4. ASSUME NEW e \in Extracts, Unpack(e) PROVE ExtractInv'
  BY <1>4, UnpackKeeps
<1>5. ASSUME NEW e \in Extracts, EndExtract(e) PROVE ExtractInv'
  BY <1>5, EndExtractKeeps
<1>6. CASE StopExtracts
  BY <1>6, StopExtractsKeeps
<1>7. CASE UNCHANGED extractVars
  BY <1>7 DEF extractVars, ExtractInv, ExtractTypes, Unpacked, ComesTo
<1> QED BY <1>1, <1>2, <1>3, <1>4, <1>5, <1>6, <1>7 DEF ExtractNext, ExtractSteps

LEMMA ExtractInvariant == ExtractSpec => []ExtractInv
BY ExtractStarts, ExtractsKeep, PTL DEF ExtractSpec

LEMMA ExtractsTellTheTruth == ExtractSpec => []ExtractTruthful
<1>1. ExtractInv => ExtractTruthful
  BY DEF ExtractInv, ExtractTypes, Unpacked, ComesTo, ExtractTruthful
<1> QED BY <1>1, ExtractInvariant, PTL

\* However the threads of nethosd interleave and wherever it ends, one npkg at
\* most is at work, the status names its package without a verdict, and an
\* archive reported as extracted is in its folder (pkg_job, extract_archive).
THEOREM WorkIsTruthful == WorkSpec => []WorkTruthful
<1>1. JobsTruthful /\ ExtractTruthful => WorkTruthful
  BY DEF WorkTruthful
<1> QED BY <1>1, JobsTellTheTruth, ExtractsTellTheTruth, PTL DEF WorkSpec

-----------------------------------------------------------------------------
(* Settings and stored data.  A file that one thread at a time writes has  *)
(* that thread's temporary file to itself, so what is renamed into place   *)
(* is whole, and no file of another name is touched: each inode is open    *)
(* for, or named by, one file only.                                        *)

Data == [Keys -> Int]
InRange(d) == \A k \in Keys : Schema[k].type = "range" => d[k] \in Schema[k].min .. Schema[k].max
WriterPhases == {"idle", "read", "merged", "open", "written"}
WriterRecords ==
  [phase : WriterPhases, file : StoredFiles, changes : Data, keys : SUBSET Keys,
   value : Data, fd : Inodes \cup {NoInode}]

SettingsTypes ==
  /\ content \in [Inodes -> Data \cup {Empty, Torn}]
  /\ path \in [StoredFiles -> Inodes \cup {NoInode}]
  /\ tmp \in [StoredFiles -> Inodes \cup {NoInode}]
  /\ writer \in [Writers -> WriterRecords]
  /\ kept \in [StoredFiles -> Data] /\ mixed \subseteq StoredFiles

\* A thread has a file open in one phase; no inode serves two names, nor is one
\* open for a file that another file has.
Apart ==
  /\ \A w \in Writers : writer[w].phase = "open" <=> writer[w].fd # NoInode
  /\ \A f \in StoredFiles, g \in StoredFiles :
       /\ path[f] # NoInode => path[f] # tmp[g]
       /\ f # g => /\ path[f] # NoInode => path[f] # path[g]
                   /\ tmp[f] # NoInode => tmp[f] # tmp[g]
  /\ \A w \in Writers, f \in StoredFiles :
       writer[w].fd # NoInode /\ f # writer[w].file => writer[w].fd \notin {path[f], tmp[f]}

Sole ==
  \A w \in Writers, v \in Writers :
    /\ writer[w].phase # "idle" /\ writer[v].phase # "idle"
    /\ writer[w].file = writer[v].file /\ writer[w].file \notin mixed
    => w = v

\* What a thread writes changes the settings it was asked to, within their
\* ranges, and leaves the others.
Prepared ==
  \A w \in Writers :
    writer[w].phase \in {"merged", "open", "written"} /\ writer[w].file = "settings" =>
      /\ \A k \in writer[w].keys : Schema[k].type = "range" =>
           writer[w].value[k] \in Schema[k].min .. Schema[k].max
      /\ "settings" \notin mixed =>
           \A k \in Keys \ writer[w].keys : writer[w].value[k] = kept["settings"][k]

\* Where it has the file to itself, the temporary file is what it makes it.
OwnFile ==
  \A w \in Writers : writer[w].file \notin mixed =>
    /\ writer[w].phase = "open" =>
         writer[w].fd = tmp[writer[w].file] /\ content[writer[w].fd] = Empty
    /\ writer[w].phase = "written" =>
         /\ tmp[writer[w].file] # NoInode
         /\ content[tmp[writer[w].file]] = writer[w].value

FilesKept == \A f \in StoredFiles \ mixed : Stored(f) = kept[f]
RangesKept == InRange(kept["settings"])

SettingsInv ==
  SettingsTypes /\ Apart /\ Sole /\ Prepared /\ OwnFile /\ FilesKept /\ RangesKept

LEMMA Defaults ==
  /\ DEFAULTS \in Data /\ InRange(DEFAULTS)
  /\ \A d \in Data : Whole(d)
  /\ "settings" \in StoredFiles /\ NoInode \notin Inodes
BY SchemaAssumption, InodesAssumption DEF DEFAULTS, Data, InRange, Keys, Whole

LEMMA SettingsStart == SettingsInit => SettingsInv
<1> SUFFICES ASSUME SettingsInit PROVE SettingsInv
  OBVIOUS
<1> USE Defaults
<1>1. SettingsTypes
  BY DEF SettingsInit, SettingsTypes, NoWriter, WriterRecords, WriterPhases
<1>2. Apart /\ Sole /\ Prepared /\ OwnFile
  BY DEF SettingsInit, Apart, Sole, Prepared, OwnFile, NoWriter
<1>3. FilesKept /\ RangesKept
  BY DEF SettingsInit, FilesKept, RangesKept, Stored
<1> QED BY <1>1, <1>2, <1>3 DEF SettingsInv

\* A file is read as before when its inode is the same and was not written to.
LEMMA StoredSame ==
  ASSUME NEW f \in StoredFiles, path'[f] = path[f],
         path[f] # NoInode => content'[path[f]] = content[path[f]]
  PROVE  Stored(f)' = Stored(f)
BY DEF Stored, Whole

\* What is read is a value for each setting.
LEMMA StoredTypes ==
  ASSUME SettingsTypes, NEW f \in StoredFiles
  PROVE  Stored(f) \in Data
BY Defaults DEF SettingsTypes, Stored, Whole

\* The values of a function are no more than its arguments.
LEMMA ImageBound ==
  ASSUME NEW S, IsFiniteSet(S), NEW f
  PROVE  /\ IsFiniteSet({f[x] : x \in S}) /\ Cardinality({f[x] : x \in S}) <= Cardinality(S)
         /\ Cardinality({f[x] : x \in S}) \in Nat
<1> DEFINE T == {f[x] : x \in S}
           g == [x \in S |-> f[x]]
<1>1. g \in Surjection(S, T)
  BY DEF Surjection
<1> HIDE DEF T, g
<1> QED BY <1>1, FS_Surjection, FS_CardinalityType DEF T

LEMMA UnionBound ==
  ASSUME NEW S, IsFiniteSet(S), NEW T, IsFiniteSet(T)
  PROVE  /\ IsFiniteSet(S \cup T) /\ Cardinality(S \cup T) \in Nat
         /\ Cardinality(S \cup T) <= Cardinality(S) + Cardinality(T)
<1>1. /\ IsFiniteSet(S \cup T)
      /\ Cardinality(S \cup T) = Cardinality(S) + Cardinality(T) - Cardinality(S \cap T)
  BY FS_Union
<1>2. IsFiniteSet(S \cap T)
  BY FS_Intersection
<1>3. /\ Cardinality(S) \in Nat /\ Cardinality(T) \in Nat /\ Cardinality(S \cup T) \in Nat
      /\ Cardinality(S \cap T) \in Nat
  BY <1>1, <1>2, FS_CardinalityType
<1> QED BY <1>1, <1>3

\* When a thread is about to open a temporary file that is not there, the disk
\* has room for it.
LEMMA Room ==
  ASSUME SettingsTypes, Apart, NEW w \in Writers, writer[w].phase = "merged"
  PROVE  FreshInode \in Inodes \ InUse
<1> DEFINE A == {path[f] : f \in StoredFiles}
           B == {tmp[f] : f \in StoredFiles}
           C == {writer[v].fd : v \in Writers}
           fds == [v \in Writers |-> writer[v].fd]
<1>1. /\ IsFiniteSet(StoredFiles) /\ IsFiniteSet(Writers) /\ IsFiniteSet(Inodes)
      /\ Cardinality(Inodes) >= 2 * Cardinality(StoredFiles) + Cardinality(Writers)
      /\ Cardinality(StoredFiles) \in Nat /\ Cardinality(Writers) \in Nat
      /\ Cardinality(Inodes) \in Nat
  BY InodesAssumption, FS_CardinalityType
<1>2. /\ IsFiniteSet(A) /\ Cardinality(A) <= Cardinality(StoredFiles) /\ Cardinality(A) \in Nat
      /\ IsFiniteSet(B) /\ Cardinality(B) <= Cardinality(StoredFiles) /\ Cardinality(B) \in Nat
  BY <1>1, ImageBound
<1>3. IsFiniteSet(C) /\ Cardinality(C) <= Cardinality(Writers) /\ Cardinality(C) \in Nat
  <2>1. C = {fds[v] : v \in Writers}
    OBVIOUS
  <2> HIDE DEF C, fds
  <2> QED BY <2>1, <1>1, ImageBound
<1>4. InUse = (A \cup B) \cup C
  BY DEF InUse
<1>5. NoInode \in C
  BY DEF Apart
<1> HIDE DEF A, B, C
<1>6. /\ IsFiniteSet(A \cup B) /\ Cardinality(A \cup B) \in Nat
      /\ Cardinality(A \cup B) <= Cardinality(A) + Cardinality(B)
  BY <1>2, UnionBound
<1>7. /\ IsFiniteSet(InUse) /\ Cardinality(InUse) \in Nat
      /\ Cardinality(InUse) <= Cardinality(A \cup B) + Cardinality(C)
  BY <1>3, <1>4, <1>6, UnionBound
<1>8. /\ IsFiniteSet(InUse \ {NoInode})
      /\ Cardinality(InUse \ {NoInode}) = Cardinality(InUse) - 1
  BY <1>4, <1>5, <1>7, FS_RemoveElement
<1>9. \E i \in Inodes : i \notin InUse
  <2> SUFFICES ASSUME Inodes \subseteq InUse PROVE FALSE
    OBVIOUS
  <2>1. Inodes \in SUBSET (InUse \ {NoInode})
    BY InodesAssumption
  <2>2. Cardinality(Inodes) <= Cardinality(InUse \ {NoInode})
    BY <2>1, <1>8, FS_Subset
  <2> QED BY <2>2, <1>1, <1>2, <1>3, <1>6, <1>7, <1>8
<1> QED BY <1>9 DEF FreshInode

LEMMA Turn ==
  ASSUME SettingsTypes, NEW w \in Writers, NEW r \in WriterRecords, Set(w, r)
  PROVE  /\ writer' \in [Writers -> WriterRecords] /\ writer'[w] = r
         /\ \A v \in Writers : v # w => writer'[v] = writer[v]
BY DEF SettingsTypes, Set

\* The fields of a thread's record.
LEMMA RecordFields ==
  ASSUME SettingsTypes, NEW w \in Writers
  PROVE  /\ writer[w] \in WriterRecords
         /\ writer[w].phase \in WriterPhases /\ writer[w].file \in StoredFiles
         /\ writer[w].changes \in Data /\ writer[w].keys \in SUBSET Keys
         /\ writer[w].value \in Data /\ writer[w].fd \in Inodes \cup {NoInode}
BY DEF SettingsTypes, WriterRecords

LEMMA RequestKeeps ==
  ASSUME SettingsInv, NEW w \in Writers, NEW f \in StoredFiles, NEW some \in Data,
         NEW ks \in SUBSET Keys, Request(w, f, some, ks)
  PROVE  SettingsInv'
<1> DEFINE r == [phase |-> "read", file |-> f, changes |-> some, keys |-> ks,
                 value |-> DEFAULTS, fd |-> NoInode]
<1>1. r \in WriterRecords
  BY Defaults DEF WriterRecords, WriterPhases
<1>2. /\ writer[w].phase = "idle" /\ Set(w, r)
      /\ mixed' = mixed \cup (IF Writing(f) = {} THEN {} ELSE {f})
      /\ content' = content /\ path' = path /\ tmp' = tmp /\ kept' = kept
  BY DEF Request
<1>3. /\ writer' \in [Writers -> WriterRecords] /\ writer'[w] = r
      /\ \A v \in Writers : v # w => writer'[v] = writer[v]
  BY <1>1, <1>2, Turn DEF SettingsInv
<1>4. /\ r.phase = "read" /\ r.fd = NoInode /\ r.file = f
      /\ mixed \subseteq mixed' /\ mixed' \subseteq StoredFiles
  BY <1>2 DEF SettingsInv, SettingsTypes
<1> HIDE DEF r
<1>5. SettingsTypes'
  BY <1>2, <1>3, <1>4 DEF SettingsInv, SettingsTypes, WriterRecords, Data, WriterPhases
<1>6. Apart'
  BY <1>2, <1>3, <1>4 DEF SettingsInv, Apart
<1>7. Sole'
  <2>1. \A v \in Writers : writer[v].phase # "idle" /\ writer[v].file = f => f \in mixed'
    BY <1>2 DEF Writing
  <2> QED BY <2>1, <1>3, <1>4 DEF SettingsInv, Sole
<1>8. Prepared'
  BY <1>2, <1>3, <1>4 DEF SettingsInv, Prepared
<1>9. OwnFile'
  BY <1>2, <1>3, <1>4 DEF SettingsInv, OwnFile
<1>10. FilesKept' /\ RangesKept'
  <2>1. \A g \in StoredFiles : Stored(g)' = Stored(g)
    BY <1>2, StoredSame
  <2> QED BY <2>1, <1>2, <1>4 DEF SettingsInv, FilesKept, RangesKept, InRange
<1> QED BY <1>5, <1>6, <1>7, <1>8, <1>9, <1>10 DEF SettingsInv

\* A value is made fit its setting, or dropped.
LEMMA AcceptedFits ==
  ASSUME NEW k \in Keys, NEW v \in Int, NEW old \in Int
  PROVE  /\ Accepted(k, v, old) \in Int
         /\ Schema[k].type = "range" => Accepted(k, v, old) \in Schema[k].min .. Schema[k].max
<1>1. CASE Schema[k].type = "bool"
  BY <1>1 DEF Accepted
<1>2. CASE Schema[k].type = "choice"
  BY <1>2 DEF Accepted
<1>3. CASE Schema[k].type = "range"
  <2>1. /\ Schema[k].min \in Int /\ Schema[k].max \in Int /\ Schema[k].min <= Schema[k].max
    BY <1>3, SchemaAssumption DEF Keys
  <2>2. Accepted(k, v, old) = Clamp(Schema[k], Trunc(v))
    BY <1>3 DEF Accepted
  <2>3. Trunc(v) \in Int
    BY DEF Trunc
  <2> QED BY <2>1, <2>2, <2>3 DEF Clamp
<1> QED BY <1>1, <1>2, <1>3, SchemaAssumption DEF Keys

LEMMA MergeKeeps ==
  ASSUME SettingsInv, NEW w \in Writers, Merge(w)
  PROVE  SettingsInv'
<1> DEFINE q == writer[w]
           value == IF q.file = "settings" THEN Merged(q.changes, q.keys) ELSE q.changes
           r == [q EXCEPT !.phase = "merged", !.value = value]
<1>1. /\ q.phase = "read" /\ Set(w, r) /\ content' = content /\ path' = path /\ tmp' = tmp
      /\ kept' = kept /\ mixed' = mixed
  BY DEF Merge
<1>2. /\ q \in WriterRecords /\ q.changes \in Data /\ q.keys \in SUBSET Keys
      /\ q.file \in StoredFiles /\ q.fd = NoInode
  BY <1>1, RecordFields DEF SettingsInv, Apart
<1>3. read_settings \in Data
  BY StoredTypes, Defaults DEF SettingsInv, read_settings
<1>4. \A k \in Keys : /\ Accepted(k, q.changes[k], read_settings[k]) \in Int
                      /\ Schema[k].type = "range" =>
                           Accepted(k, q.changes[k], read_settings[k])
                             \in Schema[k].min .. Schema[k].max
  BY <1>2, <1>3, AcceptedFits DEF Data
<1>5. Merged(q.changes, q.keys) \in Data
  BY <1>3, <1>4 DEF Merged, Data
<1>6. value \in Data
  BY <1>2, <1>5
<1>7. /\ r \in WriterRecords /\ r.phase = "merged" /\ r.file = q.file /\ r.keys = q.keys
      /\ r.value = value /\ r.fd = NoInode
  BY <1>2, <1>6 DEF WriterRecords, WriterPhases
<1>8. q.file = "settings" =>
        /\ \A k \in q.keys : Schema[k].type = "range" => value[k] \in Schema[k].min .. Schema[k].max
        /\ "settings" \notin mixed => \A k \in Keys \ q.keys : value[k] = kept["settings"][k]
  <2> SUFFICES ASSUME q.file = "settings"
               PROVE  /\ \A k \in q.keys : Schema[k].type = "range" =>
                           value[k] \in Schema[k].min .. Schema[k].max
                      /\ "settings" \notin mixed =>
                           \A k \in Keys \ q.keys : value[k] = kept["settings"][k]
    OBVIOUS
  <2>1. \A k \in Keys : value[k] = IF k \in q.keys
                                   THEN Accepted(k, q.changes[k], read_settings[k])
                                   ELSE read_settings[k]
    BY DEF Merged
  <2>2. "settings" \notin mixed => read_settings = kept["settings"]
    BY Defaults DEF SettingsInv, FilesKept, read_settings
  <2> HIDE DEF value
  <2> QED BY <2>1, <2>2, <1>2, <1>4
<1> HIDE DEF r, value
<1>9. /\ writer' \in [Writers -> WriterRecords] /\ writer'[w] = r
      /\ \A v \in Writers : v # w => writer'[v] = writer[v]
  BY <1>1, <1>7, Turn DEF SettingsInv
<1>10. SettingsTypes'
  BY <1>1, <1>9 DEF SettingsInv, SettingsTypes, WriterRecords, Data, WriterPhases
<1>11. Apart'
  BY <1>1, <1>7, <1>9 DEF SettingsInv, Apart
<1>12. Sole'
  BY <1>1, <1>7, <1>9 DEF SettingsInv, Sole
<1>13. Prepared'
  BY <1>1, <1>7, <1>8, <1>9 DEF SettingsInv, Prepared
<1>14. OwnFile'
  BY <1>1, <1>7, <1>9 DEF SettingsInv, OwnFile
<1>15. FilesKept' /\ RangesKept'
  <2>1. \A g \in StoredFiles : Stored(g)' = Stored(g)
    BY <1>1, StoredSame
  <2> QED BY <2>1, <1>1 DEF SettingsInv, FilesKept, RangesKept, InRange
<1> QED BY <1>10, <1>11, <1>12, <1>13, <1>14, <1>15 DEF SettingsInv

\* Who else is at a file that has one writer.
LEMMA SoleWriter ==
  ASSUME SettingsInv, NEW w \in Writers, writer[w].phase # "idle",
         NEW v \in Writers, v # w, writer[v].phase # "idle", writer[v].file \notin mixed
  PROVE  writer[v].file # writer[w].file
BY DEF SettingsInv, Sole

LEMMA OpenKeeps ==
  ASSUME SettingsInv, NEW w \in Writers, Open(w)
  PROVE  SettingsInv'
<1> DEFINE q == writer[w]
           f == q.file
           i == IF tmp[f] # NoInode THEN tmp[f] ELSE FreshInode
           r == [q EXCEPT !.phase = "open", !.fd = i]
<1>1. /\ q.phase = "merged" /\ Set(w, r) /\ path' = path /\ kept' = kept /\ mixed' = mixed
      /\ content' = [content EXCEPT ![i] = Empty] /\ tmp' = [tmp EXCEPT ![f] = i]
  BY DEF Open, Temporary
<1>2. q \in WriterRecords /\ f \in StoredFiles /\ q.fd = NoInode
  BY <1>1, RecordFields DEF SettingsInv, Apart
<1>3. /\ i \in Inodes /\ i # NoInode
      /\ \A g \in StoredFiles : path[g] # i /\ (g # f => tmp[g] # i)
      /\ \A v \in Writers : writer[v].fd = i => writer[v].file = f
  <2>1. CASE tmp[f] # NoInode
    BY <2>1, <1>2, Defaults DEF SettingsInv, SettingsTypes, Apart
  <2>2. CASE tmp[f] = NoInode
    <3>1. i \in Inodes \ InUse
      BY <2>2, <1>1, Room DEF SettingsInv
    <3> QED BY <3>1, Defaults DEF InUse
  <2> QED BY <2>1, <2>2
<1> HIDE DEF i
<1>4. /\ r \in WriterRecords /\ r.phase = "open" /\ r.file = f /\ r.keys = q.keys
      /\ r.value = q.value /\ r.fd = i
  BY <1>2, <1>3 DEF WriterRecords, WriterPhases
<1> HIDE DEF r
<1>5. /\ writer' \in [Writers -> WriterRecords] /\ writer'[w] = r
      /\ \A v \in Writers : v # w => writer'[v] = writer[v]
  BY <1>1, <1>4, Turn DEF SettingsInv
<1>6. /\ tmp' \in [StoredFiles -> Inodes \cup {NoInode}] /\ tmp'[f] = i
      /\ \A g \in StoredFiles : g # f => tmp'[g] = tmp[g]
      /\ content' \in [Inodes -> Data \cup {Empty, Torn}] /\ content'[i] = Empty
      /\ \A n \in Inodes : n # i => content'[n] = content[n]
  BY <1>1, <1>2, <1>3 DEF SettingsInv, SettingsTypes
<1>7. SettingsTypes'
  BY <1>1, <1>5, <1>6 DEF SettingsInv, SettingsTypes, WriterRecords, Data, WriterPhases
<1>8. Apart'
  <2>1. \A v \in Writers : (writer[v].phase = "open")' <=> writer'[v].fd # NoInode
    BY <1>3, <1>4, <1>5 DEF SettingsInv, Apart
  <2>2. \A g \in StoredFiles, h \in StoredFiles :
          /\ path'[g] # NoInode => path'[g] # tmp'[h]
          /\ g # h => /\ path'[g] # NoInode => path'[g] # path'[h]
                      /\ tmp'[g] # NoInode => tmp'[g] # tmp'[h]
    BY <1>1, <1>3, <1>6 DEF SettingsInv, Apart
  <2>3. \A v \in Writers, g \in StoredFiles :
          writer'[v].fd # NoInode /\ g # writer'[v].file => writer'[v].fd \notin {path'[g], tmp'[g]}
    BY <1>1, <1>3, <1>4, <1>5, <1>6 DEF SettingsInv, Apart
  <2> QED BY <2>1, <2>2, <2>3 DEF Apart
<1>9. Sole'
  BY <1>1, <1>4, <1>5 DEF SettingsInv, Sole
<1>10. Prepared'
  BY <1>1, <1>4, <1>5 DEF SettingsInv, Prepared
<1>11. OwnFile'
  <2> SUFFICES ASSUME NEW v \in Writers, writer'[v].file \notin mixed
               PROVE  /\ writer'[v].phase = "open" =>
                           /\ writer'[v].fd = tmp'[writer'[v].file]
                           /\ content'[writer'[v].fd] = Empty
                      /\ writer'[v].phase = "written" =>
                           /\ tmp'[writer'[v].file] # NoInode
                           /\ content'[tmp'[writer'[v].file]] = writer'[v].value
    BY <1>1 DEF OwnFile
  <2>1. CASE v = w
    BY <2>1, <1>4, <1>5, <1>6
  <2>2. CASE v # w /\ writer[v].phase # "idle"
    <3>1. writer'[v] = writer[v] /\ writer[v].file # f /\ writer[v].file \in StoredFiles
      BY <2>2, <1>1, <1>5, SoleWriter, RecordFields DEF SettingsInv
    <3>2. /\ tmp'[writer[v].file] = tmp[writer[v].file] /\ tmp[writer[v].file] # i
          /\ tmp[writer[v].file] \in Inodes \cup {NoInode}
      BY <3>1, <1>3, <1>6 DEF SettingsInv, SettingsTypes
    <3>3. /\ writer[v].phase = "open" =>
               writer[v].fd = tmp[writer[v].file] /\ content[writer[v].fd] = Empty
                 /\ writer[v].fd # NoInode
          /\ writer[v].phase = "written" =>
               /\ tmp[writer[v].file] # NoInode
               /\ content[tmp[writer[v].file]] = writer[v].value
      BY <3>1 DEF SettingsInv, OwnFile, Apart
    <3> QED BY <3>1, <3>2, <3>3, <1>6
  <2>3. CASE v # w /\ writer[v].phase = "idle"
    BY <2>3, <1>5
  <2> QED BY <2>1, <2>2, <2>3
<1>12. FilesKept' /\ RangesKept'
  <2>1. \A g \in StoredFiles : path[g] # NoInode => content'[path[g]] = content[path[g]]
    BY <1>3, <1>6 DEF SettingsInv, SettingsTypes
  <2>2. \A g \in StoredFiles : Stored(g)' = Stored(g)
    BY <2>1, <1>1, StoredSame
  <2> QED BY <2>2, <1>1 DEF SettingsInv, FilesKept, RangesKept, InRange
<1> QED BY <1>7, <1>8, <1>9, <1>10, <1>11, <1>12 DEF SettingsInv

LEMMA WriteKeeps ==
  ASSUME SettingsInv, NEW w \in Writers, Write(w)
  PROVE  SettingsInv'
<1> DEFINE q == writer[w]
           f == q.file
           i == q.fd
           r == [q EXCEPT !.phase = "written", !.fd = NoInode]
<1>1. /\ q.phase = "open" /\ Set(w, r) /\ path' = path /\ kept' = kept /\ mixed' = mixed
      /\ tmp' = tmp
  BY DEF Write
<1>2. PICK c \in {q.value} \cup (IF content[i] \in {Empty, q.value} THEN {} ELSE {Torn}) :
        content' = [content EXCEPT ![i] = c]
  BY DEF Write
<1>3. /\ q \in WriterRecords /\ f \in StoredFiles /\ i \in Inodes /\ i # NoInode
      /\ q.value \in Data
  BY <1>1, RecordFields DEF SettingsInv, Apart
<1>4. /\ r \in WriterRecords /\ r.phase = "written" /\ r.file = f /\ r.keys = q.keys
      /\ r.value = q.value /\ r.fd = NoInode
  BY <1>3 DEF WriterRecords, WriterPhases
<1> HIDE DEF r
<1>5. /\ writer' \in [Writers -> WriterRecords] /\ writer'[w] = r
      /\ \A v \in Writers : v # w => writer'[v] = writer[v]
  BY <1>1, <1>4, Turn DEF SettingsInv
<1>6. /\ content' \in [Inodes -> Data \cup {Empty, Torn}] /\ content'[i] = c
      /\ \A n \in Inodes : n # i => content'[n] = content[n]
  BY <1>2, <1>3 DEF SettingsInv, SettingsTypes
<1>7. SettingsTypes'
  BY <1>1, <1>5, <1>6 DEF SettingsInv, SettingsTypes, WriterRecords, Data, WriterPhases
<1>8. Apart'
  <2>1. \A v \in Writers : (writer[v].phase = "open")' <=> writer'[v].fd # NoInode
    BY <1>4, <1>5 DEF SettingsInv, Apart
  <2>2. \A v \in Writers, g \in StoredFiles :
          writer'[v].fd # NoInode /\ g # writer'[v].file => writer'[v].fd \notin {path'[g], tmp'[g]}
    BY <1>1, <1>4, <1>5 DEF SettingsInv, Apart
  <2> QED BY <2>1, <2>2, <1>1 DEF SettingsInv, Apart
<1>9. Sole'
  BY <1>1, <1>4, <1>5 DEF SettingsInv, Sole
<1>10. Prepared'
  BY <1>1, <1>4, <1>5 DEF SettingsInv, Prepared
<1>11. OwnFile'
  <2> SUFFICES ASSUME NEW v \in Writers, writer'[v].file \notin mixed
               PROVE  /\ writer'[v].phase = "open" =>
                           /\ writer'[v].fd = tmp'[writer'[v].file]
                           /\ content'[writer'[v].fd] = Empty
                      /\ writer'[v].phase = "written" =>
                           /\ tmp'[writer'[v].file] # NoInode
                           /\ content'[tmp'[writer'[v].file]] = writer'[v].value
    BY <1>1 DEF OwnFile
  <2>1. CASE v = w
    <3>1. i = tmp[f] /\ content[i] = Empty
      BY <2>1, <1>1, <1>4, <1>5 DEF SettingsInv, OwnFile
    <3>2. c = q.value
      BY <3>1, <1>2
    <3> QED BY <2>1, <3>1, <3>2, <1>1, <1>3, <1>4, <1>5, <1>6
  <2>2. CASE v # w /\ writer[v].phase # "idle"
    <3>1. writer'[v] = writer[v] /\ writer[v].file # f /\ writer[v].file \in StoredFiles
      BY <2>2, <1>1, <1>5, SoleWriter, RecordFields DEF SettingsInv
    <3>2. tmp[writer[v].file] # i /\ tmp[writer[v].file] \in Inodes \cup {NoInode}
      BY <3>1, <1>3 DEF SettingsInv, SettingsTypes, Apart
    <3>3. /\ writer[v].phase = "open" =>
               writer[v].fd = tmp[writer[v].file] /\ content[writer[v].fd] = Empty
                 /\ writer[v].fd # NoInode
          /\ writer[v].phase = "written" =>
               /\ tmp[writer[v].file] # NoInode
               /\ content[tmp[writer[v].file]] = writer[v].value
      BY <3>1 DEF SettingsInv, OwnFile, Apart
    <3> QED BY <3>1, <3>2, <3>3, <1>1, <1>6
  <2>3. CASE v # w /\ writer[v].phase = "idle"
    BY <2>3, <1>5
  <2> QED BY <2>1, <2>2, <2>3
<1>12. FilesKept' /\ RangesKept'
  <2>1. ASSUME NEW g \in StoredFiles \ mixed
        PROVE  Stored(g)' = Stored(g)
    <3>1. path[g] # NoInode => path[g] # i
      <4>1. CASE g = f
        BY <4>1, <2>1, <1>1 DEF SettingsInv, OwnFile, Apart
      <4>2. CASE g # f
        BY <4>2, <1>3 DEF SettingsInv, Apart
      <4> QED BY <4>1, <4>2
    <3>2. path[g] # NoInode => content'[path[g]] = content[path[g]]
      BY <3>1, <1>6 DEF SettingsInv, SettingsTypes
    <3> QED BY <3>2, <1>1, StoredSame
  <2> QED BY <2>1, <1>1 DEF SettingsInv, FilesKept, RangesKept, InRange
<1> QED BY <1>7, <1>8, <1>9, <1>10, <1>11, <1>12 DEF SettingsInv

\* The rename.  With the file to itself, what the thread had written is what is
\* read from then on, and the other settings in it are as they were kept.
LEMMA RenameKeeps ==
  ASSUME SettingsInv, NEW w \in Writers, Replace(w), tmp[writer[w].file] # NoInode
  PROVE  SettingsInv'
<1> DEFINE q == writer[w]
           f == q.file
           i == tmp[f]
           left == IF f = "settings"
                   THEN [k \in Keys |-> IF k \in q.keys THEN q.value[k] ELSE kept[f][k]]
                   ELSE q.value
<1>1. /\ q.phase = "written" /\ Set(w, NoWriter) /\ content' = content /\ mixed' = mixed
      /\ path' = [path EXCEPT ![f] = i] /\ tmp' = [tmp EXCEPT ![f] = NoInode]
      /\ kept' = [kept EXCEPT ![f] = left]
  BY DEF Replace
<1>2. /\ f \in StoredFiles /\ i \in Inodes /\ i # NoInode /\ q.value \in Data
      /\ q.keys \in SUBSET Keys /\ kept[f] \in Data
  BY <1>1, RecordFields DEF SettingsInv, SettingsTypes
<1>3. left \in Data
  BY <1>2 DEF Data
<1>4. f \notin mixed => left = content[i]
  <2> SUFFICES ASSUME f \notin mixed PROVE left = content[i]
    OBVIOUS
  <2>1. content[i] = q.value
    BY <1>1 DEF SettingsInv, OwnFile
  <2>2. CASE f = "settings"
    <3>1. \A k \in Keys \ q.keys : q.value[k] = kept[f][k]
      BY <2>2, <1>1 DEF SettingsInv, Prepared
    <3>2. \A k \in Keys : left[k] = q.value[k]
      BY <2>2, <3>1
    <3> HIDE DEF left
    <3> QED BY <3>2, <2>1, <1>2, <1>3 DEF Data
  <2>3. CASE f # "settings"
    BY <2>1, <2>3
  <2> QED BY <2>2, <2>3
<1>5. f = "settings" => InRange(left)
  <2> SUFFICES ASSUME f = "settings" PROVE InRange(left)
    OBVIOUS
  <2>1. \A k \in q.keys : Schema[k].type = "range" =>
          q.value[k] \in Schema[k].min .. Schema[k].max
    BY <1>1 DEF SettingsInv, Prepared
  <2>2. \A k \in Keys : left[k] = IF k \in q.keys THEN q.value[k] ELSE kept["settings"][k]
    OBVIOUS
  <2> HIDE DEF left
  <2> QED BY <2>1, <2>2 DEF SettingsInv, RangesKept, InRange
<1> HIDE DEF left
<1>6. NoWriter \in WriterRecords /\ NoWriter.phase = "idle" /\ NoWriter.fd = NoInode
  BY Defaults DEF NoWriter, WriterRecords, WriterPhases
<1>7. /\ writer' \in [Writers -> WriterRecords] /\ writer'[w] = NoWriter
      /\ \A v \in Writers : v # w => writer'[v] = writer[v]
  BY <1>1, <1>6, Turn DEF SettingsInv
<1>8. /\ path' \in [StoredFiles -> Inodes \cup {NoInode}] /\ path'[f] = i
      /\ tmp' \in [StoredFiles -> Inodes \cup {NoInode}] /\ tmp'[f] = NoInode
      /\ kept' \in [StoredFiles -> Data] /\ kept'[f] = left
      /\ \A g \in StoredFiles : g # f => path'[g] = path[g] /\ tmp'[g] = tmp[g] /\ kept'[g] = kept[g]
  BY <1>1, <1>2, <1>3 DEF SettingsInv, SettingsTypes
<1>9. SettingsTypes'
  BY <1>1, <1>7, <1>8 DEF SettingsInv, SettingsTypes, WriterRecords, Data, WriterPhases
<1>10. Apart'
  <2>1. \A v \in Writers : (writer[v].phase = "open")' <=> writer'[v].fd # NoInode
    BY <1>6, <1>7 DEF SettingsInv, Apart
  <2>2. \A g \in StoredFiles, h \in StoredFiles :
          /\ path'[g] # NoInode => path'[g] # tmp'[h]
          /\ g # h => /\ path'[g] # NoInode => path'[g] # path'[h]
                      /\ tmp'[g] # NoInode => tmp'[g] # tmp'[h]
    BY <1>2, <1>8 DEF SettingsInv, Apart
  <2>3. \A v \in Writers, g \in StoredFiles :
          writer'[v].fd # NoInode /\ g # writer'[v].file => writer'[v].fd \notin {path'[g], tmp'[g]}
    BY <1>2, <1>6, <1>7, <1>8 DEF SettingsInv, Apart
  <2> QED BY <2>1, <2>2, <2>3 DEF Apart
<1>11. Sole'
  BY <1>1, <1>6, <1>7 DEF SettingsInv, Sole
<1>12. ASSUME NEW v \in Writers, v # w, writer[v].phase # "idle", writer[v].file \notin mixed
       PROVE  writer[v].file # f /\ writer[v].file \in StoredFiles
  BY <1>12, <1>1, SoleWriter, RecordFields DEF SettingsInv
<1>13. Prepared'
  <2> SUFFICES ASSUME NEW v \in Writers, writer'[v].file = "settings",
                      writer'[v].phase \in {"merged", "open", "written"}
               PROVE  /\ \A k \in writer'[v].keys : Schema[k].type = "range" =>
                           writer'[v].value[k] \in Schema[k].min .. Schema[k].max
                      /\ "settings" \notin mixed =>
                           \A k \in Keys \ writer'[v].keys :
                             writer'[v].value[k] = kept'["settings"][k]
    BY <1>1 DEF Prepared
  <2>1. v # w /\ writer'[v] = writer[v]
    BY <1>6, <1>7
  <2>2. "settings" \notin mixed => kept'["settings"] = kept["settings"]
    BY <2>1, <1>8, <1>12
  <2> QED BY <2>1, <2>2 DEF SettingsInv, Prepared
<1>14. OwnFile'
  <2> SUFFICES ASSUME NEW v \in Writers, writer'[v].file \notin mixed
               PROVE  /\ writer'[v].phase = "open" =>
                           /\ writer'[v].fd = tmp'[writer'[v].file]
                           /\ content[writer'[v].fd] = Empty
                      /\ writer'[v].phase = "written" =>
                           /\ tmp'[writer'[v].file] # NoInode
                           /\ content[tmp'[writer'[v].file]] = writer'[v].value
    BY <1>1 DEF OwnFile
  <2>1. CASE v = w
    BY <2>1, <1>6, <1>7
  <2>2. CASE v # w /\ writer[v].phase # "idle"
    <3>1. writer'[v] = writer[v] /\ tmp'[writer[v].file] = tmp[writer[v].file]
      BY <2>2, <1>7, <1>8, <1>12
    <3> QED BY <3>1 DEF SettingsInv, OwnFile
  <2>3. CASE v # w /\ writer[v].phase = "idle"
    BY <2>3, <1>7
  <2> QED BY <2>1, <2>2, <2>3
<1>15. FilesKept'
  <2> SUFFICES ASSUME NEW g \in StoredFiles \ mixed PROVE Stored(g)' = kept'[g]
    BY <1>1 DEF FilesKept
  <2>1. CASE g = f
    <3>1. Whole(left)
      BY <1>3, Defaults
    <3> QED BY <3>1, <2>1, <1>1, <1>2, <1>4, <1>8 DEF Stored
  <2>2. CASE g # f
    <3>1. Stored(g)' = Stored(g)
      BY <2>2, <1>1, <1>8, StoredSame
    <3> QED BY <3>1, <2>2, <1>8 DEF SettingsInv, FilesKept
  <2> QED BY <2>1, <2>2
<1>16. RangesKept'
  BY <1>5, <1>8, Defaults DEF SettingsInv, RangesKept, InRange
<1> QED BY <1>9, <1>10, <1>11, <1>13, <1>14, <1>15, <1>16 DEF SettingsInv

\* Somebody else has renamed the file: it had two writers.
LEMMA NoRenameKeeps ==
  ASSUME SettingsInv, NEW w \in Writers, Replace(w), tmp[writer[w].file] = NoInode
  PROVE  SettingsInv'
<1>1. /\ Set(w, NoWriter) /\ content' = content /\ mixed' = mixed /\ path' = path /\ tmp' = tmp
      /\ kept' = kept
  BY DEF Replace
<1>2. NoWriter \in WriterRecords /\ NoWriter.phase = "idle" /\ NoWriter.fd = NoInode
  BY Defaults DEF NoWriter, WriterRecords, WriterPhases
<1>3. /\ writer' \in [Writers -> WriterRecords] /\ writer'[w] = NoWriter
      /\ \A v \in Writers : v # w => writer'[v] = writer[v]
  BY <1>1, <1>2, Turn DEF SettingsInv
<1>4. SettingsTypes'
  BY <1>1, <1>3 DEF SettingsInv, SettingsTypes, WriterRecords, Data, WriterPhases
<1>5. Apart'
  BY <1>1, <1>2, <1>3 DEF SettingsInv, Apart
<1>6. Sole' /\ Prepared' /\ OwnFile'
  BY <1>1, <1>2, <1>3 DEF SettingsInv, Sole, Prepared, OwnFile
<1>7. FilesKept' /\ RangesKept'
  <2>1. \A g \in StoredFiles : Stored(g)' = Stored(g)
    BY <1>1, StoredSame
  <2> QED BY <2>1, <1>1 DEF SettingsInv, FilesKept, RangesKept, InRange
<1> QED BY <1>4, <1>5, <1>6, <1>7 DEF SettingsInv

\* What is cut off is open, and so not what a name stands for.
LEMMA CrashKeeps ==
  ASSUME SettingsInv, Crash
  PROVE  SettingsInv'
<1>1. /\ writer' = [w \in Writers |-> NoWriter] /\ path' = path /\ tmp' = tmp
      /\ kept' = kept /\ mixed' = mixed
  BY DEF Crash
<1>2. PICK cut \in SUBSET ({writer[w].fd : w \in Writers} \ {NoInode}) :
        content' = [i \in Inodes |-> IF i \in cut THEN Torn ELSE content[i]]
  BY DEF Crash
<1>3. NoWriter \in WriterRecords /\ NoWriter.phase = "idle" /\ NoWriter.fd = NoInode
  BY Defaults DEF NoWriter, WriterRecords, WriterPhases
<1>4. SettingsTypes'
  BY <1>1, <1>2, <1>3 DEF SettingsInv, SettingsTypes, WriterRecords, Data, WriterPhases
<1>5. Apart' /\ Sole' /\ Prepared' /\ OwnFile'
  BY <1>1, <1>3 DEF SettingsInv, Apart, Sole, Prepared, OwnFile
<1>6. ASSUME NEW f \in StoredFiles \ mixed
      PROVE  Stored(f)' = Stored(f)
  <2>1. ASSUME NEW w \in Writers, path[f] # NoInode
        PROVE  writer[w].fd # path[f]
    <3>1. CASE writer[w].file = f /\ writer[w].phase = "open"
      BY <3>1, <2>1 DEF SettingsInv, OwnFile, Apart
    <3>2. CASE writer[w].file # f \/ writer[w].phase # "open"
      BY <3>2, <2>1 DEF SettingsInv, Apart
    <3> QED BY <3>1, <3>2
  <2>2. path[f] # NoInode => content'[path[f]] = content[path[f]]
    BY <2>1, <1>2 DEF SettingsInv, SettingsTypes
  <2> QED BY <2>2, <1>1, StoredSame
<1>7. FilesKept' /\ RangesKept'
  BY <1>1, <1>6 DEF SettingsInv, FilesKept, RangesKept, InRange
<1> QED BY <1>4, <1>5, <1>7 DEF SettingsInv

LEMMA DataChanged == \A k \in Keys, v \in Values : [DEFAULTS EXCEPT ![k] = v] \in Data
BY Defaults, SchemaAssumption DEF Data

\* The invariant the theorem rests on.
LEMMA SettingsKeep == SettingsInv /\ [SettingsNext]_settingsVars => SettingsInv'
<1> SUFFICES ASSUME SettingsInv, [SettingsNext]_settingsVars PROVE SettingsInv'
  OBVIOUS
<1>1. ASSUME NEW w \in Writers, AskSettings(w) PROVE SettingsInv'
  <2>1. CASE Request(w, "settings", DEFAULTS, Keys)
    BY <2>1, Defaults, RequestKeeps
  <2>2. ASSUME NEW k \in Keys, NEW v \in Values,
               Request(w, "settings", [DEFAULTS EXCEPT ![k] = v], {k})
        PROVE  SettingsInv'
    BY <2>2, DataChanged, Defaults, RequestKeeps
  <2> QED BY <1>1, <2>1, <2>2 DEF AskSettings
<1>2. ASSUME NEW w \in Writers, AskStorage(w) PROVE SettingsInv'
  <2>1. PICK f \in StoredFiles \ {"settings"}, k \in Keys, v \in Values :
          Request(w, f, [DEFAULTS EXCEPT ![k] = v], {})
    BY <1>2 DEF AskStorage
  <2> QED BY <2>1, DataChanged, RequestKeeps
<1>3. ASSUME NEW w \in Writers, WriterSteps(w) PROVE SettingsInv'
  BY <1>3, MergeKeeps, OpenKeeps, WriteKeeps, RenameKeeps, NoRenameKeeps DEF WriterSteps
<1>4. CASE Crash
  BY <1>4, CrashKeeps
<1>5. CASE UNCHANGED settingsVars
  <2>1. /\ content' = content /\ path' = path /\ tmp' = tmp /\ writer' = writer
        /\ kept' = kept /\ mixed' = mixed
    BY <1>5 DEF settingsVars
  <2>2. SettingsTypes'
    BY <2>1 DEF SettingsInv, SettingsTypes, WriterRecords, Data, WriterPhases
  <2>3. Apart' /\ Sole' /\ Prepared' /\ OwnFile'
    BY <2>1 DEF SettingsInv, Apart, Sole, Prepared, OwnFile
  <2>4. FilesKept' /\ RangesKept'
    BY <2>1, StoredSame DEF SettingsInv, FilesKept, RangesKept, InRange
  <2> QED BY <2>2, <2>3, <2>4 DEF SettingsInv
<1> QED BY <1>1, <1>2, <1>3, <1>4, <1>5 DEF SettingsNext

LEMMA SettingsInvariant == SettingsSpec => []SettingsInv
BY SettingsStart, SettingsKeep, PTL DEF SettingsSpec

\* Whatever requests write settings and data, and wherever nethosd ends, a file
\* that never had two writers at once reads as what its writes left, and the
\* settings in it are within their ranges (write_settings, storage_write).
THEOREM SettingsAreKept == SettingsSpec => []SettingsKept
<1>1. SettingsInv => SettingsKept
  <2> SUFFICES ASSUME SettingsInv PROVE SettingsKept
    OBVIOUS
  <2>1. \A f \in StoredFiles \ mixed : Stored(f) = kept[f]
    BY DEF SettingsInv, FilesKept
  <2>2. "settings" \notin mixed => read_settings = kept["settings"]
    BY <2>1, Defaults DEF read_settings
  <2> QED BY <2>1, <2>2 DEF SettingsInv, RangesKept, InRange, SettingsKept
<1> QED BY <1>1, SettingsInvariant, PTL

-----------------------------------------------------------------------------
(***************************************************************************)
(* The files of the home.  A tree is good when it is finite and whatever a *)
(* path goes through is a folder.  A request that puts something somewhere *)
(* has seen no file there or below: what it may overwrite came later.      *)
(***************************************************************************)

FileNames == Seq(Letters \cup Nat)
FilePaths == Seq(FileNames)
Putting == {"rename", "trash", "copy", "move"}

TreeOK(t) ==
  /\ IsFiniteSet(DOMAIN t) /\ <<>> \notin DOMAIN t
  /\ \A x \in DOMAIN t :
       /\ x \in FilePaths /\ (t[x].kind = "link" => t[x].to \in FilePaths)
       /\ \A a \in Ancestors(x) : a \in DOMAIN t /\ t[a].kind = "dir"

RequestOK(q) ==
  /\ q.op \in Putting \cup {"mkdir", "delete"}
  /\ q.op = "mkdir" => q.dest \in FilePaths
  /\ q.op # "mkdir" => q.path \in FilePaths
  /\ q.op \in Putting /\ q.path # <<>> =>
       /\ q.dest \in FilePaths /\ q.dest # <<>>
       /\ \A x \in q.seen : ~Under(q.dest, x[1])

FilesInv ==
  /\ TreeOK(fs) /\ asked \in 0..MaxRequests
  /\ request = [r \in FileRequests |-> request[r]]
  /\ \A r \in FileRequests :
       \/ request[r].phase = "idle"
       \/ request[r].phase = "taken" /\ RequestOK(request[r])

\* The folders that lead to a path are its proper prefixes.
LEMMA AncestorsOf ==
  ASSUME NEW p \in FilePaths
  PROVE  /\ \A a : a \in Ancestors(p) <=> a \in FilePaths /\ a # <<>> /\ a # p /\ Under(a, p)
         /\ IsFiniteSet(Ancestors(p))
<1>1. Len(p) \in Nat
  BY DEF FilePaths
<1>2. ASSUME NEW a, a \in Ancestors(p)
      PROVE  a \in FilePaths /\ a # <<>> /\ a # p /\ Under(a, p)
  <2>1. PICK k \in 1 .. (Len(p) - 1) : a = SubSeq(p, 1, k)
    BY <1>2 DEF Ancestors
  <2>2. k \in 0 .. Len(p) /\ k >= 1 /\ k < Len(p)
    BY <1>1
  <2>3. a \in FilePaths /\ Len(a) = k /\ \A i \in 1 .. k : a[i] = p[i]
    BY <2>1, <2>2, SubSeqUpTo DEF FilePaths
  <2>4. IsPrefix(a, p)
    BY <2>2, <2>3, PrefixMeans DEF FilePaths
  <2> QED BY <1>1, <2>2, <2>3, <2>4 DEF Under
<1>3. ASSUME NEW a \in FilePaths, a # <<>>, a # p, Under(a, p)
      PROVE  a \in Ancestors(p)
  <2>1. Len(a) \in Nat /\ Len(a) # 0 /\ Len(a) < Len(p)
    BY <1>1, <1>3, PrefixOrder DEF FilePaths, Under
  <2>2. SubSeq(a, 1, Len(a)) = a
    BY DEF FilePaths
  <2>3. a = SubSeq(p, 1, Len(a))
    BY <1>3, <2>2 DEF Under, IsPrefix
  <2>4. Len(a) \in 1 .. (Len(p) - 1)
    BY <1>1, <2>1
  <2> QED BY <2>3, <2>4 DEF Ancestors
<1>4. IsFiniteSet(Ancestors(p))
  <2> DEFINE f == [k \in 1 .. (Len(p) - 1) |-> SubSeq(p, 1, k)]
  <2>1. Ancestors(p) = {f[k] : k \in 1 .. (Len(p) - 1)}
    BY DEF Ancestors
  <2> DEFINE K == 1 .. (Len(p) - 1)
  <2>2. IsFiniteSet(K)
    BY <1>1, FS_Interval
  <2> HIDE DEF f, K
  <2>3. IsFiniteSet({f[k] : k \in K})
    BY <2>2, ImageBound
  <2> QED BY <2>1, <2>3 DEF K
<1> QED BY <1>2, <1>3, <1>4

\* The ways from one path up to another.
LEMMA UnderOrder ==
  ASSUME NEW p \in FilePaths, NEW q \in FilePaths, NEW s \in FilePaths
  PROVE  /\ Under(p, p)
         /\ Under(p, q) /\ Under(q, s) => Under(p, s)
         /\ Under(p, q) /\ Under(q, p) => p = q
         /\ Under(p, s) /\ Under(q, s) => Under(p, q) \/ Under(q, p)
BY PrefixOrder DEF FilePaths, Under

\* What is behind p, seen from q instead, and from p again.
LEMMA OntoIs ==
  ASSUME NEW p \in FilePaths, NEW q \in FilePaths, NEW x \in FilePaths, Under(p, x)
  PROVE  /\ Onto(p, q, x) \in FilePaths /\ Under(q, Onto(p, q, x))
         /\ Len(Onto(p, q, x)) = Len(q) + Len(x) - Len(p)
         /\ \A i \in 1 .. Len(x) - Len(p) : Onto(p, q, x)[Len(q) + i] = x[Len(p) + i]
         /\ Onto(q, p, Onto(p, q, x)) = x
<1>1. p \in Seq(FileNames) /\ q \in Seq(FileNames) /\ x \in Seq(FileNames) /\ IsPrefix(p, x)
  BY DEF FilePaths, Under
<1>2. \A a, b, c : Onto(a, b, c) = Behind(a, b, c)
  BY DEF Onto, Behind
<1>3. Behind(p, q, x) \in Seq(FileNames) /\ IsPrefix(q, Behind(p, q, x))
  BY <1>1, MovedBehind
<1>4. Len(Behind(p, q, x)) = Len(q) + Len(x) - Len(p)
  BY <1>1, MovedBehind
<1>5. \A i \in 1 .. Len(x) - Len(p) : Behind(p, q, x)[Len(q) + i] = x[Len(p) + i]
  BY <1>1, MovedBehind
<1>6. Behind(q, p, Behind(p, q, x)) = x
  BY <1>1, MovedBehind
<1>7. /\ Onto(p, q, x) = Behind(p, q, x)
      /\ Onto(q, p, Onto(p, q, x)) = Behind(q, p, Behind(p, q, x))
  BY <1>2
<1> QED BY <1>3, <1>4, <1>5, <1>6, <1>7 DEF FilePaths, Under

LEMMA OntoAncestors ==
  ASSUME NEW p \in FilePaths, NEW q \in FilePaths, NEW x \in FilePaths, Under(p, x),
         p # <<>>, NEW a \in Ancestors(Onto(p, q, x))
  PROVE  a \in Ancestors(q) \/ \E b \in Ancestors(x) : Under(p, b) /\ a = Onto(p, q, b)
<1> DEFINE m == Onto(p, q, x)
           b == Onto(q, p, a)
<1>1. m \in FilePaths /\ Under(q, m) /\ Len(m) = Len(q) + Len(x) - Len(p)
      /\ \A i \in 1 .. Len(x) - Len(p) : m[Len(q) + i] = x[Len(p) + i]
  BY OntoIs
<1> HIDE DEF m
<1>2. a \in Ancestors(m)
  BY DEF m
<1>3. a \in FilePaths /\ a # <<>> /\ a # m /\ Under(a, m)
  BY <1>1, <1>2, AncestorsOf
<1>4. CASE Under(a, q) /\ a # q
  BY <1>3, <1>4, AncestorsOf
<1>5. CASE Under(q, a)
  <2>1. /\ b \in FilePaths /\ Under(p, b) /\ Onto(p, q, b) = a
        /\ Len(b) = Len(p) + Len(a) - Len(q)
        /\ \A i \in 1 .. Len(a) - Len(q) : b[Len(p) + i] = a[Len(q) + i]
    BY <1>3, <1>5, OntoIs
  <2> HIDE DEF b
  <2>2. /\ Len(a) \in Nat /\ Len(b) \in Nat /\ Len(p) \in Nat /\ Len(q) \in Nat
        /\ Len(x) \in Nat /\ Len(m) \in Nat
    BY <1>1, <1>3, <2>1 DEF FilePaths
  <2>3. Len(a) < Len(m) /\ \A i \in 1 .. Len(a) : a[i] = m[i]
    BY <1>1, <1>3, PrefixOrder, PrefixMeans DEF FilePaths, Under
  <2>4. /\ Len(p) <= Len(x) /\ \A i \in 1 .. Len(p) : p[i] = x[i]
        /\ Len(p) <= Len(b) /\ \A i \in 1 .. Len(p) : p[i] = b[i]
    BY <2>1, PrefixMeans DEF FilePaths, Under
  <2>5. Len(b) < Len(x)
    BY <1>1, <2>1, <2>2, <2>3
  <2>6. ASSUME NEW i \in 1 .. Len(b)
        PROVE  b[i] = x[i]
    <3>1. CASE i <= Len(p)
      BY <2>2, <2>4, <3>1
    <3>2. CASE ~(i <= Len(p))
      <4>1. /\ i - Len(p) \in 1 .. Len(a) - Len(q) /\ Len(p) + (i - Len(p)) = i
            /\ i - Len(p) \in 1 .. Len(x) - Len(p)
            /\ Len(q) + (i - Len(p)) \in 1 .. Len(a)
        BY <2>1, <2>2, <2>4, <2>5, <3>2
      <4>2. b[i] = a[Len(q) + (i - Len(p))]
        BY <2>1, <4>1
      <4>3. m[Len(q) + (i - Len(p))] = x[i]
        BY <1>1, <4>1
      <4> QED BY <2>3, <4>1, <4>2, <4>3
    <3> QED BY <3>1, <3>2
  <2>7. IsPrefix(b, x)
    BY <2>1, <2>2, <2>5, <2>6, PrefixMeans DEF FilePaths
  <2>8. Len(p) # 0
    BY DEF FilePaths
  <2>9. b # <<>> /\ b # x
    BY <2>2, <2>4, <2>5, <2>8
  <2> QED BY <2>1, <2>7, <2>9, AncestorsOf DEF Under
<1> QED BY <1>1, <1>3, <1>4, <1>5, UnderOrder

-----------------------------------------------------------------------------
\* What the file system calls keep of a tree, and that they leave it good.
Holds(t, x, e) == x \in DOMAIN t /\ t[x] = e

LEMMA WithoutKeeps ==
  ASSUME NEW t, TreeOK(t), NEW p \in FilePaths
  PROVE  /\ TreeOK(Without(t, p))
         /\ \A x \in DOMAIN Without(t, p) : x \in DOMAIN t /\ ~Under(p, x)
         /\ \A x \in DOMAIN t : ~Under(p, x) => Holds(Without(t, p), x, t[x])
<1> DEFINE u == Without(t, p)
           D == {x \in DOMAIN t : ~Under(p, x)}
<1>1. DOMAIN u = D /\ \A x \in D : u[x] = t[x]
  BY DEF Without
<1>2. IsFiniteSet(D)
  BY FS_Subset DEF TreeOK
<1> HIDE DEF u
<1>3. ASSUME NEW x \in DOMAIN u
      PROVE  /\ x \in FilePaths /\ (u[x].kind = "link" => u[x].to \in FilePaths)
             /\ \A a \in Ancestors(x) : a \in DOMAIN u /\ u[a].kind = "dir"
  <2>1. x \in DOMAIN t /\ ~Under(p, x) /\ x \in FilePaths /\ u[x] = t[x]
    BY <1>1 DEF TreeOK
  <2>2. ASSUME NEW a \in Ancestors(x)
        PROVE  a \in DOMAIN u /\ u[a].kind = "dir"
    <3>1. a \in DOMAIN t /\ t[a].kind = "dir" /\ a \in FilePaths /\ Under(a, x)
      BY <2>1, AncestorsOf DEF TreeOK
    <3>2. ~Under(p, a)
      BY <2>1, <3>1, UnderOrder
    <3> QED BY <1>1, <3>1, <3>2
  <2> QED BY <2>1, <2>2 DEF TreeOK
<1>4. TreeOK(u)
  BY <1>1, <1>2, <1>3 DEF TreeOK
<1> QED BY <1>1, <1>4 DEF u, Holds

LEMMA WithFoldersKeeps ==
  ASSUME NEW t, TreeOK(t), NEW p \in FilePaths,
         \A a \in Ancestors(p) : a \in DOMAIN t => t[a].kind = "dir"
  PROVE  /\ TreeOK(WithFolders(t, p))
         /\ DOMAIN WithFolders(t, p) = DOMAIN t \cup Ancestors(p)
         /\ \A x \in DOMAIN t : Holds(WithFolders(t, p), x, t[x])
         /\ \A a \in Ancestors(p) : WithFolders(t, p)[a].kind = "dir"
<1> DEFINE u == WithFolders(t, p)
<1>1. /\ DOMAIN u = DOMAIN t \cup Ancestors(p)
      /\ \A x \in DOMAIN t : u[x] = t[x]
      /\ \A x \in Ancestors(p) \ DOMAIN t : u[x] = Folder
  BY DEF WithFolders
<1>2. Folder.kind = "dir" /\ Folder.kind # "link"
  BY DEF Folder
<1>3. \A a \in Ancestors(p) : a \in DOMAIN u /\ u[a].kind = "dir"
  BY <1>1, <1>2
<1>4. IsFiniteSet(DOMAIN u)
  <2>1. IsFiniteSet(DOMAIN t) /\ IsFiniteSet(Ancestors(p))
    BY AncestorsOf DEF TreeOK
  <2> QED BY <1>1, <2>1, FS_Union
<1> HIDE DEF u
<1>5. ASSUME NEW x \in DOMAIN u
      PROVE  /\ x \in FilePaths /\ (u[x].kind = "link" => u[x].to \in FilePaths)
             /\ \A a \in Ancestors(x) : a \in DOMAIN u /\ u[a].kind = "dir"
  <2>1. CASE x \in DOMAIN t
    BY <1>1, <2>1 DEF TreeOK
  <2>2. CASE x \in Ancestors(p) /\ x \notin DOMAIN t
    <3>1. x \in FilePaths /\ Under(x, p) /\ x # p
      BY <2>2, AncestorsOf
    <3>2. ASSUME NEW a \in Ancestors(x)
          PROVE  a \in Ancestors(p)
      <4>1. a \in FilePaths /\ a # <<>> /\ a # x /\ Under(a, x)
        BY <3>1, AncestorsOf
      <4>2. Under(a, p) /\ a # p
        BY <3>1, <4>1, UnderOrder
      <4> QED BY <4>1, <4>2, AncestorsOf
    <3> QED BY <1>1, <1>2, <1>3, <2>2, <3>1, <3>2
  <2> QED BY <1>1, <2>1, <2>2
<1>6. <<>> \notin DOMAIN u
  BY <1>1, AncestorsOf DEF TreeOK
<1>7. TreeOK(u)
  BY <1>4, <1>5, <1>6 DEF TreeOK
<1> QED BY <1>1, <1>3, <1>7 DEF u, Holds

\* A copy takes the place of what was at q and stands for all that is at p.
LEMMA CopiedHas ==
  ASSUME NEW t, TreeOK(t), NEW p \in FilePaths, NEW q \in FilePaths
  PROVE  /\ \A x \in DOMAIN t : x \in DOMAIN Copied(t, p, q)
         /\ \A x \in DOMAIN t : ~Under(q, x) => Holds(Copied(t, p, q), x, t[x])
         /\ \A x \in DOMAIN t : Under(p, x) => Holds(Copied(t, p, q), Onto(p, q, x), t[x])
         /\ \A y \in DOMAIN Copied(t, p, q) :
              \/ y \in DOMAIN t /\ Copied(t, p, q)[y] = t[y]
              \/ \E x \in DOMAIN t : Under(p, x) /\ y = Onto(p, q, x)
<1> DEFINE S == {x \in DOMAIN t : Under(p, x)}
           new == {Onto(p, q, x) : x \in S}
           u == Copied(t, p, q)
<1>1. /\ DOMAIN u = DOMAIN t \cup new
      /\ \A y \in DOMAIN t \cup new : u[y] = IF y \in new THEN t[Onto(q, p, y)] ELSE t[y]
  BY DEF Copied
<1> HIDE DEF u
<1>2. \A x \in DOMAIN t : x \in FilePaths
  BY DEF TreeOK
<1>3. \A x \in S : Onto(q, p, Onto(p, q, x)) = x /\ Under(q, Onto(p, q, x))
  BY <1>2, OntoIs
<1>4. \A y \in new : \E x \in S : y = Onto(p, q, x)
  OBVIOUS
<1>5. \A x \in S : Onto(p, q, x) \in new
  OBVIOUS
<1>6. \A x \in DOMAIN t : Under(p, x) <=> x \in S
  OBVIOUS
<1> HIDE DEF new, S
<1>7. \A x \in DOMAIN t : ~Under(q, x) => x \notin new
  BY <1>3, <1>4
<1>8. \A x \in S : x \in DOMAIN t
  BY DEF S
<1>9. \A x \in S : Holds(u, Onto(p, q, x), t[x])
  BY <1>1, <1>3, <1>5 DEF Holds
<1>10. \A y \in DOMAIN u : \/ y \in DOMAIN t /\ u[y] = t[y]
                           \/ \E x \in DOMAIN t : Under(p, x) /\ y = Onto(p, q, x)
  BY <1>1, <1>4, <1>6, <1>8
<1>11. \A x \in DOMAIN t : x \in DOMAIN u /\ (~Under(q, x) => Holds(u, x, t[x]))
  BY <1>1, <1>7 DEF Holds
<1> QED BY <1>6, <1>9, <1>10, <1>11 DEF u

LEMMA CopiedKeeps ==
  ASSUME NEW t, TreeOK(t), NEW p \in FilePaths, NEW q \in FilePaths, p # <<>>, q # <<>>,
         \A a \in Ancestors(q) : a \in DOMAIN t /\ t[a].kind = "dir",
         \A y \in DOMAIN t : Under(q, y) => y = q
  PROVE  TreeOK(Copied(t, p, q))
<1> DEFINE u == Copied(t, p, q)
<1>0. \A x \in DOMAIN t : x \in FilePaths
  BY DEF TreeOK
<1>1. /\ \A x \in DOMAIN t : x \in DOMAIN u
      /\ \A x \in DOMAIN t : ~Under(q, x) => Holds(u, x, t[x])
      /\ \A x \in DOMAIN t : Under(p, x) => Holds(u, Onto(p, q, x), t[x])
      /\ \A y \in DOMAIN u : \/ y \in DOMAIN t /\ u[y] = t[y]
                             \/ \E x \in DOMAIN t : Under(p, x) /\ y = Onto(p, q, x)
  BY CopiedHas
<1>2. IsFiniteSet(DOMAIN u)
  <2> DEFINE D == DOMAIN t
             f == [x \in D |-> Onto(p, q, x)]
  <2>1. IsFiniteSet(D)
    BY DEF TreeOK
  <2>2. \A x \in D : f[x] = Onto(p, q, x)
    OBVIOUS
  <2> HIDE DEF f
  <2>3. IsFiniteSet({f[x] : x \in D})
    BY <2>1, ImageBound
  <2>4. IsFiniteSet(D \cup {f[x] : x \in D})
    BY <2>1, <2>3, FS_Union
  <2>5. DOMAIN u \subseteq D \cup {f[x] : x \in D}
    BY <1>1, <2>2
  <2> QED BY <2>4, <2>5, FS_Subset
<1> HIDE DEF u
<1>3. ASSUME NEW a \in Ancestors(q)
      PROVE  Holds(u, a, t[a]) /\ t[a].kind = "dir"
  <2>1. a \in FilePaths /\ a # q /\ Under(a, q)
    BY AncestorsOf
  <2> QED BY <1>1, <2>1, UnderOrder
<1>4. ASSUME NEW y \in DOMAIN u
      PROVE  /\ y \in FilePaths /\ y # <<>> /\ (u[y].kind = "link" => u[y].to \in FilePaths)
             /\ \A a \in Ancestors(y) : a \in DOMAIN u /\ u[a].kind = "dir"
  <2>1. CASE y \in DOMAIN t /\ u[y] = t[y]
    <3>1. ASSUME NEW a \in Ancestors(y)
          PROVE  a \in DOMAIN u /\ u[a].kind = "dir"
      <4>1. a \in FilePaths /\ a # y /\ Under(a, y) /\ a \in DOMAIN t /\ t[a].kind = "dir"
        BY <1>0, <2>1, AncestorsOf DEF TreeOK
      <4>2. ~Under(q, a)
        BY <1>0, <2>1, <4>1, UnderOrder
      <4> QED BY <1>1, <4>1, <4>2 DEF Holds
    <3> QED BY <2>1, <3>1 DEF TreeOK
  <2>2. CASE \E x \in DOMAIN t : Under(p, x) /\ y = Onto(p, q, x)
    <3>1. PICK x \in DOMAIN t : Under(p, x) /\ y = Onto(p, q, x)
      BY <2>2
    <3>2. x \in FilePaths /\ u[y] = t[x] /\ (t[x].kind = "link" => t[x].to \in FilePaths)
      BY <1>1, <3>1 DEF TreeOK, Holds
    <3>3. y \in FilePaths /\ Under(q, y)
      BY <3>1, <3>2, OntoIs
    <3>4. y # <<>>
      <4>1. Len(q) \in Nat /\ Len(q) # 0 /\ Len(q) <= Len(y)
        BY <3>3, PrefixMeans DEF FilePaths, Under
      <4> QED BY <4>1
    <3>5. ASSUME NEW a \in Ancestors(y)
          PROVE  a \in DOMAIN u /\ u[a].kind = "dir"
      <4>1. a \in Ancestors(q) \/ \E b \in Ancestors(x) : Under(p, b) /\ a = Onto(p, q, b)
        BY <3>1, <3>2, OntoAncestors
      <4>2. CASE a \in Ancestors(q)
        BY <1>3, <4>2 DEF Holds
      <4>3. CASE \E b \in Ancestors(x) : Under(p, b) /\ a = Onto(p, q, b)
        <5>1. PICK b \in Ancestors(x) : Under(p, b) /\ a = Onto(p, q, b)
          BY <4>3
        <5>2. b \in DOMAIN t /\ t[b].kind = "dir"
          BY DEF TreeOK
        <5> QED BY <1>1, <5>1, <5>2 DEF Holds
      <4> QED BY <4>1, <4>2, <4>3
    <3> QED BY <3>2, <3>3, <3>4, <3>5
  <2> QED BY <1>1, <2>1, <2>2
<1> QED BY <1>2, <1>4 DEF TreeOK, u

-----------------------------------------------------------------------------
\* Names and paths made from others.
LEMMA GivenAreFilePaths ==
  /\ \A p \in GivenPaths : p \in FilePaths
  /\ \A n \in NewNames : n \in FileNames
<1>1. Seq(Letters) \subseteq FileNames
  <2> SUFFICES ASSUME NEW n \in Seq(Letters) PROVE n \in Seq(Letters \cup Nat)
    BY DEF FileNames
  <2>1. Letters \subseteq Letters \cup Nat
    OBVIOUS
  <2> QED BY <2>1, SeqMonotonic
<1>2. ASSUME NEW p \in Seq(Seq(Letters))
      PROVE  p \in Seq(FileNames)
  BY <1>1, SeqMonotonic
<1> QED BY <1>1, <1>2, HomesAssumption DEF GivenPaths, FilePaths

LEMMA PathParts ==
  ASSUME NEW p \in FilePaths, p # <<>>
  PROVE  /\ Last(p) \in FileNames
         /\ Parent(p) \in FilePaths /\ Len(Parent(p)) = Len(p) - 1 /\ Under(Parent(p), p)
<1>1. Len(p) \in Nat \ {0}
  BY DEF FilePaths
<1>2. Last(p) \in FileNames
  BY <1>1 DEF Last, FilePaths
<1> DEFINE k == Len(p) - 1
<1>3. k \in 0 .. Len(p) /\ Parent(p) = SubSeq(p, 1, k)
  BY <1>1 DEF Parent, Front
<1> HIDE DEF k
<1>4. /\ Parent(p) \in FilePaths /\ Len(Parent(p)) = k
      /\ \A i \in 1 .. k : Parent(p)[i] = p[i]
  BY <1>3, SubSeqUpTo DEF FilePaths
<1>5. k <= Len(p)
  BY <1>1, <1>3
<1>6. IsPrefix(Parent(p), p)
  BY <1>4, <1>5, PrefixMeans DEF FilePaths
<1> QED BY <1>2, <1>4, <1>6 DEF Under, k

LEMMA Joined ==
  ASSUME NEW p \in FilePaths, NEW n \in FileNames
  PROVE  Append(p, n) \in FilePaths /\ Append(p, n) # <<>> /\ Under(p, Append(p, n))
<1>1. /\ Append(p, n) \in Seq(FileNames) /\ Append(p, n) # <<>>
      /\ Len(Append(p, n)) = Len(p) + 1 /\ Len(p) \in Nat
      /\ \A i \in 1 .. Len(p) : Append(p, n)[i] = p[i]
  BY AppendProperties DEF FilePaths
<1>2. Len(p) <= Len(Append(p, n))
  BY <1>1
<1>3. IsPrefix(p, Append(p, n))
  BY <1>1, <1>2, PrefixMeans DEF FilePaths
<1> QED BY <1>1, <1>3 DEF FilePaths, Under

\* There are more numbers to try than paths, so unique_path finds a free one.
LEMMA FreeName ==
  ASSUME IsFiniteSet(DOMAIN fs), NEW p \in FilePaths, p # <<>>
  PROVE  unique_path(p) \in FilePaths /\ unique_path(p) # <<>> /\ unique_path(p) \notin DOMAIN fs
<1> DEFINE D == DOMAIN fs
           C == Cardinality(D)
           S == 2 .. (C + 2)
           IsFree(k) == Numbered(p, k) \notin D
<1>1. C \in Nat /\ IsFiniteSet(D)
  BY FS_CardinalityType
<1>2. IsFiniteSet(S) /\ Cardinality(S) = C + 1
  BY <1>1, FS_Interval
<1>3. ASSUME NEW k \in Nat
      PROVE  Append(Last(p), k) \in FileNames
  <2>1. Last(p) \in Seq(Letters \cup Nat) /\ k \in Letters \cup Nat
    BY PathParts DEF FileNames
  <2> QED BY <2>1, AppendProperties DEF FileNames
<1>4. \A k \in Nat : Numbered(p, k) \in FilePaths /\ Numbered(p, k) # <<>>
  BY <1>3, PathParts, Joined DEF Numbered
<1>5. ASSUME NEW j \in Nat, NEW k \in Nat, Numbered(p, j) = Numbered(p, k)
      PROVE  j = k
  <2>1. Append(Last(p), j) = Append(Last(p), k)
    <3>1. /\ Parent(p) \in Seq(FileNames)
          /\ Append(Last(p), j) \in FileNames /\ Append(Last(p), k) \in FileNames
          /\ Append(Parent(p), Append(Last(p), j)) = Append(Parent(p), Append(Last(p), k))
      BY <1>3, <1>5, PathParts DEF Numbered, FilePaths
    <3> QED BY <3>1, AppendInjective
  <2>2. Last(p) \in Seq(Letters \cup Nat) /\ j \in Letters \cup Nat /\ k \in Letters \cup Nat
    BY PathParts DEF FileNames
  <2> QED BY <2>1, <2>2, AppendInjective
<1>6. \A k \in S : k \in Nat
  BY <1>1
<1>7. \E k \in S : IsFree(k)
  <2> SUFFICES ASSUME \A k \in S : Numbered(p, k) \in D PROVE FALSE
    OBVIOUS
  <2> DEFINE f == [k \in S |-> Numbered(p, k)]
  <2>1. f \in [S -> D]
    OBVIOUS
  <2>2. Cardinality(D) < Cardinality(S)
    BY <1>1, <1>2
  <2>3. \A k \in S : f[k] = Numbered(p, k)
    OBVIOUS
  <2> HIDE DEF f, S, C, D
  <2>4. \E j, k \in S : j # k /\ f[j] = f[k]
    BY <1>1, <1>2, <2>1, <2>2, FS_PigeonHole
  <2> QED BY <1>5, <1>6, <2>3, <2>4
<1> DEFINE T == {k \in S : IsFree(k)}
           m == Min(T)
<1>8. T \in SUBSET Nat /\ T # {}
  BY <1>6, <1>7
<1> HIDE DEF T, m
<1>9. m \in T /\ \A k \in T : m <= k
  BY <1>8, LeastNumber DEF m
<1>10. m \in S /\ IsFree(m) /\ \A j \in 2 .. (m - 1) : Numbered(p, j) \in D
  <2>1. m \in S /\ IsFree(m)
    BY <1>9 DEF T
  <2>2. ASSUME NEW j \in 2 .. (m - 1)
        PROVE  Numbered(p, j) \in D
    <3>1. j \in S /\ ~(m <= j)
      BY <1>1, <2>1
    <3> QED BY <1>9, <3>1 DEF T
  <2> QED BY <2>1, <2>2
<1> DEFINE n == CHOOSE k \in S : IsFree(k) /\ \A j \in 2 .. (k - 1) : Numbered(p, j) \in D
<1> HIDE DEF IsFree
<1>11. n \in S /\ IsFree(n)
  BY <1>10
<1>12. unique_path(p) = IF p \notin DOMAIN fs THEN p ELSE Numbered(p, n)
  BY DEF unique_path, IsFree
<1> HIDE DEF n, S
<1> QED BY <1>4, <1>6, <1>11, <1>12 DEF IsFree

-----------------------------------------------------------------------------
\* What is done to the home loses no entry but one at or below the place it is
\* done to.
Lasts(t, x) == \E y : Holds(t, y, fs[x])
LosesOnlyUnder(t, d) == \A x \in DOMAIN fs : Under(d, x) \/ Lasts(t, x)

LEMMA ClearBelow ==
  ASSUME TreeOK(fs), NEW d \in FilePaths, d # <<>>,
         d \notin DOMAIN fs \/ fs[d].kind # "dir",
         NEW x \in DOMAIN fs, Under(d, x)
  PROVE  d \in DOMAIN fs /\ x = d
<1>1. x \in FilePaths
  BY DEF TreeOK
<1>2. x # d => d \in Ancestors(x)
  BY <1>1, AncestorsOf
<1> QED BY <1>2 DEF TreeOK

LEMMA FoldersAbove ==
  ASSUME TreeOK(fs), NEW q \in FilePaths, q # <<>>, IsFolder(Parent(q)), NEW a \in Ancestors(q)
  PROVE  a \in DOMAIN fs /\ fs[a].kind = "dir"
<1>1. Parent(q) \in FilePaths /\ Len(Parent(q)) = Len(q) - 1 /\ Under(Parent(q), q)
  BY PathParts
<1>2. a \in FilePaths /\ a # <<>> /\ a # q /\ Under(a, q)
  BY AncestorsOf
<1>3. Len(a) \in Nat /\ Len(q) \in Nat /\ Len(a) # 0 /\ Len(a) < Len(q)
  BY <1>2, PrefixOrder DEF FilePaths, Under
<1>4. Under(a, Parent(q))
  <2>1. Under(a, Parent(q)) \/ Under(Parent(q), a)
    BY <1>1, <1>2, UnderOrder
  <2>2. CASE Under(Parent(q), a) /\ Parent(q) # a
    <3>1. Len(Parent(q)) < Len(a)
      BY <1>1, <1>2, <2>2, PrefixOrder DEF FilePaths, Under
    <3> QED BY <1>1, <1>3, <3>1
  <2> QED BY <1>2, <2>1, <2>2, UnderOrder
<1>5. Parent(q) # <<>>
  BY <1>1, <1>3, <1>4, PrefixMeans DEF FilePaths, Under
<1>6. Parent(q) \in DOMAIN fs /\ fs[Parent(q)].kind = "dir"
  BY <1>5 DEF IsFolder
<1>7. CASE a = Parent(q)
  BY <1>6, <1>7
<1>8. CASE a # Parent(q)
  BY <1>1, <1>2, <1>4, <1>6, <1>8, AncestorsOf DEF TreeOK
<1> QED BY <1>7, <1>8

LEMMA RenamedKeeps ==
  ASSUME TreeOK(fs), NEW p \in FilePaths, NEW q \in FilePaths, q # <<>>, CanRename(p, q)
  PROVE  TreeOK(Renamed(p, q)) /\ LosesOnlyUnder(Renamed(p, q), q)
<1>1. CASE p = q
  BY <1>1 DEF Renamed, LosesOnlyUnder, Lasts, Holds
<1>2. CASE p # q
  <2> DEFINE t == Without(fs, q)
             c == Copied(t, p, q)
             u == Without(c, p)
  <2>1. /\ TreeOK(t)
        /\ \A x \in DOMAIN t : x \in DOMAIN fs /\ ~Under(q, x)
        /\ \A x \in DOMAIN fs : ~Under(q, x) => Holds(t, x, fs[x])
    BY WithoutKeeps
  <2> HIDE DEF t
  <2>2. p # <<>> /\ ~Under(p, q)
    BY <1>2 DEF CanRename, TreeOK
  <2>3. ASSUME NEW a \in Ancestors(q)
        PROVE  a \in DOMAIN t /\ t[a].kind = "dir"
    <3>1. a \in DOMAIN fs /\ fs[a].kind = "dir"
      BY FoldersAbove DEF CanRename
    <3>2. a \in FilePaths /\ ~Under(q, a)
      BY AncestorsOf, UnderOrder
    <3> QED BY <2>1, <3>1, <3>2 DEF Holds
  <2>4. TreeOK(c)
    BY <2>1, <2>2, <2>3, CopiedKeeps
  <2>5. /\ \A x \in DOMAIN t : ~Under(q, x) => Holds(c, x, t[x])
        /\ \A x \in DOMAIN t : Under(p, x) => Holds(c, Onto(p, q, x), t[x])
    BY <2>1, CopiedHas
  <2> HIDE DEF c
  <2>6. TreeOK(u) /\ \A x \in DOMAIN c : ~Under(p, x) => Holds(u, x, c[x])
    BY <2>4, WithoutKeeps
  <2> HIDE DEF u
  <2>7. ASSUME NEW x \in DOMAIN fs, ~Under(q, x)
        PROVE  Lasts(u, x)
    <3>1. x \in DOMAIN t /\ t[x] = fs[x] /\ x \in FilePaths
      BY <2>1, <2>7 DEF Holds, TreeOK
    <3>2. CASE ~Under(p, x)
      BY <2>5, <2>6, <2>7, <3>1, <3>2 DEF Holds, Lasts
    <3>3. CASE Under(p, x)
      <4> DEFINE y == Onto(p, q, x)
      <4>1. y \in FilePaths /\ Under(q, y)
        BY <3>1, <3>3, OntoIs
      <4>2. Holds(c, y, fs[x])
        BY <2>5, <3>1, <3>3
      <4> HIDE DEF y
      <4>3. ~Under(p, y)
        BY <2>2, <2>7, <3>1, <3>3, <4>1, UnderOrder
      <4>4. Holds(u, y, fs[x])
        BY <2>6, <4>2, <4>3 DEF Holds
      <4> QED BY <4>4 DEF Lasts
    <3> QED BY <3>2, <3>3
  <2>8. Renamed(p, q) = u
    BY <1>2 DEF Renamed, t, c, u
  <2> QED BY <2>6, <2>7, <2>8 DEF LosesOnlyUnder
<1> QED BY <1>1, <1>2

\* A copy of a folder, which makes the folders it needs, loses nothing.
LEMMA CopiedFolderKeeps ==
  ASSUME TreeOK(fs), NEW p \in FilePaths, p # <<>>, NEW q \in FilePaths, q # <<>>
  PROVE  /\ TreeOK(CopiedFolder(p, q))
         /\ \A x \in DOMAIN fs : Holds(CopiedFolder(p, q), x, fs[x])
         /\ CopiedFolder(p, q) # fs =>
              /\ ~Under(p, q)
              /\ \A x \in DOMAIN fs : ~Under(q, x)
              /\ \A x \in DOMAIN fs : Under(p, x) =>
                   Holds(CopiedFolder(p, q), Onto(p, q, x), fs[x])
<1>1. CASE q \in DOMAIN fs \/ ~Leads(q) \/ Under(p, q)
  BY <1>1 DEF CopiedFolder, Holds
<1>2. CASE q \notin DOMAIN fs /\ Leads(q) /\ ~Under(p, q)
  <2> DEFINE t == WithFolders(fs, q)
             c == Copied(t, p, q)
  <2>1. \A a \in Ancestors(q) : a \in DOMAIN fs => fs[a].kind = "dir"
    <3>1. <<>> \notin Ancestors(q)
      BY AncestorsOf
    <3> QED BY <1>2, <3>1 DEF Leads, IsFolder
  <2>2. /\ TreeOK(t) /\ DOMAIN t = DOMAIN fs \cup Ancestors(q)
        /\ \A x \in DOMAIN fs : Holds(t, x, fs[x])
        /\ \A a \in Ancestors(q) : t[a].kind = "dir"
    BY <2>1, WithFoldersKeeps
  <2> HIDE DEF t
  <2>3. \A x \in DOMAIN fs : ~Under(q, x)
    BY <1>2, ClearBelow
  <2>4. ASSUME NEW a \in Ancestors(q)
        PROVE  ~Under(q, a)
    BY AncestorsOf, UnderOrder
  <2>5. \A y \in DOMAIN t : ~Under(q, y)
    BY <2>2, <2>3, <2>4
  <2>6. TreeOK(c)
    BY <2>2, <2>5, CopiedKeeps
  <2>7. /\ \A x \in DOMAIN t : ~Under(q, x) => Holds(c, x, t[x])
        /\ \A x \in DOMAIN t : Under(p, x) => Holds(c, Onto(p, q, x), t[x])
    BY <2>2, CopiedHas
  <2>8. CopiedFolder(p, q) = c
    BY <1>2 DEF CopiedFolder, t
  <2> HIDE DEF c
  <2>9. \A x \in DOMAIN fs : x \in DOMAIN t /\ t[x] = fs[x]
    BY <2>2 DEF Holds
  <2> QED BY <1>2, <2>3, <2>5, <2>6, <2>7, <2>8, <2>9
<1> QED BY <1>1, <1>2

\* What goes into a folder that has the name goes below it, unless a link is
\* followed; a path through a link is a path.
LEMMA InsideIs ==
  ASSUME TreeOK(fs), NEW p \in FilePaths, p # <<>>, NEW q \in FilePaths, q # <<>>
  PROVE  /\ Inside(p, q) \in FilePaths /\ Inside(p, q) # <<>>
         /\ safe_path(q) = q => Under(q, Inside(p, q))
<1>1. safe_path(q) \in FilePaths
  BY DEF safe_path, IsLink, TreeOK
<1>2. Last(p) \in FileNames
  BY PathParts
<1>3. /\ Append(safe_path(q), Last(p)) \in FilePaths /\ Append(safe_path(q), Last(p)) # <<>>
      /\ Under(safe_path(q), Append(safe_path(q), Last(p)))
  BY <1>1, <1>2, Joined
<1> QED BY <1>3, UnderOrder DEF Inside

LEMMA ThroughIs ==
  ASSUME TreeOK(fs), NEW p \in FilePaths
  PROVE  /\ Through(p) \in FilePaths
         /\ p # <<>> => Through(p) # <<>>
<1>1. CASE Turns(p) = {}
  BY <1>1 DEF Through
<1>2. CASE Turns(p) # {}
  <2> DEFINE a == CHOOSE x \in Turns(p) : TRUE
             to == fs[a].to
  <2>1. a \in Turns(p) /\ Through(p) = Onto(a, to, p)
    BY <1>2 DEF Through
  <2> HIDE DEF a
  <2>2. a \in Ancestors(p) /\ to \in FilePaths
    BY <2>1 DEF Turns, IsLink, TreeOK
  <2> HIDE DEF to
  <2>3. a \in FilePaths /\ a # p /\ Under(a, p)
    BY <2>2, AncestorsOf
  <2>4. /\ Onto(a, to, p) \in FilePaths
        /\ Len(Onto(a, to, p)) = Len(to) + Len(p) - Len(a)
    BY <2>2, <2>3, OntoIs
  <2>5. Len(a) \in Nat /\ Len(p) \in Nat /\ Len(to) \in Nat /\ Len(a) < Len(p)
    BY <2>2, <2>3, PrefixOrder DEF FilePaths, Under
  <2>6. Len(Onto(a, to, p)) # 0
    BY <2>4, <2>5
  <2> QED BY <2>1, <2>4, <2>6
<1> QED BY <1>1, <1>2

LEMMA MovedKeeps ==
  ASSUME TreeOK(fs), NEW p \in DOMAIN fs, NEW q \in FilePaths, q # <<>>
  PROVE  TreeOK(Moved(p, q)) /\ LosesOnlyUnder(Moved(p, q), Inside(p, q))
<1> DEFINE d == Inside(p, q)
<1>0. p \in FilePaths /\ p # <<>> /\ \A x \in DOMAIN fs : x \in FilePaths
  BY DEF TreeOK
<1>1. d \in FilePaths /\ d # <<>>
  BY <1>0, InsideIs
<1>2. \/ Moved(p, q) = fs
      \/ CanRename(p, d) /\ Moved(p, q) = Renamed(p, d)
      \/ CopiedFolder(p, d) # fs /\ Moved(p, q) = Without(CopiedFolder(p, d), p)
  BY DEF Moved
<1> HIDE DEF d
<1>3. CASE Moved(p, q) = fs
  BY <1>3 DEF LosesOnlyUnder, Lasts, Holds
<1>4. CASE CanRename(p, d) /\ Moved(p, q) = Renamed(p, d)
  <2>1. TreeOK(Renamed(p, d)) /\ LosesOnlyUnder(Renamed(p, d), d)
    BY <1>0, <1>1, <1>4, RenamedKeeps
  <2> QED BY <1>4, <2>1 DEF d
<1>5. CASE CopiedFolder(p, d) # fs /\ Moved(p, q) = Without(CopiedFolder(p, d), p)
  <2> DEFINE c == CopiedFolder(p, d)
             u == Without(c, p)
  <2>1. /\ TreeOK(c) /\ ~Under(p, d)
        /\ \A x \in DOMAIN fs : Holds(c, x, fs[x])
        /\ \A x \in DOMAIN fs : ~Under(d, x)
        /\ \A x \in DOMAIN fs : Under(p, x) => Holds(c, Onto(p, d, x), fs[x])
    BY <1>0, <1>1, <1>5, CopiedFolderKeeps
  <2> HIDE DEF c
  <2>2. TreeOK(u) /\ \A x \in DOMAIN c : ~Under(p, x) => Holds(u, x, c[x])
    BY <1>0, <2>1, WithoutKeeps
  <2> HIDE DEF u
  <2>3. ASSUME NEW x \in DOMAIN fs
        PROVE  Lasts(u, x)
    <3>1. CASE ~Under(p, x)
      BY <2>1, <2>2, <3>1 DEF Holds, Lasts
    <3>2. CASE Under(p, x)
      <4> DEFINE y == Onto(p, d, x)
      <4>1. y \in FilePaths /\ Under(d, y) /\ Holds(c, y, fs[x])
        BY <1>0, <1>1, <2>1, <3>2, OntoIs
      <4> HIDE DEF y
      <4>2. ~Under(p, y)
        BY <1>0, <1>1, <2>1, <3>2, <4>1, UnderOrder
      <4>3. Holds(u, y, fs[x])
        BY <2>2, <4>1, <4>2 DEF Holds
      <4> QED BY <4>3 DEF Lasts
    <3> QED BY <3>1, <3>2
  <2>4. Moved(p, q) = u
    BY <1>5 DEF u, c
  <2> QED BY <2>2, <2>3, <2>4 DEF LosesOnlyUnder
<1> QED BY <1>2, <1>3, <1>4, <1>5

LEMMA CopiedFileKeeps ==
  ASSUME TreeOK(fs), NEW p \in DOMAIN fs, NEW q \in FilePaths, q # <<>>
  PROVE  /\ TreeOK(CopiedFile(p, q))
         /\ LosesOnlyUnder(CopiedFile(p, q), safe_path(Inside(p, q)))
<1> DEFINE s == safe_path(p)
           i == Inside(p, q)
           d == safe_path(i)
           Placed == /\ s \in FilesOf(fs) /\ d # <<>> /\ IsFolder(Parent(d))
                     /\ d \in DOMAIN fs => d \in FilesOf(fs)
<1>0. p \in FilePaths /\ p # <<>> /\ \A x \in DOMAIN fs : x \in FilePaths
  BY DEF TreeOK
<1>1. i \in FilePaths
  BY <1>0, InsideIs
<1>2. \/ CopiedFile(p, q) = fs
      \/ Placed /\ CopiedFile(p, q) = Copied(fs, s, d)
  BY DEF CopiedFile
<1> HIDE DEF i
<1>3. d \in FilePaths
  BY <1>1 DEF safe_path, IsLink, TreeOK
<1> HIDE DEF s, d
<1>4. CASE CopiedFile(p, q) = fs
  BY <1>4 DEF LosesOnlyUnder, Lasts, Holds
<1>5. CASE Placed /\ CopiedFile(p, q) = Copied(fs, s, d)
  <2> DEFINE c == Copied(fs, s, d)
  <2>1. s \in DOMAIN fs /\ s \in FilePaths /\ s # <<>>
    BY <1>0, <1>5 DEF FilesOf, TreeOK
  <2>2. d \notin DOMAIN fs \/ fs[d].kind # "dir"
    BY <1>5 DEF FilesOf
  <2>3. \A y \in DOMAIN fs : Under(d, y) => y = d
    BY <1>3, <1>5, <2>2, ClearBelow
  <2>4. \A a \in Ancestors(d) : a \in DOMAIN fs /\ fs[a].kind = "dir"
    BY <1>3, <1>5, FoldersAbove
  <2>5. TreeOK(c)
    BY <1>3, <1>5, <2>1, <2>3, <2>4, CopiedKeeps
  <2>6. \A x \in DOMAIN fs : ~Under(d, x) => Holds(c, x, fs[x])
    BY <1>3, <2>1, CopiedHas
  <2> HIDE DEF c
  <2>7. LosesOnlyUnder(c, d)
    BY <2>6 DEF LosesOnlyUnder, Lasts
  <2> QED BY <1>5, <2>5, <2>7 DEF c, d, i
<1> QED BY <1>2, <1>4, <1>5

-----------------------------------------------------------------------------
\* What is lost when a request acts is what it deletes, or what came where it
\* had found a free place, unless a link came in its way.
LEMMA OutcomeKeeps ==
  ASSUME TreeOK(fs), NEW q, RequestOK(q)
  PROVE  /\ TreeOK(Outcome(q))
         /\ ~Strayed(q) =>
              \A x \in DOMAIN fs :
                \/ Lasts(Outcome(q), x)
                \/ q.op = "delete" /\ Under(q.path, x)
                \/ q.op \in Putting /\ q.path # <<>> /\ Under(q.dest, x)
<1> DEFINE u == Outcome(q)
           p == Through(q.path)
           d == Through(q.dest)
           Fine == /\ TreeOK(u)
                   /\ ~Strayed(q) =>
                        \A x \in DOMAIN fs :
                          \/ Lasts(u, x)
                          \/ q.op = "delete" /\ Under(q.path, x)
                          \/ q.op \in Putting /\ q.path # <<>> /\ Under(q.dest, x)
<1>1. CASE u = fs
  BY <1>1 DEF Lasts, Holds
<1>0. ~Strayed(q) => p = q.path /\ d = q.dest
  BY DEF Strayed
<1>2. CASE q.op = "mkdir" /\ u # fs
  <2> DEFINE n == Append(d, <<>>)
  <2>1. u = WithFolders(fs, n) /\ Leads(d) /\ d \notin DOMAIN fs
    BY <1>2 DEF Outcome, Entry
  <2>2. d \in FilePaths
    BY <1>2, ThroughIs DEF RequestOK
  <2> HIDE DEF d
  <2>3. /\ n \in FilePaths /\ Under(d, n) /\ n # d
        /\ Len(n) = Len(d) + 1 /\ Len(d) \in Nat
    <3>1. <<>> \in FileNames
      BY DEF FileNames
    <3>2. Len(n) = Len(d) + 1 /\ Len(d) \in Nat
      BY <2>2, <3>1, AppendProperties DEF FilePaths
    <3> QED BY <2>2, <3>1, <3>2, Joined
  <2> HIDE DEF n
  <2>4. ASSUME NEW a \in Ancestors(n), a \in DOMAIN fs
        PROVE  fs[a].kind = "dir"
    <3>1. a \in FilePaths /\ a # <<>> /\ Under(a, n) /\ a # d /\ a # n
      BY <2>1, <2>3, <2>4, AncestorsOf
    <3>2. Under(a, d) \/ Under(d, a)
      BY <2>2, <2>3, <3>1, UnderOrder
    <3>3. CASE Under(a, d)
      <4>1. a \in Ancestors(d)
        BY <2>2, <3>1, <3>3, AncestorsOf
      <4> QED BY <2>1, <2>4, <3>1, <4>1 DEF Leads, IsFolder
    <3>4. CASE Under(d, a)
      <4>1. Len(d) < Len(a) /\ Len(a) < Len(n)
        BY <2>2, <2>3, <3>1, <3>4, PrefixOrder DEF FilePaths, Under
      <4> QED BY <2>3, <3>1, <4>1 DEF FilePaths
    <3> QED BY <3>2, <3>3, <3>4
  <2>5. /\ TreeOK(WithFolders(fs, n))
        /\ \A x \in DOMAIN fs : Holds(WithFolders(fs, n), x, fs[x])
    BY <2>3, <2>4, WithFoldersKeeps
  <2> QED BY <2>1, <2>5 DEF Lasts
<1>3. CASE q.op = "delete"
  <2>1. u = Without(fs, p) /\ p \in FilePaths
    BY <1>3, ThroughIs DEF Outcome, RequestOK
  <2> HIDE DEF p
  <2>2. /\ TreeOK(u)
        /\ \A x \in DOMAIN fs : ~Under(p, x) => Holds(u, x, fs[x])
    BY <2>1, WithoutKeeps
  <2> QED BY <1>0, <1>3, <2>2 DEF Lasts
<1>4. CASE q.op \in Putting /\ u # fs
  <2> DEFINE s == safe_path(p)
             i == Inside(p, d)
  <2>1. /\ p \in DOMAIN fs
        /\ \/ q.op = "rename" /\ CanRename(p, d) /\ u = Renamed(p, d)
           \/ q.op \in {"trash", "move"} /\ u = Moved(p, d)
           \/ q.op = "copy" /\ u = CopiedFolder(s, d)
           \/ q.op = "copy" /\ u = CopiedFile(p, d)
    BY <1>4 DEF Outcome, Putting, CanRename, Entry
  <2>2. q.path \in FilePaths
    BY <1>4 DEF RequestOK, Putting
  <2>3. q.path # <<>>
    <3>1. <<>> \notin DOMAIN fs /\ Ancestors(<<>>) = {}
      BY DEF TreeOK, Ancestors
    <3>2. Through(<<>>) = <<>>
      BY <3>1 DEF Through, Turns
    <3> QED BY <2>1, <3>1, <3>2
  <2>4. q.dest \in FilePaths /\ q.dest # <<>>
    BY <1>4, <2>3 DEF RequestOK
  <2>5. p \in FilePaths /\ p # <<>> /\ d \in FilePaths /\ d # <<>>
    BY <2>2, <2>3, <2>4, ThroughIs
  <2>6. ~Strayed(q) => q.op = "rename" \/ (s = p /\ safe_path(d) = d /\ safe_path(i) = i)
    BY <1>0, <1>4 DEF Strayed, Putting
  <2>7. /\ s \in FilePaths /\ i \in FilePaths
        /\ safe_path(d) = d => Under(d, i)
    BY <2>5, InsideIs DEF safe_path, IsLink, TreeOK
  <2> HIDE DEF p, d, s, i
  <2>8. \A x \in DOMAIN fs : x \in FilePaths
    BY DEF TreeOK
  <2>9. ASSUME Under(d, i)
        PROVE  \A x \in DOMAIN fs : Under(i, x) => Under(d, x)
    BY <2>5, <2>7, <2>8, <2>9, UnderOrder
  <2>10. TreeOK(u) /\ (~Strayed(q) => LosesOnlyUnder(u, d))
    <3>1. CASE q.op = "rename" /\ CanRename(p, d) /\ u = Renamed(p, d)
      BY <2>5, <3>1, RenamedKeeps
    <3>2. CASE q.op \in {"trash", "move"} /\ u = Moved(p, d)
      <4>1. TreeOK(u) /\ LosesOnlyUnder(u, i)
        BY <2>1, <2>5, <3>2, MovedKeeps DEF i
      <4> QED BY <2>6, <2>7, <2>9, <3>2, <4>1 DEF LosesOnlyUnder
    <3>3. CASE q.op = "copy" /\ u = CopiedFolder(s, d)
      <4>1. CASE s = <<>>
        <5>1. Under(s, d)
          <6>1. /\ s \in Seq(FileNames) /\ d \in Seq(FileNames)
                /\ Len(s) = 0 /\ Len(d) \in Nat
            BY <2>5, <2>7, <4>1 DEF FilePaths
          <6>2. Len(s) <= Len(d) /\ \A k \in 1 .. Len(s) : s[k] = d[k]
            BY <6>1
          <6> QED BY <6>1, <6>2, PrefixMeans DEF Under
        <5> QED BY <1>4, <3>3, <5>1 DEF CopiedFolder
      <4>2. CASE s # <<>>
        BY <2>5, <2>7, <3>3, <4>2, CopiedFolderKeeps DEF LosesOnlyUnder, Lasts
      <4> QED BY <4>1, <4>2
    <3>4. CASE q.op = "copy" /\ u = CopiedFile(p, d)
      <4>1. TreeOK(u) /\ LosesOnlyUnder(u, safe_path(i))
        BY <2>1, <2>5, <3>4, CopiedFileKeeps DEF i
      <4> QED BY <2>6, <2>7, <2>9, <3>4, <4>1 DEF LosesOnlyUnder
    <3> QED BY <2>1, <3>1, <3>2, <3>3, <3>4
  <2> QED BY <1>0, <1>4, <2>3, <2>10 DEF LosesOnlyUnder
<1>5. q.op = "mkdir" \/ q.op = "delete" \/ q.op \in Putting
  BY DEF RequestOK
<1> QED BY <1>1, <1>2, <1>3, <1>4, <1>5

LEMMA FilesStart == FilesInit => FilesInv
<1> SUFFICES ASSUME NEW t \in Trees, FilesInitAt(t) PROVE FilesInv
  BY DEF FilesInit
<1>1. fs = t /\ request = [r \in FileRequests |-> NoRequest] /\ asked = 0
  BY DEF FilesInitAt
<1>2. TreeOK(t)
  BY HomesAssumption, GivenAreFilePaths DEF TreeOK
<1>3. 0 \in 0..MaxRequests
  BY HomesAssumption
<1>4. \A r \in FileRequests : request[r].phase = "idle"
  BY <1>1 DEF NoRequest
<1> QED BY <1>1, <1>2, <1>3, <1>4 DEF FilesInv

\* A request that takes its place keeps the invariant if the home does.
LEMMA TakeKeeps ==
  ASSUME FilesInv, NEW r \in FileRequests, Begin(r), TreeOK(fs'),
         NEW op, NEW p, NEW d, Take(r, op, p, d), op \in Putting \cup {"mkdir", "delete"},
         op = "mkdir" => d \in FilePaths,
         op # "mkdir" => p \in FilePaths,
         op \in Putting /\ p # <<>> =>
           d \in FilePaths /\ d # <<>> /\ \A x \in FilesOf(fs) : ~Under(d, x)
  PROVE  FilesInv'
<1> DEFINE q == [phase |-> "taken", op |-> op, path |-> p, dest |-> d,
                 seen |-> {<<x, fs[x].id>> : x \in FilesOf(fs)}]
<1>1. request' = [request EXCEPT ![r] = q]
  BY DEF Take
<1>2. /\ q.phase = "taken" /\ q.op = op /\ q.path = p /\ q.dest = d
      /\ \A x \in q.seen : x[1] \in FilesOf(fs)
  OBVIOUS
<1> HIDE DEF q
<1>3. RequestOK(q)
  BY <1>2 DEF RequestOK
<1>4. /\ request' = [k \in FileRequests |-> request'[k]] /\ request'[r] = q
      /\ \A k \in FileRequests \ {r} : request'[k] = request[k]
  BY <1>1 DEF FilesInv
<1>5. asked' \in 0..MaxRequests
  BY HomesAssumption DEF FilesInv, Begin
<1>6. \A k \in FileRequests :
         \/ request'[k].phase = "idle"
         \/ request'[k].phase = "taken" /\ RequestOK(request'[k])
  BY <1>2, <1>3, <1>4 DEF FilesInv
<1> QED BY <1>4, <1>5, <1>6 DEF FilesInv, TreeOK, RequestOK, Ancestors

\* Where safe_path leads is a path, and nothing is below a place it finds free.
LEMMA SafePaths ==
  ASSUME TreeOK(fs)
  PROVE  /\ \A e \in DOMAIN fs : safe_path(e) \in FilePaths
         /\ \A d \in FilePaths : d # <<>> /\ ~Exists(d) =>
              \A x \in FilesOf(fs) : ~Under(d, x)
<1>1. \A e \in DOMAIN fs : safe_path(e) \in FilePaths
  BY DEF TreeOK, safe_path, IsLink
<1>2. ASSUME NEW d \in FilePaths, d # <<>>, ~Exists(d),
             NEW x \in FilesOf(fs), Under(d, x)
      PROVE  FALSE
  <2>1. d \notin DOMAIN fs \/ fs[d].kind = "link"
    BY <1>2 DEF Exists, safe_path, IsLink
  <2>2. d \in DOMAIN fs /\ x = d
    BY <1>2, <2>1, ClearBelow DEF FilesOf
  <2> QED BY <2>1, <2>2 DEF FilesOf
<1> QED BY <1>1, <1>2

LEMMA AskKeeps ==
  ASSUME FilesInv, NEW r \in FileRequests,
         AskMkdir(r) \/ AskRename(r) \/ AskTrash(r) \/ AskPut(r) \/ AskDelete(r)
  PROVE  FilesInv' /\ \A x \in DOMAIN fs : Holds(fs', x, fs[x])
<1>0. /\ TreeOK(fs) /\ IsFiniteSet(DOMAIN fs) /\ <<>> \notin DOMAIN fs
      /\ \A e \in DOMAIN fs : e \in FilePaths /\ safe_path(e) \in FilePaths
  BY SafePaths DEF FilesInv, TreeOK
<1>1. \A d \in FilePaths : d # <<>> /\ d \notin DOMAIN fs =>
         \A x \in FilesOf(fs) : ~Under(d, x)
  BY <1>0, ClearBelow DEF FilesOf
<1>2. ASSUME fs' = fs
      PROVE  TreeOK(fs') /\ \A x \in DOMAIN fs : Holds(fs', x, fs[x])
  BY <1>0, <1>2 DEF Holds
<1>3. CASE AskMkdir(r)
  <2>1. PICK p \in DOMAIN fs \cup {<<>>}, n \in NewNames : Take(r, "mkdir", p, Append(p, n))
    BY <1>3 DEF AskMkdir
  <2>2. p \in FilePaths
    <3>1. <<>> \in FilePaths
      BY DEF FilePaths
    <3> QED BY <1>0, <3>1
  <2>3. Append(p, n) \in FilePaths
    BY <2>2, Joined, GivenAreFilePaths
  <2>4. Begin(r) /\ fs' = fs
    BY <1>3 DEF AskMkdir
  <2>5. FilesInv'
    BY <1>2, <2>1, <2>3, <2>4, TakeKeeps DEF Putting
  <2> QED BY <1>2, <2>4, <2>5
<1>4. CASE AskRename(r)
  <2>1. PICK e \in DOMAIN fs, n \in NewNames :
          LET p == safe_path(e)
              target == Append(Parent(p), n)
          IN ~Exists(target) /\ Take(r, "rename", p, target)
    BY <1>4 DEF AskRename
  <2> DEFINE p == safe_path(e)
             d == Append(Parent(p), n)
  <2>2. p \in FilePaths /\ ~Exists(d) /\ Take(r, "rename", p, d)
    BY <1>0, <2>1
  <2>3. ASSUME p # <<>>
        PROVE  d \in FilePaths /\ d # <<>> /\ \A x \in FilesOf(fs) : ~Under(d, x)
    <3>1. d \in FilePaths /\ d # <<>>
      BY <2>2, <2>3, PathParts, Joined, GivenAreFilePaths
    <3> QED BY <1>0, <2>2, <3>1, SafePaths
  <2>4. Begin(r) /\ fs' = fs
    BY <1>4 DEF AskRename
  <2> HIDE DEF p, d
  <2>5. FilesInv'
    BY <1>2, <2>2, <2>3, <2>4, TakeKeeps DEF Putting
  <2> QED BY <1>2, <2>4, <2>5
<1>5. CASE AskTrash(r)
  <2>1. PICK e \in DOMAIN fs :
          Take(r, "trash", safe_path(e), unique_path(Append(TrashDir, Last(safe_path(e)))))
    BY <1>5 DEF AskTrash
  <2> DEFINE p == safe_path(e)
             d == unique_path(Append(TrashDir, Last(p)))
             t == Append(TrashDir, <<>>)
  <2>2. p \in FilePaths /\ Take(r, "trash", p, d)
    BY <1>0, <2>1
  <2>3. TrashDir \in FilePaths
    BY HomesAssumption, GivenAreFilePaths
  <2>4. ASSUME p # <<>>
        PROVE  d \in FilePaths /\ d # <<>> /\ \A x \in FilesOf(fs) : ~Under(d, x)
    <3>1. Append(TrashDir, Last(p)) \in FilePaths /\ Append(TrashDir, Last(p)) # <<>>
      BY <2>2, <2>3, <2>4, PathParts, Joined
    <3>2. d \in FilePaths /\ d # <<>> /\ d \notin DOMAIN fs
      BY <1>0, <3>1, FreeName
    <3> QED BY <1>1, <3>2
  <2>5. Begin(r) /\ Leads(t) /\ fs' = WithFolders(fs, t)
    BY <1>5 DEF AskTrash
  <2>6. t \in FilePaths
    <3>1. <<>> \in FileNames
      BY DEF FileNames
    <3> QED BY <2>3, <3>1, Joined
  <2> HIDE DEF p, d, t
  <2>7. \A a \in Ancestors(t) : a \in DOMAIN fs => fs[a].kind = "dir"
    BY <1>0, <2>5 DEF Leads, IsFolder
  <2>8. TreeOK(fs') /\ \A x \in DOMAIN fs : Holds(fs', x, fs[x])
    BY <1>0, <2>5, <2>6, <2>7, WithFoldersKeeps
  <2>9. FilesInv'
    BY <2>2, <2>4, <2>5, <2>8, TakeKeeps DEF Putting
  <2> QED BY <2>8, <2>9
<1>6. CASE AskPut(r)
  <2>1. PICK op \in {"copy", "move"}, e \in DOMAIN fs, f \in DOMAIN fs \cup {<<>>} :
          Take(r, op, safe_path(e), unique_path(Append(safe_path(f), Last(safe_path(e)))))
    BY <1>6 DEF AskPut
  <2> DEFINE p == safe_path(e)
             dir == safe_path(f)
             d == unique_path(Append(dir, Last(p)))
  <2>2. p \in FilePaths /\ Take(r, op, p, d)
    BY <1>0, <2>1
  <2>3. dir \in FilePaths
    <3>1. safe_path(<<>>) = <<>> /\ <<>> \in FilePaths
      BY <1>0 DEF safe_path, IsLink, FilePaths
    <3> QED BY <1>0, <3>1
  <2> HIDE DEF dir
  <2>4. ASSUME p # <<>>
        PROVE  d \in FilePaths /\ d # <<>> /\ \A x \in FilesOf(fs) : ~Under(d, x)
    <3>1. Append(dir, Last(p)) \in FilePaths /\ Append(dir, Last(p)) # <<>>
      BY <2>2, <2>3, <2>4, PathParts, Joined
    <3>2. d \in FilePaths /\ d # <<>> /\ d \notin DOMAIN fs
      BY <1>0, <3>1, FreeName
    <3> QED BY <1>1, <3>2
  <2>5. Begin(r) /\ fs' = fs
    BY <1>6 DEF AskPut
  <2> HIDE DEF p, d
  <2>6. FilesInv'
    BY <1>2, <2>2, <2>4, <2>5, TakeKeeps DEF Putting
  <2> QED BY <1>2, <2>5, <2>6
<1>7. CASE AskDelete(r)
  <2>1. PICK e \in DOMAIN fs : Take(r, "delete", safe_path(e), <<>>)
    BY <1>7 DEF AskDelete
  <2>2. Begin(r) /\ fs' = fs
    BY <1>7 DEF AskDelete
  <2>3. FilesInv'
    BY <1>0, <1>2, <2>1, <2>2, TakeKeeps DEF Putting
  <2> QED BY <1>2, <2>2, <2>3
<1> QED BY <1>3, <1>4, <1>5, <1>6, <1>7

LEMMA ActKeeps ==
  ASSUME FilesInv, NEW r \in FileRequests, Act(r)
  PROVE  /\ FilesInv'
         /\ request[r].phase = "taken" /\ request'[r] = NoRequest
         /\ LET q == request[r]
            IN ~Strayed(q) =>
                 \A x \in DOMAIN fs :
                   \/ Lasts(fs', x)
                   \/ q.op = "delete" /\ Under(q.path, x)
                   \/ /\ q.op \in Putting /\ Under(q.dest, x)
                      /\ \A s \in q.seen : ~Under(q.dest, s[1])
<1> DEFINE q == request[r]
<1>1. /\ q.phase = "taken" /\ fs' = Outcome(q) /\ asked' = asked
      /\ request' = [request EXCEPT ![r] = NoRequest]
  BY DEF Act
<1>2. TreeOK(fs) /\ RequestOK(q)
  BY <1>1 DEF FilesInv
<1>3. /\ request' = [k \in FileRequests |-> request'[k]] /\ request'[r] = NoRequest
      /\ \A k \in FileRequests \ {r} : request'[k] = request[k]
  BY <1>1 DEF FilesInv
<1> HIDE DEF q
<1>4. /\ TreeOK(fs')
      /\ ~Strayed(q) =>
           \A x \in DOMAIN fs :
             \/ Lasts(fs', x)
             \/ q.op = "delete" /\ Under(q.path, x)
             \/ q.op \in Putting /\ q.path # <<>> /\ Under(q.dest, x)
  BY <1>1, <1>2, OutcomeKeeps
<1>5. \A k \in FileRequests :
         \/ request'[k].phase = "idle"
         \/ request'[k].phase = "taken" /\ RequestOK(request'[k])
  BY <1>3 DEF FilesInv, NoRequest
<1>6. FilesInv'
  BY <1>1, <1>3, <1>4, <1>5 DEF FilesInv, TreeOK, RequestOK, Ancestors
<1>7. q.op \in Putting /\ q.path # <<>> => \A s \in q.seen : ~Under(q.dest, s[1])
  BY <1>2 DEF RequestOK
<1>8. ~Strayed(q) =>
        \A x \in DOMAIN fs :
          \/ Lasts(fs', x)
          \/ q.op = "delete" /\ Under(q.path, x)
          \/ /\ q.op \in Putting /\ Under(q.dest, x)
             /\ \A s \in q.seen : ~Under(q.dest, s[1])
  BY <1>4, <1>7
<1> QED BY <1>1, <1>3, <1>6, <1>8 DEF q

LEMMA FilesKeep == FilesInv /\ [FilesNext]_fileVars => FilesInv'
<1> SUFFICES ASSUME FilesInv, [FilesNext]_fileVars PROVE FilesInv'
  OBVIOUS
<1>1. CASE FilesNext
  BY <1>1, AskKeeps, ActKeeps DEF FilesNext
<1>2. CASE UNCHANGED fileVars
  BY <1>2 DEF fileVars, FilesInv, TreeOK, RequestOK, Ancestors
<1> QED BY <1>1, <1>2

LEMMA FilesInvariant == FilesSpec => []FilesInv
BY FilesStart, FilesKeep, PTL DEF FilesSpec

\* A content that all places of are lost was deleted, came late, or was written
\* over through a link.
LEMMA StepLosesNothing ==
  ASSUME FilesInv, [FilesNext]_fileVars, NEW c \in Contents(fs) \ Contents(fs')
  PROVE  \E r \in FileRequests :
            /\ request[r].phase = "taken" /\ request'[r] = NoRequest
            /\ \/ Deletes(request[r], c) \/ CameLate(request[r], c)
               \/ Strayed(request[r])
<1>0. PICK p \in FilesOf(fs) : fs[p].id = c
  BY DEF Contents
<1>1. \A x \in PlacesOf(c) : x \in DOMAIN fs /\ fs[x].kind = "file" /\ fs[x].id = c
  BY DEF PlacesOf, FilesOf
<1>2. p \in PlacesOf(c)
  BY <1>0 DEF PlacesOf
<1>3. ASSUME NEW x \in PlacesOf(c), Lasts(fs', x)
      PROVE  FALSE
  <2>1. PICK y : y \in DOMAIN fs' /\ fs'[y] = fs[x]
    BY <1>3 DEF Lasts, Holds
  <2>2. y \in FilesOf(fs') /\ fs'[y].id = c
    BY <1>1, <2>1 DEF FilesOf
  <2> QED BY <2>2 DEF Contents
<1>4. CASE UNCHANGED fileVars
  BY <1>4 DEF fileVars
<1>5. CASE \E r \in FileRequests :
             AskMkdir(r) \/ AskRename(r) \/ AskTrash(r) \/ AskPut(r) \/ AskDelete(r)
  <2>1. Holds(fs', p, fs[p])
    BY <1>1, <1>2, <1>5, AskKeeps
  <2> QED BY <1>2, <1>3, <2>1 DEF Lasts
<1>6. ASSUME NEW r \in FileRequests, Act(r)
      PROVE  \E k \in FileRequests :
                /\ request[k].phase = "taken" /\ request'[k] = NoRequest
                /\ \/ Deletes(request[k], c) \/ CameLate(request[k], c)
                   \/ Strayed(request[k])
  <2> DEFINE q == request[r]
  <2>1. /\ q.phase = "taken" /\ request'[r] = NoRequest
        /\ ~Strayed(q) =>
             \A x \in DOMAIN fs :
               \/ Lasts(fs', x)
               \/ q.op = "delete" /\ Under(q.path, x)
               \/ /\ q.op \in Putting /\ Under(q.dest, x)
                  /\ \A s \in q.seen : ~Under(q.dest, s[1])
    BY <1>6, ActKeeps
  <2> HIDE DEF q
  <2>2. ASSUME ~Strayed(q), NEW x \in PlacesOf(c)
        PROVE  \/ q.op = "delete" /\ Under(q.path, x)
               \/ /\ q.op \in Putting /\ Under(q.dest, x)
                  /\ \A s \in q.seen : ~Under(q.dest, s[1])
    BY <1>1, <1>3, <2>1, <2>2
  <2>3. ASSUME ~Strayed(q)
        PROVE  Deletes(q, c) \/ CameLate(q, c)
    <3>1. CASE q.op = "delete"
      BY <2>2, <2>3, <3>1 DEF Deletes, Putting
    <3>2. CASE q.op # "delete"
      <4> SUFFICES ASSUME NEW x \in PlacesOf(c), <<x, c>> \in q.seen PROVE FALSE
        BY DEF CameLate
      <4>1. Under(q.dest, x) /\ \A s \in q.seen : ~Under(q.dest, s[1])
        BY <2>2, <2>3, <3>2
      <4>2. ~Under(q.dest, <<x, c>>[1])
        BY <4>1
      <4> QED BY <4>1, <4>2
    <3> QED BY <3>1, <3>2
  <2> QED BY <2>1, <2>3 DEF q
<1> QED BY <1>4, <1>5, <1>6 DEF FilesNext

\* Whatever is copied, moved, renamed or trashed, by any requests in any order,
\* a file is lost only by a delete, by a request that had found its place free
\* before the file came there, or through a link that came in a request's way.
THEOREM FilesKeepContents == FilesSpec => KeepsContents
<1>1. FilesInv /\ [FilesNext]_fileVars =>
        [\A c \in Contents(fs) \ Contents(fs') :
           \E r \in FileRequests :
              /\ request[r].phase = "taken" /\ request'[r] = NoRequest
              /\ \/ Deletes(request[r], c) \/ CameLate(request[r], c)
                 \/ Strayed(request[r])]_fileVars
  BY StepLosesNothing
<1> QED BY <1>1, FilesInvariant, PTL DEF FilesSpec, KeepsContents

-----------------------------------------------------------------------------
(* Types: launches.  A window, and what waits to become one, is of a       *)
(* request; a window dies with its host only.                              *)

LaunchPhases == {"idle", "asked", "focused", "probe", "poll", "send", "alone", "done"}
LaunchApps == {"files", NoHost}
YesNo == BOOLEAN
LaunchRecords ==
  [phase : LaunchPhases, app : LaunchApps, query : YesNo, tries : Int, ok : YesNo]
LaunchTypes ==
  /\ LaunchPart!LaunchTypeOK
  /\ inbox \in [Hosts \cup {NoHost} -> SUBSET Launches]
  /\ launch \in [Launches -> LaunchRecords]

LEMMA NoLaunchType == LaunchPart!NoLaunch \in LaunchRecords
BY DEF LaunchPart!NoLaunch, LaunchRecords, LaunchPhases, LaunchApps, YesNo

LEMMA LaunchStarts == LaunchPart!LaunchInit => LaunchTypes
<1> SUFFICES ASSUME NEW h \in Hosts \cup {NoHost}, LaunchPart!LaunchInitAt(h)
             PROVE  LaunchTypes
  BY DEF LaunchPart!LaunchInit
<1>1. host \in [Hosts -> {"off", "starting", "listening", "dead"}] /\ owner \in Hosts \cup {NoHost}
  BY DEF LaunchPart!LaunchInitAt
<1>2. launch \in [Launches -> LaunchRecords]
  BY NoLaunchType DEF LaunchPart!LaunchInitAt
<1>3. inbox \in [Hosts \cup {NoHost} -> SUBSET Launches]
  BY DEF LaunchPart!LaunchInitAt
<1>4. \A r \in Launches : launch[r].phase \in LaunchPhases
  BY <1>2 DEF LaunchRecords
<1> QED BY <1>1, <1>2, <1>3, <1>4
        DEF LaunchPart!LaunchInitAt, LaunchTypes, LaunchPart!LaunchTypeOK, LaunchPhases

\* What becomes of the record of a request.
AtPhase(l, p) == [l EXCEPT !.phase = p]
Replied_(l, p, b) == [l EXCEPT !.phase = p, !.ok = b]
Begun(l, n) == [l EXCEPT !.phase = "poll", !.tries = n]
Retried(l) == [l EXCEPT !.tries = @ - 1]
Asked_(l, a, q) == [l EXCEPT !.phase = "asked", !.app = a, !.query = q]

LEMMA LaunchRecord ==
  ASSUME NEW l \in LaunchRecords
  PROVE  /\ \A p \in LaunchPhases : AtPhase(l, p) \in LaunchRecords
         /\ \A p \in LaunchPhases, b \in YesNo : Replied_(l, p, b) \in LaunchRecords
         /\ \A n \in Int : Begun(l, n) \in LaunchRecords
         /\ Retried(l) \in LaunchRecords
         /\ \A a \in LaunchApps, q \in YesNo : Asked_(l, a, q) \in LaunchRecords
<1>1. ASSUME NEW p \in LaunchPhases PROVE AtPhase(l, p) \in LaunchRecords
  BY DEF LaunchRecords, AtPhase
<1>2. ASSUME NEW p \in LaunchPhases, NEW b \in YesNo PROVE Replied_(l, p, b) \in LaunchRecords
  BY DEF LaunchRecords, Replied_
<1>3. ASSUME NEW n \in Int PROVE Begun(l, n) \in LaunchRecords
  <2>1. "poll" \in LaunchPhases
    BY DEF LaunchPhases
  <2> QED BY <2>1 DEF LaunchRecords, Begun
<1>4. Retried(l) \in LaunchRecords
  <2>1. l.tries - 1 \in Int
    BY DEF LaunchRecords
  <2> QED BY <2>1 DEF LaunchRecords, Retried
<1>5. ASSUME NEW a \in LaunchApps, NEW q \in YesNo PROVE Asked_(l, a, q) \in LaunchRecords
  <2>1. "asked" \in LaunchPhases
    BY DEF LaunchPhases
  <2> QED BY <2>1 DEF LaunchRecords, Asked_
<1> QED BY <1>1, <1>2, <1>3, <1>4, <1>5

LEMMA LaunchGoes ==
  ASSUME launch \in [Launches -> LaunchRecords], NEW r \in Launches
  PROVE  /\ \A p \in LaunchPhases : LaunchPart!Go(r, p) => launch' \in [Launches -> LaunchRecords]
         /\ \A b \in YesNo : LaunchPart!Answer(r, b) => launch' \in [Launches -> LaunchRecords]
<1>1. launch[r] \in LaunchRecords /\ "done" \in LaunchPhases
  BY DEF LaunchPhases
<1>2. ASSUME NEW p \in LaunchPhases, LaunchPart!Go(r, p)
      PROVE  launch' \in [Launches -> LaunchRecords]
  <2>1. launch' = [launch EXCEPT ![r] = AtPhase(launch[r], p)]
    BY <1>2 DEF LaunchPart!Go, AtPhase
  <2>2. AtPhase(launch[r], p) \in LaunchRecords
    BY <1>1, LaunchRecord
  <2> QED BY <2>1, <2>2
<1>3. ASSUME NEW b \in YesNo, LaunchPart!Answer(r, b)
      PROVE  launch' \in [Launches -> LaunchRecords]
  <2>1. launch' = [launch EXCEPT ![r] = Replied_(launch[r], "done", b)]
    BY <1>3 DEF LaunchPart!Answer, Replied_
  <2>2. Replied_(launch[r], "done", b) \in LaunchRecords
    BY <1>1, LaunchRecord
  <2> QED BY <2>1, <2>2
<1> QED BY <1>2, <1>3

\* A step keeps the types that leaves the records, the inboxes and the hosts
\* well-formed, and counts no further than the bounds.
LEMMA LaunchRest ==
  ASSUME LaunchTypes, launch' \in [Launches -> LaunchRecords],
         inbox' \in [Hosts \cup {NoHost} -> SUBSET Launches],
         host' \in [Hosts -> {"off", "starting", "listening", "dead"}],
         owner' \in Hosts \cup {NoHost}, window' \subseteq Launches \X (Hosts \cup {NoHost}),
         opened' \subseteq Launches,
         deaths' = deaths \/ (deaths < 1 /\ deaths' = deaths + 1),
         slow' = slow \/ (slow < 1 /\ slow' = slow + 1)
  PROVE  LaunchTypes'
<1>1. deaths' \in 0 .. 1 /\ slow' \in 0 .. 1
  BY DEF LaunchTypes, LaunchPart!LaunchTypeOK
<1>2. \A r \in Launches : launch'[r].phase \in LaunchPhases
  BY DEF LaunchRecords
<1> QED BY <1>1, <1>2 DEF LaunchTypes, LaunchPart!LaunchTypeOK, LaunchPhases

LEMMA LaunchThreadKeeps ==
  ASSUME LaunchTypes, NEW r \in Launches, LaunchPart!AskLaunch(r) \/ LaunchPart!LaunchThread(r)
  PROVE  LaunchTypes'
<1> DEFINE Boxes == [Hosts \cup {NoHost} -> SUBSET Launches]
           States == [Hosts -> {"off", "starting", "listening", "dead"}]
           Records == [Launches -> LaunchRecords]
<1>0. /\ launch \in Records /\ inbox \in Boxes /\ host \in States
      /\ owner \in Hosts \cup {NoHost} /\ window \subseteq Launches \X (Hosts \cup {NoHost})
      /\ opened \subseteq Launches
  BY DEF LaunchTypes, LaunchPart!LaunchTypeOK
<1>1. /\ \A p \in {"send", "alone", "probe"} : LaunchPart!Go(r, p) => launch' \in Records
      /\ \A b \in BOOLEAN : LaunchPart!Answer(r, b) => launch' \in Records
  BY <1>0, LaunchGoes DEF LaunchPhases, YesNo
<1>2. \A x \in LaunchRecords : launch' = [launch EXCEPT ![r] = x] => launch' \in Records
  BY <1>0
<1>3. /\ Begun(launch[r], 1) \in LaunchRecords /\ Retried(launch[r]) \in LaunchRecords
      /\ Replied_(launch[r], "focused", TRUE) \in LaunchRecords
  <2>1. launch[r] \in LaunchRecords /\ "focused" \in LaunchPhases /\ TRUE \in YesNo
    BY <1>0 DEF LaunchPhases, YesNo
  <2>2. Begun(launch[r], 1) \in LaunchRecords
    BY <2>1, LaunchRecord
  <2>3. Retried(launch[r]) \in LaunchRecords
    BY <2>1, LaunchRecord
  <2>4. Replied_(launch[r], "focused", TRUE) \in LaunchRecords
    BY <2>1, LaunchRecord
  <2> QED BY <2>2, <2>3, <2>4
<1>4. CASE LaunchPart!AskLaunch(r)
  <2>1. PICK a \in LaunchApps, q \in YesNo :
          launch' = [launch EXCEPT ![r] = Asked_(LaunchPart!NoLaunch, a, q)]
    BY <1>4, Zenon DEF LaunchPart!AskLaunch, Asked_, LaunchApps, YesNo
  <2>2. launch' \in Records
    BY <1>0, <1>2, <2>1, NoLaunchType, LaunchRecord
  <2>3. UNCHANGED <<host, owner, inbox, window, opened, deaths, slow>>
    BY <1>4, Zenon DEF LaunchPart!AskLaunch, LaunchPart!hostVars
  <2> QED BY <1>0, <2>2, <2>3, LaunchRest
<1>5. CASE LaunchPart!LookForWindow(r)
  <2>1. \/ launch' = [launch EXCEPT ![r] = Replied_(launch[r], "focused", TRUE)]
        \/ LaunchPart!Go(r, "probe")
    BY <1>5 DEF LaunchPart!LookForWindow, Replied_
  <2>2. launch' \in Records
    BY <1>1, <1>2, <1>3, <2>1
  <2> QED BY <1>0, <1>5, <2>2, LaunchRest DEF LaunchPart!LookForWindow, LaunchPart!hostVars
<1>6. CASE LaunchPart!Probe(r)
  <2>1. LaunchPart!Go(r, "send") \/ launch' = [launch EXCEPT ![r] = Begun(launch[r], 1)]
    BY <1>6 DEF LaunchPart!Probe, LaunchPart!Reach, Begun
  <2>2. launch' \in Records
    BY <1>1, <1>2, <1>3, <2>1
  <2>3. host' \in States
    BY <1>0, <1>6 DEF LaunchPart!Probe, LaunchPart!Reach, LaunchPart!StartSome, LaunchPart!StartHost
  <2>4. slow' = slow \/ (slow < 1 /\ slow' = slow + 1)
    BY <1>6 DEF LaunchPart!Probe, LaunchPart!Reach
  <2> QED BY <1>0, <1>6, <2>2, <2>3, <2>4, LaunchRest DEF LaunchPart!Probe
<1>7. CASE LaunchPart!Poll(r)
  <2>1. \/ LaunchPart!Go(r, "send") \/ LaunchPart!Go(r, "alone")
        \/ launch' = [launch EXCEPT ![r] = Retried(launch[r])]
    BY <1>7 DEF LaunchPart!Poll, LaunchPart!Reach, Retried
  <2>2. launch' \in Records
    BY <1>1, <1>2, <1>3, <2>1
  <2>3. slow' = slow \/ (slow < 1 /\ slow' = slow + 1)
    BY <1>7 DEF LaunchPart!Poll, LaunchPart!Reach
  <2> QED BY <1>0, <1>7, <2>2, <2>3, LaunchRest DEF LaunchPart!Poll, LaunchPart!hostVars
<1>8. CASE LaunchPart!Send(r)
  <2>1. launch' \in Records
    BY <1>1, <1>8 DEF LaunchPart!Send, LaunchPart!Reach, LaunchPart!Unsent
  <2>2. inbox' = inbox \/ inbox' = [inbox EXCEPT ![owner] = @ \cup {r}]
    BY <1>8 DEF LaunchPart!Send, LaunchPart!Reach
  <2>3. inbox' \in Boxes
    BY <1>0, <2>2
  <2>4. slow' = slow \/ (slow < 1 /\ slow' = slow + 1)
    BY <1>8 DEF LaunchPart!Send, LaunchPart!Reach
  <2> QED BY <1>0, <1>8, <2>1, <2>3, <2>4, LaunchRest DEF LaunchPart!Send
<1>9. CASE LaunchPart!SpawnAlone(r)
  <2>1. launch' \in Records
    BY <1>1, <1>9 DEF LaunchPart!SpawnAlone
  <2>2. inbox' = inbox \/ inbox' = [inbox EXCEPT ![NoHost] = @ \cup {r}]
    BY <1>9 DEF LaunchPart!SpawnAlone
  <2>3. inbox' \in Boxes
    BY <1>0, <2>2
  <2> QED BY <1>0, <1>9, <2>1, <2>3, LaunchRest DEF LaunchPart!SpawnAlone
<1> QED BY <1>4, <1>5, <1>6, <1>7, <1>8, <1>9 DEF LaunchPart!LaunchThread

LEMMA LaunchKeeps ==
  ASSUME LaunchTypes, LaunchPart!LaunchNext \/ UNCHANGED launchVars
  PROVE  LaunchTypes'
<1> DEFINE Boxes == [Hosts \cup {NoHost} -> SUBSET Launches]
           States == [Hosts -> {"off", "starting", "listening", "dead"}]
<1>0. /\ launch \in [Launches -> LaunchRecords] /\ inbox \in Boxes /\ host \in States
      /\ owner \in Hosts \cup {NoHost} /\ window \subseteq Launches \X (Hosts \cup {NoHost})
      /\ opened \subseteq Launches
  BY DEF LaunchTypes, LaunchPart!LaunchTypeOK
<1>1. ASSUME NEW r \in Launches, LaunchPart!AskLaunch(r) \/ LaunchPart!LaunchThread(r)
      PROVE  LaunchTypes'
  BY <1>1, LaunchThreadKeeps
<1>2. ASSUME NEW r \in Launches, LaunchPart!AloneDies(r)
      PROVE  LaunchTypes'
  <2>1. inbox' \in Boxes /\ opened' \subseteq Launches
    BY <1>0, <1>2 DEF LaunchPart!AloneDies
  <2> QED BY <1>0, <1>2, <2>1, LaunchRest DEF LaunchPart!AloneDies
<1>3. ASSUME NEW h \in Hosts, LaunchPart!Binds(h)
      PROVE  LaunchTypes'
  <2>1. host' \in States /\ owner' \in Hosts \cup {NoHost}
    BY <1>0, <1>3 DEF LaunchPart!Binds
  <2> QED BY <1>0, <1>3, <2>1, LaunchRest DEF LaunchPart!Binds
<1>4. ASSUME NEW h \in Hosts, LaunchPart!HostDies(h)
      PROVE  LaunchTypes'
  <2>1. /\ host' \in States /\ inbox' \in Boxes /\ opened' \subseteq Launches
        /\ window' \subseteq Launches \X (Hosts \cup {NoHost})
    BY <1>0, <1>4 DEF LaunchPart!HostDies
  <2> QED BY <1>0, <1>4, <2>1, LaunchRest DEF LaunchPart!HostDies
<1>5. ASSUME NEW h \in Hosts \cup {NoHost}, LaunchPart!Opens(h)
      PROVE  LaunchTypes'
  <2>1. PICK r \in inbox[h] : /\ inbox' = [inbox EXCEPT ![h] = @ \ {r}]
                              /\ window' = window \cup {<<r, h>>} /\ opened' = opened \cup {r}
    BY <1>5 DEF LaunchPart!Opens
  <2>2. r \in Launches
    BY <1>0
  <2>3. /\ inbox' \in Boxes /\ opened' \subseteq Launches
        /\ window' \subseteq Launches \X (Hosts \cup {NoHost})
    BY <1>0, <2>1, <2>2
  <2> QED BY <1>0, <1>5, <2>3, LaunchRest DEF LaunchPart!Opens
<1>6. CASE LaunchPart!ShellReturns
  <2>1. host' \in States
    BY <1>0, <1>6 DEF LaunchPart!ShellReturns, LaunchPart!StartHost
  <2> QED BY <1>0, <1>6, <2>1, LaunchRest DEF LaunchPart!ShellReturns
<1>7. CASE UNCHANGED launchVars
  BY <1>0, <1>7, LaunchRest DEF launchVars
<1> QED BY <1>1, <1>2, <1>3, <1>4, <1>5, <1>6, <1>7 DEF LaunchPart!LaunchNext

-----------------------------------------------------------------------------
(* Types: the taskbar.  Every list is of windows that were there, and the  *)
(* stream holds no more events than there were changes.                    *)

AskerPhases == {"idle", "calling", "replied", "answered"}
ListAges == {0, 1}
Lists == SUBSET {"w"}
AskerRecords == [phase : AskerPhases, age : ListAges, list : Lists]
TaskbarTypes ==
  /\ TaskbarPart!TaskbarTypeOK
  /\ stream \in [up : BOOLEAN, events : 0 .. changes]
  /\ viewCache \in [age : {0, 1}, list : SUBSET {"w"}]
  /\ asker \in [Askers -> AskerRecords]

\* What becomes of a request: it has its list, or has stored it.
Listed_(x, l) == [x EXCEPT !.phase = "replied", !.list = l]
Stored_(x) == [x EXCEPT !.phase = "answered", !.age = 0]

LEMMA AskerRecord ==
  ASSUME NEW x \in AskerRecords
  PROVE  /\ x.age \in {0, 1} /\ x.list \subseteq {"w"}
         /\ \A l \in Lists : Listed_(x, l) \in AskerRecords
         /\ Stored_(x) \in AskerRecords
<1>1. {"replied", "answered"} \subseteq AskerPhases /\ 0 \in ListAges
  BY DEF AskerPhases, ListAges
<1>2. ASSUME NEW l \in Lists PROVE Listed_(x, l) \in AskerRecords
  BY <1>1 DEF AskerRecords, Listed_
<1>3. Stored_(x) \in AskerRecords
  BY <1>1 DEF AskerRecords, Stored_
<1>4. x.age \in ListAges /\ x.list \in Lists
  BY DEF AskerRecords
<1> QED BY <1>2, <1>3, <1>4 DEF ListAges, Lists

\* A step of a request writes its record, or none.
LEMMA TaskbarRest ==
  ASSUME TaskbarTypes, views' \subseteq {"w"}, taskbar' \subseteq {"w"}, told' \in BOOLEAN,
         changes' = changes \/ (changes < 2 /\ changes' = changes + 1),
         breaks' = breaks \/ (breaks < 1 /\ breaks' = breaks + 1),
         stream' \in [up : BOOLEAN, events : 0 .. changes'],
         viewCache' \in [age : {0, 1}, list : SUBSET {"w"}],
         asker' \in [Askers -> AskerRecords], ipcLock' \in Askers \cup {NoAsker}
  PROVE  TaskbarTypes'
<1>1. changes' \in 0 .. 2 /\ breaks' \in 0 .. 1
  BY DEF TaskbarTypes, TaskbarPart!TaskbarTypeOK
<1>2. stream'.up \in BOOLEAN /\ stream'.events \in 0 .. 2
  BY <1>1
<1>3. viewCache'.age \in 0 .. 1 /\ viewCache'.list \subseteq {"w"}
  OBVIOUS
<1> QED BY <1>1, <1>2, <1>3 DEF TaskbarTypes, TaskbarPart!TaskbarTypeOK

LEMMA TaskbarStarts == TaskbarPart!TaskbarInit => TaskbarTypes
<1> SUFFICES ASSUME NEW v \in SUBSET {"w"}, TaskbarPart!TaskbarInitAt(v)
             PROVE  TaskbarTypes
  BY DEF TaskbarPart!TaskbarInit
<1>1. stream \in [up : BOOLEAN, events : 0 .. changes] /\ stream.up \in BOOLEAN /\ stream.events = 0
  BY DEF TaskbarPart!TaskbarInitAt
<1>2. viewCache = [age |-> 1, list |-> {}]
  BY DEF TaskbarPart!TaskbarInitAt, TaskbarPart!Empty_
<1>3. asker \in [Askers -> AskerRecords]
  BY DEF TaskbarPart!TaskbarInitAt, TaskbarPart!Idle, AskerRecords, AskerPhases, ListAges, Lists
<1>4. TaskbarPart!TaskbarTypeOK
  <2>1. viewCache.age = 1 /\ viewCache.list = {}
    BY <1>2
  <2>2. views \subseteq {"w"} /\ taskbar \subseteq {"w"} /\ told \in BOOLEAN
    BY DEF TaskbarPart!TaskbarInitAt
  <2>3. ipcLock \in Askers \cup {NoAsker} /\ changes \in 0 .. 2 /\ breaks \in 0 .. 1
    BY DEF TaskbarPart!TaskbarInitAt
  <2>4. /\ viewCache.age \in 0 .. 1 /\ viewCache.list \subseteq {"w"}
        /\ stream.up \in BOOLEAN /\ stream.events \in 0 .. 2
    BY <1>1, <2>1
  <2> QED BY <2>2, <2>3, <2>4 DEF TaskbarPart!TaskbarTypeOK
<1>5. viewCache \in [age : {0, 1}, list : SUBSET {"w"}]
  BY <1>2
<1> QED BY <1>1, <1>3, <1>4, <1>5 DEF TaskbarTypes

LEMMA TaskbarKeeps ==
  ASSUME TaskbarTypes, TaskbarPart!TaskbarNext \/ UNCHANGED taskVars
  PROVE  TaskbarTypes'
<1> DEFINE Streams == [up : BOOLEAN, events : 0 .. changes]
           Caches == [age : {0, 1}, list : SUBSET {"w"}]
           Requests_ == [Askers -> AskerRecords]
<1>0. /\ views \subseteq {"w"} /\ taskbar \subseteq {"w"} /\ told \in BOOLEAN
      /\ stream \in Streams /\ viewCache \in Caches /\ asker \in Requests_
      /\ ipcLock \in Askers \cup {NoAsker} /\ changes \in 0 .. 2
  BY DEF TaskbarTypes, TaskbarPart!TaskbarTypeOK
<1>1. CASE TaskbarPart!Change
  <2>1. views' \subseteq {"w"}
    BY <1>0, <1>1 DEF TaskbarPart!Change
  <2>2. stream' \in [up : BOOLEAN, events : 0 .. changes']
    BY <1>0, <1>1 DEF TaskbarPart!Change
  <2> QED BY <1>0, <1>1, <2>1, <2>2, TaskbarRest DEF TaskbarPart!Change
<1>2. CASE TaskbarPart!Connect
  <2>1. stream' \in Streams
    BY <1>0, <1>2 DEF TaskbarPart!Connect
  <2> QED BY <1>0, <1>2, <2>1, TaskbarRest DEF TaskbarPart!Connect
<1>3. CASE TaskbarPart!TakeEvent
  <2>1. stream' \in Streams
    BY <1>0, <1>3 DEF TaskbarPart!TakeEvent
  <2>2. viewCache' \in Caches
    BY <1>3 DEF TaskbarPart!TakeEvent, TaskbarPart!Cleared, TaskbarPart!Empty_
  <2> QED BY <1>0, <1>3, <2>1, <2>2, TaskbarRest DEF TaskbarPart!TakeEvent
<1>4. CASE TaskbarPart!Break
  <2>1. stream' \in Streams
    BY <1>0, <1>4 DEF TaskbarPart!Break
  <2> QED BY <1>0, <1>4, <2>1, TaskbarRest DEF TaskbarPart!Break
<1>5. CASE TaskbarPart!Ages
  <2>1. \A n \in {0, 1} : TaskbarPart!Older(n) \in {0, 1}
    BY DEF TaskbarPart!Older
  <2>2. viewCache' \in Caches
    BY <1>0, <1>5, <2>1 DEF TaskbarPart!Ages
  <2>3. \A a \in Askers : [asker[a] EXCEPT !.age = TaskbarPart!Older(@)] \in AskerRecords
    BY <1>0, <2>1 DEF AskerRecords, ListAges
  <2>4. asker' \in Requests_
    BY <1>0, <1>5, <2>3 DEF TaskbarPart!Ages
  <2> QED BY <1>0, <1>5, <2>2, <2>4, TaskbarRest DEF TaskbarPart!Ages
<1>6. ASSUME NEW a \in Askers, TaskbarPart!Ask(a)
      PROVE  TaskbarTypes'
  <2>1. /\ [phase |-> "answered", age |-> 0, list |-> viewCache.list] \in AskerRecords
        /\ [TaskbarPart!Idle EXCEPT !.phase = "calling"] \in AskerRecords
    BY <1>0 DEF AskerRecords, AskerPhases, ListAges, Lists, TaskbarPart!Idle
  <2>2. asker' \in Requests_
    BY <1>0, <1>6, <2>1 DEF TaskbarPart!Ask
  <2> QED BY <1>0, <1>6, <2>2, TaskbarRest DEF TaskbarPart!Ask
<1>7. ASSUME NEW a \in Askers, TaskbarPart!Call(a)
      PROVE  TaskbarTypes'
  BY <1>0, <1>7, TaskbarRest DEF TaskbarPart!Call
<1>8. ASSUME NEW a \in Askers, TaskbarPart!Reply(a)
      PROVE  TaskbarTypes'
  <2>1. PICK l : /\ l \in {views} \cup (IF stream.up THEN {} ELSE {{}})
                 /\ asker' = [asker EXCEPT ![a].phase = "replied", ![a].list = l]
    BY <1>8 DEF TaskbarPart!Reply
  <2>2. Listed_(asker[a], l) \in AskerRecords
    <3>1. l \in Lists /\ asker[a] \in AskerRecords
      BY <1>0, <2>1 DEF Lists
    <3> QED BY <3>1, AskerRecord
  <2>3. asker' = [b \in Askers |-> IF b = a THEN Listed_(asker[a], l) ELSE asker[b]]
    BY <1>0, <2>1, Zenon DEF Listed_
  <2>4. asker' \in Requests_
    BY <1>0, <2>2, <2>3
  <2> QED BY <1>0, <1>8, <2>4, TaskbarRest DEF TaskbarPart!Reply
<1>9. ASSUME NEW a \in Askers, TaskbarPart!Store(a)
      PROVE  TaskbarTypes'
  <2>0. asker[a] \in AskerRecords /\ {} \in Lists
    BY <1>0 DEF Lists
  <2>1. viewCache' \in Caches
    <3>1. asker[a].age \in {0, 1} /\ asker[a].list \subseteq {"w"}
      BY <2>0, AskerRecord
    <3> QED BY <1>9, <3>1 DEF TaskbarPart!Store
  <2>2. Stored_(asker[a]) \in AskerRecords
    BY <2>0, AskerRecord
  <2>3. asker' = [asker EXCEPT ![a] = Stored_(asker[a])]
    BY <1>9 DEF TaskbarPart!Store, Stored_
  <2>4. asker' \in Requests_
    BY <1>0, <2>2, <2>3
  <2> QED BY <1>0, <1>9, <2>1, <2>4, TaskbarRest DEF TaskbarPart!Store
<1>10. ASSUME NEW a \in Askers, TaskbarPart!Show(a)
       PROVE  TaskbarTypes'
  <2>1. taskbar' \subseteq {"w"}
    BY <1>0, <1>10 DEF TaskbarPart!Show, AskerRecords, Lists
  <2>2. asker' \in Requests_
    BY <1>0, <1>10 DEF TaskbarPart!Show, TaskbarPart!Idle, AskerRecords, AskerPhases, ListAges, Lists
  <2> QED BY <1>0, <1>10, <2>1, <2>2, TaskbarRest DEF TaskbarPart!Show
<1>11. CASE UNCHANGED taskVars
  BY <1>0, <1>11, TaskbarRest DEF taskVars
<1> QED BY <1>1, <1>2, <1>3, <1>4, <1>5, <1>6, <1>7, <1>8, <1>9, <1>10, <1>11
        DEF TaskbarPart!TaskbarNext, TaskbarPart!AskSteps

-----------------------------------------------------------------------------
(* Types: windows.  The snapper waits for its command to be run, so it has *)
(* one in flight at most.                                                  *)

PanePlaces == {"closed", "new", "shown", "scratch"}
HasPlace(q) == "at" \in DOMAIN q /\ q.at \in PanePlaces
HasSettled(t) == "settled" \in DOMAIN t /\ t.settled \in 0 .. 3
OneSnap(S) == \A c, d \in S : c.by = "snapper" /\ d.by = "snapper" => c = d
WindowTypes ==
  /\ DOMAIN pane = Panes /\ \A p \in Panes : HasPlace(pane[p])
  /\ suppress \in [Panes -> 0 .. 2]
  /\ DOMAIN track = Panes /\ \A p \in Panes : HasSettled(track[p])
  /\ focus_ \in Panes \cup {NoPane} /\ moves \in 0 .. 3
  /\ \A c \in inFlight : c.pane \in Panes
  /\ OneSnap(inFlight)


LEMMA WindowsStart == WindowsPart!WindowsInit => WindowTypes
<1> SUFFICES ASSUME WindowsPart!WindowsInit PROVE WindowTypes
  OBVIOUS
<1>1. DOMAIN pane = Panes /\ \A p \in Panes : HasPlace(pane[p])
  BY DEF WindowsPart!WindowsInit, HasPlace, PanePlaces
<1>2. DOMAIN track = Panes /\ \A p \in Panes : HasSettled(track[p])
  BY DEF WindowsPart!WindowsInit, WindowsPart!NoTrack, HasSettled
<1>3. /\ suppress \in [Panes -> 0 .. 2] /\ focus_ \in Panes \cup {NoPane} /\ moves \in 0 .. 3
      /\ inFlight = {}
  BY DEF WindowsPart!WindowsInit
<1> QED BY <1>1, <1>2, <1>3 DEF WindowTypes, OneSnap

LEMMA WindowTypesSuffice == WindowTypes => WindowsPart!WindowsTypeOK
<1> SUFFICES ASSUME WindowTypes PROVE WindowsPart!WindowsTypeOK
  OBVIOUS
<1> DEFINE S == {c \in inFlight : c.by = "snapper"}
<1>1. Cardinality(S) <= 1
  <2>1. CASE S = {}
    BY <2>1, FS_EmptySet
  <2>2. ASSUME NEW c \in S PROVE Cardinality(S) <= 1
    <3>1. S = {c}
      BY <2>2 DEF WindowTypes, OneSnap
    <3>2. Cardinality({c}) = 1
      BY FS_Singleton
    <3> QED BY <3>1, <3>2
  <2> QED BY <2>1, <2>2
<1>2. \A p \in Panes : /\ pane[p].at \in {"closed", "new", "shown", "scratch"}
                       /\ suppress[p] \in 0 .. 2 /\ track[p].settled \in 0 .. 3
  BY DEF WindowTypes, HasPlace, HasSettled, PanePlaces
<1>3. focus_ \in Panes \cup {NoPane} /\ moves \in 0 .. 3
  BY DEF WindowTypes
<1>4. WindowsPart!Cardinality(S) = Cardinality(S)
  BY Zenon DEF WindowsPart!Cardinality, Cardinality
<1> QED BY <1>1, <1>2, <1>3, <1>4, Zenon DEF WindowsPart!WindowsTypeOK

\* What sway makes of a window has a place; what the snapper makes of what it
\* knows of one has a count.
LEMMA RunKeepsPlace ==
  ASSUME NEW q, NEW c, HasPlace(q)
  PROVE  HasPlace(WindowsPart!RunOn(q, c))
<1>1. {"closed", "scratch", "shown"} \subseteq PanePlaces
  BY DEF PanePlaces
<1>2. /\ HasPlace([q EXCEPT !.at = "closed"]) /\ HasPlace([q EXCEPT !.at = "scratch"])
      /\ HasPlace([q EXCEPT !.at = "shown"])
  BY <1>1 DEF HasPlace
<1>3. /\ HasPlace([q EXCEPT !.float = FALSE]) /\ HasPlace([q EXCEPT !.float = TRUE])
      /\ HasPlace([q EXCEPT !.rect = c.to, !.float = TRUE])
  BY DEF HasPlace
<1> QED BY <1>2, <1>3 DEF WindowsPart!RunOn

LEMMA SettlesKeeps ==
  ASSUME NEW t, NEW r, HasSettled(t)
  PROVE  HasSettled(WindowsPart!Settles(t, r))
<1>1. HasSettled([key |-> r, settled |-> 0, cmd |-> NoRect])
  BY DEF HasSettled
<1>2. WindowsPart!Least(t.settled + 1, 3) \in 0 .. 3
  BY DEF HasSettled, WindowsPart!Least
<1>3. HasSettled([t EXCEPT !.settled = WindowsPart!Least(@ + 1, 3),
        !.cmd = IF t.settled = 1 /\ WindowsPart!Target(r) # NoRect THEN WindowsPart!Target(r) ELSE @])
  BY <1>2 DEF HasSettled
<1>4. CASE t.key # r
  BY <1>1, <1>4 DEF WindowsPart!Settles
<1>5. CASE t.key = r
  BY <1>3, <1>5, Zenon DEF WindowsPart!Settles
<1> QED BY <1>4, <1>5

LEMMA NoTrackSettled == HasSettled(WindowsPart!NoTrack)
BY DEF HasSettled, WindowsPart!NoTrack

LEMMA LookKeeps ==
  ASSUME WindowTypes, WindowsPart!Look
  PROVE  WindowTypes'
<1>1. \A p \in Panes : WindowsPart!HeldOff(p) \in 0 .. 2
  BY DEF WindowTypes, WindowsPart!HeldOff
<1>2. suppress' \in [Panes -> 0 .. 2]
  BY <1>1 DEF WindowsPart!Look
<1>3. UNCHANGED <<pane, focus_, moves>>
  BY DEF WindowsPart!Look
<1>4. /\ DOMAIN track' = Panes /\ \A p \in Panes : HasSettled(track'[p])
      /\ \A c \in inFlight' : c.pane \in Panes
      /\ OneSnap(inFlight')
  <2>1. CASE WindowsPart!Looked = NoPane
    <3>1. track' = [p \in Panes |-> WindowsPart!NoTrack] /\ inFlight' = inFlight
      BY <2>1 DEF WindowsPart!Look
    <3> QED BY <3>1, NoTrackSettled DEF WindowTypes
  <2>2. CASE WindowsPart!Looked # NoPane
    <3> DEFINE p == WindowsPart!Looked
    <3>1. p \in Panes
      BY <2>2 DEF WindowsPart!Looked, WindowTypes
    <3>2. track' = [track EXCEPT ![p] = IF suppress[p] > 0 THEN WindowsPart!NoTrack
                                         ELSE WindowsPart!Settles(track[p], pane[p].rect)]
      BY <2>2 DEF WindowsPart!Look
    <3>3. HasSettled(WindowsPart!Settles(track[p], pane[p].rect))
      BY <3>1, SettlesKeeps DEF WindowTypes
    <3>4. DOMAIN track' = Panes /\ \A q \in Panes : HasSettled(track'[q])
      BY <3>1, <3>2, <3>3, NoTrackSettled DEF WindowTypes
    <3>5. \/ inFlight' = inFlight
          \/ inFlight' = inFlight \cup {[pane |-> p, do |-> "place", to |-> track'[p].cmd,
                                         by |-> "snapper"]}
      BY <2>2 DEF WindowsPart!Look, WindowsPart!Sends
    <3>6. \A c \in inFlight : c.by # "snapper"
      BY DEF WindowsPart!Look
    <3>7. OneSnap(inFlight') /\ \A c \in inFlight' : c.pane \in Panes
      BY <3>1, <3>5, <3>6 DEF WindowTypes, OneSnap
    <3> QED BY <3>4, <3>7
  <2> QED BY <2>1, <2>2
<1> QED BY <1>2, <1>3, <1>4 DEF WindowTypes

LEMMA RunCommandKeeps ==
  ASSUME WindowTypes, NEW c \in inFlight, WindowsPart!Run(c)
  PROVE  WindowTypes'
<1> DEFINE p == c.pane
           after == IF pane[p].at = "closed" THEN pane[p] ELSE WindowsPart!RunOn(pane[p], c)
<1>1. p \in Panes /\ HasPlace(after)
  BY RunKeepsPlace DEF WindowTypes
<1>2. pane' = [pane EXCEPT ![p] = after] /\ inFlight' = inFlight \ {c}
  BY DEF WindowsPart!Run
<1>3. focus_' \in {NoPane, p, focus_} /\ UNCHANGED <<suppress, track, moves>>
  BY DEF WindowsPart!Run
<1>4. DOMAIN pane' = Panes /\ \A q \in Panes : HasPlace(pane'[q])
  BY <1>1, <1>2 DEF WindowTypes
<1>5. OneSnap(inFlight') /\ \A d \in inFlight' : d.pane \in Panes
  BY <1>2 DEF WindowTypes, OneSnap
<1> QED BY <1>1, <1>3, <1>4, <1>5 DEF WindowTypes

\* A command of somebody else than the snapper.
LEMMA SendsKeeps ==
  ASSUME NEW p \in Panes, NEW do, NEW to, NEW by, by # "snapper",
         \A c \in inFlight : c.pane \in Panes, OneSnap(inFlight),
         WindowsPart!Sends(p, do, to, by)
  PROVE  OneSnap(inFlight') /\ \A c \in inFlight' : c.pane \in Panes
<1> DEFINE new == [pane |-> p, do |-> do, to |-> to, by |-> by]
<1>1. inFlight' = inFlight \cup {new} /\ new.by # "snapper" /\ new.pane = p
  BY DEF WindowsPart!Sends
<1> QED BY <1>1 DEF OneSnap

LEMMA UserKeeps ==
  ASSUME WindowTypes, NEW p \in Panes, WindowsPart!UserSteps(p)
  PROVE  WindowTypes'
<1> DEFINE Sent == OneSnap(inFlight') /\ \A c \in inFlight' : c.pane \in Panes
<1>0. moves' \in 0 .. 3
  BY DEF WindowTypes, WindowsPart!UserSteps, WindowsPart!OpenPane, WindowsPart!Drag,
         WindowsPart!Maximize, WindowsPart!Restore, WindowsPart!Act_, WindowsPart!Moves
<1>1. CASE WindowsPart!OpenPane(p)
  <2>1. DOMAIN pane' = Panes /\ \A q \in Panes : HasPlace(pane'[q])
    BY <1>1 DEF WindowTypes, WindowsPart!OpenPane, HasPlace, PanePlaces
  <2>2. DOMAIN track' = Panes /\ \A q \in Panes : HasSettled(track'[q])
    BY <1>1, NoTrackSettled DEF WindowTypes, WindowsPart!OpenPane
  <2>3. suppress' \in [Panes -> 0 .. 2] /\ focus_' = p /\ inFlight' = inFlight
    BY <1>1 DEF WindowTypes, WindowsPart!OpenPane
  <2> QED BY <1>0, <2>1, <2>2, <2>3 DEF WindowTypes
<1>2. CASE WindowsPart!Drag(p)
  <2>1. PICK d : pane' = [pane EXCEPT ![p].rect.x = d.x, ![p].rect.y = d.y]
    BY <1>2 DEF WindowsPart!Drag
  <2>2. DOMAIN pane' = Panes /\ \A q \in Panes : HasPlace(pane'[q])
    BY <2>1 DEF WindowTypes, HasPlace
  <2>3. UNCHANGED <<focus_, inFlight, suppress, track>>
    BY <1>2 DEF WindowsPart!Drag
  <2> QED BY <1>0, <2>2, <2>3 DEF WindowTypes
<1>3. CASE WindowsPart!Maximize(p) \/ WindowsPart!Restore(p)
  <2>1. Sent
    BY <1>3, SendsKeeps DEF WindowTypes, WindowsPart!Maximize, WindowsPart!Restore
  <2>2. suppress' \in [Panes -> 0 .. 2] /\ UNCHANGED <<pane, focus_, track>>
    BY <1>3 DEF WindowTypes, WindowsPart!Maximize, WindowsPart!Restore
  <2> QED BY <1>0, <2>1, <2>2 DEF WindowTypes
<1>4. CASE WindowsPart!Act_(p)
  <2>1. PICK a : WindowsPart!Sends(p, a, NoRect, "action")
    BY <1>4 DEF WindowsPart!Act_
  <2>2. Sent
    BY <2>1, SendsKeeps DEF WindowTypes
  <2>3. UNCHANGED <<pane, focus_, suppress, track>>
    BY <1>4 DEF WindowsPart!Act_
  <2> QED BY <1>0, <2>2, <2>3 DEF WindowTypes
<1> QED BY <1>1, <1>2, <1>3, <1>4 DEF WindowsPart!UserSteps

LEMMA RulesKeeps ==
  ASSUME WindowTypes, NEW p \in Panes, WindowsPart!Rules(p)
  PROVE  WindowTypes'
<1>1. DOMAIN pane' = Panes /\ \A q \in Panes : HasPlace(pane'[q])
  BY DEF WindowTypes, WindowsPart!Rules, HasPlace, PanePlaces
<1>2. OneSnap(inFlight') /\ \A c \in inFlight' : c.pane \in Panes
  BY SendsKeeps DEF WindowTypes, WindowsPart!Rules
<1>3. UNCHANGED <<focus_, suppress, track, moves>>
  BY DEF WindowsPart!Rules
<1> QED BY <1>1, <1>2, <1>3 DEF WindowTypes

LEMMA WindowsKeep ==
  ASSUME WindowTypes, WindowsPart!WindowsNext \/ UNCHANGED paneVars
  PROVE  WindowTypes'
<1>1. ASSUME NEW p \in Panes, WindowsPart!UserSteps(p) PROVE WindowTypes'
  BY <1>1, UserKeeps
<1>2. ASSUME NEW p \in Panes, WindowsPart!Rules(p) PROVE WindowTypes'
  BY <1>2, RulesKeeps
<1>3. CASE WindowsPart!Focus
  <2>1. focus_' \in Panes \cup {NoPane} /\ moves' \in 0 .. 3
    BY <1>3 DEF WindowTypes, WindowsPart!Focus, WindowsPart!Moves
  <2>2. UNCHANGED <<pane, inFlight, suppress, track>>
    BY <1>3 DEF WindowsPart!Focus
  <2> QED BY <2>1, <2>2 DEF WindowTypes
<1>4. CASE WindowsPart!Look
  BY <1>4, LookKeeps
<1>5. ASSUME NEW c \in inFlight, WindowsPart!Run(c) PROVE WindowTypes'
  BY <1>5, RunCommandKeeps
<1>6. CASE UNCHANGED paneVars
  BY <1>6 DEF WindowTypes, paneVars
<1> QED BY <1>1, <1>2, <1>3, <1>4, <1>5, <1>6 DEF WindowsPart!WindowsNext

-----------------------------------------------------------------------------
(* Types: package jobs and the list of applications.  A job that has been  *)
(* accepted names a package; the age of what was read is counted.          *)

HasAge(x) == "age" \in DOMAIN x /\ x.age \in 0 .. Fresh
Accepted_ == Phases \ {"idle", "done"}
AppTypes ==
  /\ files \in Layouts /\ HasAge(_app_cache)
  /\ DOMAIN reader = Readers /\ \A r \in Readers : HasAge(reader[r])
LockTypes ==
  /\ PKG_LOCK \in Jobs \cup {NoJob} /\ PKG_JOB.active \in Entries \cup {NoJob}
  /\ \A j \in Jobs : job[j].phase \in Accepted_ => job[j].name \in Entries
JobsAll == JobsInv /\ AppTypes /\ LockTypes

LEMMA JobsAllStart == JobsInit => JobsAll
<1> SUFFICES ASSUME NEW there \in AppFiles, JobsInitAt(there) PROVE JobsAll
  BY DEF JobsInit
<1>1. JobsInv
  BY JobsStart DEF JobsInit
<1>2. files \in Layouts /\ _app_cache = Expired /\ reader = [r \in Readers |-> NotReading]
  BY AppsAssumption DEF JobsInitAt
<1>3. HasAge(Expired) /\ HasAge(NotReading)
  BY AppsAssumption DEF HasAge, Expired, NotReading
<1>4. LockTypes
  BY DEF JobsInitAt, LockTypes, IdleJob, NoStatus, Accepted_
<1> QED BY <1>1, <1>2, <1>3, <1>4 DEF JobsAll, AppTypes

LEMMA JobsAllSuffice == JobsAll => JobsTypeOK
<1> SUFFICES ASSUME JobsAll PROVE JobsTypeOK
  OBVIOUS
<1>1. PKG_JOB \in [active : Entries \cup {NoJob}, ok : Verdict]
  BY DEF JobsAll, JobsInv, JobTypes, LockTypes
<1>2. job \in [Jobs -> [phase : {"idle", "waiting", "starting", "working", "exited", "judged",
                                 "reported", "orphan", "done"},
                        op : {"install", "remove"}, name : Entries \cup {NoEntry},
                        rc : Verdict]]
  <2>1. Phases = {"idle", "waiting", "starting", "working", "exited", "judged",
                  "reported", "orphan", "done"}
    BY DEF Phases, Holding
  <2> QED BY <2>1, Zenon DEF JobsAll, JobsInv, JobTypes
<1> QED BY <1>1, <1>2 DEF JobsAll, AppTypes, LockTypes, HasAge, JobsTypeOK

LEMMA OlderAge == \A n \in 0 .. Fresh : Older(n) \in 0 .. Fresh
BY AppsAssumption DEF Older

\* npkg leaves a layout.
LEMMA DoneKeeps ==
  ASSUME files \in Layouts, NEW j \in Jobs, NEW rc, Done(j, rc)
  PROVE  files' \in Layouts
<1>1. CASE files' = files
  BY <1>1
<1>2. CASE files' = [files EXCEPT ![1][job[j].name] =
                       IF job[j].op = "install" THEN "shown" ELSE NoEntry]
  BY <1>2 DEF Layouts
<1> QED BY <1>1, <1>2 DEF Done

LEMMA AppTypesKeep ==
  ASSUME AppTypes, [JobsNext]_jobVars
  PROVE  AppTypes'
<1> DEFINE Same == _app_cache' = _app_cache /\ reader' = reader
           Tidy == /\ HasAge(_app_cache') /\ DOMAIN reader' = Readers
                   /\ \A r \in Readers : HasAge(reader'[r])
<1>0. /\ Same => Tidy
      /\ HasAge(Expired) /\ HasAge(NotReading)
  BY AppsAssumption DEF AppTypes, HasAge, Expired, NotReading
<1>1. ASSUME NEW j \in Jobs, RequestJob(j) \/ JobSteps(j)
      PROVE  AppTypes'
  <2>1. files' \in Layouts
    BY <1>1, DoneKeeps DEF AppTypes, RequestJob, JobSteps, BeginJob, StartNpkg, NpkgEnds, ReportJob,
       LeaveJob, EndJob, OrphanEnds
  <2>2. CASE EndJob(j)
    <3>1. _app_cache' = [_app_cache EXCEPT !.age = Fresh] /\ reader' = reader
      BY <2>2 DEF EndJob
    <3>2. Tidy
      BY <3>1, AppsAssumption DEF AppTypes, HasAge
    <3> QED BY <2>1, <3>2 DEF AppTypes
  <2>3. CASE ~EndJob(j)
    <3>1. Same
      BY <1>1, <2>3 DEF RequestJob, JobSteps, BeginJob, StartNpkg, NpkgEnds, ReportJob,
         LeaveJob, OrphanEnds, appVars
    <3> QED BY <1>0, <2>1, <3>1 DEF AppTypes
  <2> QED BY <2>2, <2>3
<1>2. ASSUME NEW r \in Readers, AskApps(r) \/ ReadDirs(r)
      PROVE  AppTypes'
  <2>1. files' = files /\ _app_cache' = _app_cache
    BY <1>2 DEF AskApps, ReadDirs, pkgVars
  <2>2. \/ reader' = reader \/ reader' = [reader EXCEPT ![r].phase = "reading"]
        \/ reader' = [reader EXCEPT ![r].phase = "listed", ![r].apps = load_apps]
    BY <1>2 DEF AskApps, ReadDirs
  <2>3. DOMAIN reader' = Readers /\ \A k \in Readers : HasAge(reader'[k])
    BY <2>2 DEF AppTypes, HasAge
  <2> QED BY <2>1, <2>3 DEF AppTypes
<1>3. ASSUME NEW r \in Readers, StoreApps(r)
      PROVE  AppTypes'
  <2>1. /\ files' = files /\ _app_cache' = [age |-> reader[r].age, apps |-> reader[r].apps]
        /\ reader' = [reader EXCEPT ![r] = NotReading]
    BY <1>3 DEF StoreApps, pkgVars
  <2>2. HasAge(_app_cache')
    BY <2>1 DEF AppTypes, HasAge
  <2>3. DOMAIN reader' = Readers /\ \A k \in Readers : HasAge(reader'[k])
    BY <1>0, <2>1 DEF AppTypes
  <2> QED BY <2>1, <2>2, <2>3 DEF AppTypes
<1>4. CASE Tick
  <2>1. /\ files' = files /\ _app_cache' = [_app_cache EXCEPT !.age = Older(@)]
        /\ reader' = [r \in Readers |-> [reader[r] EXCEPT !.age = AgeOf(r)]]
    BY <1>4 DEF Tick, pkgVars
  <2>2. \A r \in Readers : AgeOf(r) \in 0 .. Fresh
    BY OlderAge, AppsAssumption DEF AgeOf, AppTypes, HasAge
  <2>3. HasAge(_app_cache')
    BY <2>1, OlderAge DEF AppTypes, HasAge
  <2>4. DOMAIN reader' = Readers /\ \A r \in Readers : HasAge(reader'[r])
    BY <2>1, <2>2 DEF AppTypes, HasAge
  <2> QED BY <2>1, <2>3, <2>4 DEF AppTypes
<1>5. CASE RestartJobs
  BY <1>0, <1>5 DEF RestartJobs, AppTypes
<1>6. CASE UNCHANGED jobVars
  BY <1>0, <1>6 DEF jobVars, AppTypes
<1> QED BY <1>1, <1>2, <1>3, <1>4, <1>5, <1>6 DEF JobsNext, ListSteps, AnswerSteps

LEMMA LockTypesKeep ==
  ASSUME JobTypes, LockTypes, [JobsNext]_jobVars
  PROVE  LockTypes'
<1> DEFINE Named == \A j \in Jobs : job'[j].phase \in Accepted_ => job'[j].name \in Entries
<1>0. /\ PKG_LOCK \in Jobs \cup {NoJob} /\ PKG_JOB.active \in Entries \cup {NoJob}
      /\ \A j \in Jobs : job[j].phase \in Accepted_ => job[j].name \in Entries
  BY DEF LockTypes
<1>1. CASE UNCHANGED <<job, PKG_LOCK, PKG_JOB>>
  BY <1>1 DEF LockTypes
<1>2. ASSUME NEW j \in Jobs, RequestJob(j)
      PROVE  LockTypes'
  <2>1. PICK op \in {"install", "remove"}, n \in Entries :
          job' = [job EXCEPT ![j] = [phase |-> "waiting", op |-> op, name |-> n, rc |-> "none"]]
    BY <1>2 DEF RequestJob
  <2>2. Named
    BY <1>0, <2>1 DEF JobTypes
  <2> QED BY <1>0, <1>2, <2>2 DEF RequestJob, LockTypes
<1>3. ASSUME NEW j \in Jobs, JobSteps(j)
      PROVE  LockTypes'
  <2>1. ASSUME NEW p, job[j].phase \in Accepted_, job' = [job EXCEPT ![j].phase = p]
        PROVE  Named
    BY <1>0, <2>1 DEF JobTypes
  <2>2. ASSUME job' = [job EXCEPT ![j] = [IdleJob EXCEPT !.phase = "done"]]
        PROVE  Named
    BY <1>0, <2>2 DEF JobTypes, IdleJob, Accepted_
  <2>3. {"waiting", "starting", "working", "exited", "judged", "reported", "orphan"}
          \subseteq Accepted_
    BY DEF Accepted_, Phases, Holding
  <2>4. CASE BeginJob(j)
    <3>1. Named
      BY <2>1, <2>3, <2>4 DEF BeginJob, Phase
    <3>2. PKG_LOCK' = j /\ PKG_JOB'.active = job[j].name /\ job[j].name \in Entries
      BY <1>0, <2>3, <2>4 DEF BeginJob, JobTypes
    <3> QED BY <3>1, <3>2 DEF LockTypes
  <2>5. CASE StartNpkg(j)
    <3>1. Named
      BY <2>1, <2>3, <2>5 DEF StartNpkg, Phase
    <3>2. PKG_LOCK' = PKG_LOCK /\ PKG_JOB'.active = PKG_JOB.active
      BY <2>5 DEF StartNpkg, JobTypes
    <3> QED BY <1>0, <3>1, <3>2 DEF LockTypes
  <2>6. CASE NpkgEnds(j)
    <3>1. PICK rc : job' = [job EXCEPT ![j] = [job[j] EXCEPT !.phase = "exited", !.rc = rc]]
      BY <2>6, Zenon DEF NpkgEnds
    <3>2. job[j].name \in Entries
      BY <1>0, <2>3, <2>6 DEF NpkgEnds
    <3>3. Named
      BY <1>0, <3>1, <3>2 DEF JobTypes
    <3> QED BY <1>0, <2>6, <3>3 DEF NpkgEnds, LockTypes
  <2>7. CASE ReportJob(j)
    <3>1. Named
      BY <2>1, <2>3, <2>7 DEF ReportJob, Phase
    <3>2. PKG_LOCK' = PKG_LOCK /\ PKG_JOB'.active = PKG_JOB.active
      BY <2>7 DEF ReportJob, JobTypes
    <3> QED BY <1>0, <3>1, <3>2 DEF LockTypes
  <2>8. CASE LeaveJob(j)
    <3>1. Named
      BY <2>1, <2>3, <2>8 DEF LeaveJob, Phase
    <3>2. PKG_LOCK' = PKG_LOCK /\ PKG_JOB'.active = NoJob
      BY <2>8 DEF LeaveJob, JobTypes
    <3> QED BY <1>0, <3>1, <3>2 DEF LockTypes
  <2>9. CASE EndJob(j)
    BY <1>0, <2>2, <2>9 DEF EndJob, LockTypes
  <2>10. CASE OrphanEnds(j)
    BY <1>0, <2>2, <2>10 DEF OrphanEnds, LockTypes
  <2> QED BY <1>3, <2>4, <2>5, <2>6, <2>7, <2>8, <2>9, <2>10 DEF JobSteps
<1>4. CASE RestartJobs
  <2>1. PKG_LOCK' = NoJob /\ PKG_JOB'.active = NoJob
    BY <1>4 DEF RestartJobs, NoStatus
  <2>2. ASSUME NEW j \in Jobs, job'[j].phase \in Accepted_
        PROVE  job'[j].name \in Entries
    <3>1. job'[j] = CASE job[j].phase \in {"idle", "orphan"} -> job[j]
                      [] job[j].phase = "working" -> [job[j] EXCEPT !.phase = "orphan"]
                      [] OTHER -> [IdleJob EXCEPT !.phase = "done"]
      BY <1>4 DEF RestartJobs
    <3>2. \/ job'[j] = job[j]
          \/ job[j].phase = "working" /\ job'[j] = [job[j] EXCEPT !.phase = "orphan"]
          \/ job'[j].phase = "done"
      BY <3>1 DEF IdleJob
    <3>3. "working" \in Accepted_ /\ "done" \notin Accepted_
      BY DEF Accepted_, Phases, Holding
    <3> QED BY <1>0, <2>2, <3>2, <3>3 DEF JobTypes
  <2> QED BY <2>1, <2>2 DEF LockTypes
<1>5. ASSUME NEW r \in Readers, ListSteps(r) PROVE UNCHANGED <<job, PKG_LOCK, PKG_JOB>>
  BY <1>5 DEF ListSteps, AnswerSteps, AskApps, ReadDirs, StoreApps, pkgVars
<1>6. Tick => UNCHANGED <<job, PKG_LOCK, PKG_JOB>>
  BY DEF Tick, pkgVars
<1>7. UNCHANGED jobVars => UNCHANGED <<job, PKG_LOCK, PKG_JOB>>
  BY DEF jobVars
<1> QED BY <1>1, <1>2, <1>3, <1>4, <1>5, <1>6, <1>7 DEF JobsNext

LEMMA JobsAllKeep == JobsAll /\ [JobsNext]_jobVars => JobsAll'
BY JobsKeep, AppTypesKeep, LockTypesKeep DEF JobsAll, JobsInv

-----------------------------------------------------------------------------
(* Types: extractions, files, settings and the tray, of which the          *)
(* invariants above say the rest.                                          *)

ExtractStatus == [active : Extracts \cup {NoExtract}, ok : {"none", "ok", "failed"}]
ExtractAll == ExtractInv /\ EXTRACT_JOB \in ExtractStatus

LEMMA ExtractAllStart == ExtractInit => ExtractAll
BY ExtractStarts DEF ExtractAll, ExtractStatus, ExtractInit

LEMMA ExtractAllKeep == ExtractAll /\ [ExtractNext]_extractVars => ExtractAll'
<1> SUFFICES ASSUME ExtractAll, [ExtractNext]_extractVars PROVE ExtractAll'
  OBVIOUS
<1>0. ExtractInv' /\ ExtractInv /\ EXTRACT_JOB \in ExtractStatus
  BY ExtractsKeep DEF ExtractAll
<1>1. ASSUME NEW e \in Extracts, RequestExtract(e) \/ ExtractSteps(e)
      PROVE  EXTRACT_JOB' \in ExtractStatus
  <2>1. \/ EXTRACT_JOB' = EXTRACT_JOB
        \/ EXTRACT_JOB' = [active |-> e, ok |-> "none"]
        \/ EXTRACT_JOB' = [active |-> NoExtract, ok |-> extraction[e].rc]
    <3>1. /\ RequestExtract(e) => EXTRACT_JOB' = EXTRACT_JOB
          /\ ChooseFolder(e) => EXTRACT_JOB' = EXTRACT_JOB
          /\ MakeFolder(e) => EXTRACT_JOB' = EXTRACT_JOB
          /\ Unpack(e) => EXTRACT_JOB' = EXTRACT_JOB
      BY Zenon DEF RequestExtract, ChooseFolder, MakeFolder, Unpack
    <3>2. BeginExtract(e) => EXTRACT_JOB' = [active |-> e, ok |-> "none"]
      BY DEF BeginExtract
    <3>3. EndExtract(e) => EXTRACT_JOB' = [active |-> NoExtract, ok |-> extraction[e].rc]
      BY DEF EndExtract
    <3> QED BY <1>1, <3>1, <3>2, <3>3 DEF ExtractSteps
  <2>2. extraction[e].rc \in {"none", "ok", "failed"}
    BY <1>0 DEF ExtractInv, ExtractTypes
  <2> QED BY <1>0, <2>1, <2>2 DEF ExtractStatus
<1>2. StopExtracts => EXTRACT_JOB' \in ExtractStatus
  BY DEF StopExtracts, ExtractStatus
<1>3. UNCHANGED extractVars => EXTRACT_JOB' \in ExtractStatus
  BY <1>0 DEF extractVars
<1>4. EXTRACT_JOB' \in ExtractStatus
  BY <1>1, <1>2, <1>3 DEF ExtractNext
<1> QED BY <1>0, <1>4 DEF ExtractAll, ExtractStatus

LEMMA ExtractAllSuffice == ExtractAll => ExtractTypeOK
<1> SUFFICES ASSUME ExtractAll PROVE ExtractTypeOK
  OBVIOUS
<1>1. DOMAIN folders = FolderNames /\ \A n \in FolderNames : folders[n] \in {NoFolder} \cup SUBSET Extracts
  BY DEF ExtractAll, ExtractInv, ExtractTypes
<1>2. extraction \in [Extracts -> [phase : {"idle", "started", "naming", "making", "unpacking",
                                           "ended", "done", "lost"},
                                  target : {0} \cup DOMAIN folders,
                                  rc : {"none", "ok", "failed"}]]
  BY <1>1, Zenon DEF ExtractAll, ExtractInv, ExtractTypes, ExtractPhases
<1> QED BY <1>1, <1>2 DEF ExtractAll, ExtractStatus, ExtractTypeOK

LEMMA FilesSuffice == FilesInv => FilesTypeOK
<1> SUFFICES ASSUME FilesInv PROVE FilesTypeOK
  OBVIOUS
<1>1. ASSUME NEW p \in DOMAIN fs
      PROVE  IsFolder(Parent(p))
  <2>1. p \in FilePaths /\ p # <<>> /\ \A a \in Ancestors(p) : a \in DOMAIN fs /\ fs[a].kind = "dir"
    BY DEF FilesInv, TreeOK
  <2>2. Parent(p) = <<>> \/ Parent(p) \in Ancestors(p)
    <3> DEFINE n == Len(p) - 1
    <3>1. n \in Nat
      BY <2>1 DEF FilePaths
    <3>2. Parent(p) = SubSeq(p, 1, n)
      BY <2>1 DEF FilePaths, Parent, Front
    <3>3. CASE n = 0
      <4>1. Parent(p) \in FilePaths /\ Len(Parent(p)) = 0
        BY <2>1, <3>3, PathParts
      <4> QED BY <4>1 DEF FilePaths
    <3>4. CASE n # 0
      <4>1. n \in 1 .. n
        <5> HIDE DEF n
        <5> QED BY <3>1, <3>4
      <4> QED BY <3>2, <4>1 DEF Ancestors
    <3> QED BY <3>3, <3>4
  <2> QED BY <2>1, <2>2 DEF IsFolder
<1> QED BY <1>1 DEF FilesInv, TreeOK, FilesTypeOK

SettingsAll == SettingsInv /\ writes \in 0 .. MaxWrites

LEMMA SettingsAllStart == SettingsInit => SettingsAll
BY SettingsStart, WritesAssumption DEF SettingsAll, SettingsInit

LEMMA SettingsAllKeep == SettingsAll /\ [SettingsNext]_settingsVars => SettingsAll'
<1> SUFFICES ASSUME SettingsAll, [SettingsNext]_settingsVars PROVE SettingsAll'
  OBVIOUS
<1>1. writes' = writes \/ (writes < MaxWrites /\ writes' = writes + 1)
  <2>1. ASSUME NEW w \in Writers, AskSettings(w) \/ AskStorage(w)
        PROVE  writes < MaxWrites /\ writes' = writes + 1
    <3>1. \A f, d, ks : Request(w, f, d, ks) => writes < MaxWrites /\ writes' = writes + 1
      BY DEF Request
    <3> QED BY <2>1, <3>1 DEF AskSettings, AskStorage
  <2>2. ASSUME NEW w \in Writers, WriterSteps(w)
        PROVE  writes' = writes
    BY <2>2 DEF WriterSteps, Merge, Open, Write, Replace
  <2>3. Crash \/ UNCHANGED settingsVars => writes' = writes
    BY DEF Crash, settingsVars
  <2> QED BY <2>1, <2>2, <2>3 DEF SettingsNext
<1>2. writes' \in 0 .. MaxWrites
  BY <1>1, WritesAssumption DEF SettingsAll
<1> QED BY <1>2, SettingsKeep DEF SettingsAll

LEMMA SettingsAllSuffice == SettingsAll => SettingsTypeOK
<1> SUFFICES ASSUME SettingsAll PROVE SettingsTypeOK
  OBVIOUS
<1>1. \A f \in StoredFiles : {path[f], tmp[f]} \subseteq Inodes \cup {NoInode}
  BY DEF SettingsAll, SettingsInv, SettingsTypes
<1>2. ASSUME NEW w \in Writers
      PROVE  writer[w].phase \in {"idle", "read", "merged", "open", "written"}
  <2>1. writer[w] \in WriterRecords
    BY DEF SettingsAll, SettingsInv, SettingsTypes
  <2> QED BY <2>1 DEF WriterRecords, WriterPhases
<1> QED BY <1>1, <1>2 DEF SettingsAll, SettingsTypeOK

TrayPhases == {"off", "watching", "running"}
TrayAll == TrayInv /\ tray \in TrayPhases

LEMMA TrayAllStart == TrayInit => TrayAll
BY TrayStarts DEF TrayAll, TrayPhases, TrayInit

LEMMA TrayAllKeep == TrayAll /\ [TrayNext]_trayVars => TrayAll'
<1> SUFFICES ASSUME TrayAll, [TrayNext]_trayVars PROVE TrayAll'
  OBVIOUS
<1>1. tray' = tray \/ tray' \in TrayPhases
  BY DEF TrayNext, trayVars, AppStarts, AppQuits, AppRegisters, TakeName, RunLoop,
     TakeRegistration, AddItem, on_name_owner_changed, TrayPhases
<1> QED BY <1>1, TrayKeeps DEF TrayAll

LEMMA TrayAllSuffice == TrayAll => TrayTypeOK
BY DEF TrayAll, TrayPhases, TrayInv, TrayTypes, Icons, TrayTypeOK

LEMMA SnapSuffice == SnapInv => SnapTypeOK
<1> SUFFICES ASSUME SnapInv PROVE SnapTypeOK
  OBVIOUS
<1>1. ASSUME NEW i \in Ids, archive[i] # NoArchive
      PROVE  archive[i].of \in [Files -> Nat]
  BY <1>1 DEF SnapInv, SnapTypes, Archives
<1> QED BY <1>1 DEF SnapInv, SnapTypes, Steps, SnapTypeOK

-----------------------------------------------------------------------------
(* The types of the whole: those of the part a behaviour is about.         *)

DesktopTypes_ ==
  /\ On("jobs") => JobsAll
  /\ On("extract") => ExtractAll
  /\ On("files") => FilesInv
  /\ On("settings") => SettingsAll
  /\ On("tray") => TrayAll
  /\ On("launch") => LaunchTypes
  /\ On("taskbar") => TaskbarTypes
  /\ On("windows") => WindowTypes
  /\ On("snapshots") => SnapInv

LEMMA DesktopStarts == DesktopInit => DesktopTypes_
<1> SUFFICES ASSUME DesktopInit PROVE DesktopTypes_
  OBVIOUS
<1>1. On("jobs") => JobsAll
  BY JobsAllStart, Zenon DEF DesktopInit
<1>2. On("extract") => ExtractAll
  BY ExtractAllStart, Zenon DEF DesktopInit
<1>3. On("files") => FilesInv
  BY FilesStart, Zenon DEF DesktopInit
<1>4. On("settings") => SettingsAll
  BY SettingsAllStart, Zenon DEF DesktopInit
<1>5. On("tray") => TrayAll
  BY TrayAllStart, Zenon DEF DesktopInit
<1>6. On("launch") => LaunchTypes
  BY LaunchStarts, Zenon DEF DesktopInit
<1>7. On("taskbar") => TaskbarTypes
  BY TaskbarStarts, Zenon DEF DesktopInit
<1>8. On("windows") => WindowTypes
  BY WindowsStart, Zenon DEF DesktopInit
<1>9. On("snapshots") => SnapInv
  BY SnapStarts, Zenon DEF DesktopInit
<1> QED BY <1>1, <1>2, <1>3, <1>4, <1>5, <1>6, <1>7, <1>8, <1>9 DEF DesktopTypes_

LEMMA DesktopKeeps == DesktopTypes_ /\ [DesktopNext]_desktopVars => DesktopTypes_'
<1> SUFFICES ASSUME DesktopTypes_, [DesktopNext]_desktopVars PROVE DesktopTypes_'
  OBVIOUS
<1>0. /\ focus' = focus
      /\ On("jobs") => [JobsNext]_jobVars
      /\ On("extract") => [ExtractNext]_extractVars
      /\ On("files") => [FilesNext]_fileVars
      /\ On("settings") => [SettingsNext]_settingsVars
      /\ On("tray") => [TrayNext]_trayVars
      /\ On("launch") => LaunchPart!LaunchNext \/ UNCHANGED launchVars
      /\ On("taskbar") => TaskbarPart!TaskbarNext \/ UNCHANGED taskVars
      /\ On("windows") => WindowsPart!WindowsNext \/ UNCHANGED paneVars
      /\ On("snapshots") => [SnapNext]_snapVars
  <2>1. CASE DesktopNext
    BY <2>1, Zenon DEF DesktopNext
  <2>2. CASE UNCHANGED desktopVars
    BY <2>2 DEF desktopVars
  <2> QED BY <2>1, <2>2
<1>1. \A part : On(part)' <=> On(part)
  BY <1>0 DEF On
<1>2. On("jobs") => JobsAll'
  BY <1>0, JobsAllKeep DEF DesktopTypes_
<1>3. On("extract") => ExtractAll'
  BY <1>0, ExtractAllKeep DEF DesktopTypes_
<1>4. On("files") => FilesInv'
  BY <1>0, FilesKeep DEF DesktopTypes_
<1>5. On("settings") => SettingsAll'
  BY <1>0, SettingsAllKeep DEF DesktopTypes_
<1>6. On("tray") => TrayAll'
  BY <1>0, TrayAllKeep DEF DesktopTypes_
<1>7. On("launch") => LaunchTypes'
  BY <1>0, LaunchKeeps DEF DesktopTypes_
<1>8. On("taskbar") => TaskbarTypes'
  BY <1>0, TaskbarKeeps DEF DesktopTypes_
<1>9. On("windows") => WindowTypes'
  BY <1>0, WindowsKeep DEF DesktopTypes_
<1>10. On("snapshots") => SnapInv'
  BY <1>0, SnapSteps DEF DesktopTypes_
<1> QED BY <1>1, <1>2, <1>3, <1>4, <1>5, <1>6, <1>7, <1>8, <1>9, <1>10 DEF DesktopTypes_

LEMMA DesktopTypesSuffice == DesktopTypes_ => DesktopTypeOK
<1> SUFFICES ASSUME DesktopTypes_ PROVE DesktopTypeOK
  OBVIOUS
<1>1. LaunchTypes => LaunchPart!LaunchTypeOK
  BY DEF LaunchTypes
<1>2. TaskbarTypes => TaskbarPart!TaskbarTypeOK
  BY DEF TaskbarTypes
<1> QED BY <1>1, <1>2, JobsAllSuffice, ExtractAllSuffice, FilesSuffice, SettingsAllSuffice,
           TrayAllSuffice, WindowTypesSuffice, SnapSuffice, Zenon DEF DesktopTypes_, DesktopTypeOK

\* Whichever part of nethosd a behaviour is about, its state is well formed:
\* a path leads through folders, an accepted job names a package, every list
\* is of windows there were, and the snapper has one command in flight.
THEOREM DesktopTypes == DesktopSpec => []DesktopTypeOK
BY DesktopStarts, DesktopKeeps, DesktopTypesSuffice, PTL DEF DesktopSpec
==============================================================================

---------------------------- MODULE NethosdJobs ----------------------------
(***************************************************************************)
(* nethosd's package jobs (nethosd.py): packages installed and removed one *)
(* at a time behind PKG_LOCK, and the cached list of applications that a   *)
(* package job makes stale.  Every request has a thread of its own, so the *)
(* checks in do_POST, the threads they start and the readers of the list   *)
(* interleave.                                                             *)
(***************************************************************************)
EXTENDS Naturals, Sequences

CONSTANTS Jobs,          \* the package requests a behaviour may make
          Readers,       \* surfaces that ask for /api/apps
          Ticking,       \* those that ask again while they are up: the dock
          Entries,       \* names of .desktop files and web applications
          Dirs,          \* the directories searched, in their order; npkg writes Dirs[1]
          Fresh,         \* ticks a list stays in the cache (30 s in the code)
          AppFiles,      \* what the directories may hold at the start
          MaxRestarts,   \* restarts of nethosd
          NoJob, NoEntry

\* NoJob says that nobody holds the lock.
ASSUME JobsAssumption == NoJob \notin Jobs /\ Ticking \subseteq Readers

VARIABLES job,           \* per package request: phase, op, name and npkg's verdict
          PKG_LOCK,      \* the request that holds it, or NoJob
          PKG_JOB,       \* what /api/packages tells: the name at work, the last verdict
          files,         \* per directory and name: NoEntry, "shown" or "hidden"
          _app_cache,    \* the list and its age; Fresh is too old
          reader,        \* per surface: a load_apps under way
          shown,         \* the list each surface last received
          jobRestarts

jobVars == <<job, PKG_LOCK, PKG_JOB, files, _app_cache, reader, shown, jobRestarts>>

Verdict == {"none", "ok", "failed"}
IdleJob == [phase |-> "idle", op |-> "install", name |-> NoEntry, rc |-> "none"]
NoStatus == [active |-> NoJob, ok |-> "none"]
Expired == [age |-> Fresh, apps |-> {}]
NotReading == [phase |-> "idle", age |-> 0, apps |-> {}]

JobsInitAt(there) ==
  /\ job = [j \in Jobs |-> IdleJob] /\ PKG_LOCK = NoJob /\ PKG_JOB = NoStatus
  /\ files = there /\ _app_cache = Expired
  /\ reader = [r \in Readers |-> NotReading] /\ shown = [r \in Readers |-> {}]
  /\ jobRestarts = 0

Layouts == [1..Len(Dirs) -> [Entries -> {NoEntry, "shown", "hidden"}]]
JobsInit == \E there \in AppFiles : JobsInitAt(there)

\* The directories hold files, and a list stays for some time.
ASSUME AppsAssumption == AppFiles \subseteq Layouts /\ Fresh \in Nat

pkgVars == <<job, PKG_LOCK, PKG_JOB, files>>
appVars == <<_app_cache, reader, shown>>

-----------------------------------------------------------------------------
(* Applications.                                                           *)

\* The list: of each name the first directory whose file parses to an entry
\* that is shown.  A hidden one does not hide those of later directories.
load_apps ==
  {i \in Entries \X (1..Len(Dirs)) :
     files[i[2]][i[1]] = "shown" /\ \A e \in 1..(i[2] - 1) : files[e][i[1]] # "shown"}

MutUsable == _app_cache.apps # {}
Usable == _app_cache.age < Fresh /\ _app_cache.apps # {}

\* A request for the list is answered from the cache, or reads the disk: the
\* age of the answer counts from before the reading.
AskApps(r) ==
  /\ reader[r].phase = "idle"
  /\ IF Usable THEN shown' = [shown EXCEPT ![r] = _app_cache.apps] /\ UNCHANGED reader
               ELSE /\ reader' = [reader EXCEPT ![r].phase = "reading"] /\ UNCHANGED shown
  /\ UNCHANGED <<pkgVars, _app_cache, jobRestarts>>

ReadDirs(r) ==
  /\ reader[r].phase = "reading"
  /\ reader' = [reader EXCEPT ![r].phase = "listed", ![r].apps = load_apps]
  /\ UNCHANGED <<pkgVars, _app_cache, shown, jobRestarts>>

StoreApps(r) ==
  /\ reader[r].phase = "listed"
  /\ _app_cache' = [age |-> reader[r].age, apps |-> reader[r].apps]
  /\ shown' = [shown EXCEPT ![r] = reader[r].apps] /\ reader' = [reader EXCEPT ![r] = NotReading]
  /\ UNCHANGED <<pkgVars, jobRestarts>>

Older(a) == IF a < Fresh THEN a + 1 ELSE Fresh
AgeOf(r) == IF reader[r].phase = "idle" THEN 0 ELSE Older(reader[r].age)
Tick ==
  /\ _app_cache' = [_app_cache EXCEPT !.age = Older(@)]
  /\ reader' = [r \in Readers |-> [reader[r] EXCEPT !.age = AgeOf(r)]]
  /\ UNCHANGED <<pkgVars, shown, jobRestarts>>

-----------------------------------------------------------------------------
(* Package jobs.                                                           *)

Phase(j, p) == job' = [job EXCEPT ![j].phase = p]

\* POST /api/packages: refused while a job is at work, else a thread starts.
\* The job counts as at work only once its thread has the lock.
RequestJob(j) ==
  /\ job[j].phase = "idle" /\ PKG_JOB.active = NoJob
  /\ \E op \in {"install", "remove"}, n \in Entries :
       job' = [job EXCEPT ![j] = [phase |-> "waiting", op |-> op, name |-> n, rc |-> "none"]]
  /\ UNCHANGED <<PKG_LOCK, PKG_JOB, files, appVars, jobRestarts>>

MutFree == TRUE
Free == PKG_LOCK = NoJob

BeginJob(j) ==
  /\ job[j].phase = "waiting" /\ Free
  /\ PKG_LOCK' = j /\ PKG_JOB' = [PKG_JOB EXCEPT !.active = job[j].name]
  /\ Phase(j, "starting")
  /\ UNCHANGED <<files, appVars, jobRestarts>>

\* The verdict of the job before stays until here; then npkg is started.
StartNpkg(j) ==
  /\ job[j].phase = "starting"
  /\ PKG_JOB' = [PKG_JOB EXCEPT !.ok = "none"] /\ Phase(j, "working")
  /\ UNCHANGED <<PKG_LOCK, files, appVars, jobRestarts>>

\* npkg ends: done, or failed with or without having changed the files.
Done(j, rc) ==
  \/ rc = "failed" /\ UNCHANGED files
  \/ files' = [files EXCEPT ![1][job[j].name] =
                 IF job[j].op = "install" THEN "shown" ELSE NoEntry]
NpkgEnds(j) ==
  /\ job[j].phase = "working"
  /\ \E rc \in {"ok", "failed"} :
       Done(j, rc) /\ job' = [job EXCEPT ![j] = [job[j] EXCEPT !.phase = "exited", !.rc = rc]]
  /\ UNCHANGED <<PKG_LOCK, PKG_JOB, appVars, jobRestarts>>

ReportJob(j) ==
  /\ job[j].phase = "exited"
  /\ PKG_JOB' = [PKG_JOB EXCEPT !.ok = job[j].rc] /\ Phase(j, "judged")
  /\ UNCHANGED <<PKG_LOCK, files, appVars, jobRestarts>>

LeaveJob(j) ==
  /\ job[j].phase = "judged"
  /\ PKG_JOB' = [PKG_JOB EXCEPT !.active = NoJob] /\ Phase(j, "reported")
  /\ UNCHANGED <<PKG_LOCK, files, appVars, jobRestarts>>

EndJob(j) ==
  /\ job[j].phase = "reported"
  /\ _app_cache' = [_app_cache EXCEPT !.age = Fresh]
  /\ PKG_LOCK' = NoJob /\ job' = [job EXCEPT ![j] = [IdleJob EXCEPT !.phase = "done"]]
  /\ UNCHANGED <<PKG_JOB, files, reader, shown, jobRestarts>>

\* An npkg that outlived nethosd: sudo runs it as root, out of reach of the
\* user's systemd.
OrphanEnds(j) ==
  /\ job[j].phase = "orphan" /\ Done(j, "failed")
  /\ job' = [job EXCEPT ![j] = [IdleJob EXCEPT !.phase = "done"]]
  /\ UNCHANGED <<PKG_LOCK, PKG_JOB, appVars, jobRestarts>>

-----------------------------------------------------------------------------
\* nethosd ends and is started again: its threads are gone, an npkg goes on.
RestartJobs ==
  /\ jobRestarts < MaxRestarts /\ jobRestarts' = jobRestarts + 1
  /\ job' = [j \in Jobs |->
       CASE job[j].phase \in {"idle", "orphan"} -> job[j]
         [] job[j].phase = "working" -> [job[j] EXCEPT !.phase = "orphan"]
         [] OTHER -> [IdleJob EXCEPT !.phase = "done"]]
  /\ PKG_LOCK' = NoJob /\ PKG_JOB' = NoStatus
  /\ _app_cache' = Expired /\ reader' = [r \in Readers |-> NotReading]
  /\ UNCHANGED <<files, shown>>

JobSteps(j) ==
  \/ BeginJob(j) \/ StartNpkg(j) \/ NpkgEnds(j) \/ ReportJob(j) \/ LeaveJob(j)
  \/ EndJob(j) \/ OrphanEnds(j)
AnswerSteps(r) == ReadDirs(r) \/ StoreApps(r)
ListSteps(r) == AskApps(r) \/ AnswerSteps(r)

JobsNext ==
  \/ \E j \in Jobs : RequestJob(j) \/ JobSteps(j)
  \/ \E r \in Readers : ListSteps(r)
  \/ Tick \/ RestartJobs

\* Threads run, npkg ends and time passes.  The dock asks again at the ticks its
\* host evaluates in it every second (shell.js:565-568, nethos-view:974), whether
\* or not the event stream lives.  The launcher asks at load and when opened, the
\* desktop for its widgets at load and on a reload (shell.js:1117, 1136, 1515):
\* nothing obliges them to ask again, and only what they asked is answered.
JobsFairness ==
  /\ WF_jobVars(Tick)
  /\ \A j \in Jobs : WF_jobVars(JobSteps(j))
  /\ \A r \in Readers : WF_jobVars(AnswerSteps(r))
  /\ \A r \in Ticking : WF_jobVars(ListSteps(r))
JobsSpec == JobsInit /\ [][JobsNext]_jobVars /\ JobsFairness

-----------------------------------------------------------------------------
JobsTypeOK ==
  /\ job \in [Jobs -> [phase : {"idle", "waiting", "starting", "working", "exited", "judged",
                                "reported", "orphan", "done"},
                       op : {"install", "remove"}, name : Entries \cup {NoEntry},
                       rc : Verdict]]
  /\ PKG_LOCK \in Jobs \cup {NoJob}
  /\ PKG_JOB \in [active : Entries \cup {NoJob}, ok : Verdict]
  /\ files \in Layouts
  /\ _app_cache.age \in 0..Fresh

\* However often a button is clicked, one nethosd has at most one npkg at
\* work; its status names the package of that one, and while npkg runs it
\* carries no verdict: never that of a job still waiting or of one that has
\* ended (pkg_job).
JobsTruthful ==
  /\ \A j, k \in Jobs : job[j].phase = "working" /\ job[k].phase = "working" => j = k
  /\ \A j \in Jobs :
       /\ job[j].phase \in {"starting", "working", "exited", "judged"} => PKG_JOB.active = job[j].name
       /\ job[j].phase \in {"working", "exited"} => PKG_JOB.ok = "none"

\* Every job accepted comes to an end, and in the end the dock shows the
\* applications that are there, though a list read before a job ended may be
\* stored after it, by its own request or another surface's (pkg_job, load_apps).
JobsCatchUp ==
  <>[](/\ \A j \in Jobs : job[j].phase \in {"idle", "done"}
       /\ \A r \in Ticking : shown[r] = load_apps)
=============================================================================

--------------------------- MODULE NethosdLaunch ---------------------------
(***************************************************************************)
(* Opening an application (nethosd.py /api/launch, launch_web_app).  A page *)
(* is opened by an app host, a process behind a socket that every host     *)
(* unlinks and binds for itself; nethosd starts one when none answers, and *)
(* falls back to a process of its own for the window.  Requests run side   *)
(* by side, and hosts die.                                                 *)
(***************************************************************************)
EXTENDS Naturals

CONSTANTS Launches,      \* requests a behaviour may make
          WebApps,       \* applications with a manifest: windows, not widgets
          Hosts,         \* app hosts that may ever run
          Polls,         \* tries to reach a host that was started (50 in the code)
          MaxDeaths,     \* hosts and windows that die
          MaxSlow,       \* connections that time out though the host is up
          NoHost

VARIABLES host,          \* per host: "off", "starting", "listening" or "dead"
          owner,         \* the host the socket's name leads to, or led to
          inbox,         \* per host: requests delivered and not yet opened; of NoHost,
                         \* those whose window has a process of its own
          launch,        \* per request: phase, application, target, tries, answer
          window,        \* requests whose window is open, with the host it is of
          opened,        \* history: requests whose window opened, or died with a host
          deaths, slow

launchVars == <<host, owner, inbox, launch, window, opened, deaths, slow>>
hostVars == <<host, owner, inbox, window, opened, deaths>>

NoLaunch == [phase |-> "idle", app |-> NoHost, query |-> FALSE, tries |-> 0, ok |-> FALSE]
LaunchInitAt(h) ==
  /\ host = [x \in Hosts |-> IF x = h THEN "listening" ELSE "off"] /\ owner = h
  /\ inbox = [x \in Hosts \cup {NoHost} |-> {}] /\ launch = [r \in Launches |-> NoLaunch]
  /\ window = {} /\ opened = {} /\ deaths = 0 /\ slow = 0
\* The shell has bound the socket already, or not.
LaunchInit == \E h \in Hosts \cup {NoHost} : LaunchInitAt(h)

Go(r, p) == launch' = [launch EXCEPT ![r].phase = p]
Answer(r, b) == launch' = [launch EXCEPT ![r].phase = "done", ![r].ok = b]
At(r, p) == launch[r].phase = p

-----------------------------------------------------------------------------
(* A request's thread.                                                     *)

AskLaunch(r) ==
  /\ At(r, "idle")
  /\ \E a \in WebApps, q \in BOOLEAN :
       launch' = [launch EXCEPT ![r] = [NoLaunch EXCEPT !.phase = "asked", !.app = a, !.query = q]]
  /\ UNCHANGED <<hostVars, slow>>

\* Without a target, a window of the application that is open is focused.
AlreadyOpen(r) == ~launch[r].query /\ \E w \in window : launch[w[1]].app = launch[r].app
LookForWindow(r) ==
  /\ At(r, "asked")
  /\ IF AlreadyOpen(r) THEN launch' = [launch EXCEPT ![r].phase = "focused", ![r].ok = TRUE]
     ELSE Go(r, "probe")
  /\ UNCHANGED <<hostVars, slow>>

\* apphost_send: who connects has reached a host that listens; a slow one may
\* miss the time-out.
Answers == owner # NoHost /\ host[owner] = "listening"
Reach(yes, no) ==
  \/ Answers /\ yes /\ UNCHANGED slow
  \/ Answers /\ slow < MaxSlow /\ slow' = slow + 1 /\ no
  \/ ~Answers /\ no /\ UNCHANGED slow

\* ensure_apphost: the socket, or a host started and tried again and again.
StartHost(h) == h \in Hosts /\ host[h] = "off" /\ host' = [host EXCEPT ![h] = "starting"]
StartSome ==
  \/ \E h \in Hosts : StartHost(h)
  \/ (\A h \in Hosts : host[h] # "off") /\ UNCHANGED host
Probe(r) ==
  /\ At(r, "probe")
  /\ Reach(Go(r, "send") /\ UNCHANGED host,
           launch' = [launch EXCEPT ![r].phase = "poll", ![r].tries = Polls] /\ StartSome)
  /\ UNCHANGED <<owner, inbox, window, opened, deaths>>

Poll(r) ==
  /\ At(r, "poll")
  /\ IF launch[r].tries = 0 THEN Go(r, "alone") /\ UNCHANGED slow
     ELSE Reach(Go(r, "send"), launch' = [launch EXCEPT ![r].tries = @ - 1])
  /\ UNCHANGED hostVars

\* The window's description is sent; if that fails it gets a host of its own.
MutUnsent(r) == Answer(r, TRUE)
Unsent(r) == Go(r, "alone")
Send(r) ==
  /\ At(r, "send")
  /\ Reach(Answer(r, TRUE) /\ inbox' = [inbox EXCEPT ![owner] = @ \cup {r}],
           Unsent(r) /\ UNCHANGED inbox)
  /\ UNCHANGED <<host, owner, window, opened, deaths>>

\* spawn() of nethos-view, else of chromium: true when the program is there.
SpawnAlone(r) ==
  /\ At(r, "alone")
  /\ \/ Answer(r, TRUE) /\ inbox' = [inbox EXCEPT ![NoHost] = @ \cup {r}]
     \/ Answer(r, FALSE) /\ UNCHANGED inbox
  /\ UNCHANGED <<host, owner, window, opened, deaths, slow>>

LaunchThread(r) == LookForWindow(r) \/ Probe(r) \/ Poll(r) \/ Send(r) \/ SpawnAlone(r)

-----------------------------------------------------------------------------
(* The hosts.                                                              *)

\* The session starts the shell again, a host like any other.
ShellReturns == (\E h \in Hosts : StartHost(h)) /\ UNCHANGED <<owner, inbox, launch, window,
                                                              opened, deaths, slow>>
Binds(h) ==
  /\ host[h] = "starting" /\ host' = [host EXCEPT ![h] = "listening"] /\ owner' = h
  /\ UNCHANGED <<inbox, launch, window, opened, deaths, slow>>

\* A host goes on taking what was sent to it when another took the name.
Opens(h) ==
  /\ h \in Hosts => host[h] = "listening"
  /\ \E r \in inbox[h] :
       /\ inbox' = [inbox EXCEPT ![h] = @ \ {r}] /\ window' = window \cup {<<r, h>>}
       /\ opened' = opened \cup {r}
  /\ UNCHANGED <<host, owner, launch, deaths, slow>>

\* With a host go its windows and what it had not opened; the socket's name
\* stays and leads nowhere.
HostDies(h) ==
  /\ host[h] \in {"starting", "listening"} /\ deaths < MaxDeaths /\ deaths' = deaths + 1
  /\ host' = [host EXCEPT ![h] = "dead"] /\ inbox' = [inbox EXCEPT ![h] = {}]
  /\ window' = {w \in window : w[2] # h} /\ opened' = opened \cup inbox[h]
  /\ UNCHANGED <<owner, launch, slow>>

\* A process of its own exits straight away: spawn() logs it.
AloneDies(r) ==
  /\ r \in inbox[NoHost] /\ deaths < MaxDeaths /\ deaths' = deaths + 1
  /\ inbox' = [inbox EXCEPT ![NoHost] = @ \ {r}] /\ opened' = opened \cup {r}
  /\ UNCHANGED <<host, owner, launch, window, slow>>

LaunchNext ==
  \/ \E r \in Launches : AskLaunch(r) \/ LaunchThread(r) \/ AloneDies(r)
  \/ \E h \in Hosts : Binds(h) \/ HostDies(h)
  \/ \E h \in Hosts \cup {NoHost} : Opens(h)
  \/ ShellReturns

\* Threads run, and a host or a process that was started comes up.
LaunchFairness ==
  /\ \A r \in Launches : WF_launchVars(LaunchThread(r))
  /\ \A h \in Hosts : WF_launchVars(Binds(h))
  /\ \A h \in Hosts \cup {NoHost} : WF_launchVars(Opens(h))
LaunchSpec == LaunchInit /\ [][LaunchNext]_launchVars /\ LaunchFairness

-----------------------------------------------------------------------------
LaunchTypeOK ==
  /\ host \in [Hosts -> {"off", "starting", "listening", "dead"}]
  /\ owner \in Hosts \cup {NoHost} /\ window \subseteq Launches \X (Hosts \cup {NoHost})
  /\ opened \subseteq Launches /\ deaths \in 0..MaxDeaths /\ slow \in 0..MaxSlow
  /\ \A r \in Launches : launch[r].phase \in {"idle", "asked", "focused", "probe", "poll", "send",
                                              "alone", "done"}

\* Every launch is answered, and one that reports success without having
\* focused a window opens one, unless the host that took it died: whoever owns
\* the socket meanwhile, and however slow its host (launch_web_app).
LaunchOpens ==
  <>[](\A r \in Launches :
         /\ launch[r].phase \in {"idle", "focused", "done"}
         /\ At(r, "done") /\ launch[r].ok => r \in opened)
=============================================================================

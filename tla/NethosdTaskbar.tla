--------------------------- MODULE NethosdTaskbar ---------------------------
(***************************************************************************)
(* The window list under Wayfire (nethosd.py WayfireIPC.views,             *)
(* wayfire_event_loop, compositor_event_loop) as the taskbar comes to show *)
(* it: the list is cached for 0.8 s, cleared by the compositor's events,   *)
(* and asked for when an event is announced or a tick comes.  Requests run *)
(* in threads, the event loop in another, and the stream may break.        *)
(***************************************************************************)
EXTENDS Naturals, Sequences

CONSTANTS Windows,       \* windows that may be mapped
          Askers,        \* requests for /api/windows that may be under way
          Fresh,         \* ticks a list stays in the cache (0.8 s in the code)
          MaxChanges,    \* windows mapped and unmapped
          MaxBreaks,     \* times the event stream breaks
          NoAsker

VARIABLES views,         \* the windows the compositor has
          stream,        \* "connected" or "down", and events not yet read
          viewCache,     \* the list and its age; Fresh is too old
          asker,         \* per request: phase, age and list
          ipcLock,       \* WayfireIPC._lock: the request whose call is under way
          told,          \* an event was announced and the taskbar has not asked yet
          taskbar,       \* the list the taskbar shows
          changes, breaks

taskVars == <<views, stream, viewCache, asker, ipcLock, told, taskbar, changes, breaks>>

Idle == [phase |-> "idle", age |-> 0, list |-> {}]
Empty_ == [age |-> Fresh, list |-> {}]
TaskbarInitAt(v) ==
  /\ views = v /\ stream = [up |-> FALSE, events |-> 0] /\ viewCache = Empty_
  /\ asker = [a \in Askers |-> Idle] /\ ipcLock = NoAsker /\ told = FALSE /\ taskbar = {}
  /\ changes = 0 /\ breaks = 0
TaskbarInit == \E v \in SUBSET Windows : TaskbarInitAt(v)

-----------------------------------------------------------------------------
(* The compositor and its event loop.                                      *)

\* A window is mapped or unmapped; who watches is told.
Change ==
  /\ changes < MaxChanges /\ changes' = changes + 1
  /\ \E w \in Windows : views' = IF w \in views THEN views \ {w} ELSE views \cup {w}
  /\ stream' = [stream EXCEPT !.events = IF stream.up THEN @ + 1 ELSE @]
  /\ UNCHANGED <<viewCache, asker, ipcLock, told, taskbar, breaks>>

\* compositor_event_loop: connect and watch; what changed before is not told.
Connect ==
  /\ ~stream.up /\ stream' = [up |-> TRUE, events |-> 0]
  /\ UNCHANGED <<views, viewCache, asker, ipcLock, told, taskbar, changes, breaks>>

\* One event: the cache is cleared, then the change announced.
MutCleared == viewCache
Cleared == Empty_
TakeEvent ==
  /\ stream.events > 0 /\ stream' = [stream EXCEPT !.events = @ - 1]
  /\ viewCache' = Cleared /\ told' = TRUE
  /\ UNCHANGED <<views, asker, ipcLock, taskbar, changes, breaks>>

\* The socket breaks with what it held; announced as "disconnected".
Break ==
  /\ stream.up /\ breaks < MaxBreaks /\ breaks' = breaks + 1
  /\ stream' = [up |-> FALSE, events |-> 0]
  /\ UNCHANGED <<views, viewCache, asker, ipcLock, told, taskbar, changes>>

-----------------------------------------------------------------------------
(* Requests.                                                               *)

\* refreshTasks: because it was told, or at a tick.  A list that is fresh is
\* the answer, else the compositor is called, one call at a time.
FreshEnough == viewCache.age < Fresh
Ask(a) ==
  /\ asker[a].phase = "idle" /\ told' = FALSE
  /\ asker' = [asker EXCEPT ![a] =
       IF FreshEnough THEN [phase |-> "answered", age |-> 0, list |-> viewCache.list]
       ELSE [Idle EXCEPT !.phase = "calling"]]
  /\ UNCHANGED <<views, stream, viewCache, ipcLock, taskbar, changes, breaks>>

Call(a) ==
  /\ asker[a].phase = "calling" /\ ipcLock = NoAsker /\ ipcLock' = a
  /\ UNCHANGED <<views, stream, viewCache, asker, told, taskbar, changes, breaks>>

\* The reply: the windows of that moment, or nothing when the call fails.
Reply(a) ==
  /\ ipcLock = a /\ asker[a].phase = "calling" /\ ipcLock' = NoAsker
  /\ \E l \in {views} \cup (IF stream.up THEN {} ELSE {{}}) :
       asker' = [asker EXCEPT ![a].phase = "replied", ![a].list = l]
  /\ UNCHANGED <<views, stream, viewCache, told, taskbar, changes, breaks>>

\* The list goes to the cache, as old as the request.
Store(a) ==
  /\ asker[a].phase = "replied"
  /\ viewCache' = [age |-> asker[a].age, list |-> asker[a].list]
  /\ asker' = [asker EXCEPT ![a].phase = "answered", ![a].age = 0]
  /\ UNCHANGED <<views, stream, ipcLock, told, taskbar, changes, breaks>>

\* Answers arrive in any order, and the last to arrive is shown.
Show(a) ==
  /\ asker[a].phase = "answered"
  /\ taskbar' = asker[a].list /\ asker' = [asker EXCEPT ![a] = Idle]
  /\ UNCHANGED <<views, stream, viewCache, ipcLock, told, changes, breaks>>

Older(a) == IF a < Fresh THEN a + 1 ELSE Fresh
Ages ==
  /\ viewCache' = [viewCache EXCEPT !.age = Older(@)]
  /\ asker' = [a \in Askers |-> IF asker[a].phase \in {"calling", "replied"}
                                THEN [asker[a] EXCEPT !.age = Older(@)] ELSE asker[a]]
  /\ UNCHANGED <<views, stream, ipcLock, told, taskbar, changes, breaks>>

AskSteps(a) == Ask(a) \/ Call(a) \/ Reply(a) \/ Store(a) \/ Show(a)
TaskbarNext ==
  \/ Change \/ Connect \/ TakeEvent \/ Break \/ Ages
  \/ \E a \in Askers : AskSteps(a)

\* The loop connects again every two seconds, threads run and time passes; the
\* compositor owes no change.  The panel asks again at the ticks its host
\* evaluates in it every second, at most every 15 s (shell.js:220-224,
\* nethos-view:974): those do not come over the event stream, which may be
\* dropped, nor from the page's own timers, which WebKit stops.
TaskbarFairness ==
  /\ WF_taskVars(Connect) /\ WF_taskVars(TakeEvent) /\ WF_taskVars(Ages)
  /\ \A a \in Askers : WF_taskVars(AskSteps(a))
TaskbarSpec == TaskbarInit /\ [][TaskbarNext]_taskVars /\ TaskbarFairness

-----------------------------------------------------------------------------
TaskbarTypeOK ==
  /\ views \subseteq Windows /\ taskbar \subseteq Windows /\ told \in BOOLEAN
  /\ viewCache.age \in 0..Fresh /\ viewCache.list \subseteq Windows
  /\ stream.up \in BOOLEAN /\ stream.events \in 0..MaxChanges
  /\ ipcLock \in Askers \cup {NoAsker} /\ changes \in 0..MaxChanges /\ breaks \in 0..MaxBreaks

\* In the end the taskbar shows the windows there are, whatever list was
\* stored over a cleared cache, whichever answer came last and whatever event
\* a broken stream lost (views, wayfire_event_loop).
TaskbarCatchesUp == <>[](taskbar = views)
=============================================================================

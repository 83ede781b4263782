---------------------------- MODULE NethosdTray ----------------------------
(***************************************************************************)
(* The tray of the panel (nethosd.py tray_run): nethosd is the watcher on  *)
(* the session bus with which applications register their icon.  One GLib  *)
(* loop takes the bus's messages in their order; the applications come and *)
(* go meanwhile, and another watcher may hold the name.                    *)
(***************************************************************************)
EXTENDS Sequences

CONSTANTS TrayApps,      \* bus names of applications; the bus gives none out twice
          TrayPaths,     \* object paths an icon may have
          NoItem

ASSUME ItemsAssumption == NoItem \notin TrayApps \X TrayPaths

VARIABLES alive,         \* applications on the bus
          registered,    \* per application: paths it has registered since it started
          bus,           \* messages not yet taken by nethosd's loop, in order
          tray,          \* "off", "watching", "running"
          reading,       \* the item whose properties are being asked for
          items,         \* TRAY["items"]: pairs of service and path
          started,       \* names given out so far
          unread         \* history: registered items whose properties were not had

trayVars == <<alive, registered, bus, tray, reading, items, started, unread>>

TrayInit ==
  /\ alive = {} /\ registered = [a \in TrayApps |-> {}] /\ bus = <<>> /\ started = {}
  /\ tray = "off" /\ reading = NoItem /\ items = {} /\ unread = {}

-----------------------------------------------------------------------------
(* The applications.                                                       *)

AppStarts(a) ==
  /\ a \notin started /\ started' = started \cup {a}
  /\ alive' = alive \cup {a}
  /\ UNCHANGED <<registered, bus, tray, reading, items, unread>>

\* An application registers a path once, with a watcher that has the name.
AppRegisters(a, p) ==
  /\ a \in alive /\ p \notin registered[a] /\ tray # "off"
  /\ registered' = [registered EXCEPT ![a] = @ \cup {p}]
  /\ bus' = Append(bus, [type |-> "register", service |-> a, path |-> p])
  /\ UNCHANGED <<alive, tray, reading, items, started, unread>>

\* The bus tells those who asked that the name has no owner any more.
AppQuits(a) ==
  /\ a \in alive /\ alive' = alive \ {a} /\ registered' = [registered EXCEPT ![a] = {}]
  /\ bus' = IF tray = "running" THEN Append(bus, [type |-> "gone", service |-> a, path |-> NoItem])
            ELSE bus
  /\ UNCHANGED <<tray, reading, items, started, unread>>

-----------------------------------------------------------------------------
(* nethosd's thread.                                                       *)

\* Watcher() takes the name, or another host has it and the thread ends.
TakeName ==
  /\ tray = "off" /\ tray' \in {"watching", "off"}
  /\ UNCHANGED <<alive, registered, bus, reading, items, started, unread>>
\* add_signal_receiver, then the loop.
RunLoop ==
  /\ tray = "watching" /\ tray' = "running"
  /\ UNCHANGED <<alive, registered, bus, reading, items, started, unread>>

Ready(type) == /\ tray = "running" /\ reading = NoItem /\ bus # <<>> /\ Head(bus).type = type
               /\ bus' = Tail(bus)

\* RegisterStatusNotifierItem: add() asks the application for its properties
\* and waits; messages queue up behind.
TakeRegistration ==
  /\ Ready("register") /\ reading' = <<Head(bus).service, Head(bus).path>>
  /\ UNCHANGED <<alive, registered, tray, items, started, unread>>

\* What the list may be after the properties were asked for: an application that
\* is not there any more has no entry, and one that answers no Get, or too late,
\* has none either (read_item).
MutAnswered == {items \cup {reading}}
Answered == {items} \cup (IF reading[1] \in alive THEN {items \cup {reading}} ELSE {})
AddItem ==
  /\ reading # NoItem /\ items' \in Answered /\ reading' = NoItem
  /\ unread' = (unread \cup {reading}) \ items'
  /\ UNCHANGED <<alive, registered, bus, tray, started>>

on_name_owner_changed ==
  /\ Ready("gone")
  /\ items' = {i \in items : i[1] # Head(bus).service}
  /\ UNCHANGED <<alive, registered, tray, reading, started, unread>>

\* tray_activate: a click asks the bus for the item; it fails when the
\* application has gone and changes nothing here.

TrayNext ==
  \/ \E a \in TrayApps : AppStarts(a) \/ AppQuits(a) \/ \E p \in TrayPaths : AppRegisters(a, p)
  \/ TakeName \/ RunLoop \/ TakeRegistration \/ AddItem \/ on_name_owner_changed

TrayThread == RunLoop \/ TakeRegistration \/ AddItem \/ on_name_owner_changed
TraySpec == TrayInit /\ [][TrayNext]_trayVars

-----------------------------------------------------------------------------
TrayTypeOK ==
  /\ alive \subseteq TrayApps /\ items \subseteq TrayApps \X TrayPaths
  /\ reading \in (TrayApps \X TrayPaths) \cup {NoItem}
  /\ tray \in {"off", "watching", "running"} /\ alive \subseteq started

\* Once the loop has taken every message, the tray shows the icons that running
\* applications have registered, and no others: an application that quit while
\* its registration waited, while its properties were asked for or before
\* nethosd listened, leaves none (add, on_name_owner_changed).  But for those
\* whose properties could not be had: nothing asks for them again, so such an
\* application runs on without its icon (nethosd.py:2545, 2550).
TrayMatches ==
  tray = "running" /\ bus = <<>> /\ reading = NoItem =>
    items = {i \in TrayApps \X TrayPaths : i[2] \in registered[i[1]]} \ unread
=============================================================================

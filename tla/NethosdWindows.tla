--------------------------- MODULE NethosdWindows ---------------------------
(***************************************************************************)
(* Windows under sway (nethosd.py window_action, apply_window_rules_sway,  *)
(* snapper).  A window is moved by its user, by a request's thread, by the *)
(* event loop's thread and by the snapper's, which looks every 0.2 s at    *)
(* the focused floating window and takes a geometry that has settled at an *)
(* edge for a drag to it.  A command is in flight until sway runs it.      *)
(* Rectangles are in pixels of the output.                                 *)
(***************************************************************************)
EXTENDS Integers, FiniteSets

CONSTANTS Panes,         \* windows
          SizeOf,        \* per window, width and height of its manifest
          Widgets,       \* windows of apps whose manifest says "widget"
          Area,          \* rectangle of the workspace
          Output,        \* width and height of the output
          Edge,          \* EDGE
          Suppressed,    \* ticks of the snapper in the second of SNAP_SUPPRESS
          Drops,         \* places a user drags a window to
          MaxMoves,      \* actions of the user
          NoPane, NoRect

VARIABLES pane,          \* per window: where it is, whether it floats, its rectangle
          focus_,        \* the focused window, NoPane for a shell surface
          inFlight,      \* commands sway has not run: window, effect and sender
          suppress,      \* SNAP_SUPPRESS, in ticks left
          track,         \* snapper's last_key, settled and last_cmd
          seen,          \* the snapper has had a tick since the window moved
          moves

paneVars == <<pane, focus_, inFlight, suppress, track, seen, moves>>

Rect(x, y, w, h) == [x |-> x, y |-> y, w |-> w, h |-> h]
NoTrack == [key |-> NoRect, settled |-> 0, cmd |-> NoRect]
Least(a, b) == IF a < b THEN a ELSE b
Centred(p) ==
  LET s == SizeOf[p] IN
  Rect(Area.x + (IF s.w < Area.w THEN (Area.w - s.w) \div 2 ELSE 0),
       Area.y + (IF s.h < Area.h THEN (Area.h - s.h) \div 2 ELSE 0), s.w, s.h)
\* widget_geometry, for the position "top-right" all widgets have.
Placed(p) == Rect(Output.w - SizeOf[p].w - 16, 56, SizeOf[p].w, SizeOf[p].h)

WindowsInit ==
  /\ pane = [p \in Panes |-> [at |-> "closed", float |-> TRUE, rect |-> Centred(p)]]
  /\ focus_ = NoPane /\ inFlight = {} /\ suppress = [p \in Panes |-> 0]
  /\ track = [p \in Panes |-> NoTrack]
  /\ seen = [p \in Panes |-> FALSE] /\ moves = 0

Shown(p) == pane[p].at = "shown"
Moves == moves < MaxMoves /\ moves' = moves + 1
\* The user is slower than a tick of the snapper, and sees what was done to a
\* window before doing more to it.
Sees(p) == seen[p] /\ \A c \in inFlight : c.pane = p => c.by = "snapper"
Sends(p, do, to, by) == inFlight' = inFlight \cup {[pane |-> p, do |-> do, to |-> to, by |-> by]}

-----------------------------------------------------------------------------
(* The user, and sway.                                                     *)

\* A window opens floating and centred, with the focus (sway/config:111), under
\* an id nothing knows yet.
OpenPane(p) ==
  /\ Moves /\ pane[p].at = "closed" /\ \A c \in inFlight : c.pane # p
  /\ track' = [track EXCEPT ![p] = NoTrack] /\ suppress' = [suppress EXCEPT ![p] = 0]
  /\ pane' = [pane EXCEPT ![p] = [at |-> "new", float |-> TRUE, rect |-> Centred(p)]]
  /\ focus_' = p
  /\ seen' = [seen EXCEPT ![p] = FALSE]
  /\ UNCHANGED inFlight

Drag(p) ==
  /\ Moves /\ focus_ = p /\ Shown(p) /\ pane[p].float /\ Sees(p)
  /\ \E d \in Drops :
       /\ pane[p].rect.x # d.x \/ pane[p].rect.y # d.y
       /\ pane' = [pane EXCEPT ![p].rect.x = d.x, ![p].rect.y = d.y]
  /\ seen' = [seen EXCEPT ![p] = FALSE]
  /\ UNCHANGED <<focus_, inFlight, suppress, track>>

Focus ==
  /\ Moves /\ \E p \in {q \in Panes : Shown(q)} \cup {NoPane} : focus_ # p /\ focus_' = p
  /\ UNCHANGED <<pane, inFlight, suppress, track, seen>>

\* sway runs a command: "place" moves a floating window (maximize floats it
\* first), and the other words do what they say.
RunOn(q, c) ==
  CASE c.do = "close"    -> [q EXCEPT !.at = "closed"]
    [] c.do = "minimize" -> [q EXCEPT !.at = "scratch"]
    [] c.do = "show"     -> [q EXCEPT !.at = "shown"]
    [] c.do = "popout"   -> [q EXCEPT !.float = FALSE]
    [] c.do = "float"    -> [q EXCEPT !.float = TRUE]
    [] c.do = "place" /\ (q.float \/ c.by = "maximize") -> [q EXCEPT !.rect = c.to, !.float = TRUE]
    [] OTHER -> q

Run(c) ==
  LET p == c.pane
      after == IF pane[p].at = "closed" THEN pane[p] ELSE RunOn(pane[p], c)
      stays == after.rect = pane[p].rect /\ after.float = pane[p].float
  IN
  /\ inFlight' = inFlight \ {c} /\ pane' = [pane EXCEPT ![p] = after]
  /\ focus_' = IF c.do \in {"close", "minimize"} /\ focus_ = p THEN NoPane
               ELSE IF c.do \in {"show", "focus", "popout"} /\ after.at = "shown" THEN p ELSE focus_
  /\ seen' = IF stays THEN seen ELSE [seen EXCEPT ![p] = FALSE]
  /\ UNCHANGED <<suppress, track, moves>>

-----------------------------------------------------------------------------
(* nethosd's event loop and requests.                                      *)

\* apply_window_rules_sway: a widget is put in its place, others are left.
Rules(p) ==
  /\ pane[p].at = "new" /\ pane' = [pane EXCEPT ![p].at = "shown"]
  /\ IF p \in Widgets THEN Sends(p, "place", Placed(p), "rules") ELSE UNCHANGED inFlight
  /\ UNCHANGED <<focus_, suppress, track, seen, moves>>

\* window_action: maximize and restore hold the snapper off first.
Maximize(p) ==
  /\ Moves /\ Shown(p) /\ Sees(p) /\ suppress' = [suppress EXCEPT ![p] = Suppressed]
  /\ Sends(p, "place", Area, "maximize") /\ UNCHANGED <<pane, focus_, track, seen>>

Restore(p) ==
  /\ Moves /\ Shown(p) /\ Sees(p) /\ suppress' = [suppress EXCEPT ![p] = Suppressed]
  /\ Sends(p, "place", Centred(p), "restore") /\ UNCHANGED <<pane, focus_, track, seen>>

Act_(p) ==
  /\ Moves /\ pane[p].at \in {"shown", "scratch"} /\ Sees(p)
  /\ \E a \in {"close", "minimize", "focus", "popout", "float"} :
       Sends(p, IF a = "focus" /\ pane[p].at = "scratch" THEN "show" ELSE a, NoRect, "action")
  /\ UNCHANGED <<pane, focus_, suppress, track, seen>>

-----------------------------------------------------------------------------
(* The snapper.                                                            *)

LeftOf(r) == r.x <= Area.x + Edge
TopOf(r) == r.y <= Area.y + Edge
RightOf(r) == r.x + r.w >= Area.x + Area.w - Edge
BottomOf(r) == r.y + r.h >= Area.y + Area.h - Edge

MutSide(near, far, from, size) ==
  IF near = far THEN <<from, size>>
  ELSE IF far THEN <<from, size - size \div 2>> ELSE <<from + size \div 2, size \div 2>>
\* snap_zone: half of the workspace, a quarter at a corner.
Side(near, far, from, size) ==
  IF near = far THEN <<from, size>>
  ELSE IF near THEN <<from, size - size \div 2>> ELSE <<from + size \div 2, size \div 2>>
snap_zone(r) ==
  LET across == Side(LeftOf(r), RightOf(r), Area.x, Area.w)
      down == Side(TopOf(r), BottomOf(r), Area.y, Area.h)
  IN Rect(across[1], down[1], across[2], down[2])

Target(r) ==
  IF LeftOf(r) /\ TopOf(r) /\ RightOf(r) /\ BottomOf(r) THEN NoRect
  ELSE IF LeftOf(r) \/ RightOf(r) THEN snap_zone(r)
  ELSE IF TopOf(r) THEN Area ELSE NoRect

\* The tree was read, nothing else: a window that is hidden or tiled is not seen.
Looked == IF focus_ # NoPane /\ pane[focus_].at \in {"new", "shown"} /\ pane[focus_].float
          THEN focus_ ELSE NoPane

\* A geometry seen three times is at rest, and then looked at once.
Settles(t, r) ==
  IF t.key # r THEN [key |-> r, settled |-> 0, cmd |-> NoRect]
  ELSE [t EXCEPT !.settled = Least(@ + 1, 3),
                 !.cmd = IF t.settled = 1 /\ Target(r) # NoRect THEN Target(r) ELSE @]

\* The command of a request runs within the second the snapper is held off for.
HeldOff(p) ==
  IF suppress[p] = 0 THEN 0
  ELSE IF \E c \in inFlight : c.pane = p /\ c.by \in {"maximize", "restore"}
       THEN suppress[p] ELSE suppress[p] - 1
Look ==
  /\ \A c \in inFlight : c.by # "snapper"
  /\ suppress' = [p \in Panes |-> HeldOff(p)]
  /\ seen' = [p \in Panes |-> TRUE]
  /\ IF Looked = NoPane
     THEN track' = [p \in Panes |-> NoTrack] /\ UNCHANGED inFlight
     ELSE LET p == Looked IN
          /\ track' = [track EXCEPT ![p] =
               IF suppress[p] > 0 THEN NoTrack ELSE Settles(@, pane[p].rect)]
          /\ IF track'[p].cmd \notin {NoRect, track[p].cmd}
             THEN Sends(p, "place", track'[p].cmd, "snapper") ELSE UNCHANGED inFlight
  /\ UNCHANGED <<pane, focus_, moves>>

UserSteps(p) == OpenPane(p) \/ Drag(p) \/ Maximize(p) \/ Restore(p) \/ Act_(p)
WindowsNext ==
  \/ \E p \in Panes : UserSteps(p) \/ Rules(p)
  \/ Focus \/ Look \/ \E c \in inFlight : Run(c)

\* sway runs what it is sent and the threads run; the user owes nothing.
WindowsFairness ==
  /\ WF_paneVars(Look) /\ WF_paneVars(\E c \in inFlight : Run(c))
  /\ WF_paneVars(\E p \in Panes : Rules(p))
WindowsSpec == WindowsInit /\ [][WindowsNext]_paneVars /\ WindowsFairness

-----------------------------------------------------------------------------
WindowsTypeOK ==
  /\ \A p \in Panes : /\ pane[p].at \in {"closed", "new", "shown", "scratch"}
                      /\ suppress[p] \in 0..Suppressed /\ track[p].settled \in 0..3
  /\ focus_ \in Panes \cup {NoPane} /\ moves \in 0..MaxMoves
  /\ Cardinality({c \in inFlight : c.by = "snapper"}) <= 1

\* Once the user rests, so do the windows, and a focused floating window that
\* touches an edge fills the zone of that edge: no command answers another
\* forever, and no settled drag is missed (snapper).
SnapsLand ==
  <>[](Looked # NoPane => Target(pane[Looked].rect) \in {NoRect, pane[Looked].rect})
=============================================================================

------------------------------ MODULE MCDesktop ------------------------------
(***************************************************************************)
(* nethosd in one run: its package jobs and extractions, files, settings,  *)
(* tray, launches, the taskbar's list, the windows, and the snapshots it   *)
(* asks for.  The nine share no state in the code but the process they end *)
(* with, so a behaviour is about one of them: focus says which, and the    *)
(* others stay where they start.  That process ends and starts again in    *)
(* the package jobs and the settings; the snapshots are cut off at any     *)
(* step; the other parts are checked while nethosd lives.                  *)
(***************************************************************************)
EXTENDS NethosdWork, NethosdFiles, NethosdSettings, NethosdTray, Snapshots, TLC

CONSTANTS Launches, Hosts, NoHost, Askers, NoAsker,
          Panes, Widgets, NoPane, NoRect

VARIABLES focus,
          host, owner, inbox, launch, window, opened, deaths, slow,
          views, stream, viewCache, asker, ipcLock, told, taskbar, changes, breaks,
          pane, focus_, inFlight, suppress, track, seen, moves

-----------------------------------------------------------------------------
(* One application's .desktop file: nowhere, or of the user while the      *)
(* system's says it is hidden.                                             *)

Layout(x, y) == <<[paint |-> x], [paint |-> y]>>
MCDirs == <<"sys", "user">>
MCAppFiles == {Layout(NoEntry, NoEntry), Layout("hidden", "shown")}

MCSchema == [dark |-> [type |-> "bool", default |-> 0],
             swell |-> [type |-> "range", min |-> 0, max |-> 6, default |-> 5]]

\* A folder with a file whose name another file has, and links: to the folder,
\* to a path that is free, out of the home, and from inside a folder to a file.
Dir == [kind |-> "dir"]
FileOf(c) == [kind |-> "file", id |-> c]
LinkTo(p) == [kind |-> "link", to |-> p]
Home == <<<<"t">>>> :> Dir @@ <<<<"d">>>> :> Dir @@ <<<<"d">>, <<"a">>>> :> FileOf("x")
        @@ <<<<"a">>>> :> FileOf("y") @@ <<<<"l">>>> :> LinkTo(<<<<"d">>>>)
MCNewNames == {<<"a">>, <<"b">>}
MCTrashDir == <<<<"t">>>>
MCOutside == {<<<<"etc">>>>}
MCTrees == {Home, Home @@ <<<<"d">>, <<"k">>>> :> LinkTo(<<<<"b">>>>),
            Home @@ <<<<"b">>>> :> LinkTo(<<<<"etc">>>>),
            <<<<"d">>>> :> Dir @@ <<<<"d">>, <<"a">>>> :> FileOf("x") @@ <<<<"b">>>> :> FileOf("y")
            @@ <<<<"k">>>> :> Dir @@ <<<<"k">>, <<"a">>>> :> LinkTo(<<<<"b">>>>)}

LaunchPart == INSTANCE NethosdLaunch WITH
  WebApps <- {"files"}, Polls <- 1, MaxDeaths <- 1, MaxSlow <- 1

TaskbarPart == INSTANCE NethosdTaskbar WITH
  Windows <- {"w"}, Fresh <- 1, MaxChanges <- 2, MaxBreaks <- 1

\* The workspace nethosd.py:1753 says was measured, with the output of 1366 by
\* 768 around it; the Files application and the monitor widget; a drag ends at
\* the middle of the top, at the left or in the corner of both.
WindowsPart == INSTANCE NethosdWindows WITH
  Area <- [x |-> 6, y |-> 96, w |-> 1354, h |-> 666], Output <- [w |-> 1366, h |-> 768],
  SizeOf <- [p \in Panes |-> IF p \in Widgets THEN [w |-> 260, h |-> 190]
                             ELSE [w |-> 980, h |-> 660]],
  Edge <- 24, Suppressed <- 2, MaxMoves <- 3,
  Drops <- {[x |-> 300, y |-> 96], [x |-> 10, y |-> 140], [x |-> 6, y |-> 96]}

-----------------------------------------------------------------------------
launchVars == <<host, owner, inbox, launch, window, opened, deaths, slow>>
taskVars == <<views, stream, viewCache, asker, ipcLock, told, taskbar, changes, breaks>>
paneVars == <<pane, focus_, inFlight, suppress, track, seen, moves>>
desktopVars == <<focus, jobVars, extractVars, fileVars, settingsVars, trayVars, launchVars,
                 taskVars, paneVars, snapVars>>

On(part) == focus = part
DesktopInit ==
  /\ focus \in {"jobs", "extract", "files", "settings", "tray", "launch", "taskbar", "windows",
               "snapshots"}
  /\ IF On("jobs") THEN JobsInit ELSE JobsInitAt(Layout(NoEntry, NoEntry))
  /\ ExtractInit
  /\ IF On("files") THEN FilesInit ELSE FilesInitAt(Home)
  /\ SettingsInit /\ TrayInit
  /\ IF On("launch") THEN LaunchPart!LaunchInit ELSE LaunchPart!LaunchInitAt(NoHost)
  /\ IF On("taskbar") THEN TaskbarPart!TaskbarInit ELSE TaskbarPart!TaskbarInitAt({})
  /\ WindowsPart!WindowsInit /\ SnapInit

DesktopNext ==
  /\ UNCHANGED focus
  /\ IF On("jobs") THEN JobsNext ELSE UNCHANGED jobVars
  /\ IF On("extract") THEN ExtractNext ELSE UNCHANGED extractVars
  /\ IF On("files") THEN FilesNext ELSE UNCHANGED fileVars
  /\ IF On("settings") THEN SettingsNext ELSE UNCHANGED settingsVars
  /\ IF On("tray") THEN TrayNext ELSE UNCHANGED trayVars
  /\ IF On("launch") THEN LaunchPart!LaunchNext ELSE UNCHANGED launchVars
  /\ IF On("taskbar") THEN TaskbarPart!TaskbarNext ELSE UNCHANGED taskVars
  /\ IF On("windows") THEN WindowsPart!WindowsNext ELSE UNCHANGED paneVars
  /\ IF On("snapshots") THEN SnapNext ELSE UNCHANGED snapVars

\* The fairness each module states, when a behaviour is about its part.
DesktopFairness ==
  /\ WF_jobVars(On("jobs") /\ Tick)
  /\ \A j \in Jobs : WF_jobVars(On("jobs") /\ JobSteps(j))
  /\ \A r \in Readers : WF_jobVars(On("jobs") /\ AnswerSteps(r))
  /\ \A r \in Ticking : WF_jobVars(On("jobs") /\ ListSteps(r))
  /\ \A r \in Launches : WF_launchVars(On("launch") /\ LaunchPart!LaunchThread(r))
  /\ \A h \in Hosts : WF_launchVars(On("launch") /\ LaunchPart!Binds(h))
  /\ \A h \in Hosts \cup {NoHost} : WF_launchVars(On("launch") /\ LaunchPart!Opens(h))
  /\ WF_taskVars(On("taskbar") /\ TaskbarPart!Connect)
  /\ WF_taskVars(On("taskbar") /\ TaskbarPart!TakeEvent)
  /\ WF_taskVars(On("taskbar") /\ TaskbarPart!Ages)
  /\ \A a \in Askers : WF_taskVars(On("taskbar") /\ TaskbarPart!AskSteps(a))
  /\ WF_paneVars(On("windows") /\ WindowsPart!Look)
  /\ WF_paneVars(On("windows") /\ \E c \in inFlight : WindowsPart!Run(c))
  /\ WF_paneVars(On("windows") /\ \E p \in Panes : WindowsPart!Rules(p))

DesktopSpec == DesktopInit /\ [][DesktopNext]_desktopVars /\ DesktopFairness

-----------------------------------------------------------------------------
DesktopTypeOK ==
  /\ On("jobs") => JobsTypeOK
  /\ On("extract") => ExtractTypeOK
  /\ On("files") => FilesTypeOK
  /\ On("settings") => SettingsTypeOK
  /\ On("tray") => TrayTypeOK
  /\ On("launch") => LaunchPart!LaunchTypeOK
  /\ On("taskbar") => TaskbarPart!TaskbarTypeOK
  /\ On("windows") => WindowsPart!WindowsTypeOK
  /\ On("snapshots") => SnapTypeOK

\* Every launch is answered, and one that succeeds opens or focuses a window
\* (launch_web_app, ensure_apphost).
LaunchOpens == LaunchPart!LaunchOpens

\* The dock comes to show the applications there are and the panel the windows,
\* and every package job accepted comes to an end (load_apps, views, pkg_job).
ShellCatchesUp == JobsCatchUp /\ TaskbarPart!TaskbarCatchesUp

\* Windows come to rest in the zones of the edges they were dragged to (snapper).
SnapsLand == WindowsPart!SnapsLand
=============================================================================

----------------------------- MODULE MCPackages -----------------------------
(***************************************************************************)
(* The package side in one run: what npkg plans and installs, how a        *)
(* package is laid out, how services are enabled, how a root is built and  *)
(* installed, which kernel a slot boots.  The five share no state in the   *)
(* code, so a behaviour is about one of them: focus says which, and the    *)
(* others stay at a start.                                                 *)
(***************************************************************************)
EXTENDS MCNpkgPlan, Installer, NpkgLayout, NpkgService, KernelPins

VARIABLES focus

-----------------------------------------------------------------------------
(* Trees to lay out: a file and two links, one of which may lead to the    *)
(* other, wherever a package puts its libraries, written in full or as they *)
(* are found from the link's directory.                                    *)

LibPaths == {<<"lib">>, <<"lib", "triplet">>, <<"usr", "lib">>, <<"usr", "lib", "triplet">>}
LibFiles == {Append(d, n) : d \in LibPaths, n \in {"ld", "ld-2"}}
Absolute(q) == [abs |-> TRUE, up |-> 0, to |-> q]
Relative(p, q) ==
  LET shared == Max({n \in 0 .. Len(p) - 1 : n < Len(q) /\ SubSeq(p, 1, n) = SubSeq(q, 1, n)})
  IN [abs |-> FALSE, up |-> Len(p) - 1 - shared, to |-> SubSeq(q, shared + 1, Len(q))]
Written(p, q, abs) == IF abs THEN Absolute(q) ELSE Relative(p, q)
MCTargets ==
  LET given == {Absolute(q) : q \in LibFiles} \cup {Relative(p, q) : p, q \in LibFiles}
  IN given \cup {arch_link_target(l) : l \in given}
Tree(f, a, b, chain, abs) ==
  [p \in LibFiles |-> IF p = f THEN RegularFile ELSE IF p = b THEN Written(b, f, abs[2])
                      ELSE IF p = a THEN Written(a, IF chain THEN b ELSE f, abs[1]) ELSE NoPath]
MCTrees == {Tree(f, a, b, c, abs) : f \in {p \in LibFiles : Last(p) = "ld"},
                                   a \in LibFiles, b \in LibFiles, c \in BOOLEAN,
                                   abs \in {<<TRUE, FALSE>>, <<FALSE, FALSE>>, <<FALSE, TRUE>>}}

-----------------------------------------------------------------------------
(* Units.                                                                  *)

Install(in, also, alias) == [in |-> in, also |-> also, alias |-> alias]
MCUnits == {"bus.service", "bus.socket", "net.service", "log.service"}
MCInstalls ==
  {[u \in MCUnits |->
      CASE u = "bus.service" -> Install(w, {"bus.socket"}, {"dbus"})
        [] u = "bus.socket"  -> Install({"sockets.wants"}, {"bus.service"} \cup b, {})
        [] u = "net.service" -> IF b = {} THEN NoUnit ELSE Install({}, {"log.service"}, {"nm"})
        [] u = "log.service" -> Install({"boot.wants"}, {}, {})] :
     w \in {{"boot.wants", "boot.requires"}, {}}, b \in {{}, {"net.service"}}}

-----------------------------------------------------------------------------
(* Archives: a cycle through Pre-Depends and a virtual name, with a point  *)
(* release; a kernel; regulatory.db with what npkg left of another link.   *)

Clauses(ns) == [i \in DOMAIN ns |-> <<ns[i]>>]
Deb(n, pre, deps, prov) ==
  [Package |-> n, Pre_Depends |-> Clauses(pre), Depends |-> Clauses(deps), Provides |-> prov,
   Essential |-> FALSE, Filename |-> n, accounts |-> {}, units |-> {}, files |-> {}]
Libc == [Deb("libc", <<>>, <<"gawk">>, {}) EXCEPT !.Essential = TRUE]
Gawk == [Deb("gawk", <<"libc", "bus">>, <<>>, {"awk"}) EXCEPT !.files = {<<"gawk", File>>}]
Dbus(f) == [Deb("dbus", <<"libc">>, <<"ghost">>, {"bus"})
              EXCEPT !.accounts = {"messagebus"}, !.Filename = f]
Nm == [Deb("nm", <<>>, <<"bus">>, {}) EXCEPT !.units = {"NetworkManager"}]
Regdb(v) == [Deb("regdb", <<>>, <<>>, {}) EXCEPT
              !.files = {<<"db", "alt/db">>, <<v, File>>, <<"alt/db", "db-upstream">>}]
Kernel == [Deb("kernel", <<>>, <<"awk">>, {}) EXCEPT !.files = {<<"vmlinuz", File>>}]
\* vi is an absolute link, to what the builder has; two that provide each other.
Nvi == [Deb("nvi", <<>>, <<>>, {}) EXCEPT !.files = {<<"vi", "vim">>}]
Busybox == [Deb("busybox", <<>>, <<>>, {"awk"}) EXCEPT !.files = {<<"busybox", File>>}]
Cc == Deb("cc", <<>>, <<"linker">>, {"awk"})
Ld == Deb("ld", <<>>, <<"awk">>, {"linker"})
MCArchives ==
  {<<<<Libc, Gawk, Dbus("dbus1")>>, <<Libc, Gawk, Dbus("dbus2")>>>>,
   <<<<Kernel, Nm, Dbus("dbus1")>>>>, <<<<Regdb("db-debian"), Gawk>>>>,
   <<<<Regdb("db-upstream"), Kernel, Nvi, Busybox>>>>, <<<<Cc, Ld, Libc>>>>}
Build(sets, repo) == [sets |-> sets, repo |-> repo, firmware |-> {}, keep |-> FALSE]
MCBuilds ==
  {Build({"base", "system"}, FALSE), Build({"base", "desktop"}, TRUE), Build({"typo"}, TRUE),
   [Build({"firmware"}, FALSE) EXCEPT !.firmware = {"regdb"}, !.keep = TRUE]}
MCInstallBuild == Build({"base", "kernel", "desktop", "firmware"}, FALSE)
MCSETS == [s \in {"base", "system", "kernel", "desktop", "firmware"} |->
   CASE s = "base" -> {"libc", "awk"} [] s = "system" -> {"dbus", "nvi"} [] s = "kernel" -> {"kernel"}
     [] s = "desktop" -> {"nm"} [] s = "firmware" -> {"regdb"}]
MCSorted == <<"busybox", "cc", "dbus", "gawk", "kernel", "ld", "libc", "nm", "nvi", "regdb">>
MCPaths == {"db", "alt/db", "db-upstream", "db-debian", "awk", "gawk", "busybox", "vi", "vim",
            "editor", "vmlinuz"}
MCAbsLinks == {<<"db", "alt/db">>, <<"vi", "vim">>}
MCVariants == [p \in {"db"} |-> <<"db-upstream", "db-debian">>]
MCALTERNATIVES == [p \in {"awk", "editor", "vi"} |->
   CASE p = "awk" -> <<"gawk", "busybox">> [] p = "editor" -> <<"vi">> [] p = "vi" -> <<"busybox">>]
MCDisks == {[dev |-> "sda", gb |-> 100], [dev |-> "sdb", gb |-> 4]}

\* A stock kernel, another build of it that does not boot, and a newer
\* real-time one.
MCKernelPackages == {<<1, 1>>, <<1, 2>>, <<2, 1>>}
MCFirst == <<1, 1>>
MCBad == {<<1, 2>>}

-----------------------------------------------------------------------------
npkgVars == <<planVars, layoutVars, serviceVars, installerVars>>
packagesVars == <<focus, npkgVars, kernelVars>>

\* Where a subsystem stays that a behaviour is not about.
PlanRests == PlanInitAt(World(<<<<>>>>, <<>>, {}))
LayoutRests == LayoutInitAt([p \in LibFiles |-> NoPath])
ServiceRests == ServiceInitAt([u \in MCUnits |-> NoUnit])
InstallRests == /\ BootInitAt(<<<<>>>>, <<>>)
                /\ phase = "off" /\ script = <<>> /\ boot = {}

PackagesInit ==
  /\ KernelInit
  /\ \/ focus = "plan" /\ PlanInit /\ LayoutRests /\ ServiceRests /\ InstallRests
     \/ focus = "layout" /\ LayoutInit /\ PlanRests /\ ServiceRests /\ InstallRests
     \/ focus = "service" /\ ServiceInit /\ PlanRests /\ LayoutRests /\ InstallRests
     \/ focus = "install" /\ InstallerInit /\ PlanRests /\ LayoutRests /\ ServiceRests
     \/ focus = "kernel" /\ PlanRests /\ LayoutRests /\ ServiceRests /\ InstallRests

\* A process that runs goes on; nobody has to give it a command.
Runs ==
  \/ focus = "plan" /\ Advance /\ UNCHANGED <<layoutVars, serviceVars, installerVars>>
  \/ focus = "layout" /\ LayoutNext /\ UNCHANGED <<planVars, serviceVars, installerVars>>
  \/ focus = "service" /\ Call /\ UNCHANGED <<planVars, layoutVars, installerVars>>
  \/ focus = "install" /\ InstallerStep /\ UNCHANGED <<planVars, layoutVars, serviceVars>>

NpkgRuns == Runs /\ UNCHANGED <<focus, kernelVars>>

PackagesNext ==
  /\ UNCHANGED focus
  /\ \/ /\ UNCHANGED kernelVars
        /\ \/ focus = "plan" /\ PlanNext /\ UNCHANGED <<layoutVars, serviceVars, installerVars>>
           \/ focus = "layout" /\ LayoutNext /\ UNCHANGED <<planVars, serviceVars, installerVars>>
           \/ focus = "service" /\ ServiceNext /\ UNCHANGED <<planVars, layoutVars, installerVars>>
           \/ focus = "install" /\ InstallerNext /\ UNCHANGED <<planVars, layoutVars, serviceVars>>
     \/ focus = "kernel" /\ KernelNext /\ UNCHANGED npkgVars

PackagesSpec == PackagesInit /\ [][PackagesNext]_packagesVars /\ WF_packagesVars(NpkgRuns)

PackagesTypeOK ==
  /\ focus = "plan" => PlanTypeOK
  /\ focus = "service" => ServiceTypeOK
  /\ focus = "install" => InstallTypeOK
  /\ focus = "kernel" => KernelTypeOK

\* Every command, layout, build and installation comes to an end: cyclic
\* dependencies, units that name each other and downloads that fail do not
\* keep it going (Solver.resolve, npkg.py:685; enable, npkg_service.py:125;
\* DebianArchive.download, npkg_bootstrap.py:508).  But for a build from an
\* archive whose packages provide virtual names to each other in a circle:
\* DebianArchive.resolve (432) goes round it and never ends.
EverythingEnds ==
  []<>(\/ GoesRound
       \/ /\ step = "idle" /\ pending = <<>>
          /\ focus = "layout" => layout = "done"
          /\ Idle /\ phase \notin {"disk", "partition", "bootstrap", "finalise"})
=============================================================================

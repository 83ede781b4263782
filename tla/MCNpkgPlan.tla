----------------------------- MODULE MCNpkgPlan -----------------------------
EXTENDS NpkgPlan, TLC

(* Worlds for NpkgPlan.  main is a remote repository that publishes two    *)
(* indexes one after the other, disc a directory.                          *)

MCRepos == <<"main", "disc">>
MCLocal == {"disc"}
MCNames == <<"app", "gui", "lib", "man">>

Num(n) == <<0, n>>
V(n) == <<Num(n)>>
Req(n, op, up, rev) == [name |-> n, op |-> op, ver |-> Version(up, rev), any |-> FALSE]
AnyRev(n, op, up) == [Req(n, op, up, <<>>) EXCEPT !.any = TRUE]

\* An entry as build_index writes it for a converted package.
Indexed(repo, e, sum) ==
  e @@ [repo |-> repo, file |-> sum, sum |-> sum]
Control(n, up, rev, deps, provides) ==
  [package |-> n, version |-> [epoch |-> 1, up |-> up, rev |-> rev],
   pre_depends |-> [i \in DOMAIN deps \cap {1} |-> <<deps[i]>>],
   depends |-> [i \in 1 .. Len(deps) - 1 |-> <<deps[i + 1], Need("other")>>],
   provides |-> [i \in DOMAIN provides |-> <<provides[i]>>], files |-> {}]
Entry(repo, n, v, rel, deps, provides) ==
  Indexed(repo, convert_deb(Control(n, V(v), V(rel), deps, provides)), <<n, v, rel>>)

App(deps) == Entry("main", "app", 1, 1, deps, <<>>)
Gui(deps) == Entry("main", "gui", 1, 1, deps, <<>>)
Lib(v, provides) == Entry("main", "lib", v, 1, <<>>, provides)
Man(v, rel) == Entry("main", "man", v, rel, <<>>, <<>>)

Empty == [n \in ToSet(MCNames) |-> Nothing]
With(es) == [n \in ToSet(MCNames) |->
              IF \E e \in es : e.name = n THEN CHOOSE e \in es : e.name = n ELSE Nothing]
WorldWith(main, disc, installed, names, paths) ==
  [index |-> [r \in {"main", "disc"} |-> IF r = "main" THEN main ELSE <<disc>>],
   db |-> With(installed), caps |-> names, present |-> paths]
\* Every capability recorded, every file owned.
World(main, disc, installed) ==
  WorldWith(main, disc, installed, UNION {Recorded(e) : e \in installed},
            UNION {{f.path : f \in e.files} : e \in installed})

\* Any dependencies of app and gui, cycles included, on an empty system.
AppDeps == {<<Need("lib")>>, <<Need("gui"), Need("man")>>, <<Need("tk"), Need("lib")>>}
GuiDeps == {<<Need("man")>>, <<Need("app"), Need("lib")>>}
Graphs == {World(<<<<App(a), Gui(g), Lib(1, <<Need("tk")>>), Man(1, 1)>>>>, <<>>, {}) :
             a \in AppDeps, g \in GuiDeps}

\* git-man: pinned to an upstream version, whatever the revision; a native
\* package required at its plain version; a revision named exactly.
Pinned == {World(<<<<App(<<Req("man", ">", V(2), <<>>), AnyRev("man", "<", V(2))>>),
                     Gui(<<Req("lib", "==", V(3), <<>>), Req("man", "==", V(2), V(4))>>),
                     Indexed("main", convert_deb(Control("lib", V(3), <<>>, <<>>, <<>>)), <<"lib", 3, 1>>), Man(1, 9), Man(2, 4), Man(3, 1)>>>>,
                 <<>>, {})}

\* A revision is asked for, and what is offered is a point release further.
Further == {World(<<<<App(<<Req("man", ">=", V(2), V(9))>>),
                      Indexed("main", convert_deb(Control("man", V(2) \o V(1), V(1), <<>>, <<>>)),
                              <<"man", 2, 1>>)>>>>, <<>>, {})}

\* An installed library moves on and no longer provides what it did; an
\* application wants a newer one than is installed; the disc is behind.
Moved == {World(<<<<App(<<Req("lib", ">=", V(2), <<>>), Need("tk")>>), Lib(1, <<Need("tk")>>)>>,
                 <<App(<<Req("lib", ">=", V(2), <<>>), Need("tk")>>), Lib(2, <<>>), Lib(1, <<Need("tk")>>)>>>>,
                disc, {Lib(1, <<Need("tk")>>), Gui(<<Need("tk")>>)}) :
             disc \in {<<>>, <<[Lib(1, <<Need("tk")>>) EXCEPT !.repo = "disc"]>>}}

\* Nothing is installed: an application wants the newest library and what only
\* the older one provides.
TwoLibs == {World(<<<<App(<<Req("lib", ">=", V(2), <<>>), Need("tk")>>), Lib(2, <<>>),
                      Lib(1, <<Need("tk")>>)>>>>, <<>>, {})}

\* The disc is ahead of main, and what is installed came from it.
OnDisc(v) == [Lib(v, <<>>) EXCEPT !.repo = "disc"]
Ahead == {World(<<<<Lib(1, <<>>)>>>>, <<OnDisc(3)>>, {OnDisc(2)})}

\* A package of Fedora asks for the soname of a library and for a path, not for
\* a package.  The library is found by the name the index of capabilities has,
\* which lost it, or never had it, when the removal of another package that
\* carried it took it out; and the shell belongs to nobody.  Then the library
\* moves on, to carry neither, and the index goes on naming the old soname.
Elf(soname, name) ==
  [path |-> name, elf |-> TRUE, so |-> TRUE, soname |-> soname, base |-> name]
Shell == [path |-> "/usr/bin/sh", elf |-> FALSE, so |-> FALSE, soname |-> "", base |-> "sh"]
Gtk(v, files) == [Lib(v, <<>>) EXCEPT !.files = files]
Needs(head) == [internal |-> FALSE, head |-> head]
FedoraApp ==
  Indexed("main", convert_rpm([name |-> "app", version |-> V(1),
            release |-> <<Num(3), <<1, 1>>>>, provides |-> <<>>, files |-> {},
            requires |-> <<[internal |-> TRUE, head |-> "rpmlib"], Needs("libgtk.so.4"),
                           Needs("libgtk.so.4"), Needs("/usr/bin/sh")>>]), <<"app", 1, 3>>)
Fedora ==
  {World(<<<<FedoraApp>>>>, <<>>, {Gtk(1, {Elf(name, "libgtk.so.4"), Shell})}) :
     name \in {"", "libgtk.so.4", "libgtk.so.3"}}
  \cup {WorldWith(<<<<FedoraApp>>>>, <<>>, {Gtk(1, {Elf("", "libgtk.so.4")})}, names, paths) :
          names \in {{}, {"libgtk.so.4"}}, paths \in {{"libgtk.so.4"}, {"libgtk.so.4", "/usr/bin/sh"}}}
  \cup {World(<<<<FedoraApp, Gtk(2, {})>>>>, <<>>, {Gtk(1, {Elf("", "libgtk.so.4"), Shell})})}

MCWorlds == Fedora \cup Graphs \cup Pinned \cup Further \cup Moved \cup TwoLibs \cup Ahead
MCCommands ==
  {[kind |-> "install", requests |-> <<Need(n)>>, reinstall |-> FALSE, refresh |-> FALSE] :
      n \in {"app", "gui"}}
  \cup {[kind |-> "install", requests |-> <<Need("app")>>, reinstall |-> TRUE, refresh |-> TRUE],
        [kind |-> "upgrade", requests |-> <<>>, reinstall |-> FALSE, refresh |-> TRUE]}
=============================================================================

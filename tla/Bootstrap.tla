------------------------------ MODULE Bootstrap ------------------------------
(***************************************************************************)
(* Building a root filesystem from a Debian mirror or from a repository of *)
(* npkg (src/pkg/npkg_bootstrap.py): the index, the package set, the       *)
(* download pool and its cache, conversion, installation, and the steps    *)
(* that stand in for the maintainer scripts nothing runs.  A build may be  *)
(* interrupted anywhere and run again over the same cache and root.        *)
(*                                                                         *)
(* An archive is a sequence of releases, a release the sequence of its     *)
(* stanzas.  A stanza has Package, Pre_Depends and Depends (sequences of   *)
(* clauses, a clause its sequence of alternatives), Provides, Essential,   *)
(* Filename, and what unpacking it brings: accounts it declares, units it  *)
(* ships, and files, the pairs of a path and File or the path linked to.   *)
(***************************************************************************)
EXTENDS Naturals, FiniteSets, SequencesExt

CONSTANTS
  Archives,      \* the mirrors a behaviour may be about
  Builds,        \* [sets, repo, firmware]: the invocations
  SETS,          \* set name -> the packages it seeds
  Sorted,        \* package names in the order of sorted()
  Workers,       \* threads of the download pool
  Attempts,      \* tries a download is given
  Paths,         \* the paths of the image that are told apart
  AltPaths,      \* those of them under /etc/alternatives
  Variants,      \* path -> what fix_alternatives may make it, best first
  ALTERNATIVES,  \* path -> what ensure_alternatives may make it, best first
  AbsLinks,      \* <<path, target>>: the links that are written from the root
  BuilderFiles,  \* the paths that exist on the machine that builds
  File, Absent,  \* a regular file; nothing
  Cut,           \* a Packages.gz cut while being written
  NoFile,        \* no download
  MaxRuns,       \* bound: builds
  MaxSkipped     \* bound: packages of a build that cannot be converted

ASSUME BootstrapConstants ==
  /\ Attempts \in Nat \ {0} /\ MaxRuns \in Nat /\ MaxSkipped \in Nat
  /\ AltPaths \subseteq Paths /\ BuilderFiles \subseteq Paths
  /\ DOMAIN ALTERNATIVES \subseteq Paths /\ DOMAIN Variants \subseteq Paths

\* A stanza's fields are lists as the index has them, and every one of them
\* names a file.
ASSUME ArchivesAssumption ==
  \A a \in Archives :
    /\ a \in Seq(ToSet(a)) /\ a # <<>>
    /\ \A r \in DOMAIN a : /\ a[r] \in Seq(ToSet(a[r]))
                           /\ \A s \in ToSet(a[r]) :
                                /\ s.Pre_Depends \in Seq(ToSet(s.Pre_Depends))
                                /\ s.Depends \in Seq(ToSet(s.Depends))
                                /\ s.Filename # NoFile
                                /\ s.files \subseteq Paths \X (Paths \cup {File})

\* Variants and candidates do not lie in /etc/alternatives.
ASSUME AlternativesAssumption ==
  /\ File \notin Paths \cup {Absent} /\ Absent \notin Paths
  /\ \A p \in DOMAIN Variants : Variants[p] \in Seq(Paths \ AltPaths)
  /\ \A p \in DOMAIN ALTERNATIVES : ALTERNATIVES[p] \in Seq(Paths \ AltPaths)

\* The lists of packages the seeds are taken from end.
ASSUME SeedsAssumption ==
  /\ \A b \in Builds : IsFiniteSet(b.sets) /\ IsFiniteSet(b.firmware)
  /\ \A s \in DOMAIN SETS : IsFiniteSet(SETS[s])

VARIABLES
  archive,   \* the archive of this behaviour
  release,   \* which of its releases the mirror serves
  packages,  \* which release the cached Packages.gz is, Absent or Cut
  debs,      \* file -> "none", "short" or "whole" in the cache
  build,     \* the invocation that runs, or ran last
  runs,
  stage,     \* what the build is doing
  bqueue, bchosen, missing,  \* the state of DebianArchive.resolve
  jobs,      \* downloads no thread has taken yet
  worker,    \* thread -> [file, tries, conn]
  broken,    \* a download has failed for good
  npks,      \* the stanzas of the packages converted, still to be installed
  finish,    \* steps of _finish_root still to come
  sys        \* the root that is built

cached == <<archive, release, packages, debs>>
walk == <<bqueue, bchosen, missing>>
pool == <<jobs, worker, broken>>
bootVars == <<cached, build, runs, stage, walk, pool, npks, finish, sys>>

\* A bug: what the packages declare is applied before the account files are
\* written.
MutFinishSteps == <<"etc", "declarations", "users", "pam", "sudo", "network", "polkit",
                    "fix", "ensure", "npkg", "desktop">>

FinishSteps == <<"etc", "users", "pam", "sudo", "network", "polkit", "declarations",
                 "fix", "ensure", "npkg", "desktop">>

Stanzas(r) == archive[r]
Names(r) == {Stanzas(r)[i].Package : i \in DOMAIN Stanzas(r)}
Stanza(r, n) == Stanzas(r)[CHOOSE i \in DOMAIN Stanzas(r) : Stanzas(r)[i].Package = n]
FilesIn(a) == UNION {{a[r][i].Filename : i \in DOMAIN a[r]} : r \in DOMAIN a}

\* make_skeleton lays out the directories and the links into /usr.
EmptyRoot ==
  [skeleton |-> FALSE, fs |-> [p \in Paths |-> Absent], pkgs |-> {}, units |-> {},
   declared |-> {}, accounts |-> {}, unapplied |-> {}, etc |-> "none", pam |-> "none",
   wheel |-> FALSE, power |-> FALSE, enabled |-> {}, login |-> "none",
   repos |-> "none", suite |-> FALSE]

NoJob == [file |-> NoFile, tries |-> 0, conn |-> "none"]

\* debs may hold a short file, of a download nothing checked.
BootInitAt(a, d) ==
  /\ archive = a /\ release = 1 /\ packages = Absent /\ debs = d
  /\ build = Absent /\ runs = 0 /\ stage = "idle"
  /\ bqueue = <<>> /\ bchosen = {} /\ missing = {}
  /\ jobs = {} /\ worker = [t \in Workers |-> NoJob] /\ broken = FALSE
  /\ npks = {} /\ finish = <<>> /\ sys = EmptyRoot

BootInit == \E a \in Archives : \E d \in {"none", "short"} :
              BootInitAt(a, [f \in FilesIn(a) |-> d])

-----------------------------------------------------------------------------
(* The mirror, and the index.                                              *)

\* A point release: the files it supersedes are gone from the pool.
PointRelease ==
  /\ release < Len(archive) /\ release' = release + 1
  /\ UNCHANGED <<archive, packages, debs, build, runs, stage, walk, pool, npks, finish, sys>>

\* main: a root built from the repository starts from nothing but the seeds.
Start(b) ==
  /\ stage \in {"idle", "failed", "done"} /\ runs < MaxRuns
  /\ build' = b /\ runs' = runs + 1
  /\ stage' = IF b.repo THEN "repo" ELSE "load"
  /\ UNCHANGED <<cached, walk, pool, npks, finish, sys>>

\* The process ends: what is on the disks is left.
Ends(how) ==
  /\ stage' = how
  /\ bqueue' = <<>> /\ bchosen' = {} /\ missing' = {}
  /\ jobs' = {} /\ worker' = [t \in Workers |-> NoJob] /\ broken' = FALSE
  /\ npks' = {} /\ finish' = <<>>
Fail == Ends("failed")

\* DebianArchive.load.  A Packages.gz that is there is never fetched again,
\* nor is one that a broken connection cut short ever removed.
FetchIndex ==
  /\ stage = "load" /\ packages = Absent
  /\ \/ packages' = release /\ UNCHANGED <<stage, walk, pool, npks, finish>>
     \/ packages' \in {Absent, Cut} /\ Fail
  /\ UNCHANGED <<archive, release, debs, build, runs, sys>>

\* _seed_packages, and base_seeds; an unknown set ends the build.
_seed_packages(b) ==
  UNION {IF s = "firmware" /\ b.firmware # {} THEN b.firmware ELSE SETS[s] : s \in b.sets}
base_seeds(r) == {n \in Names(r) : Stanza(r, n).Essential}
Seeds(b, r) == _seed_packages(b) \cup (IF "base" \in b.sets THEN base_seeds(r) ELSE {})

ReadIndex ==
  /\ stage = "load" /\ packages # Absent
  /\ IF packages = Cut \/ ~(build.sets \subseteq DOMAIN SETS)
     THEN Fail
     ELSE /\ stage' = "resolve" /\ bqueue' = SetToSeq(Seeds(build, packages))
          /\ UNCHANGED <<bchosen, missing, pool, npks, finish>>
  /\ UNCHANGED <<cached, build, runs, sys>>

-----------------------------------------------------------------------------
(* The package set.                                                        *)

\* A package of that name, or the first of the index that provides it; the
\* empty set for None.
archive_provider(r, name) ==
  IF name \in Names(r) THEN {name}
  ELSE LET able == {i \in DOMAIN Stanzas(r) : name \in Stanzas(r)[i].Provides}
       IN {Stanzas(r)[i].Package : i \in {j \in able : \A k \in able : j <= k}}

\* A bug: Pre-Depends are not read.
MutRequired(s) == [i \in DOMAIN s.Depends |-> Head(s.Depends[i])]

\* The first alternative of every clause.
Required(s) == LET clauses == s.Pre_Depends \o s.Depends
               IN [i \in DOMAIN clauses |-> Head(clauses[i])]

\* One turn of DebianArchive.resolve's loop.
Visit ==
  /\ stage = "resolve" /\ bqueue # <<>>
  /\ \E base \in {Head(bqueue)} :
       IF base \in bchosen \cup missing
       THEN bqueue' = Tail(bqueue) /\ UNCHANGED <<bchosen, missing>>
       ELSE \/ /\ archive_provider(packages, base) = {}
               /\ missing' = missing \cup {base}
               /\ bqueue' = Tail(bqueue) /\ UNCHANGED bchosen
            \/ \E n \in archive_provider(packages, base) :
                 /\ bchosen' = bchosen \cup {n}
                 /\ bqueue' = Tail(bqueue) \o Required(Stanza(packages, n))
                 /\ UNCHANGED missing
  /\ UNCHANGED <<cached, build, runs, stage, pool, npks, finish, sys>>

Resolved ==
  /\ stage = "resolve" /\ bqueue = <<>>
  /\ stage' = "download"
  /\ jobs' = {Stanza(packages, n).Filename : n \in bchosen}
  /\ UNCHANGED <<cached, build, runs, walk, worker, broken, npks, finish, sys>>

-----------------------------------------------------------------------------
(* The download pool.  conn is the thread's connection to the mirror:      *)
(* "none", "open", or "stale" when an answer on it was not read to its end.*)

\* A bug: any file of that name will do.
MutUsable(f) == debs[f] # "none"

\* A file of the cache counts when it is as long as the index says.
Usable(f) == debs[f] = "whole"

\* A thread takes the next job; a usable file ends it at once, any other is
\* removed.
TakeJob(t, f) ==
  /\ stage = "download" /\ worker[t].file = NoFile /\ f \in jobs
  /\ jobs' = jobs \ {f}
  /\ IF Usable(f) THEN UNCHANGED <<debs, worker>>
     ELSE /\ debs' = [debs EXCEPT ![f] = "none"]
          /\ worker' = [worker EXCEPT ![t].file = f, ![t].tries = 0]
  /\ UNCHANGED <<archive, release, packages, build, runs, stage, walk, broken, npks, finish, sys>>

\* The whole file came, and is renamed into place.
Arrived(t) ==
  /\ stage = "download" /\ worker[t].file # NoFile /\ worker[t].conn # "stale"
  /\ worker[t].file \in {s.Filename : s \in ToSet(Stanzas(release))}
  /\ debs' = [debs EXCEPT ![worker[t].file] = "whole"]
  /\ worker' = [worker EXCEPT ![t] = [NoJob EXCEPT !.conn = "open"]]
  /\ UNCHANGED <<archive, release, packages, build, runs, stage, walk, jobs, broken,
                 npks, finish, sys>>

MutLastTry(n) == n = Attempts
LastTry(n) == n + 1 = Attempts

\* An error, a file that is not there, or one cut short: the connection is
\* dropped, and after the last attempt the job is.
Refused(t) ==
  /\ stage = "download" /\ worker[t].file # NoFile
  /\ LET last == LastTry(worker[t].tries)
     IN /\ worker' = [worker EXCEPT ![t] = IF last THEN NoJob
                        ELSE [worker[t] EXCEPT !.tries = worker[t].tries + 1, !.conn = "none"]]
        /\ broken' = (broken \/ last)
  /\ UNCHANGED <<cached, build, runs, stage, walk, jobs, npks, finish, sys>>

\* Leaving the pool waits for every job, also when one of them has raised.
Downloaded ==
  /\ stage = "download" /\ jobs = {} /\ \A t \in Workers : worker[t].file = NoFile
  /\ IF broken THEN Fail
     ELSE /\ stage' = "convert" /\ worker' = [t \in Workers |-> NoJob]
          /\ UNCHANGED <<walk, jobs, broken, npks, finish>>
  /\ UNCHANGED <<cached, build, runs, sys>>

-----------------------------------------------------------------------------
(* Conversion, and installation.                                           *)

Converted(r, names) == {Stanza(r, n) : n \in names}
\* In the order of their names.
Alphabetical(s, t) ==
  \E i, j \in DOMAIN Sorted : i <= j /\ Sorted[i] = s.Package /\ Sorted[j] = t.Package

\* _convert_many: what cannot be converted is skipped.  When the pool breaks
\* every file is converted again: the same set, some of it twice.
Convert(bad) ==
  /\ stage = "convert" /\ Cardinality(bad) <= MaxSkipped
  /\ \A n \in bchosen \ bad : debs[Stanza(packages, n).Filename] = "whole"
  /\ npks' = Converted(packages, bchosen \ bad)
  /\ stage' = "install"
  /\ sys' = [sys EXCEPT !.skeleton = TRUE]
  /\ UNCHANGED <<cached, build, runs, walk, pool, finish>>

\* What unpacking a package brings; its files and links replace what is there.
Unpack(s) ==
  [sys EXCEPT !.pkgs = @ \cup {s.Package}, !.units = @ \cup s.units,
     !.declared = @ \cup s.accounts,
     !.fs = [p \in Paths |-> IF \E f \in s.files : f[1] = p
                             THEN (CHOOSE f \in s.files : f[1] = p)[2] ELSE @[p]]]

\* One package after the other, in the order of their names; one that npkg
\* refuses is passed over, but ends a build from the repository.
InstallOne(refused) ==
  /\ stage = "install"
  /\ \E s \in npks :
       /\ \A t \in npks : Alphabetical(s, t)
       /\ sys' = IF refused THEN sys ELSE Unpack(s)
       /\ IF refused /\ build.repo THEN Fail
          ELSE npks' = npks \ {s} /\ UNCHANGED <<stage, walk, pool, finish>>
  /\ UNCHANGED <<cached, build, runs>>

\* The Debian path records the suite and where updates come from.
AllInstalled ==
  /\ stage = "install" /\ npks = {}
  /\ stage' = "finish" /\ finish' = FinishSteps
  /\ sys' = IF build.repo THEN sys ELSE [sys EXCEPT !.suite = TRUE]
  /\ UNCHANGED <<cached, build, runs, walk, pool, npks>>

\* The least set with the seeds, and what its members require.
Closed(r, S) ==
  \A n \in S : LET s == Stanza(r, n)
              IN \A clause \in ToSet(s.Pre_Depends) \cup ToSet(s.Depends) :
                   archive_provider(r, Head(clause)) \subseteq S
Closure(r, seeds) ==
  LET able == {S \in SUBSET Names(r) :
                 (\A n \in seeds : archive_provider(r, n) \subseteq S) /\ Closed(r, S)}
  IN CHOOSE S \in able : \A T \in able : S \subseteq T

\* _bootstrap_from_repo: Transaction.install of the seeds the repository has
\* (NpkgPlan says in which order; here it is by name).  Its index is always
\* fetched anew, and the repository is recorded before that.
FromRepo ==
  /\ stage = "repo"
  /\ sys' = IF build.sets \subseteq DOMAIN SETS
            THEN [sys EXCEPT !.skeleton = TRUE, !.repos = "repo"] ELSE sys
  /\ \/ Fail
     \/ /\ build.sets \subseteq DOMAIN SETS
        /\ bchosen' = Closure(release, _seed_packages(build) \cap Names(release))
        /\ npks' = Converted(release, bchosen')
        /\ stage' = "install"
        /\ UNCHANGED <<bqueue, missing, pool, finish>>
  /\ UNCHANGED <<cached, build, runs>>

-----------------------------------------------------------------------------
(* _finish_root: what maintainer scripts would have done.  Each operator   *)
(* takes the root and returns it changed.                                  *)

setup_etc(s) == [s EXCEPT !.etc = "nethos"]

\* The account files are written whole; the home takes from /etc/skel what
\* it does not have.
setup_users(s) ==
  [s EXCEPT !.accounts = {"root", "nobody", "user", "netdev", "polkitd"},
            !.login = IF @ = "none" THEN "skel" ELSE @]

\* A stack that a package ships is kept.
setup_pam(s) == [s EXCEPT !.pam = IF @ = "none" THEN "nethos" ELSE @]
setup_sudo(s) == [s EXCEPT !.wheel = TRUE]
setup_polkit(s) == [s EXCEPT !.power = TRUE]

NetworkManager(s) == "NetworkManager" \in s.units

\* networkd, unless NetworkManager has come with the desktop.
setup_network(s) ==
  [s EXCEPT !.enabled = IF NetworkManager(s) THEN @ \ {"wait-online"}
                        ELSE @ \cup {"networkd", "resolved"}]

\* What the packages declare, as far as the builder has the tools for it and
\* they do it: what fails is printed, and the build goes on.
apply_systemd_declarations(s, failed) ==
  [s EXCEPT !.accounts = @ \cup (s.declared \ failed), !.unapplied = failed]

\* A bug: a target is looked for in the builder's own root.
Mutresolve_in_root(fs, p) ==
  IF fs[p] \in Paths THEN fs[p] \in BuilderFiles ELSE fs[p] = File

\* A chain of links is followed inside the image: to no more than three here.
Linked(fs, p) == IF fs[p] \in Paths THEN fs[p] ELSE p
resolve_in_root(fs, p) == fs[Linked(fs, Linked(fs, Linked(fs, p)))] = File

\* A link to an alternative that leads nowhere: the variant takes the place
\* of whatever is under /etc/alternatives.
Dangling(fs) ==
  {p \in DOMAIN Variants : fs[p] \in AltPaths /\ ~resolve_in_root(fs, p)}
Candidates(fs, list) == {i \in DOMAIN list : fs[list[i]] = File}
fix_alternatives(s) ==
  [s EXCEPT !.fs = [p \in Paths |->
     IF \E q \in Dangling(s.fs) : s.fs[q] = p /\ Candidates(s.fs, Variants[q]) # {}
     THEN File ELSE @[p]]]

\* os.path.isfile: a chain of links is followed here too, but from the first
\* that is absolute on in the builder's own root.
Abroad(fs, p) == fs[p] \in Paths /\ <<p, fs[p]>> \in AbsLinks
isfile(fs, p) ==
  LET q == Linked(fs, p)
      r == Linked(fs, q)
  IN IF Abroad(fs, p) THEN q \in BuilderFiles
     ELSE IF Abroad(fs, q) THEN r \in BuilderFiles
     ELSE IF Abroad(fs, r) THEN Linked(fs, r) \in BuilderFiles
     ELSE fs[Linked(fs, r)] = File

\* A link that nothing ships at all, to the first candidate there seems to be.
\* None of these names is a candidate of one that comes after it.
Serving(fs, p) == {i \in DOMAIN ALTERNATIVES[p] : isfile(fs, ALTERNATIVES[p][i])}
ensure_alternatives(s) ==
  [s EXCEPT !.fs = [p \in Paths |->
     IF p \in DOMAIN ALTERNATIVES /\ s.fs[p] = Absent /\ Serving(s.fs, p) # {}
     THEN ALTERNATIVES[p][Min(Serving(s.fs, p))] ELSE @[p]]]

install_npkg(s) == [s EXCEPT !.repos = IF @ = "none" THEN "empty" ELSE @]

\* The shell, its session, and what is enabled by hand: only with that set.
Services == {"seatd", "NetworkManager", "growroot"}
install_desktop(s) ==
  IF "desktop" \notin build.sets THEN s
  ELSE [s EXCEPT !.login = "session", !.units = @ \cup {"growroot"},
                 !.enabled = @ \cup {"getty@tty1", "growroot"} \cup (s.units \cap Services)]

Step(s, failed) ==
  LET step == Head(finish)
  IN CASE step = "etc"          -> setup_etc(s)
       [] step = "users"        -> setup_users(s)
       [] step = "pam"          -> setup_pam(s)
       [] step = "sudo"         -> setup_sudo(s)
       [] step = "network"      -> setup_network(s)
       [] step = "polkit"       -> setup_polkit(s)
       [] step = "declarations" -> apply_systemd_declarations(s, failed)
       [] step = "fix"          -> fix_alternatives(s)
       [] step = "ensure"       -> ensure_alternatives(s)
       [] step = "npkg"         -> install_npkg(s)
       [] step = "desktop"      -> install_desktop(s)

Finish ==
  /\ stage = "finish" /\ finish # <<>>
  /\ finish' = Tail(finish)
  /\ \E failed \in IF Head(finish) = "declarations" THEN SUBSET sys.declared ELSE {{}} :
       sys' = Step(sys, failed)
  /\ UNCHANGED <<cached, build, runs, stage, walk, pool, npks>>

\* The downloads are removed, wherever the cache is.
Complete ==
  /\ stage = "finish" /\ finish = <<>>
  /\ Ends("done")
  /\ debs' = [f \in DOMAIN debs |-> IF build.keep THEN debs[f] ELSE "none"]
  /\ UNCHANGED <<archive, release, packages, build, runs, sys>>

\* Control-C, or the machine stops: what is on the disks stays.
Interrupted ==
  /\ stage \notin {"idle", "failed", "done"}
  /\ Fail
  /\ packages' = IF stage = "load" /\ packages = Absent THEN Cut ELSE packages
  /\ UNCHANGED <<archive, release, debs, build, runs, sys>>

BootStep ==
  \/ FetchIndex \/ ReadIndex \/ Visit \/ Resolved
  \/ \E t \in Workers : Arrived(t) \/ Refused(t) \/ \E f \in jobs : TakeJob(t, f)
  \/ Downloaded
  \/ \E bad \in SUBSET bchosen : Convert(bad)
  \/ \E refused \in BOOLEAN : InstallOne(refused)
  \/ AllInstalled \/ FromRepo \/ Finish \/ Complete

BootNext == PointRelease \/ (\E b \in Builds : Start(b)) \/ BootStep \/ Interrupted

-----------------------------------------------------------------------------
(* What is checked.                                                        *)

BootTypeOK ==
  /\ archive \in Archives /\ release \in DOMAIN archive
  /\ packages = Absent \/ packages = Cut \/ packages \in 1 .. release
  /\ debs \in [FilesIn(archive) -> {"none", "short", "whole"}]
  /\ runs \in 0 .. MaxRuns
  /\ stage \in {"idle", "load", "repo", "resolve", "download", "convert", "install",
                "finish", "done", "failed"}
  /\ jobs \subseteq FilesIn(archive) /\ broken \in BOOLEAN
  /\ \A t \in Workers : worker[t].tries \in 0 .. Attempts - 1
  /\ sys.fs \in [Paths -> Paths \cup {File, Absent}]

\* The package set is exactly the seeds and what they require, by way of
\* Pre-Depends and of virtual names too, whatever the cycles among them
\* (DebianArchive.resolve, npkg_bootstrap.py:432).
ResolvedIsClosure ==
  stage = "download" => bchosen = Closure(packages, Seeds(build, packages))

\* A circle of virtual names: each is provided by a package that requires one of
\* them.  bchosen has the names of packages, so a virtual name is never found in
\* it, and once resolve has come to one of these it goes round for ever.
Virtual(r) ==
  {v \in UNION {ToSet(Required(s)) : s \in ToSet(Stanzas(r))} :
     v \notin Names(r) /\ archive_provider(r, v) # {}}
Circle(r, S) ==
  \A v \in S : \E n \in archive_provider(r, v) : ToSet(Required(Stanza(r, n))) \cap S # {}
GoesRound ==
  stage = "resolve" /\ \E S \in SUBSET Virtual(packages) : Circle(packages, S) /\ ToSet(bqueue) \cap S # {}

\* No conversion sees a file shorter than the archive promised, whatever an
\* interrupted build or a broken connection left behind, and whichever
\* thread fetched it (DebianArchive.download, npkg_bootstrap.py:508).
WholeFiles ==
  stage = "convert" => \A n \in bchosen : debs[Stanza(packages, n).Filename] = "whole"

\* A finished root has every account its packages declared that
\* systemd-sysusers made, also when the account files of an earlier build have
\* been written over (_finish_root, npkg_bootstrap.py:1611).  One it failed to
\* make, and all of them on a builder without it, the root lacks: that is
\* printed, and the root called finished (1176-1190).
AccountsDeclared ==
  stage = "done" => sys.declared \subseteq sys.accounts \cup sys.unapplied

\* In a finished root no link to an alternative dangles when a variant of it
\* was installed, and every name no package ships exists when a regular file
\* can serve it -- whatever npkg itself has left under /etc/alternatives, and
\* whatever the builder has (fix_alternatives, npkg_bootstrap.py:1269).  A link
\* that could serve such a name is not counted: ensure_alternatives passes it
\* over, or makes the name lead through it to nothing, as the builder has what
\* it names or not (1262; resolve_in_root, 1215, says why that is wrong).
AlternativesBound ==
  stage = "done" =>
    /\ \A p \in DOMAIN Variants :
         Candidates(sys.fs, Variants[p]) # {} /\ sys.fs[p] \in AltPaths =>
           sys.fs[Linked(sys.fs, Linked(sys.fs, sys.fs[p]))] = File
    /\ \A p \in DOMAIN ALTERNATIVES :
         Candidates(sys.fs, ALTERNATIVES[p]) # {} => sys.fs[p] # Absent

\* However often a build was cut short and over whatever root it runs, what it
\* works on is whole, and the root it calls finished has the accounts and the
\* alternatives above (DebianArchive.download, _finish_root).
BuildsSound == WholeFiles /\ AccountsDeclared /\ AlternativesBound
=============================================================================

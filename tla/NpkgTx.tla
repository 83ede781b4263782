------------------------------- MODULE NpkgTx -------------------------------
(***************************************************************************)
(* The installed-package database of NETHOS and the transactions on it:    *)
(* Database and Transaction of src/pkg/npkg.py as `npkg install ./x.npk`,  *)
(* `npkg fetch` and `npkg upgrade` (one package after another) and `npkg   *)
(* remove` drive them.  Which packages to install is decided before, by    *)
(* the Solver; a batch here is any set of package files, in any order.     *)
(*                                                                         *)
(* A transaction is a process that may be interrupted between any two of   *)
(* its writes.  Nothing locks the database: Procs has two elements when a  *)
(* terminal and the desktop's package store both run npkg.                 *)
(***************************************************************************)
EXTENDS Naturals, FiniteSets

CONSTANTS
  Procs,        \* npkg processes
  Names,        \* package names
  Paths,        \* paths of files and symlinks packages ship
  Caps,         \* capabilities: virtual names and sonames
  Alts,         \* update-alternatives groups
  Builds,       \* package files: one version of one package each
  Name,         \* build -> its name
  Files,        \* build -> the non-directory members of its archive
  Depends,      \* build -> names and capabilities it depends on
  Carries,      \* build -> capabilities: its provides and its libraries' sonames
  Conflicts,    \* build -> the builds its conflicts (name and version) match
  Alternatives, \* build -> the groups it offers an implementation for
  Binary,       \* build -> the path of that implementation
  Priority,     \* build -> its priority
  Slot,         \* group -> the path /etc/alternatives/<name>
  Link,         \* group -> the path its link is made at
  Below,        \* path -> the paths it is a directory of when they exist
  DirLinks,     \* paths that are symlinks to a directory present at unpack time
  DeadLinks,    \* paths that are symlinks leading to no regular file
  Critical,     \* SYSTEM_CRITICAL names
  None,         \* nothing: no package, no file, no owner
  Torn,         \* a manifest.json that was cut while being written
  Unbuilt,      \* the owner map before its first use
  MaxBatch,     \* bound: packages named in one command
  MaxOps,       \* bound: commands
  MaxInterrupts \* bound: interrupted commands

ASSUME ShapeAssumption ==
  /\ Name \in [Builds -> Names]
  /\ Files \in [Builds -> SUBSET Paths]
  /\ Depends \in [Builds -> SUBSET (Names \cup Caps)]
  /\ Carries \in [Builds -> SUBSET Caps]
  /\ Conflicts \in [Builds -> SUBSET Builds]
  /\ Alternatives \in [Builds -> SUBSET Alts]
  /\ Binary \in [Builds -> Paths]
  /\ Priority \in [Builds -> Nat]
  /\ Below \in [Paths -> SUBSET Paths]
  /\ \A b \in Builds : \A f, g \in Files[b] : g \notin Below[f]
\* Each group has two paths of its own, and no file is where one of their
\* directories belongs.
ASSUME LinkAssumption ==
  /\ Slot \in [Alts -> Paths] /\ Link \in [Alts -> Paths]
  /\ \A a, e \in Alts : Slot[a] # Link[e] /\ (a # e => Slot[a] # Slot[e] /\ Link[a] # Link[e])
  /\ \A a \in Alts, f \in Paths : Slot[a] \notin Below[f] /\ Link[a] \notin Below[f]
ASSUME AbsentAssumption ==
  /\ None \notin Builds \cup Names \cup Alts \cup (Alts \X Builds)
  /\ Builds \cap (Alts \cup (Alts \X Builds)) = {} /\ Alts \cap (Alts \X Builds) = {}
  /\ Torn \notin Builds \cup {None}
  /\ Unbuilt \notin [Paths -> Names \cup {None}]
ASSUME BoundsAssumption == MaxBatch \in Nat /\ MaxOps \in Nat /\ MaxInterrupts \in Nat

VARIABLES
  manifest,  \* name -> the build its manifest.json describes, None or Torn
  filelist,  \* name -> the paths in its "files" list ({} when there is none)
  caps,      \* capabilities.json: capability -> name of its supplier, or None
  root,      \* path -> the build whose file is there, a link of a group, or None
  state,     \* alternatives.json: group -> the build recorded for it, or None
  pc,        \* process -> what it writes next
  todo,      \* process -> package files still to install
  names,     \* process -> names still to remove
  force,     \* process -> was --force given
  pkg,       \* process -> the build it is installing
  cur,       \* process -> the name it is installing or removing
  left,      \* process -> paths still to place or to delete
  stale,     \* process -> paths the version being replaced listed
  owners,    \* process -> its cached map of paths to owners
  ops, interrupts,
  broken,    \* history: names whose last command was interrupted
  trampled,  \* history: paths another package's link or file was put over
  torn       \* history: was a database entry ever left half written

database == <<manifest, filelist, caps>>
disk     == <<root, state>>
work     == <<todo, names, force, pkg, cur, left, stale, owners>>
history  == <<broken, trampled, torn>>
vars     == <<database, disk, pc, work, ops, interrupts, history>>

InstallSteps == {"place", "prune", "manifest", "files", "caps", "alternatives"}
RemoveSteps  == {"next", "delete", "forget", "forgotten", "uncaps"}
Working      == (InstallSteps \cup RemoveSteps) \ {"next"}

\* What npkg makes for a group: at Link[a] a symlink to Slot[a], written a,
\* and at Slot[a] one to the implementation of a build, written <<a, build>>.
Links == Alts \cup (Alts \X Builds)

TypeOK ==
  /\ manifest \in [Names -> Builds \cup {None, Torn}]
  /\ filelist \in [Names -> SUBSET Paths]
  /\ caps \in [Caps -> Names \cup {None}]
  /\ root \in [Paths -> Builds \cup Links \cup {None}]
  /\ state \in [Alts -> Builds \cup {None}]
  /\ pc \in [Procs -> {"idle", "check"} \cup InstallSteps \cup RemoveSteps]
  /\ todo \in [Procs -> SUBSET Builds]
  /\ names \in [Procs -> SUBSET Names]
  /\ force \in [Procs -> BOOLEAN]
  /\ pkg \in [Procs -> Builds \cup {None}]
  /\ cur \in [Procs -> Names \cup {None}]
  /\ left \in [Procs -> SUBSET Paths]
  /\ stale \in [Procs -> SUBSET Paths]
  /\ owners \in [Procs -> [Paths -> Names \cup {None}] \cup {Unbuilt}]
  /\ ops \in 0..MaxOps
  /\ interrupts \in 0..MaxInterrupts
  /\ broken \in SUBSET Names
  /\ trampled \in SUBSET Paths
  /\ torn \in BOOLEAN

\* An empty root: nothing installed.
Init ==
  /\ manifest = [n \in Names |-> None]
  /\ filelist = [n \in Names |-> {}]
  /\ caps = [c \in Caps |-> None]
  /\ root = [f \in Paths |-> None]
  /\ state = [a \in Alts |-> None]
  /\ pc = [p \in Procs |-> "idle"]
  /\ todo = [p \in Procs |-> {}] /\ names = [p \in Procs |-> {}]
  /\ force = [p \in Procs |-> FALSE]
  /\ pkg = [p \in Procs |-> None] /\ cur = [p \in Procs |-> None]
  /\ left = [p \in Procs |-> {}] /\ stale = [p \in Procs |-> {}]
  /\ owners = [p \in Procs |-> Unbuilt]
  /\ ops = 0 /\ interrupts = 0 /\ broken = {} /\ trampled = {} /\ torn = FALSE

-----------------------------------------------------------------------------
(* Database.  is_installed asks whether manifest.json exists; everything   *)
(* that reads the manifests fails on one that is cut short.                *)

Readable  == \A n \in Names : manifest[n] # Torn
is_installed(n) == manifest[n] # None
installed == {n \in Names : manifest[n] \in Builds}

\* Packages that name n among their dependencies.  A dependency on one of
\* n's capabilities is not one on n.
dependents(n) == {m \in installed \ {n} : n \in Depends[manifest[m]]}

\* path -> the installed package that lists it.
OwnerMap ==
  [f \in Paths |-> IF \E n \in installed : f \in filelist[n]
                   THEN CHOOSE n \in installed : f \in filelist[n] ELSE None]

-----------------------------------------------------------------------------
(* Transaction._install_file.  What it places is what a walk over the      *)
(* unpacked tree calls a file: a symlink to a directory is not one.        *)

Placed(b) == Files[b] \ DirLinks

Clash(map, b)   == \E f \in Files[b] : map[f] \notin {None, Name[b]}
Conflicting(b)  == \E n \in installed : manifest[n] \in Conflicts[b]

\* Symlinks are followed: a file there, or a link of a group that leads to one.
Regular(f) == root[f] \in Builds /\ f \notin DeadLinks
Leads(f) ==
  \/ Regular(f)
  \/ \E a \in Alts, b \in Builds :
       root[Slot[a]] = <<a, b>> /\ Regular(Binary[b]) /\ (f = Slot[a] \/ root[f] = a)

\* A directory is a path with something below it, and none can be made where
\* a file lies.
IsDirectory(f) == \E g \in Below[f] : root[g] # None
Obstructed(f)  == \E g \in Paths : f \in Below[g] /\ root[g] # None

Step(p, from, to) == pc[p] = from /\ pc' = [pc EXCEPT ![p] = to]

\* The process exits and forgets everything.
Exit(p) ==
  /\ pc' = [pc EXCEPT ![p] = "idle"]
  /\ todo' = [todo EXCEPT ![p] = {}] /\ names' = [names EXCEPT ![p] = {}]
  /\ force' = [force EXCEPT ![p] = FALSE]
  /\ pkg' = [pkg EXCEPT ![p] = None] /\ cur' = [cur EXCEPT ![p] = None]
  /\ left' = [left EXCEPT ![p] = {}] /\ stale' = [stale EXCEPT ![p] = {}]
  /\ owners' = [owners EXCEPT ![p] = Unbuilt]

InstallFiles(p, batch) ==
  /\ Step(p, "idle", "check") /\ ops < MaxOps
  /\ batch # {} /\ Cardinality(batch) <= MaxBatch
  /\ todo' = [todo EXCEPT ![p] = batch]
  /\ ops' = ops + 1
  /\ UNCHANGED <<database, disk, names, force, pkg, cur, left, stale, owners,
                 interrupts, history>>

\* The owner map is built once per transaction, at the first package.
Owners(p) == IF owners[p] = Unbuilt THEN OwnerMap ELSE owners[p]

\* No clash, no conflict: unpack into a staging directory and go.
Accept(p, b) ==
  /\ Step(p, "check", "place") /\ b \in todo[p] /\ Readable
  /\ ~Clash(Owners(p), b) /\ ~Conflicting(b)
  /\ owners' = [owners EXCEPT ![p] = Owners(p)]
  /\ todo' = [todo EXCEPT ![p] = @ \ {b}]
  /\ pkg' = [pkg EXCEPT ![p] = b] /\ cur' = [cur EXCEPT ![p] = Name[b]]
  /\ left' = [left EXCEPT ![p] = Placed(b)]
  /\ stale' = [stale EXCEPT ![p] = IF is_installed(Name[b]) THEN filelist[Name[b]] ELSE {}]
  /\ UNCHANGED <<database, disk, names, force, ops, interrupts, history>>

\* ConflictError, or the traceback of an unreadable manifest: the packages
\* of the batch installed so far stay.
Reject(p, b) ==
  /\ pc[p] = "check" /\ b \in todo[p]
  /\ ~Readable \/ Clash(Owners(p), b) \/ Conflicting(b)
  /\ Exit(p)
  /\ UNCHANGED <<database, disk, ops, interrupts, history>>

\* fetch and upgrade report the refused package and go on with the next.  (A
\* refusal of the last one, or one they cannot go on from, is a Reject.)
Skip(p, b) ==
  /\ pc[p] = "check" /\ b \in todo[p] /\ todo[p] # {b} /\ Readable
  /\ Clash(Owners(p), b) \/ Conflicting(b)
  /\ owners' = [owners EXCEPT ![p] = Owners(p)]
  /\ todo' = [todo EXCEPT ![p] = @ \ {b}]
  /\ UNCHANGED <<database, disk, pc, names, force, pkg, cur, left, stale, ops,
                 interrupts, history>>

\* One file: what is at the path goes, a directory with all that is below it
\* and whoever's it is, and the staged file is moved there.
Removed(f) == {g \in Below[f] : root[g] # None}

Place(p, f) ==
  /\ pc[p] = "place" /\ f \in left[p]
  /\ \A g \in left[p] : ~Obstructed(g)
  /\ root' = [g \in Paths |-> IF g = f THEN pkg[p]
                             ELSE IF g \in Below[f] THEN None ELSE root[g]]
  /\ left' = [left EXCEPT ![p] = @ \ {f}]
  /\ trampled' = (trampled \ {f}) \cup Removed(f)
  /\ UNCHANGED <<database, state, pc, todo, names, force, pkg, cur, stale,
                 owners, ops, interrupts, broken, torn>>

\* A directory the package needs cannot be made: the traceback ends the
\* command.  Before the first file is placed nothing has happened yet.
Fail(p) ==
  /\ pc[p] = "place" /\ \E g \in left[p] : Obstructed(g)
  /\ Exit(p)
  /\ broken' = IF left[p] = Placed(pkg[p]) THEN broken ELSE broken \cup {cur[p]}
  /\ UNCHANGED <<database, disk, ops, interrupts, trampled, torn>>

\* Bugs: the files both versions have are pruned too; none are.
MutPruneAll(p) ==
  /\ Step(p, "place", "prune") /\ left[p] = {}
  /\ left' = [left EXCEPT ![p] = stale[p]]
  /\ UNCHANGED <<database, disk, todo, names, force, pkg, cur, stale, owners,
                 ops, interrupts, history>>

MutPruneNone(p) ==
  /\ Step(p, "place", "prune") /\ left[p] = {}
  /\ UNCHANGED <<database, disk, work, ops, interrupts, history>>

AllPlaced(p) ==
  /\ Step(p, "place", "prune") /\ left[p] = {}
  /\ left' = [left EXCEPT ![p] = stale[p] \ Placed(pkg[p])]
  /\ UNCHANGED <<database, disk, todo, names, force, pkg, cur, stale, owners,
                 ops, interrupts, history>>

\* Files the new version dropped, if they lead to a regular file.
Prune(p, f) ==
  /\ pc[p] = "prune" /\ f \in left[p]
  /\ root' = IF Leads(f) THEN [root EXCEPT ![f] = None] ELSE root
  /\ left' = [left EXCEPT ![p] = @ \ {f}]
  /\ UNCHANGED <<database, state, pc, todo, names, force, pkg, cur, stale,
                 owners, ops, interrupts, history>>

AllPruned(p) ==
  /\ Step(p, "prune", "manifest") /\ left[p] = {}
  /\ UNCHANGED <<database, disk, work, ops, interrupts, history>>

\* record: manifest.json, then the file list.
RecordManifest(p) ==
  /\ Step(p, "manifest", "files")
  /\ manifest' = [manifest EXCEPT ![cur[p]] = pkg[p]]
  /\ UNCHANGED <<filelist, caps, disk, work, ops, interrupts, history>>

RecordFiles(p) ==
  /\ Step(p, "files", "caps")
  /\ filelist' = [filelist EXCEPT ![cur[p]] = Placed(pkg[p])]
  /\ UNCHANGED <<manifest, caps, disk, work, ops, interrupts, history>>

\* Bugs: a capability is credited to the package file instead of the name;
\* the owner map is not brought up to date.
MutCreditBuild(p) ==
  /\ Step(p, "caps", "alternatives")
  /\ caps' = [c \in Caps |-> IF c \in Carries[pkg[p]] THEN pkg[p] ELSE caps[c]]
  /\ UNCHANGED <<manifest, filelist, disk, work, ops, interrupts, history>>

MutOwnersKept(p) ==
  /\ Step(p, "caps", "alternatives")
  /\ caps' = [c \in Caps |-> IF c \in Carries[pkg[p]] THEN cur[p] ELSE caps[c]]
  /\ broken' = broken \ {cur[p]}
  /\ UNCHANGED <<manifest, filelist, disk, work, ops, interrupts, trampled, torn>>

\* The index of capabilities gets the new ones (what the previous version
\* carried stays), the owner map is brought up to date, and with that the
\* package is as npkg wants it.
IndexCapabilities(p) ==
  /\ Step(p, "caps", "alternatives")
  /\ caps' = [c \in Caps |-> IF c \in Carries[pkg[p]] THEN cur[p] ELSE caps[c]]
  /\ owners' = [owners EXCEPT ![p] =
                  [f \in Paths |-> IF f \in Placed(pkg[p]) THEN cur[p]
                                   ELSE IF f \in stale[p] THEN None ELSE @[f]]]
  /\ broken' = broken \ {cur[p]}
  /\ UNCHANGED <<manifest, filelist, disk, todo, names, force, pkg, cur, left,
                 stale, ops, interrupts, trampled, torn>>

\* Groups whose implementation is there and not of lower priority than the
\* one recorded.
Wins(b) == {a \in Alternatives[b] :
              /\ Leads(Binary[b])
              /\ state[a] = None \/ Priority[state[a]] <= Priority[b]}

\* The two links of each group take the place of whatever is there, another
\* package's file too; only a directory stays.  (A loop that is interrupted
\* has made the slots of one more group than links, and taken cut away.)
Linked(b, slots, done, cut) ==
  [f \in Paths |->
     IF IsDirectory(f) THEN root[f]
     ELSE IF f \in cut THEN None
     ELSE IF \E a \in slots : f = Slot[a] THEN <<CHOOSE a \in slots : f = Slot[a], b>>
     ELSE IF \E a \in done : f = Link[a] THEN CHOOSE a \in done : f = Link[a]
     ELSE root[f]]
LinkPaths(slots, done) == {Slot[a] : a \in slots} \cup {Link[a] : a \in done}

\* The links, then alternatives.json; the post-install script runs (its
\* failure is a warning) and the next package of the batch follows.
ApplyAlternatives(p) ==
  /\ pc[p] = "alternatives"
  /\ root' = Linked(pkg[p], Wins(pkg[p]), Wins(pkg[p]), {})
  /\ trampled' = trampled \cup LinkPaths(Wins(pkg[p]), Wins(pkg[p]))
  /\ state' = [a \in Alts |-> IF a \in Wins(pkg[p]) THEN pkg[p] ELSE state[a]]
  /\ IF todo[p] = {} THEN Exit(p)
     ELSE pc' = [pc EXCEPT ![p] = "check"] /\ UNCHANGED work
  /\ UNCHANGED <<database, ops, interrupts, broken, torn>>

-----------------------------------------------------------------------------
(* Transaction.remove: every guard of every name, then name by name.       *)

\* A bug: only the runtime's own packages are guarded.
MutMayRemove(batch) ==
  Readable /\ \A n \in batch : is_installed(n) /\ n \notin Critical

MayRemove(batch) ==
  /\ Readable
  /\ \A n \in batch : /\ is_installed(n) /\ n \notin Critical
                      /\ dependents(n) \subseteq batch

Remove(p, batch, forced) ==
  /\ Step(p, "idle", "next") /\ ops < MaxOps
  /\ batch # {} /\ Cardinality(batch) <= MaxBatch
  /\ IF forced THEN Readable /\ \A n \in batch : is_installed(n) ELSE MayRemove(batch)
  /\ names' = [names EXCEPT ![p] = batch]
  /\ force' = [force EXCEPT ![p] = forced]
  /\ ops' = ops + 1
  /\ UNCHANGED <<database, disk, todo, pkg, cur, left, stale, owners,
                 interrupts, history>>

NextName(p, n) ==
  /\ Step(p, "next", "delete") /\ n \in names[p]
  /\ cur' = [cur EXCEPT ![p] = n]
  /\ names' = [names EXCEPT ![p] = @ \ {n}]
  /\ left' = [left EXCEPT ![p] = filelist[n]]
  /\ UNCHANGED <<database, disk, todo, force, pkg, stale, owners, ops,
                 interrupts, history>>

Delete(p, f) ==
  /\ pc[p] = "delete" /\ f \in left[p]
  /\ root' = [root EXCEPT ![f] = None]
  /\ left' = [left EXCEPT ![p] = @ \ {f}]
  /\ UNCHANGED <<database, state, pc, todo, names, force, pkg, cur, stale,
                 owners, ops, interrupts, history>>

AllDeleted(p) ==
  /\ Step(p, "delete", "forget") /\ left[p] = {}
  /\ UNCHANGED <<database, disk, work, ops, interrupts, history>>

\* forget is an rmtree: the two files of the entry go in directory order.
Forget(p) ==
  /\ Step(p, "forget", "forgotten")
  /\ \/ manifest' = [manifest EXCEPT ![cur[p]] = None] /\ UNCHANGED filelist
     \/ filelist' = [filelist EXCEPT ![cur[p]] = {}] /\ UNCHANGED manifest
  /\ UNCHANGED <<caps, disk, work, ops, interrupts, history>>

Forgotten(p) ==
  /\ Step(p, "forgotten", "uncaps")
  /\ manifest' = [manifest EXCEPT ![cur[p]] = None]
  /\ filelist' = [filelist EXCEPT ![cur[p]] = {}]
  /\ UNCHANGED <<caps, disk, work, ops, interrupts, history>>

\* A bug: the index is left alone.
MutForgetCapabilities(p) ==
  /\ pc[p] = "uncaps"
  /\ IF names[p] = {} THEN Exit(p)
     ELSE pc' = [pc EXCEPT ![p] = "next"] /\ UNCHANGED work
  /\ broken' = broken \ {cur[p]}
  /\ UNCHANGED <<database, disk, ops, interrupts, trampled, torn>>

\* The capabilities the index credits to this package go, also those another
\* installed package carries too.
ForgetCapabilities(p) ==
  /\ pc[p] = "uncaps"
  /\ IF names[p] = {} THEN Exit(p)
     ELSE pc' = [pc EXCEPT ![p] = "next"] /\ UNCHANGED work
  /\ caps' = [c \in Caps |-> IF caps[c] = cur[p] THEN None ELSE caps[c]]
  /\ broken' = broken \ {cur[p]}
  /\ UNCHANGED <<manifest, filelist, disk, ops, interrupts, trampled, torn>>

-----------------------------------------------------------------------------
(* Ctrl-C, a full disk, a kill, the power.  A file being replaced, or part *)
(* of a directory, may be gone; a JSON file opened for writing is cut short *)
(* (an unreadable index of capabilities or of alternatives reads as an     *)
(* empty one).                                                             *)

Without(gone) == [g \in Paths |-> IF g \in gone THEN None ELSE root[g]]

Halfway(b, slots, done, cut) ==
  /\ done \subseteq slots /\ Cardinality(slots \ done) <= 1
  /\ \/ cut = {}
     \/ slots = done /\ \E a \in Wins(b) \ done : cut = {Slot[a]}
     \/ slots # done /\ cut = {Link[a] : a \in slots \ done}

Interrupt(p) ==
  /\ pc[p] \in Working /\ interrupts < MaxInterrupts
  /\ Exit(p)
  /\ interrupts' = interrupts + 1
  /\ broken' = broken \cup {cur[p]}
  /\ \/ /\ UNCHANGED <<manifest, filelist, caps, root, state, trampled>>
        /\ torn' = (torn \/ pc[p] \in {"files", "forgotten"})
     \/ /\ pc[p] = "place"
        /\ \E f \in left[p] : \E part \in SUBSET Removed(f) :
             /\ root' = Without({f} \cup part)
             /\ trampled' = trampled \cup part
        /\ UNCHANGED <<manifest, filelist, caps, state, torn>>
     \/ /\ pc[p] = "manifest" /\ torn' = TRUE
        /\ manifest' = [manifest EXCEPT ![cur[p]] = Torn]
        /\ UNCHANGED <<filelist, caps, root, state, trampled>>
     \/ /\ pc[p] = "files" /\ torn' = TRUE
        /\ filelist' = [filelist EXCEPT ![cur[p]] = {}]
        /\ UNCHANGED <<manifest, caps, root, state, trampled>>
     \/ /\ pc[p] = "alternatives"
        /\ \E slots, done \in SUBSET Wins(pkg[p]), cut \in SUBSET LinkPaths(Alts, Alts) :
             /\ Halfway(pkg[p], slots, done, cut)
             /\ root' = Linked(pkg[p], slots, done, cut)
             /\ trampled' = trampled \cup LinkPaths(slots, done) \cup cut
             /\ \/ state' = state
                \/ done = Wins(pkg[p]) /\ state' = [a \in Alts |-> None]
        /\ UNCHANGED <<manifest, filelist, caps, torn>>
     \/ /\ pc[p] = "uncaps"
        /\ caps' = [c \in Caps |-> None]
        /\ UNCHANGED <<manifest, filelist, root, state, trampled, torn>>
  /\ UNCHANGED ops

Installing(p) ==
  \/ \E batch \in SUBSET Builds : InstallFiles(p, batch)
  \/ \E b \in Builds : Accept(p, b) \/ Reject(p, b) \/ Skip(p, b)
  \/ \E f \in Paths : Place(p, f) \/ Prune(p, f)
  \/ Fail(p) \/ AllPlaced(p) \/ AllPruned(p) \/ RecordManifest(p) \/ RecordFiles(p)
  \/ IndexCapabilities(p) \/ ApplyAlternatives(p)

Removing(p) ==
  \/ \E batch \in SUBSET Names, forced \in BOOLEAN : Remove(p, batch, forced)
  \/ \E n \in Names : NextName(p, n)
  \/ \E f \in Paths : Delete(p, f)
  \/ AllDeleted(p) \/ Forget(p) \/ Forgotten(p) \/ ForgetCapabilities(p)

Next == \E p \in Procs : Installing(p) \/ Removing(p) \/ Interrupt(p)

Spec == Init /\ [][Next]_vars

-----------------------------------------------------------------------------
(* Properties.  torn excludes what an interruption between the two files   *)
(* of a database entry leads to; broken is repaired by the next complete   *)
(* command on the package.                                                 *)

Busy(n) == \E p \in Procs : pc[p] \in Working /\ cur[p] = n

\* No path is listed by two packages, through every batch, upgrade, removal
\* and interruption (npkg.py:850-863 checks an owner map it builds once and
\* keeps up to date itself, 938-942).
OwnersDisjoint ==
  ~torn => \A n, m \in installed : n # m => filelist[n] \cap filelist[m] = {}

\* An installed package whose own last command was not interrupted is all
\* there: every file it lists, with the content of the installed version.
\* What was done to other packages, or failed on them, did it no harm
\* (npkg.py:914-934, 1045-1064), except in the two ways the check of owners
\* does not see, which trampled marks until the file is placed again: a link
\* of an alternatives group is put over a file (1003-1009), and a file is put
\* where other packages have a directory (924-925).
InstalledIntact ==
  ~torn => \A n \in installed \ broken : ~Busy(n) =>
             \A f \in filelist[n] \ trampled : root[f] = manifest[n]

\* With no interruption no package's file stays behind that no package
\* lists, apart from symlinks to no regular file that an upgrade dropped
\* (npkg.py:930-934).
NoOrphans ==
  interrupts = 0 /\ (\A p \in Procs : pc[p] \notin Working) =>
    \A f \in Paths \ DeadLinks :
      root[f] \in Builds => \E n \in installed : f \in filelist[n]

\* A capability is credited to a package that is installed (npkg.py:413-434).
CapabilitiesHeld ==
  \A c \in Caps : caps[c] # None /\ caps[c] \notin broken /\ ~Busy(caps[c])
                 => caps[c] \in installed

\* When remove without --force drops a package, every installed package
\* that names it as a dependency is about to be dropped too, and it is not
\* part of the desktop's own runtime (npkg.py:1020-1039).
RemovalGuarded ==
  [][\A p \in Procs : Forgotten(p) /\ ~force[p] =>
       cur[p] \notin Critical /\ dependents(cur[p]) \subseteq names[p]]_vars

\* docs/PACKAGES.md:103-104, "an interrupted install cannot half-install a
\* package".
NeverHalfInstalled ==
  [][\A p \in Procs : Interrupt(p) /\ pc[p] \in InstallSteps =>
       {f \in Placed(pkg[p]) : root'[f] = pkg[p]} \in {{}, Placed(pkg[p])}]_vars

\* docs/PACKAGES.md:105-106, "Two packages claiming one path is a hard
\* error": no file is put where another installed package has one.
NoSilentOverwrites ==
  [][\A f \in Paths : root'[f] \in Builds \ {root[f]} =>
       \A n \in installed \ {Name[root'[f]]} : f \notin filelist[n]]_vars

\* docs/PACKAGES.md:109-110, "Removing something another package depends on
\* requires --force": an unforced remove takes no package's last supplier of
\* something it depends on.
Supplied(d) == \E n \in installed : d = n \/ d \in Carries[manifest[n]]
DependenciesKept ==
  [][\A p \in Procs : Forgotten(p) /\ ~force[p] =>
       \A m \in installed' \ names[p] : \A d \in Depends[manifest[m]] :
         Supplied(d) => Supplied(d)']_vars
=============================================================================

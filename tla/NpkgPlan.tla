------------------------------ MODULE NpkgPlan ------------------------------
(***************************************************************************)
(* What `npkg install` and `npkg upgrade` decide to install, from where    *)
(* and in which order: Repository, Solver, Transaction.install and         *)
(* cmd_upgrade of src/pkg/npkg.py.  The recursion of Solver.resolve is a   *)
(* stack of frames, one requirement visited per step.  Unpacking one       *)
(* package is one step here; NpkgTx models its writes.                     *)
(*                                                                         *)
(* A world is what the repositories publish, one index after another, and  *)
(* to begin with what is installed, what capabilities.json names and which *)
(* of the paths that packages ask for exist, whoever put them there.  An   *)
(* entry of an index carries its repository; sum stands for its sha256 and,*)
(* in the cache, for the bytes.                                            *)
(***************************************************************************)
EXTENDS NpkgPackages

CONSTANTS
  Worlds,      \* [index: repo -> Seq(Seq(entry)), db: name -> entry or Nothing,
               \*  caps, present: sets of names]
  Repos,       \* the repositories of repos.json, in its order
  Local,       \* those of them that are directories
  NameOrder,   \* package names in the order of sorted()
  Commands,    \* [kind, requests, reinstall, refresh]: what users ask for
  Nothing,     \* no entry, no file, no index
  Garbage,     \* bytes that have no entry's checksum
  CutIndex,    \* an index.json cut while being written
  MaxCommands, \* bound: commands
  MaxDepth     \* bound: frames of the recursion

\* A list of requirements, of a package or of a user.
Requires(rs) == rs \in Seq(ToSet(rs)) /\ \A q \in ToSet(rs) : IsRequirement(q)

ASSUME PlanConstants ==
  /\ Repos \in Seq(ToSet(Repos)) /\ Local \subseteq ToSet(Repos)
  /\ NameOrder \in Seq(ToSet(NameOrder)) /\ Nothing \notin ToSet(NameOrder)
  /\ MaxCommands \in Nat /\ MaxDepth \in Nat
  /\ \A c \in Commands : /\ c.kind \in {"install", "upgrade"} /\ Requires(c.requests)
                        /\ c.reinstall \in BOOLEAN
  /\ Nothing \notin Nat /\ CutIndex \notin Nat

VARIABLES
  world,     \* the world this behaviour is about
  mirror,    \* repo -> which of its indexes is published now
  index,     \* repo -> the one index.json caches, Nothing or CutIndex
  cache,     \* <<repo, filename>> -> the sum of the cached file
  db,        \* name -> the entry installed
  caps,      \* the names in capabilities.json
  present,     \* the paths that exist, of those that packages have or ask for
  cmd, commands,
  step,      \* what the command is doing
  verified,  \* Repository._verified
  queue,     \* cmd_upgrade: packages still to upgrade
  requests, reinstall,                 \* the arguments of install
  todo, stack, visiting, \* the state of resolve, and what it has chosen:
  chosen, order,         \* names, and entries in the order of the plan
  base,      \* history: what was installed when resolve began
  plan,      \* what resolve returned, what is still to be installed of it
  fetching,  \* downloads of prefetch not yet finished
  cuts,      \* history: <<name, requirement>> a cycle made resolve pass over
  dropped,   \* history: names chosen that the plan has another version for
  shed,      \* history: names nothing supplies since a package was replaced
  lacking    \* history: the requirement resolve found nothing for

stores == <<world, mirror, index, cache>>
have == <<db, caps, present>>
search == <<todo, stack, visiting, chosen, order, base>>
ask == <<cmd, commands, requests, reinstall>>
notes == <<cuts, dropped, shed, lacking>>
planVars == <<stores, have, ask, step, verified, queue, search, plan, fetching, notes>>

RepoSet == ToSet(Repos)
NameSet == ToSet(NameOrder)
Installed == {n \in NameSet : db[n] # Nothing}
EntriesOf(w, r) == UNION {ToSet(w.index[r][i]) : i \in DOMAIN w.index[r]}
Entries(r) == EntriesOf(world, r)
FilesOf(w) == UNION {{<<r, e.file>> : e \in EntriesOf(w, r)} : r \in RepoSet}

-----------------------------------------------------------------------------
(* Database: who supplies a name.                                          *)

Provided(e) == {e.provides[i].name : i \in DOMAIN e.provides}
Gives(e, n) == n \in {e.name} \cup Provided(e)

\* provides_map: the last package in name order that is called n, or that
\* provides n, overwrites the ones before it.
SupplierIn(d, n) ==
  LET at == {i \in DOMAIN NameOrder :
               /\ d[NameOrder[i]] # Nothing
               /\ n \in {NameOrder[i]} \cup Provided(d[NameOrder[i]])}
  IN IF at = {} THEN Nothing
     ELSE NameOrder[CHOOSE i \in at : \A j \in at : j <= i]

Supplier(n) == SupplierIn(db, n)

\* record_capabilities, when a package is installed: what it provides, as the
\* manifest writes it and so under its bare name only without a version, and
\* the libraries among its files.  Nothing is taken out of the index but when
\* a package is removed, and then whatever that package was the last to record.
Recorded(e) ==
  {e.provides[i].name : i \in {j \in DOMAIN e.provides : e.provides[j].op = ""}}
    \cup scan(e.files)

\* is_satisfied.  provides_map holds every installed name, so a package of
\* another version than the one asked for is accepted all the same, which the
\* docstring denies (npkg.py:439); and a path need only exist, which it says is
\* to be owned by a package (441).
is_satisfied(r) ==
  \/ r.name \in Installed /\ satisfies(Version(db[r.name].version, <<>>), r)
  \/ Supplier(r.name) # Nothing
  \/ r.name \in caps
  \/ r.name \in present

\* What a package is needed for, and what supplies it: whatever its version, a
\* package of that name, one that provides it or a library it carries, or a
\* file at that path.
Lends(e) == Provided(e) \cup scan(e.files)
Supplied(d, files, n) ==
  n \in files \/ \E m \in NameSet : d[m] # Nothing /\ n \in {m} \cup Lends(d[m])

\* An entry of an index is a package of its repository, its version split as
\* conversion splits it.
IsEntryOf(e, r) ==
  /\ e.repo = r /\ e.name \in NameSet /\ e.sum # Nothing /\ e # Nothing
  /\ Requires(e.depends) /\ IsVersion(e.whole)
  /\ e.version = Upstream(e.whole) /\ e.release = Release(e.whole)
Publishes(w, r) ==
  /\ w.index[r] \in Seq(ToSet(w.index[r])) \ {<<>>}
  /\ \A i \in DOMAIN w.index[r] : w.index[r][i] \in Seq(ToSet(w.index[r][i]))
  /\ \A e \in EntriesOf(w, r) : IsEntryOf(e, r)
\* A file of a directory keeps its bytes.
Steady(w, r) == \A e, f \in EntriesOf(w, r) : e.file = f.file => e.sum = f.sum
\* What is installed to begin with has its dependencies.
Sound(d, files) ==
  /\ d = [n \in NameSet |-> d[n]]
  /\ \A n \in NameSet : d[n] # Nothing =>
       d[n].name = n /\ \A q \in ToSet(d[n].depends) : Supplied(d, files, q.name)
ASSUME WorldsAssumption ==
  \A w \in Worlds : /\ \A r \in RepoSet : Publishes(w, r)
                    /\ \A r \in Local : Steady(w, r)
                    /\ Sound(w.db, w.present)

-----------------------------------------------------------------------------
(* Repository and Solver.find.                                             *)

Offers(r) == IF index[r] \in Nat THEN world.index[r][index[r]] ELSE <<>>

\* A bug: a requirement that names a revision is compared with the version
\* alone.
MutForms(e) == {Version(e.version, <<>>)}

Forms(e) == {Version(e.version, <<>>), Version(e.version, e.release)}
Fits(e, r) == \E form \in Forms(e) : satisfies(form, r)

\* The entries of an index are looked at by name, newest version first, in
\* the order of the index where the versions are equal.
Before(es, i, j) ==
  \/ KeyLess(es[j].version, es[i].version)
  \/ ~KeyLess(es[i].version, es[j].version) /\ i <= j

\* The first in that order of the entries at the places of ps, if there are any.
FirstIn(es, ps) == {es[i] : i \in {k \in ps : \A j \in ps : Before(es, k, j)}}

best(r, need) ==
  FirstIn(Offers(r), {i \in DOMAIN Offers(r) :
            Offers(r)[i].name = need.name /\ Fits(Offers(r)[i], need)})

Supplies(e, need) ==
  \E i \in DOMAIN e.provides :
    LET c == e.provides[i]
    IN /\ c.name = need.name
       /\ need.op = "" \/ c.op = "" \/ satisfies(c.ver, need)

\* The provider found first: of the name that stands first in the index,
\* the newest.
provider(r, need) ==
  LET names(ps) == {Offers(r)[i].name : i \in ps}
      places(n) == {i \in DOMAIN Offers(r) : Offers(r)[i].name = n}
      able == {i \in DOMAIN Offers(r) : Supplies(Offers(r)[i], need)}
      leading == {i \in able : \A n \in names(able) :
                    \E k \in places(Offers(r)[i].name) : \A l \in places(n) : k <= l}
  IN FirstIn(Offers(r), leading)

Place(r) == CHOOSE i \in DOMAIN Repos : Repos[i] = r

\* Solver.find: a package called that, or else one that provides it; the
\* empty set for DependencyError.
find(need) ==
  LET named == UNION {best(r, need) : r \in RepoSet}
      able == UNION {provider(r, need) : r \in RepoSet}
      first(es) == {e \in es : \A f \in es : Place(e.repo) <= Place(f.repo)}
  IN IF named # {} THEN first(named) ELSE first(able)

-----------------------------------------------------------------------------
(* Repository.download.  A file in the cache is taken as it is; the sum is *)
(* compared once per process and expected sum.  A file that fails stays.   *)

Path(e) == <<e.repo, e.file>>
Published(e) ==
  {x.sum : x \in {y \in ToSet(world.index[e.repo][mirror[e.repo]]) : y.file = e.file}}

\* What a download of e can leave at its path: what was there, or else what
\* the mirror serves under that name now, whole or damaged on the way.
Fetched(e) ==
  IF e.repo \in Local THEN Published(e)
  ELSE IF cache[Path(e)] # Nothing THEN {cache[Path(e)]}
  ELSE Published(e) \cup (IF Published(e) = {} THEN {} ELSE {Garbage})

\* A bug: only what has just been downloaded is compared with the sum.
MutPasses(e, bytes) ==
  \/ <<Path(e), e.sum>> \in verified \/ bytes = e.sum
  \/ cache[Path(e)] # Nothing

Passes(e, bytes) == <<Path(e), e.sum>> \in verified \/ bytes = e.sum

Stored(e, bytes) ==
  cache' = IF e.repo \in Local THEN cache ELSE [cache EXCEPT ![Path(e)] = bytes]

-----------------------------------------------------------------------------
PlanInitAt(w) ==
  /\ world = w
  /\ mirror = [r \in RepoSet |-> 1]
  /\ index = [r \in RepoSet |-> Nothing]
  /\ cache = [p \in FilesOf(w) |-> Nothing]
  /\ db = w.db /\ caps = w.caps /\ present = w.present /\ base = w.db
  /\ cmd = Nothing /\ commands = 0 /\ step = "idle"
  /\ verified = {} /\ queue = {}
  /\ requests = {} /\ reinstall = FALSE
  /\ todo = <<>> /\ stack = <<>> /\ visiting = {} /\ chosen = {} /\ order = <<>>
  /\ plan = <<>> /\ fetching = {}
  /\ cuts = {} /\ dropped = {} /\ lacking = Nothing
  /\ shed = {n \in w.caps : ~Supplied(w.db, w.present, n)}

PlanInit == \E w \in Worlds : PlanInitAt(w)

\* A repository publishes its next index.
MirrorMoves(r) ==
  /\ mirror[r] < Len(world.index[r])
  /\ mirror' = [mirror EXCEPT ![r] = @ + 1]
  /\ UNCHANGED <<world, index, cache, have, ask, step, verified, queue, search, plan,
                 fetching, notes>>

Command(c) ==
  /\ step = "idle" /\ commands < MaxCommands
  /\ cmd' = c /\ commands' = commands + 1 /\ step' = "load"
  /\ verified' = {} /\ lacking' = Nothing
  /\ UNCHANGED <<stores, have, queue, requests, reinstall, search, plan, fetching, cuts,
                 dropped, shed>>

\* cmd_upgrade: the newest version any repository offers, release apart,
\* against the version installed.
Newest(n) == {e.version : e \in UNION {best(r, Need(n)) : r \in RepoSet}}
Outdated == {n \in Installed : \E v \in Newest(n) : KeyLess(db[n].version, v)}
\* Entries of the list are gone through in the order of sorted().
ByName(n, m) == \E i, j \in DOMAIN NameOrder : i <= j /\ NameOrder[i] = n /\ NameOrder[j] = m

\* Transaction.install starts: resolve([name, ...]).
Resolve(rs, again) ==
  /\ step' = "resolve"
  /\ requests' = ToSet(rs) /\ reinstall' = again
  /\ todo' = rs /\ stack' = <<>> /\ visiting' = {} /\ chosen' = {} /\ order' = <<>>
  /\ base' = db

\* A command, or one package of an upgrade, is over.
Over ==
  /\ plan' = <<>> /\ fetching' = {}
  /\ step' = IF queue = {} THEN "idle" ELSE "upgrade"

\* Repository.load_all: every repository in turn; the first that cannot be
\* fetched and was never cached, or whose cache is cut, ends the command.
Load(reached) ==
  LET fetch(r) == (cmd.refresh \/ index[r] = Nothing) /\ r \in reached
      got(r) == IF r \in Local \/ fetch(r) THEN mirror[r] ELSE index[r]
      bad == {i \in DOMAIN Repos : got(Repos[i]) \notin Nat}
      read == {Repos[i] : i \in {j \in DOMAIN Repos : \A k \in bad : j < k}}
  IN /\ step = "load"
     /\ index' = [r \in RepoSet |-> IF r \in read THEN got(r) ELSE index[r]]
     /\ step' = IF bad # {} THEN "idle" ELSE "start"
     /\ UNCHANGED <<world, mirror, cache, have, ask, verified, queue, search, plan,
                    fetching, notes>>

\* The process is killed, or the machine stops, with index.json half written.
LoadCut(r) ==
  /\ step = "load" /\ r \notin Local /\ (cmd.refresh \/ index[r] = Nothing)
  /\ index' = [index EXCEPT ![r] = CutIndex]
  /\ step' = "idle"
  /\ UNCHANGED <<world, mirror, cache, have, ask, verified, queue, search, plan,
                 fetching, notes>>

StartInstall ==
  /\ step = "start" /\ cmd.kind = "install"
  /\ Resolve(cmd.requests, cmd.reinstall)
  /\ UNCHANGED <<stores, have, cmd, commands, verified, queue, plan, fetching, notes>>

\* The list is shown and the user agrees, or does not.
StartUpgrade(agreed) ==
  /\ step = "start" /\ cmd.kind = "upgrade"
  /\ queue' = IF agreed THEN Outdated ELSE {}
  /\ step' = IF queue' = {} THEN "idle" ELSE "upgrade"
  /\ UNCHANGED <<stores, have, ask, verified, search, plan, fetching, notes>>

UpgradeNext ==
  /\ step = "upgrade"
  /\ \E n \in queue : /\ \A m \in queue : ByName(n, m)
                     /\ queue' = queue \ {n}
                     /\ Resolve(<<Need(n)>>, TRUE)
  /\ UNCHANGED <<stores, have, cmd, commands, verified, plan, fetching, notes>>

-----------------------------------------------------------------------------
(* Solver.resolve, depth first.  The top frame is the package whose        *)
(* dependencies are being visited.                                         *)

Top == stack[Len(stack)]
\* The requirement to visit next, if there is one.
Wanted == IF step # "resolve" THEN {}
          ELSE IF stack = <<>> THEN {todo[i] : i \in DOMAIN todo \cap {1}}
          ELSE {Top.deps[i] : i \in DOMAIN Top.deps \cap {1}}
\* The stack once that requirement has been visited.
FrameOf(key, e, deps) == [key |-> key, entry |-> e, deps |-> deps]
Visited == [stack EXCEPT ![Len(stack)] = FrameOf(Top.key, Top.entry, Tail(Top.deps))]
Rest == IF stack = <<>> THEN todo' = Tail(todo) /\ stack' = stack
        ELSE todo' = todo /\ stack' = Visited

Met(need) ==
  LET holder == Supplier(need.name)
  IN \/ /\ holder # Nothing
        /\ ~(reinstall /\ Need(need.name) \in requests)
        /\ satisfies(Version(db[holder].version, <<>>), need)
     \/ need \notin requests /\ is_satisfied(need)

\* A bug: a reinstall reinstalls the dependencies as well.
MutSkips(need) ==
  \/ need.name \in chosen \cup visiting
  \/ ~reinstall /\ Met(need)

\* A bug: nothing tells that a package is being visited already.
MutForgets(need) == need.name \in chosen \/ Met(need)

Skips(need) == need.name \in chosen \cup visiting \/ Met(need)

Skip(need) ==
  /\ Skips(need) /\ Rest
  /\ cuts' = IF need.name \in visiting
             THEN cuts \cup {<<Top.entry.name, need.name>>} ELSE cuts
  /\ UNCHANGED <<stores, have, ask, step, verified, queue, visiting, chosen, order, base,
                 plan, fetching, dropped, shed, lacking>>

\* visit goes one call deeper.
Frame(need, e) ==
  stack' = Append(IF stack = <<>> THEN stack ELSE Visited, FrameOf(need.name, e, e.depends))

Descend(need, e) ==
  /\ ~Skips(need) /\ Len(stack) < MaxDepth
  /\ Frame(need, e)
  /\ todo' = IF stack = <<>> THEN Tail(todo) ELSE todo
  /\ visiting' = visiting \cup {need.name}
  /\ UNCHANGED <<stores, have, ask, step, verified, queue, chosen, order, base, plan,
                 fetching, notes>>

\* DependencyError.
Unresolved(need) ==
  /\ ~Skips(need) /\ find(need) = {}
  /\ lacking' = need
  /\ Over
  /\ UNCHANGED <<stores, have, ask, verified, queue, search, cuts, dropped, shed>>

\* Two names may have led to one package: it stands in the plan once, as the
\* first chose it.
Return ==
  /\ step = "resolve" /\ stack # <<>> /\ Top.deps = <<>>
  /\ visiting' = visiting \ {Top.key} /\ chosen' = chosen \cup {Top.key}
  /\ stack' = Front(stack)
  /\ IF \E i \in DOMAIN order : order[i].name = Top.entry.name
     THEN /\ dropped' = dropped \cup {k \in {Top.key} : \A i \in DOMAIN order : ~Gives(order[i], k)}
          /\ UNCHANGED order
     ELSE order' = Append(order, Top.entry) /\ UNCHANGED dropped
  /\ UNCHANGED <<stores, have, ask, step, verified, queue, todo, base, plan,
                 fetching, cuts, shed, lacking>>

\* A bug: a package stands before what it depends on.
MutPlan == Reverse(order)

Plan == order

Planned ==
  /\ step = "resolve" /\ stack = <<>> /\ todo = <<>>
  /\ IF Plan = <<>> THEN Over
     ELSE /\ plan' = Plan /\ step' = "install"
          /\ fetching' = {e \in ToSet(Plan) : e.repo \notin Local}
  /\ UNCHANGED <<stores, have, ask, verified, queue, search, notes>>

-----------------------------------------------------------------------------
(* Transaction.install.  prefetch downloads the plan in several threads;   *)
(* what fails there is left to the loop that installs.                     *)

Prefetch(e) ==
  /\ step = "install" /\ e \in fetching
  /\ fetching' = fetching \ {e}
  /\ \/ UNCHANGED <<cache, verified>>
     \/ \E bytes \in Fetched(e) :
          /\ Stored(e, bytes)
          /\ verified' = IF Passes(e, bytes) THEN verified \cup {<<Path(e), e.sum>>}
                         ELSE verified
  /\ UNCHANGED <<world, mirror, index, have, ask, step, queue, search, plan, notes>>

\* The entry an installed package is described by is the one its archive
\* holds; with the wrong bytes it would be another's.
Unpacked(e, bytes) == IF bytes = e.sum THEN e ELSE [e EXCEPT !.sum = bytes]

PathsOf(d, n) == IF d[n] = Nothing THEN {} ELSE {f.path : f \in d[n].files}
Lent(d, n) == IF d[n] = Nothing THEN {} ELSE {n} \cup Lends(d[n]) \cup PathsOf(d, n)

\* The names that nothing supplies any longer, once the package n is another.
Shed(n) == {v \in Lent(db, n) : Supplied(db, present, v) /\ ~Supplied(db', present', v)}

\* A file that the new version of a package has not got goes, but for what
\* os.path.isfile does not take for one, as a link that leads nowhere.  The
\* capabilities are written last, and an error there is passed over.
InstallNext ==
  /\ step = "install" /\ fetching = {} /\ plan # <<>>
  /\ LET e == Head(plan)
         new == {f.path : f \in e.files}
     IN \E bytes \in Fetched(e), stale \in SUBSET (PathsOf(db, e.name) \ new) :
          /\ Passes(e, bytes)
          /\ Stored(e, bytes)
          /\ verified' = verified \cup {<<Path(e), e.sum>>}
          /\ db' = [db EXCEPT ![e.name] = Unpacked(e, bytes)]
          /\ present' = (present \ stale) \cup new
          /\ caps' \in {caps, caps \cup Recorded(e)}
          /\ shed' = shed \cup Shed(e.name)
  /\ plan' = Tail(plan)
  /\ step' = IF plan' # <<>> THEN "install" ELSE IF queue = {} THEN "idle" ELSE "upgrade"
  /\ UNCHANGED <<world, mirror, index, ask, queue, search, fetching, cuts, dropped, lacking>>

\* The download fails, or the sum does, or the package is refused (a
\* conflict, another's file).  What was installed before it stays.
InstallFails ==
  /\ step = "install" /\ fetching = {} /\ plan # <<>>
  /\ \/ UNCHANGED cache
     \/ \E bytes \in Fetched(Head(plan)) : Stored(Head(plan), bytes)
  /\ Over
  /\ UNCHANGED <<world, mirror, index, have, ask, verified, queue, search, notes>>

\* The process is killed.
Killed ==
  /\ step \notin {"idle", "load"}
  /\ step' = "idle" /\ queue' = {} /\ plan' = <<>> /\ fetching' = {}
  /\ UNCHANGED <<stores, have, ask, verified, search, notes>>

Advance ==
  \/ \E reached \in SUBSET RepoSet : Load(reached)
  \/ StartInstall \/ UpgradeNext
  \/ \E agreed \in BOOLEAN : StartUpgrade(agreed)
  \/ \E need \in Wanted : Skip(need) \/ Unresolved(need)
                          \/ \E e \in find(need) : Descend(need, e)
  \/ Return \/ Planned
  \/ \E e \in fetching : Prefetch(e)
  \/ InstallNext \/ InstallFails

PlanNext ==
  \/ \E r \in RepoSet : MirrorMoves(r) \/ LoadCut(r)
  \/ \E c \in Commands : Command(c)
  \/ Advance \/ Killed

PlanFairness == WF_planVars(Advance)
PlanSpec == PlanInit /\ [][PlanNext]_planVars /\ PlanFairness

-----------------------------------------------------------------------------
(* What is checked.                                                        *)

PlanTypeOK ==
  /\ world \in Worlds
  /\ \A r \in RepoSet : /\ mirror[r] \in DOMAIN world.index[r]
                        /\ index[r] \in {Nothing, CutIndex} \cup 1 .. mirror[r]
  /\ DOMAIN cache = FilesOf(world)
  /\ DOMAIN db = NameSet /\ DOMAIN base = NameSet /\ \A n \in Installed : db[n].name = n
  /\ cmd \in Commands \cup {Nothing} /\ commands \in 0 .. MaxCommands
  /\ step \in {"idle", "load", "start", "upgrade", "resolve", "install"}
  /\ reinstall \in BOOLEAN /\ queue \subseteq Installed
  /\ visiting = {stack[i].key : i \in DOMAIN stack} \/ step # "resolve"
  /\ \A i, j \in DOMAIN order : order[i].name = order[j].name => i = j

\* Whatever stops a command -- a download, a conflict, a kill, between any
\* two packages -- every installed package has its dependencies, whatever their
\* versions: by name, by capability or by a file that is there.  Except where a
\* cycle made the solver put it first, where the plan has another version of
\* the package chosen for that name, and where a package that supplied it has
\* been replaced by one that does not, which capabilities.json goes on naming
\* (Solver.resolve, npkg.py:685; is_satisfied, 435).
ClosedPrefix ==
  \A n \in Installed : \A i \in DOMAIN db[n].depends :
    LET d == db[n].depends[i].name
    IN Supplied(db, present, d) \/ <<n, d>> \in cuts \/ d \in dropped \cup shed

\* What is installed is byte for byte what an index described, whatever the
\* cache held before and whichever thread fetched it (Repository.download,
\* npkg.py:585).
BytesAsIndexed ==
  \A n \in Installed :
    db[n] = world.db[n] \/ \E r \in RepoSet : db[n] \in Entries(r)

\* What was asked for by the name v and was not to be had as it was: by its
\* very name in a reinstall, or at a version that is not installed.
AskedFor(v) ==
  \E q \in requests : /\ q.name = v
                     /\ \/ reinstall /\ q = Need(v)
                        \/ ~satisfies(Version(base[SupplierIn(base, v)].version, <<>>), q)

\* An installed package is replaced only for a name the solver went after: one
\* that was asked for as above, or that nothing installed had or provided when
\* the plan was made.  A dependency on what is there moves nothing, in the
\* middle of an upgrade or a reinstall (npkg.py:687-697).
ReplacedOnlyIfAsked ==
  [][\A n \in Installed : db'[n] # db[n] =>
       \E v \in chosen \cap ({n} \cup Provided(db'[n])) :
         SupplierIn(base, v) = Nothing \/ AskedFor(v)]_planVars

\* The one kind of version that is passed over: it goes on where the version
\* asked for ends and its revision begins, 2.36.1-1 for >= 2.36-9.  The code
\* compares what it goes on with to that revision.
GoesOn(v, r) ==
  /\ r.op \in {">", ">="} /\ ~r.any /\ r.ver.rev # <<>>
  /\ IsStrictPrefix(r.ver.up, v.up)

\* A requirement, as conversion left it, is reported unsatisfiable only when no
\* package on offer satisfies it with the upstream version compared first and
\* the revision after it: but for a version that goes on where a revision was
\* asked for, the two forms of a version and the special case of "-." lose
\* nothing.  The parts are compared in npkg's order on both sides, which is
\* Debian's for numbers between dots and not for letters, "~" or epochs
\* (Repository.best, npkg.py:533).
NoFalseFailure ==
  [][lacking' \notin {lacking, Nothing} =>
       \A r \in RepoSet : \A i \in DOMAIN Offers(r) :
         LET e == Offers(r)[i]
         IN /\ e.name = lacking'.name =>
                 ~SplitSatisfies(e.whole, lacking') \/ GoesOn(e.whole, lacking')
            /\ ~Supplies(e, lacking')]_planVars
=============================================================================

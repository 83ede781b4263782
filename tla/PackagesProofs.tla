--------------------------- MODULE PackagesProofs ---------------------------
(***************************************************************************)
(* What npkg service switches on, for any units of any root, with an Also  *)
(* that may lead round in circles, and any number of commands; what npkg   *)
(* install and upgrade leave installed and what they refuse, for any       *)
(* repositories, dependencies and versions; which kernels the two slots    *)
(* boot, for any number of versions, commands and power cuts; and that a   *)
(* package keeps its paths when it is laid out.                            *)
(***************************************************************************)
EXTENDS MCPackages, BootstrapProofs

(***************************************************************************)
(* The units enable has come to, and those it still has to come to: they   *)
(* hold the unit of the command, are among what its Also leads to, and are *)
(* closed but for the units not yet come to.  So when no call is left they *)
(* are all of it, and each has its links and its aliases.                  *)
(***************************************************************************)

Enabled == {u \in Units : is_enabled(u)}
Coming == seen \cup ToSet(pending)

ServiceTypes ==
  /\ units \in Installs /\ asked \subseteq Units /\ ever \subseteq Units /\ seen \subseteq Units
  /\ ToSet(pending) \subseteq Units /\ pending \in Seq(ToSet(pending))

\* An alias leads to a unit that has it; those of the units not come to may
\* still be missing.
AliasesLead ==
  /\ \A u \in ever : units[u] # NoUnit
  /\ \A a \in Aliases :
       aliases[a] = NoUnit \/ (aliases[a] \in ever /\ a \in units[aliases[a]].alias)
AliasesMade(coming) ==
  \A u \in ever \ coming : units[u] # NoUnit /\ \A a \in units[u].alias : aliases[a] # NoUnit

\* A command to enable r is under way.
Enabling(r) ==
  /\ AliasesMade(Reached(r) \ seen)
  /\ There(Reached(r)) \subseteq ever
  /\ r \in Coming /\ Coming \subseteq Reached(r)
  /\ \A u \in seen : units[u] # NoUnit => units[u].also \subseteq Coming
  /\ Companions(seen) \subseteq Enabled
  /\ Enabled \subseteq asked /\ asked \subseteq Enabled \cup Companions(Reached(r))
  /\ Companions(Reached(r)) \subseteq asked

ServiceInv ==
  /\ ServiceTypes /\ AliasesLead
  /\ IF pending = <<>> THEN Enabled = asked /\ AliasesMade({}) ELSE \E r \in Units : Enabling(r)

\* The units reached from r lie in every set of units that holds r and, with a
\* unit, its Also; and they are such a set.
LEMMA ReachedIsLeast ==
  ASSUME InstallsAssumption, units \in Installs, NEW r \in Units
  PROVE  /\ r \in Reached(r) /\ Reached(r) \subseteq Units
         /\ HasItsAlso(Reached(r))
         /\ \A S \in SUBSET Units : r \in S /\ HasItsAlso(S) => Reached(r) \subseteq S
<1>1. r \in Reached(r) /\ Reached(r) \subseteq Units
  BY DEF Reached
<1>2. ASSUME NEW u \in Reached(r), units[u] # NoUnit, NEW v \in units[u].also
      PROVE  v \in Reached(r)
  <2>1. v \in Units
    BY <1>1, <1>2 DEF InstallsAssumption
  <2>2. ASSUME NEW S \in SUBSET Units, r \in S, HasItsAlso(S)
        PROVE  v \in S
    <3>1. u \in S
      BY <2>2 DEF Reached
    <3> QED BY <2>2, <3>1, <1>2 DEF HasItsAlso
  <2> QED BY <2>1, <2>2 DEF Reached
<1>3. ASSUME NEW S \in SUBSET Units, r \in S, HasItsAlso(S)
      PROVE  Reached(r) \subseteq S
  BY <1>3 DEF Reached
<1> QED BY <1>1, <1>2, <1>3 DEF HasItsAlso

\* The links of a unit enable it, if anything wants it, and no other.
LEMMA LinksEnable ==
  ASSUME InstallsAssumption, units \in Installs, NEW u \in Units, units[u] # NoUnit,
         links' = links \cup _link_targets(u)
  PROVE  Enabled' = Enabled \cup Companions({u})
<1>1. units[u].in \subseteq Wants
  BY DEF InstallsAssumption
<1>2. ASSUME NEW v \in Units
      PROVE  is_enabled(v)' <=> is_enabled(v) \/ (v = u /\ units[u].in # {})
  <2>1. \A d \in Wants : <<d, v>> \in _link_targets(u) <=> v = u /\ d \in units[u].in
    BY <1>1 DEF _link_targets
  <2> QED BY <2>1, <1>1 DEF is_enabled
<1> QED BY <1>2 DEF Enabled, Companions, There

LEMMA ServiceStarts == ServiceInit => ServiceInv
<1> SUFFICES ASSUME ServiceInit PROVE ServiceInv
  OBVIOUS
<1>1. ToSet(<<>>) = {} /\ <<>> \in Seq({})
  BY DEF ToSet
<1> QED BY <1>1 DEF ServiceInit, ServiceInitAt, ServiceInv, ServiceTypes, Enabled, is_enabled,
  AliasesLead, AliasesMade

LEMMA EnableKeeps ==
  ASSUME InstallsAssumption, ServiceInv, NEW u \in Units, Enable(u)
  PROVE  ServiceInv'
<1>1. /\ pending = <<>> /\ pending' = <<u>> /\ seen' = {} /\ Enabled = asked
      /\ asked' = asked \cup Companions(Reached(u)) /\ ever' = ever \cup There(Reached(u))
      /\ units' = units /\ links' = links /\ aliases' = aliases
      /\ ServiceTypes /\ AliasesLead /\ AliasesMade({})
  BY DEF Enable, ServiceInv
<1>2. ToSet(pending') = {u} /\ pending' \in Seq({u})
  BY <1>1 DEF ToSet
<1>3. /\ u \in Reached(u) /\ Reached(u) \subseteq Units
      /\ Reached(u)' = Reached(u) /\ Companions(Reached(u))' = Companions(Reached(u))
      /\ There(Reached(u))' = There(Reached(u)) /\ Enabled' = Enabled
  BY <1>1, ReachedIsLeast DEF ServiceTypes, Reached, HasItsAlso, There, Companions, Enabled,
    is_enabled
<1>4. ServiceTypes' /\ AliasesLead'
  <2>1. ServiceTypes'
    BY <1>1, <1>2, <1>3 DEF ServiceTypes, There, Companions
  <2>2. AliasesLead'
    BY <1>1 DEF AliasesLead, There
  <2> QED BY <2>1, <2>2
<1>5. Enabling(u)'
  <2>1. Coming' = {u}
    BY <1>1, <1>2 DEF Coming
  <2>2. AliasesMade(Reached(u) \ seen)'
    <3>1. \A v \in ever' \ (Reached(u) \ {}) : v \in ever
      BY <1>1 DEF There
    <3> QED BY <3>1, <1>1, <1>3 DEF AliasesMade
  <2>3. Companions(seen') = {}
    BY <1>1 DEF There, Companions
  <2>4. Companions(seen)' \subseteq Enabled'
    BY <1>1, <2>3 DEF There, Companions
  <2> QED BY <2>1, <2>2, <2>4, <1>1, <1>3 DEF Enabling
<1>6. pending' # <<>>
  BY <1>1
<1> QED BY <1>4, <1>5, <1>6 DEF ServiceInv

LEMMA DisableKeeps ==
  ASSUME ServiceInv, NEW u \in Units, Disable(u)
  PROVE  ServiceInv'
<1>1. /\ pending = <<>> /\ pending' = <<>> /\ Enabled = asked /\ ServiceTypes
      /\ units' = units /\ seen' = seen /\ asked' = asked \ {u} /\ links' = links \ LinksOf(u)
      /\ aliases' = aliases /\ ever' = ever /\ AliasesLead /\ AliasesMade({})
  BY DEF Disable, ServiceInv
<1>2. ASSUME NEW v \in Units
      PROVE  is_enabled(v)' <=> is_enabled(v) /\ v # u
  BY <1>1 DEF is_enabled, LinksOf
<1>3. Enabled' = Enabled \ {u}
  BY <1>2 DEF Enabled
<1>4. AliasesLead' /\ AliasesMade({})'
  BY <1>1 DEF AliasesLead, AliasesMade
<1> QED BY <1>1, <1>3, <1>4 DEF ServiceInv, ServiceTypes

LEMMA CallKeeps ==
  ASSUME InstallsAssumption, ServiceInv, Call
  PROVE  ServiceInv'
<1> DEFINE u == Head(pending)
<1>1. pending # <<>> /\ ServiceTypes /\ AliasesLead
  BY DEF Call, ServiceInv
<1>2. PICK r \in Units : Enabling(r)
  BY <1>1 DEF ServiceInv
<1>3. /\ units' = units /\ asked' = asked /\ ever' = ever /\ seen' = seen \cup {u}
      /\ IF Comes(u)
         THEN /\ links' = links \cup _link_targets(u)
              /\ aliases' = [a \in Aliases |-> IF a \in units[u].alias THEN u ELSE aliases[a]]
              /\ pending' = SetToSeq(units[u].also) \o Tail(pending)
         ELSE pending' = Tail(pending) /\ links' = links /\ aliases' = aliases
  BY DEF Call
<1>4. /\ ToSet(pending) = {u} \cup ToSet(Tail(pending))
      /\ Tail(pending) \in Seq(ToSet(Tail(pending))) /\ u \in Units
  <2>1. pending \in Seq(ToSet(pending)) /\ ToSet(pending) \subseteq Units
    BY <1>1 DEF ServiceTypes
  <2> QED BY <1>1, <2>1, ToSetTail
<1>5. /\ Reached(r)' = Reached(r)
      /\ Companions(Reached(r))' = Companions(Reached(r))
      /\ There(Reached(r))' = There(Reached(r))
      /\ Companions(seen)' = Companions(seen \cup {u})
  BY <1>3 DEF Reached, HasItsAlso, There, Companions
\* The aliases of u are made, and lead to u.
<1>8. AliasesLead' /\ AliasesMade(Reached(r) \ seen)' /\ There(Reached(r))' \subseteq ever'
  <2>1. AliasesMade(Reached(r) \ seen) /\ There(Reached(r)) \subseteq ever /\ u \in Reached(r)
    BY <1>2, <1>4 DEF Enabling, Coming
  <2>2. CASE Comes(u)
    <3>1. /\ u \in ever /\ u # NoUnit /\ units[u] # NoUnit /\ units[u].alias \subseteq Aliases
      BY <2>1, <2>2, <1>1, <1>4 DEF Comes, There, InstallsAssumption, ServiceTypes
    <3>2. aliases' = [a \in Aliases |-> IF a \in units[u].alias THEN u ELSE aliases[a]]
      BY <2>2, <1>3
    <3>3. AliasesLead'
      BY <3>1, <3>2, <1>1, <1>3 DEF AliasesLead
    <3>4. ASSUME NEW v \in ever \ (Reached(r) \ (seen \cup {u}))
          PROVE  units[v] # NoUnit /\ \A a \in units[v].alias : aliases'[a] # NoUnit
      <4>1. v \in Units
        BY <1>1 DEF ServiceTypes
      <4>2. CASE v = u
        BY <4>2, <3>1, <3>2
      <4>3. CASE v # u
        <5>1. v \in ever \ (Reached(r) \ seen)
          BY <4>3
        <5>2. units[v] # NoUnit /\ \A a \in units[v].alias : aliases[a] # NoUnit
          BY <5>1, <2>1 DEF AliasesMade
        <5>3. units[v].alias \subseteq Aliases
          BY <5>2, <4>1, <1>1 DEF InstallsAssumption, ServiceTypes
        <5> QED BY <5>2, <5>3, <3>1, <3>2
      <4> QED BY <4>2, <4>3
    <3> QED BY <3>3, <3>4, <2>1, <1>3, <1>5 DEF AliasesMade
  <2>3. CASE ~Comes(u)
    <3>1. aliases' = aliases
      BY <2>3, <1>3
    <3>2. AliasesLead'
      BY <3>1, <1>1, <1>3 DEF AliasesLead
    <3>3. \A v \in ever \ (Reached(r) \ (seen \cup {u})) : v \in ever \ (Reached(r) \ seen)
      <4>1. u \notin ever \/ u \in seen
        BY <2>3, <1>1 DEF Comes, AliasesLead
      <4> QED BY <4>1
    <3> QED BY <3>1, <3>2, <3>3, <2>1, <1>3, <1>5 DEF AliasesMade
  <2> QED BY <2>2, <2>3
<1>6. ServiceTypes' /\ Enabling(r)'
  <2>1. CASE Comes(u)
    <3>1. /\ units[u] # NoUnit /\ units[u].also \subseteq Units /\ IsFiniteSet(units[u].also)
          /\ units \in Installs
      BY <2>1, <1>1, <1>4 DEF Comes, InstallsAssumption, ServiceTypes
    <3> DEFINE s == SetToSeq(units[u].also)
    <3>2. ToSet(s) = units[u].also /\ s \in Seq(ToSet(s))
      BY <3>1, ToSetSetToSeq
    <3>3. /\ ToSet(pending') = units[u].also \cup ToSet(Tail(pending))
          /\ pending' \in Seq(ToSet(pending'))
      <4> HIDE DEF s
      <4>1. /\ ToSet(s \o Tail(pending)) = ToSet(s) \cup ToSet(Tail(pending))
            /\ s \o Tail(pending) \in Seq(ToSet(s \o Tail(pending)))
        BY <3>2, <1>4, ToSetConcat
      <4>2. pending' = s \o Tail(pending)
        BY <1>3, <2>1 DEF s
      <4> QED BY <4>1, <4>2, <3>2
    <3>4. Coming' = Coming \cup units[u].also
      BY <3>3, <1>3, <1>4 DEF Coming
    <3>5. Enabled' = Enabled \cup Companions({u})
      BY <3>1, <1>3, <1>4, <2>1, LinksEnable
    <3>6. ServiceTypes'
      BY <3>1, <3>3, <1>1, <1>3, <1>4 DEF ServiceTypes
    <3>7. u \in Reached(r) /\ HasItsAlso(Reached(r))
      BY <3>1, <1>2, <1>4, ReachedIsLeast DEF Enabling, Coming
    <3>8. Companions({u}) \subseteq Companions(Reached(r))
      BY <3>7 DEF There, Companions
    <3>9. /\ Coming' \subseteq Reached(r)
          /\ \A v \in seen' : units[v] # NoUnit => units[v].also \subseteq Coming'
          /\ Companions(seen \cup {u}) \subseteq Enabled'
      <4>1. Companions(seen \cup {u}) = Companions(seen) \cup Companions({u})
        BY DEF There, Companions
      <4>2. units[u].also \subseteq Reached(r)
        BY <3>1, <3>7 DEF HasItsAlso
      <4> QED BY <4>1, <4>2, <3>4, <3>5, <1>2, <1>3 DEF Enabling
    <3> QED BY <3>4, <3>5, <3>6, <3>8, <3>9, <1>2, <1>3, <1>5, <1>8 DEF Enabling
  <2>2. CASE ~ Comes(u)
    <3>1. pending' = Tail(pending) /\ links' = links
      BY <1>3, <2>2
    <3>2. Coming' = Coming /\ Enabled' = Enabled
      BY <3>1, <1>3, <1>4 DEF Coming, Enabled, is_enabled
    <3>3. Companions(seen \cup {u}) = Companions(seen)
      BY <2>2 DEF Comes, There, Companions
    <3>4. ServiceTypes'
      BY <3>1, <1>1, <1>3, <1>4 DEF ServiceTypes
    <3>5. \A v \in seen' : units[v] # NoUnit => units[v].also \subseteq Coming
      BY <1>2, <1>3, <2>2 DEF Comes, Enabling
    <3> QED BY <3>2, <3>3, <3>4, <3>5, <1>2, <1>3, <1>5, <1>8 DEF Enabling
  <2> QED BY <2>1, <2>2
<1>7. pending' = <<>> => Enabled' = asked' /\ AliasesMade({})'
  <2> SUFFICES ASSUME pending' = <<>> PROVE Enabled' = asked' /\ AliasesMade({})'
    OBVIOUS
  <2>1. Coming' = seen' /\ seen' \subseteq Units
    BY <1>6 DEF Coming, ToSet, ServiceTypes
  <2>2. r \in seen' /\ HasItsAlso(seen')
    BY <2>1, <1>3, <1>6 DEF Enabling, HasItsAlso
  <2>3. Reached(r) \subseteq seen'
    BY <2>1, <2>2, <1>1, ReachedIsLeast DEF ServiceTypes
  <2>4. Companions(Reached(r)) \subseteq Companions(seen \cup {u})
    BY <2>3, <1>3 DEF There, Companions
  <2>5. Reached(r)' \ seen' = {}
    BY <2>3, <1>5
  <2>6. AliasesMade({})'
    BY <2>5, <1>8 DEF AliasesMade
  <2> QED BY <2>4, <2>6, <1>5, <1>6 DEF Enabling
<1> QED BY <1>6, <1>7, <1>8 DEF ServiceInv

\* Every command and every call of enable keeps it.
LEMMA ServiceKeeps == ASSUME ServiceInv, [ServiceNext]_serviceVars PROVE ServiceInv'
<1> USE InstallsAssumption
<1>1. ASSUME NEW u \in Units, Enable(u) PROVE ServiceInv'
  BY <1>1, EnableKeeps
<1>2. ASSUME NEW u \in Units, Disable(u) PROVE ServiceInv'
  BY <1>2, DisableKeeps
<1>3. CASE Call
  BY <1>3, CallKeeps
<1>4. CASE UNCHANGED serviceVars
  <2>1. /\ units' = units /\ links' = links /\ pending' = pending /\ seen' = seen
        /\ asked' = asked /\ ever' = ever /\ aliases' = aliases
    BY <1>4 DEF serviceVars
  <2>2. /\ Coming' = Coming /\ Enabled' = Enabled /\ Companions(seen)' = Companions(seen)
        /\ \A r \in Units : /\ Reached(r)' = Reached(r)
                            /\ Companions(Reached(r))' = Companions(Reached(r))
                            /\ There(Reached(r))' = There(Reached(r))
                            /\ AliasesMade(Reached(r) \ seen)' = AliasesMade(Reached(r) \ seen)
        /\ AliasesLead' = AliasesLead /\ AliasesMade({})' = AliasesMade({})
    BY <2>1 DEF Coming, Enabled, is_enabled, Reached, HasItsAlso, There, Companions, AliasesLead,
      AliasesMade
  <2>3. \A r \in Units : Enabling(r) => Enabling(r)'
    BY <2>1, <2>2 DEF Enabling
  <2> QED BY <2>1, <2>2, <2>3 DEF ServiceInv, ServiceTypes
<1> QED BY <1>1, <1>2, <1>3, <1>4 DEF ServiceNext

\* The invariant the theorem rests on.
LEMMA ServiceInvariant == ServiceSpec => []ServiceInv
<1>1. ServiceInit => ServiceInv
  BY ServiceStarts, InstallsAssumption
<1>2. ServiceInv /\ [ServiceNext]_serviceVars => ServiceInv'
  BY ServiceKeeps
<1> QED BY <1>1, <1>2, PTL DEF ServiceSpec

\* Whatever commands a root is given, the targets want what they asked for:
\* enable comes to all that its Also leads to, in circles too, and to nothing
\* else, and disable leaves no link of a target to the unit; its aliases it
\* leaves, and they lead to units that were once asked for (enable and disable,
\* npkg_service.py).
THEOREM ServicesAsAsked == ServiceSpec => []EnabledAsAsked
<1>1. ASSUME ServiceInv PROVE EnabledAsAsked
  <2>1. ASSUME pending = <<>>, NEW a \in Aliases
        PROVE  LET holders == {u \in ever : a \in units[u].alias}
               IN aliases[a] \in IF holders = {} THEN {NoUnit} ELSE holders
    BY <1>1, <2>1 DEF ServiceInv, AliasesLead, AliasesMade
  <2> QED BY <1>1, <2>1 DEF ServiceInv, EnabledAsAsked, Enabled
<1> QED BY <1>1, ServiceInvariant, PTL

-----------------------------------------------------------------------------
(* The invariant of npkg install and upgrade.  While requirements are      *)
(* resolved, a dependency of a package on the stack is still to be visited, *)
(* is being visited one frame up, or is settled: supplied by what is       *)
(* installed or by what stands in the plan already, or one of the three    *)
(* exceptions.  So every entry of the plan has what it needs before it,    *)
(* and installing the first keeps the rest so.                             *)

Offered == UNION {Entries(r) : r \in RepoSet}
NamesIn(rs) == {q.name : q \in ToSet(rs)}
Settled(n, d) == Supplied(db, present, d) \/ <<n, d>> \in cuts \/ d \in dropped \cup shed

\* Each entry of a plan has what it needs, before it or for another reason.
InOrder(p) ==
  \A j \in DOMAIN p : \A d \in NamesIn(p[j].depends) :
    Settled(p[j].name, d) \/ \E i \in 1 .. j - 1 : Gives(p[i], d)

PlanTypes ==
  /\ world \in Worlds /\ db = [n \in NameSet |-> db[n]]
  /\ mirror = [r \in RepoSet |-> mirror[r]] /\ index = [r \in RepoSet |-> index[r]]
  /\ \A r \in RepoSet : /\ mirror[r] \in DOMAIN world.index[r]
                        /\ index[r] \in {Nothing, CutIndex} \cup DOMAIN world.index[r]
  /\ cache = [p \in FilesOf(world) |-> cache[p]]
  /\ order \in Seq(Offered) /\ plan \in Seq(Offered) /\ fetching \subseteq Offered

\* What a process has verified is what is cached.
Verified ==
  \A v \in verified : \E e \in Offered :
    v = <<Path(e), e.sum>> /\ (e.repo \in Local \/ cache[Path(e)] = e.sum)

\* What e needs under the name d is there, or will be before e.
Kept(e, d) == Settled(e.name, d) \/ \E j \in DOMAIN order : Gives(order[j], d)

IsFrame(f) ==
  f.entry \in Offered /\ Gives(f.entry, f.key) /\ f.deps \in Seq(ToSet(f.deps))

\* The frame f, on which nothing is, or a frame of key up.
Frames(f, up) ==
  \A d \in NamesIn(f.entry.depends) : d \in NamesIn(f.deps) \/ Kept(f.entry, d) \/ d \in up

\* The names being visited above frame i.
Above(s, i) == {s[j].key : j \in {i + 1} \cap DOMAIN s}

Visiting ==
  step = "resolve" =>
    /\ stack \in Seq(ToSet(stack))
    /\ \A i \in DOMAIN stack : IsFrame(stack[i]) /\ Frames(stack[i], Above(stack, i))
    /\ \A k \in chosen : k \in dropped \/ \E j \in DOMAIN order : Gives(order[j], k)
    /\ InOrder(order)

Prefixed ==
  /\ \A n \in Installed : \A d \in NamesIn(db[n].depends) : Settled(n, d)
  /\ \A c \in caps : Supplied(db, present, c) \/ c \in shed

PlanInv ==
  /\ PlanTypes /\ Verified /\ Visiting /\ InOrder(plan) /\ Prefixed /\ BytesAsIndexed

\* What is known of an entry of an index.
LEMMA OfferedEntry ==
  ASSUME PlanTypes, NEW e \in Offered
  PROVE  /\ e.repo \in RepoSet /\ e \in Entries(e.repo) /\ e.name \in NameSet
         /\ e.sum # Nothing /\ e # Nothing /\ e.depends \in Seq(ToSet(e.depends))
         /\ Path(e) \in FilesOf(world)
         /\ Requires(e.depends) /\ IsVersion(e.whole)
         /\ e.version = Upstream(e.whole) /\ e.release = Release(e.whole)
<1>1. PICK r \in RepoSet : e \in Entries(r)
  BY DEF Offered
<1>2. /\ e.repo = r /\ e.name \in NameSet /\ e.sum # Nothing /\ e # Nothing
      /\ e.depends \in Seq(ToSet(e.depends))
      /\ Requires(e.depends) /\ IsVersion(e.whole)
      /\ e.version = Upstream(e.whole) /\ e.release = Release(e.whole)
  <2>1. world \in Worlds /\ e \in EntriesOf(world, r)
    BY <1>1 DEF PlanTypes, Entries
  <2>2. Publishes(world, r)
    BY <2>1, WorldsAssumption
  <2> QED BY <2>1, <2>2 DEF Publishes, IsEntryOf, Requires
<1> QED BY <1>1, <1>2 DEF Path, FilesOf, Entries

\* What passes is what the index names: what was verified is still cached.
LEMMA PassesRight ==
  ASSUME PlanTypes, Verified, NEW e \in Offered, NEW bytes \in Fetched(e), Passes(e, bytes)
  PROVE  bytes = e.sum
<1>1. /\ e.repo \in RepoSet /\ e \in Entries(e.repo) /\ e.sum # Nothing
  BY OfferedEntry
<1>2. CASE e.repo \in Local
  <2>1. PICK x \in ToSet(world.index[e.repo][mirror[e.repo]]) : x.file = e.file /\ bytes = x.sum
    BY <1>2 DEF Fetched, Published
  <2>2. x \in Entries(e.repo)
    BY <1>1, <2>1 DEF PlanTypes, Entries, EntriesOf
  <2>3. /\ world \in Worlds /\ x \in EntriesOf(world, e.repo)
        /\ e \in EntriesOf(world, e.repo)
    BY <1>1, <2>2 DEF PlanTypes, Entries
  <2>4. x.sum = e.sum
    <3>1. Steady(world, e.repo)
      BY <1>2, <2>3, WorldsAssumption
    <3> QED BY <3>1, <2>1, <2>3 DEF Steady
  <2> QED BY <2>1, <2>4
<1>3. CASE e.repo \notin Local /\ bytes # e.sum
  <2>1. <<Path(e), e.sum>> \in verified
    BY <1>3 DEF Passes
  <2>2. PICK f \in Offered : /\ <<Path(e), e.sum>> = <<Path(f), f.sum>>
                             /\ f.repo \in Local \/ cache[Path(f)] = f.sum
    BY <2>1 DEF Verified
  <2>3. f.repo = e.repo /\ Path(f) = Path(e) /\ f.sum = e.sum
    BY <2>2 DEF Path
  <2>4. cache[Path(e)] = e.sum
    BY <1>3, <2>2, <2>3
  <2> QED BY <1>1, <1>3, <2>4 DEF Fetched
<1> QED BY <1>2, <1>3

\* A cached file stays as it is.
LEMMA StoredKeeps ==
  ASSUME PlanTypes, NEW e \in Offered, NEW bytes \in Fetched(e), Stored(e, bytes)
  PROVE  /\ cache' = [p \in FilesOf(world) |-> cache'[p]]
         /\ \A f \in Offered : cache[Path(f)] # Nothing => cache'[Path(f)] = cache[Path(f)]
         /\ e.repo \in Local \/ cache'[Path(e)] = bytes
<1>1. Path(e) \in FilesOf(world) /\ \A f \in Offered : Path(f) \in FilesOf(world)
  BY OfferedEntry
<1>2. CASE e.repo \in Local
  BY <1>2 DEF Stored, PlanTypes
<1>3. CASE e.repo \notin Local
  <2>1. cache' = [cache EXCEPT ![Path(e)] = bytes]
    BY <1>3 DEF Stored
  <2>2. cache[Path(e)] # Nothing => bytes = cache[Path(e)]
    BY <1>3 DEF Fetched
  <2>3. cache = [p \in FilesOf(world) |-> cache[p]]
    BY DEF PlanTypes
  <2> QED BY <1>1, <2>1, <2>2, <2>3
<1> QED BY <1>2, <1>3

\* What the solver finds is on offer and gives the name it was asked for.
LEMMA FindGives ==
  ASSUME PlanTypes, NEW need, NEW e \in find(need)
  PROVE  e \in Offered /\ Gives(e, need.name)
<1>1. ASSUME NEW r \in RepoSet, NEW i \in DOMAIN Offers(r)
      PROVE  Offers(r)[i] \in Offered
  <2>1. index[r] \in DOMAIN world.index[r] /\ Offers(r) = world.index[r][index[r]]
    BY <1>1, PlanConstants DEF PlanTypes, Offers
  <2> QED BY <1>1, <2>1 DEF Offered, Entries, EntriesOf, ToSet
<1>2. ASSUME NEW r \in RepoSet, e \in best(r, need)
      PROVE  e \in Offered /\ Gives(e, need.name)
  BY <1>1, <1>2 DEF best, FirstIn, Gives
<1>3. ASSUME NEW r \in RepoSet, e \in provider(r, need)
      PROVE  e \in Offered /\ Gives(e, need.name)
  <2>1. PICK i \in DOMAIN Offers(r) : e = Offers(r)[i] /\ Supplies(Offers(r)[i], need)
    BY <1>3 DEF provider, FirstIn
  <2> QED BY <1>1, <2>1 DEF Supplies, Gives, Provided
<1>4. (\E r \in RepoSet : e \in best(r, need)) \/ (\E r \in RepoSet : e \in provider(r, need))
  BY DEF find
<1> QED BY <1>2, <1>3, <1>4

\* What is settled stays so as long as nothing installed is replaced.
LEMMA SettledGrows ==
  ASSUME world' = world, have' = have, cuts \subseteq cuts', dropped \subseteq dropped', shed \subseteq shed'
  PROVE  /\ Offered' = Offered /\ \A n, d : Settled(n, d) => Settled(n, d)'
         /\ (Prefixed => Prefixed') /\ (BytesAsIndexed => BytesAsIndexed')
         /\ \A p : InOrder(p) => InOrder(p)'
<1> USE DEF have
<1>1. Offered' = Offered
  BY DEF Offered, Entries
<1>2. \A n, d : Settled(n, d) => Settled(n, d)'
  BY DEF Settled
<1>3. Prefixed => Prefixed'
  <2>1. \A c : Supplied(db, present, c) => Supplied(db, present, c)'
    BY DEF Supplied
  <2>2. caps' = caps
    OBVIOUS
  <2> QED BY <1>2, <2>1, <2>2 DEF Prefixed, Installed
<1>4. BytesAsIndexed => BytesAsIndexed'
  BY DEF BytesAsIndexed, Installed, Entries
<1>5. \A p : InOrder(p) => InOrder(p)'
  BY <1>2 DEF InOrder
<1> QED BY <1>1, <1>2, <1>3, <1>4, <1>5

LEMMA VisitingStays ==
  ASSUME world' = world, have' = have, cuts \subseteq cuts', dropped \subseteq dropped', shed \subseteq shed',
         Visiting, UNCHANGED <<step, stack, chosen, order>>
  PROVE  Visiting'
<1> USE DEF have
<1>1. /\ Offered' = Offered /\ \A n, d : Settled(n, d) => Settled(n, d)'
      /\ \A p : InOrder(p) => InOrder(p)'
  BY SettledGrows
<1>2. \A f, up : IsFrame(f) /\ Frames(f, up) => IsFrame(f)' /\ Frames(f, up)'
  BY <1>1 DEF IsFrame, Frames, Kept
<1>3. CASE step = "resolve"
  <2>1. PICK s, o : s = stack /\ o = order
    OBVIOUS
  <2>2. /\ s \in Seq(ToSet(s))
        /\ \A i \in DOMAIN s : IsFrame(s[i]) /\ Frames(s[i], Above(s, i))
        /\ \A k \in chosen : k \in dropped \/ \E j \in DOMAIN o : Gives(o[j], k)
        /\ InOrder(o)
    BY <1>3, <2>1 DEF Visiting
  <2>3. \A i \in DOMAIN s : IsFrame(s[i])' /\ Frames(s[i], Above(s, i))'
    BY <1>2, <2>2
  <2>4. InOrder(o)'
    BY <1>1, <2>2
  <2>5. stack' = s /\ order' = o
    BY <2>1
  <2> QED BY <2>2, <2>3, <2>4, <2>5 DEF Visiting
<1> QED BY <1>3 DEF Visiting

\* Steps that resolve, download and install nothing.
LEMMA PlanAround ==
  ASSUME PlanInv, UNCHANGED <<world, have, cache, cuts, dropped, shed>>,
         verified' \subseteq verified,
         \/ UNCHANGED <<step, stack, chosen, order>>
         \/ step' # "resolve" /\ UNCHANGED <<stack, chosen, order>>
         \/ stack' = <<>> /\ chosen' = {} /\ order' = <<>>,
         plan' \in {plan, <<>>}, fetching' \in {fetching, {}},
         mirror' = [r \in RepoSet |-> mirror'[r]], index' = [r \in RepoSet |-> index'[r]],
         \A r \in RepoSet : /\ mirror'[r] \in DOMAIN world.index[r]
                            /\ index'[r] \in {Nothing, CutIndex} \cup DOMAIN world.index[r]
  PROVE  PlanInv'
<1> USE DEF have
<1>1. /\ Offered' = Offered /\ \A n, d : Settled(n, d) => Settled(n, d)'
      /\ Prefixed' /\ BytesAsIndexed' /\ \A p : InOrder(p) => InOrder(p)'
  <2>1. /\ world' = world /\ have' = have /\ cuts \subseteq cuts' /\ dropped \subseteq dropped'
        /\ shed \subseteq shed'
    OBVIOUS
  <2>2. Prefixed /\ BytesAsIndexed
    BY DEF PlanInv
  <2>3. /\ Offered' = Offered /\ \A n, d : Settled(n, d) => Settled(n, d)'
        /\ (Prefixed => Prefixed') /\ (BytesAsIndexed => BytesAsIndexed')
        /\ \A p : InOrder(p) => InOrder(p)'
    BY <2>1, SettledGrows
  <2> QED BY <2>2, <2>3
<1>2. <<>> \in Seq(Offered) /\ InOrder(<<>>)' /\ DOMAIN <<>> = {}
  BY DEF InOrder
<1>3. PlanTypes'
  <2>1. plan' \in Seq(Offered) /\ order' \in Seq(Offered) /\ fetching' \subseteq Offered
    BY <1>2 DEF PlanInv, PlanTypes
  <2> QED BY <1>1, <2>1 DEF PlanInv, PlanTypes
<1>4. Verified'
  BY <1>1 DEF PlanInv, Verified
<1>5. InOrder(plan)'
  <2>1. InOrder(plan) /\ \A p : p = plan' => InOrder(p)'
    BY <1>1, <1>2 DEF PlanInv
  <2> QED BY <2>1 DEF InOrder
<1>6. Visiting'
  <2>1. CASE step' = "resolve" /\ stack' = <<>> /\ chosen' = {} /\ order' = <<>>
    <3>1. stack' \in Seq(ToSet(stack')) /\ DOMAIN stack' = {}
      BY <2>1
    <3>2. InOrder(order)'
      BY <2>1 DEF InOrder
    <3> QED BY <2>1, <3>1, <3>2 DEF Visiting
  <2>2. CASE step = "resolve" /\ UNCHANGED <<step, stack, chosen, order>>
    <3>1. /\ world' = world /\ have' = have /\ cuts \subseteq cuts' /\ dropped \subseteq dropped'
          /\ shed \subseteq shed' /\ Visiting
      BY DEF PlanInv
    <3> QED BY <2>2, <3>1, VisitingStays
  <2> QED BY <2>1, <2>2 DEF Visiting
<1> QED BY <1>1, <1>3, <1>4, <1>5, <1>6 DEF PlanInv

\* What the user, the mirror and the machine do, and a command but for what
\* it resolves and installs.
LEMMA PlanOutside ==
  ASSUME PlanInv,
         \/ \E r \in RepoSet : MirrorMoves(r) \/ LoadCut(r)
         \/ \E c \in Commands : Command(c)
         \/ \E reached \in SUBSET RepoSet : Load(reached)
         \/ \E agreed \in BOOLEAN : StartUpgrade(agreed)
         \/ StartInstall \/ UpgradeNext \/ Killed
         \/ \E need \in Wanted : Unresolved(need)
         \/ UNCHANGED planVars
  PROVE  PlanInv'
<1> USE DEF stores, have, search, ask, notes
<1>0. /\ mirror = [r \in RepoSet |-> mirror[r]] /\ index = [r \in RepoSet |-> index[r]]
      /\ \A r \in RepoSet : /\ mirror[r] \in DOMAIN world.index[r]
                            /\ index[r] \in {Nothing, CutIndex} \cup DOMAIN world.index[r]
  BY DEF PlanInv, PlanTypes
<1>1. ASSUME NEW r \in RepoSet, MirrorMoves(r)
      PROVE  PlanInv'
  <2>1. world.index[r] \in Seq(ToSet(world.index[r]))
    BY WorldsAssumption DEF PlanInv, PlanTypes, Publishes
  <2>2. mirror[r] \in Nat /\ mirror[r] + 1 \in DOMAIN world.index[r]
    BY <1>0, <1>1, <2>1 DEF MirrorMoves
  <2>3. /\ mirror' = [q \in RepoSet |-> mirror'[q]]
        /\ \A q \in RepoSet : mirror'[q] \in DOMAIN world.index[q]
    BY <1>0, <1>1, <2>2 DEF MirrorMoves
  <2> QED BY <1>0, <1>1, <2>3, PlanAround DEF MirrorMoves
<1>2. ASSUME NEW r \in RepoSet, LoadCut(r)
      PROVE  PlanInv'
  BY <1>0, <1>2, PlanAround DEF LoadCut
<1>3. ASSUME NEW c \in Commands, Command(c)
      PROVE  PlanInv'
  BY <1>0, <1>3, PlanAround DEF Command
<1>4. ASSUME NEW reached \in SUBSET RepoSet, Load(reached)
      PROVE  PlanInv'
  <2>1. /\ index' = [r \in RepoSet |-> index'[r]]
        /\ \A r \in RepoSet : index'[r] \in {mirror[r], index[r]}
    BY <1>4 DEF Load
  <2>2. \A r \in RepoSet : index'[r] \in {Nothing, CutIndex} \cup DOMAIN world.index[r]
    BY <1>0, <2>1
  <2> QED BY <1>0, <1>4, <2>1, <2>2, PlanAround DEF Load
<1>5. ASSUME NEW agreed \in BOOLEAN, StartUpgrade(agreed)
      PROVE  PlanInv'
  BY <1>0, <1>5, PlanAround DEF StartUpgrade
<1>6. CASE StartInstall \/ UpgradeNext
  BY <1>0, <1>6, PlanAround DEF StartInstall, UpgradeNext, Resolve
<1>7. CASE Killed
  BY <1>0, <1>7, PlanAround DEF Killed
<1>8. ASSUME NEW need \in Wanted, Unresolved(need)
      PROVE  PlanInv'
  BY <1>0, <1>8, PlanAround DEF Unresolved, Over
<1>9. CASE UNCHANGED planVars
  BY <1>0, <1>9, PlanAround DEF planVars
<1> QED BY <1>1, <1>2, <1>3, <1>4, <1>5, <1>6, <1>7, <1>8, <1>9

\* A requirement that is met is supplied by what is installed or present, or
\* is a name that capabilities.json has and nothing supplies any longer.
LEMMA MetSupplied ==
  ASSUME Prefixed, NEW need, Met(need)
  PROVE  Supplied(db, present, need.name) \/ need.name \in shed
<1>1. \A i \in DOMAIN NameOrder : NameOrder[i] \in NameSet
  BY DEF NameSet, ToSet
<1>2. ASSUME Supplier(need.name) # Nothing
      PROVE  Supplied(db, present, need.name)
  <2>1. PICK i \in DOMAIN NameOrder : /\ db[NameOrder[i]] # Nothing
                                      /\ need.name \in {NameOrder[i]} \cup Provided(db[NameOrder[i]])
    BY <1>2 DEF Supplier, SupplierIn
  <2> QED BY <1>1, <2>1 DEF Supplied, Lends
<1>3. ASSUME is_satisfied(need)
      PROVE  Supplied(db, present, need.name) \/ need.name \in shed
  BY <1>2, <1>3 DEF is_satisfied, Supplied, Installed, Prefixed
<1> QED BY <1>2, <1>3 DEF Met

\* The requirement to visit is the first of the top frame; what is left of the
\* stack is the same but for it.
LEMMA TopVisited ==
  ASSUME Visiting, step = "resolve", stack # <<>>
  PROVE  /\ Len(stack) \in Nat \ {0} /\ DOMAIN stack = 1 .. Len(stack)
         /\ Top = stack[Len(stack)] /\ Len(stack) \in DOMAIN stack
         /\ \A need \in Wanted : need = Head(Top.deps) /\ Top.deps # <<>>
         /\ Visited \in Seq(ToSet(Visited)) /\ Len(Visited) = Len(stack)
         /\ DOMAIN Visited = 1 .. Len(stack)
         /\ \A i \in 1 .. Len(stack) - 1 : Visited[i] = stack[i]
         /\ Visited[Len(stack)] = FrameOf(Top.key, Top.entry, Tail(Top.deps))
<1>1. /\ Len(stack) \in Nat \ {0} /\ DOMAIN stack = 1 .. Len(stack)
      /\ Top = stack[Len(stack)] /\ Len(stack) \in DOMAIN stack
  <2>1. stack \in Seq(ToSet(stack))
    BY DEF Visiting
  <2> QED BY <2>1 DEF Top
<1>2. ASSUME NEW need \in Wanted
      PROVE  need = Head(Top.deps) /\ Top.deps # <<>>
  <2>1. Top.deps \in Seq(ToSet(Top.deps))
    BY <1>1 DEF Visiting, IsFrame
  <2>2. 1 \in DOMAIN Top.deps /\ need = Top.deps[1]
    BY <1>2 DEF Wanted
  <2> QED BY <2>1, <2>2
<1>3. /\ DOMAIN Visited = 1 .. Len(stack) /\ \A i \in 1 .. Len(stack) - 1 : Visited[i] = stack[i]
      /\ Visited[Len(stack)] = FrameOf(Top.key, Top.entry, Tail(Top.deps))
  <2>1. /\ DOMAIN Visited = DOMAIN stack
        /\ \A i \in DOMAIN stack :
             Visited[i] = IF i = Len(stack) THEN FrameOf(Top.key, Top.entry, Tail(Top.deps))
                          ELSE stack[i]
    BY DEF Visited
  <2>2. \A i \in 1 .. Len(stack) - 1 : i \in DOMAIN stack /\ i # Len(stack)
    <3>1. \A n \in Nat \ {0} : \A i \in 1 .. n - 1 : i \in 1 .. n /\ i # n
      OBVIOUS
    <3> QED BY <3>1, <1>1
  <2>3. DOMAIN Visited = 1 .. Len(stack)
    BY <1>1, <2>1
  <2>4. Visited[Len(stack)] = FrameOf(Top.key, Top.entry, Tail(Top.deps))
    BY <1>1, <2>1
  <2>5. ASSUME NEW i \in 1 .. Len(stack) - 1
        PROVE  Visited[i] = stack[i]
    BY <2>1, <2>2
  <2> QED BY <2>3, <2>4, <2>5
<1>4. Visited = [i \in 1 .. Len(stack) |-> Visited[i]]
  BY <1>1 DEF Visited
<1>5. \A i \in 1 .. Len(stack) : Visited[i] \in ToSet(Visited)
  BY <1>3 DEF ToSet
<1>6. Visited \in [1 .. Len(stack) -> ToSet(Visited)]
  BY <1>4, <1>5
<1>7. Visited \in Seq(ToSet(Visited)) /\ Len(Visited) = Len(stack)
  BY <1>1, <1>6
<1> QED BY <1>1, <1>2, <1>3, <1>7

\* The names in a frame are those after the first and the first.
LEMMA NamesTail ==
  ASSUME NEW rs, rs \in Seq(ToSet(rs)), rs # <<>>
  PROVE  /\ NamesIn(rs) = {Head(rs).name} \cup NamesIn(Tail(rs))
         /\ Tail(rs) \in Seq(ToSet(Tail(rs)))
BY ToSetTail DEF NamesIn

\* Its first requirement apart, the top frame is as it was, and so are those
\* below.
LEMMA VisitedFrames ==
  ASSUME Visiting, step = "resolve", stack # <<>>, NEW need \in Wanted
  PROVE  /\ \A i \in DOMAIN Visited : IsFrame(Visited[i])
         /\ \A i \in 1 .. Len(stack) - 1 : Frames(Visited[i], Above(Visited, i))
         /\ Frames(Visited[Len(stack)], {need.name})
<1>1. /\ Len(stack) \in Nat \ {0} /\ DOMAIN stack = 1 .. Len(stack)
      /\ Top = stack[Len(stack)] /\ Len(stack) \in DOMAIN stack
      /\ need = Head(Top.deps) /\ Top.deps # <<>>
      /\ DOMAIN Visited = 1 .. Len(stack)
      /\ \A i \in 1 .. Len(stack) - 1 : Visited[i] = stack[i]
      /\ Visited[Len(stack)] = FrameOf(Top.key, Top.entry, Tail(Top.deps))
  BY TopVisited
<1>2. \A i \in DOMAIN stack : IsFrame(stack[i]) /\ Frames(stack[i], Above(stack, i))
  BY DEF Visiting
<1>3. /\ NamesIn(Top.deps) = {need.name} \cup NamesIn(Tail(Top.deps))
      /\ Tail(Top.deps) \in Seq(ToSet(Tail(Top.deps)))
  BY <1>1, <1>2, NamesTail DEF IsFrame
<1>4. IsFrame(Visited[Len(stack)])
  BY <1>1, <1>2, <1>3 DEF IsFrame, FrameOf
<1>5. \A i \in DOMAIN Visited : i = Len(stack) \/ i \in 1 .. Len(stack) - 1
  BY <1>1
<1>6. \A i \in 1 .. Len(stack) - 1 : Above(Visited, i) = Above(stack, i)
  <2>1. \A i \in DOMAIN stack : Visited[i].key = stack[i].key
    BY <1>1, <1>5 DEF FrameOf
  <2> QED BY <1>1, <2>1 DEF Above
<1>7. \A i \in 1 .. Len(stack) - 1 : i \in DOMAIN stack
  BY <1>1
<1>8. Frames(Visited[Len(stack)], {need.name})
  <2>1. Above(stack, Len(stack)) = {}
    BY <1>1 DEF Above
  <2>2. Frames(Top, {})
    BY <1>1, <1>2, <2>1
  <2> QED BY <1>1, <1>3, <2>2 DEF Frames, FrameOf
<1> QED BY <1>1, <1>2, <1>4, <1>5, <1>6, <1>7, <1>8

LEMMA SkipKeeps ==
  ASSUME PlanInv, NEW need \in Wanted, Skip(need)
  PROVE  PlanInv'
<1> USE DEF stores, have, ask
<1>1. /\ step = "resolve" /\ step' = step /\ Visiting /\ world' = world /\ have' = have
      /\ chosen' = chosen /\ order' = order /\ dropped' = dropped /\ shed' = shed
      /\ cuts \subseteq cuts' /\ Prefixed /\ BytesAsIndexed
      /\ InOrder(plan) /\ plan' = plan /\ fetching' = fetching
      /\ cache' = cache /\ mirror' = mirror /\ index' = index /\ verified' = verified
  BY DEF PlanInv, Skip, Wanted
<1>2. /\ Offered' = Offered /\ \A n, d : Settled(n, d) => Settled(n, d)'
      /\ Prefixed' /\ BytesAsIndexed' /\ \A p : InOrder(p) => InOrder(p)'
  BY <1>1, SettledGrows
<1>3. PlanTypes' /\ Verified'
  BY <1>1, <1>2 DEF PlanInv, PlanTypes, Verified
<1>4. InOrder(plan)' /\ InOrder(order)'
  <2>1. InOrder(order)
    BY <1>1 DEF Visiting
  <2>2. \A p : (p = plan' \/ p = order') => InOrder(p)'
    BY <1>1, <1>2, <2>1
  <2> QED BY <2>2 DEF InOrder
<1>5. Visiting'
  <2>1. CASE stack = <<>>
    <3>1. stack' = stack
      BY <2>1 DEF Skip, Rest
    <3> QED BY <1>1, <3>1, VisitingStays
  <2>2. CASE stack # <<>>
    <3>1. PICK s : s = Visited
      OBVIOUS
    <3>2. PICK top : top = Visited[Len(stack)]
      OBVIOUS
    <3>3. /\ stack' = s /\ s \in Seq(ToSet(s)) /\ Len(stack) \in DOMAIN s
          /\ DOMAIN s = 1 .. Len(stack) /\ Len(stack) \in Nat
          /\ s[Len(stack)] = top /\ top.entry = Top.entry
      BY <1>1, <2>2, <3>1, <3>2, TopVisited DEF Skip, Rest, FrameOf
    <3>4. Kept(top.entry, need.name)'
      <4>1. CASE need.name \in chosen
        <5>1. need.name \in dropped \/ \E j \in DOMAIN order : Gives(order[j], need.name)
          BY <1>1, <4>1 DEF Visiting
        <5> QED BY <1>1, <5>1 DEF Kept, Settled
      <4>2. CASE need.name \in visiting
        <5>1. <<top.entry.name, need.name>> \in cuts'
          BY <3>3, <4>2 DEF Skip
        <5> QED BY <5>1 DEF Kept, Settled
      <4>3. CASE Met(need)
        <5>1. Supplied(db, present, need.name) \/ need.name \in shed
          BY <1>1, <4>3, MetSupplied
        <5> QED BY <1>1, <5>1 DEF Kept, Settled
      <4> QED BY <4>1, <4>2, <4>3 DEF Skip, Skips
    <3>5. \A f, up : IsFrame(f) /\ Frames(f, up) => IsFrame(f)' /\ Frames(f, up)'
      BY <1>1, <1>2 DEF IsFrame, Frames, Kept
    <3>6. /\ \A i \in DOMAIN s : IsFrame(s[i])
          /\ \A i \in 1 .. Len(stack) - 1 : Frames(s[i], Above(s, i))
          /\ Frames(top, {need.name})
      BY <1>1, <2>2, <3>1, <3>2, VisitedFrames
    <3>7. Frames(top, Above(s, Len(stack)))'
      <4>1. Frames(top, {need.name})'
        BY <3>3, <3>5, <3>6
      <4> QED BY <3>4, <4>1 DEF Frames
    <3>8. \A i \in DOMAIN s : i = Len(stack) \/ i \in 1 .. Len(stack) - 1
      BY <3>3
    <3>9. \A i \in DOMAIN s : IsFrame(s[i])' /\ Frames(s[i], Above(s, i))'
      BY <3>3, <3>5, <3>6, <3>7, <3>8
    <3>10. \A k \in chosen : k \in dropped \/ \E j \in DOMAIN order : Gives(order[j], k)
      BY <1>1 DEF Visiting
    <3> QED BY <1>1, <1>4, <3>3, <3>9, <3>10 DEF Visiting
  <2> QED BY <2>1, <2>2
<1> QED BY <1>2, <1>3, <1>4, <1>5 DEF PlanInv

\* A package found is visited: all it needs is still to be visited.
LEMMA DescendKeeps ==
  ASSUME PlanInv, NEW need \in Wanted, NEW e \in find(need), Descend(need, e)
  PROVE  PlanInv'
<1> USE DEF stores, have, ask, notes
<1>1. /\ step = "resolve" /\ step' = step /\ Visiting /\ world' = world /\ have' = have
      /\ chosen' = chosen /\ order' = order /\ dropped' = dropped /\ shed' = shed
      /\ cuts' = cuts /\ Prefixed /\ BytesAsIndexed /\ PlanTypes
      /\ InOrder(plan) /\ plan' = plan /\ fetching' = fetching
      /\ cache' = cache /\ mirror' = mirror /\ index' = index /\ verified' = verified
  BY DEF PlanInv, Descend, Wanted
<1>2. /\ Offered' = Offered /\ \A n, d : Settled(n, d) => Settled(n, d)'
      /\ Prefixed' /\ BytesAsIndexed' /\ \A p : InOrder(p) => InOrder(p)'
  BY <1>1, SettledGrows
<1>3. PlanTypes' /\ Verified'
  BY <1>1, <1>2 DEF PlanInv, PlanTypes, Verified
<1>4. InOrder(plan)' /\ InOrder(order)'
  <2>1. InOrder(order)
    BY <1>1 DEF Visiting
  <2>2. \A p : (p = plan' \/ p = order') => InOrder(p)'
    BY <1>1, <1>2, <2>1
  <2> QED BY <2>2 DEF InOrder
<1>5. PICK new : new = FrameOf(need.name, e, e.depends)
  OBVIOUS
<1>6. IsFrame(new) /\ Frames(new, {}) /\ new.key = need.name
  <2>1. e \in Offered /\ Gives(e, need.name) /\ e.depends \in Seq(ToSet(e.depends))
    BY <1>1, FindGives, OfferedEntry
  <2> QED BY <1>5, <2>1 DEF IsFrame, Frames, FrameOf
<1>7. PICK below : below = IF stack = <<>> THEN stack ELSE Visited
  OBVIOUS
<1>8. /\ below \in Seq(ToSet(below)) /\ Len(below) \in Nat /\ DOMAIN below = 1 .. Len(below)
      /\ \A i \in DOMAIN below : IsFrame(below[i])
      /\ \A i \in 1 .. Len(below) - 1 : Frames(below[i], Above(below, i))
      /\ Len(below) \in DOMAIN below => Frames(below[Len(below)], {need.name})
  <2>1. CASE stack = <<>>
    BY <1>7, <2>1
  <2>2. CASE stack # <<>>
    BY <1>1, <1>7, <2>2, TopVisited, VisitedFrames
  <2> QED BY <2>1, <2>2
<1>9. PICK s : s = Append(below, new)
  OBVIOUS
<1>10. /\ s \in Seq(ToSet(s)) /\ DOMAIN s = 1 .. Len(below) + 1 /\ s[Len(below) + 1] = new
       /\ \A i \in DOMAIN below : s[i] = below[i]
  BY <1>8, <1>9, ToSetAppend
<1>11. \A i \in DOMAIN s : IsFrame(s[i]) /\ Frames(s[i], Above(s, i))
  <2> SUFFICES ASSUME NEW i \in DOMAIN s
               PROVE  IsFrame(s[i]) /\ Frames(s[i], Above(s, i))
    OBVIOUS
  <2>1. CASE i = Len(below) + 1
    <3>1. Above(s, i) = {}
      BY <1>8, <1>10, <2>1 DEF Above
    <3> QED BY <1>6, <1>10, <2>1, <3>1
  <2>2. CASE i = Len(below)
    <3>1. i \in DOMAIN below /\ i + 1 = Len(below) + 1 /\ Len(below) + 1 \in DOMAIN s
      BY <1>8, <1>10, <2>2
    <3>2. Above(s, i) = {need.name}
      BY <1>6, <1>10, <3>1 DEF Above
    <3> QED BY <1>8, <1>10, <2>2, <3>1, <3>2
  <2>3. CASE i \in 1 .. Len(below) - 1
    <3>1. i \in DOMAIN below /\ i + 1 \in DOMAIN below /\ i + 1 \in DOMAIN s
      <4>1. \A n \in Nat : \A k \in 1 .. n - 1 : k \in 1 .. n /\ k + 1 \in 1 .. n /\ k + 1 \in 1 .. n + 1
        OBVIOUS
      <4> QED BY <1>8, <1>10, <2>3, <4>1
    <3>2. Above(s, i) = Above(below, i)
      BY <1>10, <3>1 DEF Above
    <3> QED BY <1>8, <1>10, <2>3, <3>1, <3>2
  <2>4. i = Len(below) + 1 \/ i = Len(below) \/ i \in 1 .. Len(below) - 1
    <3>1. \A n \in Nat : \A k \in 1 .. n + 1 : k = n + 1 \/ k = n \/ k \in 1 .. n - 1
      OBVIOUS
    <3> QED BY <1>8, <1>10, <3>1
  <2> QED BY <2>1, <2>2, <2>3, <2>4
<1>12. \A i \in DOMAIN s : IsFrame(s[i])' /\ Frames(s[i], Above(s, i))'
  <2>1. \A f, up : IsFrame(f) /\ Frames(f, up) => IsFrame(f)' /\ Frames(f, up)'
    BY <1>1, <1>2 DEF IsFrame, Frames, Kept
  <2> QED BY <1>11, <2>1
<1>13. stack' = s
  BY <1>5, <1>7, <1>9 DEF Descend, Frame
<1>14. \A k \in chosen : k \in dropped \/ \E j \in DOMAIN order : Gives(order[j], k)
  BY <1>1 DEF Visiting
<1>15. Visiting'
  BY <1>1, <1>4, <1>10, <1>12, <1>13, <1>14 DEF Visiting
<1> QED BY <1>2, <1>3, <1>4, <1>15 DEF PlanInv

\* A package whose dependencies have been visited goes to the end of the plan.
LEMMA ReturnKeeps == ASSUME PlanInv, Return PROVE PlanInv'
<1> USE DEF stores, have, ask
<1>1. /\ step = "resolve" /\ step' = step /\ Visiting /\ world' = world /\ have' = have
      /\ chosen' = chosen \cup {Top.key} /\ dropped \subseteq dropped' /\ shed' = shed
      /\ cuts' = cuts /\ Prefixed /\ BytesAsIndexed /\ PlanTypes
      /\ InOrder(plan) /\ plan' = plan /\ fetching' = fetching
      /\ cache' = cache /\ mirror' = mirror /\ index' = index /\ verified' = verified
      /\ stack # <<>> /\ Top.deps = <<>> /\ stack' = Front(stack)
  BY DEF PlanInv, Return
<1>2. /\ Offered' = Offered /\ \A n, d : Settled(n, d) => Settled(n, d)'
      /\ Prefixed' /\ BytesAsIndexed' /\ \A p : InOrder(p) => InOrder(p)'
  BY <1>1, SettledGrows
<1>3. PICK n, top, o, last : n = Len(stack) /\ top = Top /\ o = order' /\ last = Len(order)
  OBVIOUS
<1>4. /\ n \in Nat \ {0} /\ DOMAIN stack = 1 .. n /\ stack[n] = top
      /\ stack \in Seq(ToSet(stack)) /\ IsFrame(top) /\ Frames(top, {}) /\ top.deps = <<>>
  <2>1. /\ n \in Nat \ {0} /\ DOMAIN stack = 1 .. n /\ stack[n] = top /\ n \in DOMAIN stack
    BY <1>1, <1>3, TopVisited
  <2>2. Above(stack, n) = {}
    BY <2>1 DEF Above
  <2> QED BY <1>1, <1>3, <2>1, <2>2 DEF Visiting
<1>5. \A d \in NamesIn(top.entry.depends) : Kept(top.entry, d)
  <2>1. NamesIn(top.deps) = {}
    BY <1>4 DEF NamesIn, ToSet
  <2> QED BY <1>4, <2>1 DEF Frames
<1>6. /\ order \in Seq(Offered) /\ last \in Nat /\ DOMAIN order = 1 .. last /\ top.entry \in Offered
  BY <1>1, <1>3, <1>4 DEF PlanTypes, IsFrame
<1>7. \/ o = order \/ o = Append(order, top.entry)
  BY <1>3 DEF Return
<1>8. /\ o \in Seq(Offered) /\ DOMAIN order \subseteq DOMAIN o
      /\ \A j \in DOMAIN order : o[j] = order[j]
  BY <1>6, <1>7
<1>9. top.key \in dropped' \/ \E j \in DOMAIN o : Gives(o[j], top.key)
  <2>1. CASE o = Append(order, top.entry)
    <3>1. last + 1 \in DOMAIN o /\ o[last + 1] = top.entry
      BY <1>6, <2>1, <1>3
    <3> QED BY <1>4, <3>1 DEF IsFrame
  <2>2. CASE o # Append(order, top.entry)
    <3>1. /\ dropped' = dropped \cup {k \in {top.key} : \A i \in DOMAIN order : ~Gives(order[i], k)}
          /\ o = order
      BY <1>3, <2>2 DEF Return
    <3> QED BY <3>1
  <2> QED BY <2>1, <2>2
<1>10. \A e, d : Kept(e, d) \/ d = top.key => Kept(e, d)'
  <2> SUFFICES ASSUME NEW e, NEW d, Kept(e, d) \/ d = top.key
               PROVE  Settled(e.name, d)' \/ \E j \in DOMAIN o : Gives(o[j], d)
    BY <1>3 DEF Kept
  <2>1. CASE d = top.key
    BY <1>9, <2>1 DEF Settled
  <2>2. CASE Kept(e, d)
    BY <1>2, <1>8, <2>2 DEF Kept
  <2> QED BY <2>1, <2>2
<1>11. InOrder(o)'
  <2> SUFFICES ASSUME NEW j \in DOMAIN o, NEW d \in NamesIn(o[j].depends)
               PROVE  Settled(o[j].name, d)' \/ \E i \in 1 .. j - 1 : Gives(o[i], d)
    BY DEF InOrder
  <2>1. CASE j \in DOMAIN order
    <3>1. Settled(order[j].name, d) \/ \E i \in 1 .. j - 1 : Gives(order[i], d)
      BY <1>1, <1>8, <2>1 DEF Visiting, InOrder
    <3>2. \A i \in 1 .. j - 1 : i \in DOMAIN order
      BY <1>6, <2>1
    <3> QED BY <1>2, <1>8, <2>1, <3>1, <3>2
  <2>2. CASE j \notin DOMAIN order
    <3>1. j = last + 1 /\ o[j] = top.entry
      BY <1>3, <1>6, <1>7, <2>2
    <3>2. Kept(top.entry, d)
      BY <1>5, <3>1
    <3>3. Settled(top.entry.name, d) \/ \E i \in 1 .. j - 1 : Gives(order[i], d)
      BY <1>6, <3>1, <3>2 DEF Kept
    <3> QED BY <1>2, <1>6, <1>8, <3>1, <3>3
  <2> QED BY <2>1, <2>2
<1>12. PICK s : s = Front(stack)
  OBVIOUS
<1>13. /\ s \in Seq(ToSet(s)) /\ DOMAIN s = 1 .. n - 1 /\ \A i \in DOMAIN s : s[i] = stack[i]
  <2>1. /\ s \in Seq(ToSet(stack)) /\ DOMAIN s = 1 .. n - 1
        /\ \A i \in DOMAIN s : s[i] = stack[i]
    BY <1>3, <1>4, <1>12 DEF Front
  <2>2. s \in Seq(ToSet(s))
    BY <2>1, SeqOwn
  <2> QED BY <2>1, <2>2
<1>14. \A i \in DOMAIN s : IsFrame(s[i])' /\ Frames(s[i], Above(s, i))'
  <2> SUFFICES ASSUME NEW i \in DOMAIN s
               PROVE  IsFrame(s[i])' /\ Frames(s[i], Above(s, i))'
    OBVIOUS
  <2>1. i \in DOMAIN stack /\ i + 1 \in DOMAIN stack /\ (i + 1 \in DOMAIN s \/ i + 1 = n)
    <3>1. \A k \in 1 .. n - 1 : k \in 1 .. n /\ k + 1 \in 1 .. n /\ (k + 1 \in 1 .. n - 1 \/ k + 1 = n)
      BY <1>4
    <3> QED BY <1>4, <1>13, <3>1
  <2>2. IsFrame(s[i]) /\ Frames(s[i], Above(stack, i))
    BY <1>1, <1>13, <2>1 DEF Visiting
  <2>3. \A d \in Above(stack, i) : d = top.key \/ d \in Above(s, i)
    BY <1>4, <1>13, <2>1 DEF Above
  <2>4. Frames(s[i], Above(s, i))'
    BY <1>10, <2>2, <2>3 DEF Frames
  <2> QED BY <1>2, <2>2, <2>4 DEF IsFrame
<1>15. Visiting'
  <2>1. \A k \in chosen' : k \in dropped' \/ \E j \in DOMAIN o : Gives(o[j], k)
    <3>1. \A k \in chosen : k \in dropped \/ \E j \in DOMAIN order : Gives(order[j], k)
      BY <1>1 DEF Visiting
    <3> QED BY <1>1, <1>3, <1>8, <1>9, <3>1
  <2>2. stack' = s /\ order' = o
    BY <1>1, <1>3, <1>12
  <2> QED BY <1>11, <1>13, <1>14, <2>1, <2>2 DEF Visiting
<1>16. PlanTypes' /\ Verified'
  BY <1>1, <1>2, <1>3, <1>8 DEF PlanInv, PlanTypes, Verified
<1>17. InOrder(plan)'
  <2>1. \A p : p = plan' => InOrder(p)'
    BY <1>1, <1>2
  <2> QED BY <2>1 DEF InOrder
<1> QED BY <1>2, <1>15, <1>16, <1>17 DEF PlanInv

\* Resolved, the order is the plan.
LEMMA PlannedKeeps == ASSUME PlanInv, Planned PROVE PlanInv'
<1> USE DEF stores, have, search, ask, notes, Plan
<1>1. CASE order = <<>>
  <2>1. /\ mirror = [r \in RepoSet |-> mirror[r]] /\ index = [r \in RepoSet |-> index[r]]
        /\ \A r \in RepoSet : /\ mirror[r] \in DOMAIN world.index[r]
                              /\ index[r] \in {Nothing, CutIndex} \cup DOMAIN world.index[r]
    BY DEF PlanInv, PlanTypes
  <2> QED BY <1>1, <2>1, PlanAround DEF Planned, Over
<1>2. CASE order # <<>>
  <2>1. /\ world' = world /\ have' = have /\ cuts \subseteq cuts' /\ dropped \subseteq dropped'
        /\ shed \subseteq shed' /\ plan' = order /\ order' = order /\ step' # "resolve"
        /\ step = "resolve" /\ fetching' \subseteq ToSet(order)
        /\ cache' = cache /\ mirror' = mirror /\ index' = index /\ verified' = verified
    BY <1>2 DEF Planned
  <2>2. /\ PlanTypes /\ Verified /\ Visiting /\ Prefixed /\ BytesAsIndexed
    BY DEF PlanInv
  <2>3. /\ Offered' = Offered /\ Prefixed' /\ BytesAsIndexed'
        /\ \A p : InOrder(p) => InOrder(p)'
    BY <2>1, <2>2, SettledGrows
  <2>4. InOrder(plan)'
    <3>1. InOrder(order)
      BY <2>1, <2>2 DEF Visiting
    <3>2. \A p : p = plan' => InOrder(p)'
      BY <2>1, <2>3, <3>1
    <3> QED BY <3>2 DEF InOrder
  <2>5. PlanTypes' /\ Verified'
    <3>1. order \in Seq(Offered)
      BY <2>2 DEF PlanTypes
    <3>2. ToSet(order) \subseteq Offered
      BY <3>1 DEF ToSet
    <3>3. plan' \in Seq(Offered) /\ order' \in Seq(Offered) /\ fetching' \subseteq Offered
      BY <2>1, <3>1, <3>2
    <3> QED BY <2>1, <2>2, <2>3, <3>3 DEF PlanTypes, Verified
  <2>6. Visiting'
    BY <2>1 DEF Visiting
  <2> QED BY <2>3, <2>4, <2>5, <2>6 DEF PlanInv
<1> QED BY <1>1, <1>2

\* A download is verified against the entry it is for, or is not.
LEMMA VerifiedGrows ==
  ASSUME PlanTypes, Verified, NEW e \in Offered, NEW bytes \in Fetched(e), Stored(e, bytes),
         world' = world,
         verified' \subseteq verified \cup {<<Path(e), e.sum>>},
         verified' \subseteq verified \/ Passes(e, bytes)
  PROVE  Verified'
<1>1. /\ \A f \in Offered : cache[Path(f)] # Nothing => cache'[Path(f)] = cache[Path(f)]
      /\ e.repo \in Local \/ cache'[Path(e)] = bytes
  BY StoredKeeps
<1>2. Offered' = Offered
  BY DEF Offered, Entries
<1>3. \A f \in Offered : f.sum # Nothing
  BY OfferedEntry
<1>4. ASSUME NEW v \in verified
      PROVE  \E f \in Offered : v = <<Path(f), f.sum>> /\ (f.repo \in Local \/ cache'[Path(f)] = f.sum)
  <2>1. PICK f \in Offered : /\ v = <<Path(f), f.sum>>
                             /\ f.repo \in Local \/ cache[Path(f)] = f.sum
    BY <1>4 DEF Verified
  <2> QED BY <1>1, <1>3, <2>1
<1>5. ASSUME Passes(e, bytes)
      PROVE  e.repo \in Local \/ cache'[Path(e)] = e.sum
  BY <1>1, <1>5, PassesRight
<1>6. ASSUME NEW v \in verified'
      PROVE  \E f \in Offered : v = <<Path(f), f.sum>> /\ (f.repo \in Local \/ cache'[Path(f)] = f.sum)
  BY <1>4, <1>5, <1>6
<1> QED BY <1>2, <1>6 DEF Verified, Path

LEMMA PrefetchKeeps ==
  ASSUME PlanInv, NEW e \in fetching, Prefetch(e)
  PROVE  PlanInv'
<1> USE DEF stores, have, search, ask, notes
<1>1. /\ world' = world /\ have' = have /\ cuts \subseteq cuts' /\ dropped \subseteq dropped'
      /\ shed \subseteq shed' /\ plan' = plan /\ order' = order /\ step' # "resolve"
      /\ fetching' \subseteq fetching /\ mirror' = mirror /\ index' = index
  BY DEF Prefetch
<1>2. PlanTypes /\ Verified /\ Prefixed /\ BytesAsIndexed /\ InOrder(plan) /\ e \in Offered
  BY DEF PlanInv, PlanTypes
<1>3. /\ Offered' = Offered /\ Prefixed' /\ BytesAsIndexed'
      /\ \A p : InOrder(p) => InOrder(p)'
  BY <1>1, <1>2, SettledGrows
<1>4. InOrder(plan)'
  <2>1. \A p : p = plan' => InOrder(p)'
    BY <1>1, <1>2, <1>3
  <2> QED BY <2>1 DEF InOrder
<1>5. cache' = [p \in FilesOf(world) |-> cache'[p]] /\ Verified'
  <2>1. CASE UNCHANGED <<cache, verified>>
    BY <1>1, <1>2, <1>3, <2>1 DEF Verified, PlanTypes
  <2>2. ASSUME NEW bytes \in Fetched(e), Stored(e, bytes),
               verified' = IF Passes(e, bytes) THEN verified \cup {<<Path(e), e.sum>>}
                           ELSE verified
        PROVE  cache' = [p \in FilesOf(world) |-> cache'[p]] /\ Verified'
    <3>1. /\ verified' \subseteq verified \cup {<<Path(e), e.sum>>}
          /\ verified' \subseteq verified \/ Passes(e, bytes)
      BY <2>2
    <3> QED BY <1>1, <1>2, <2>2, <3>1, StoredKeeps, VerifiedGrows
  <2> QED BY <2>1, <2>2 DEF Prefetch
<1>6. PlanTypes'
  BY <1>1, <1>2, <1>3, <1>5 DEF PlanTypes
<1>7. Visiting'
  BY <1>1 DEF Visiting
<1> QED BY <1>3, <1>4, <1>5, <1>6, <1>7 DEF PlanInv

LEMMA InstallFailsKeeps == ASSUME PlanInv, InstallFails PROVE PlanInv'
<1> USE DEF stores, have, search, ask, notes
<1>1. /\ world' = world /\ have' = have /\ cuts \subseteq cuts' /\ dropped \subseteq dropped'
      /\ shed \subseteq shed' /\ plan' = <<>> /\ order' = order /\ step' # "resolve"
      /\ fetching' = {} /\ mirror' = mirror /\ index' = index /\ verified' = verified
  BY DEF InstallFails, Over
<1>2. PlanTypes /\ Verified /\ Prefixed /\ BytesAsIndexed /\ plan # <<>>
  BY DEF PlanInv, InstallFails
<1>3. Offered' = Offered /\ Prefixed' /\ BytesAsIndexed'
  BY <1>1, <1>2, SettledGrows
<1>4. <<>> \in Seq(Offered) /\ InOrder(plan)'
  BY <1>1 DEF InOrder
<1>5. Head(plan) \in Offered
  BY <1>2 DEF PlanTypes
<1>6. cache' = [p \in FilesOf(world) |-> cache'[p]] /\ Verified'
  <2>1. CASE UNCHANGED cache
    BY <1>1, <1>2, <1>3, <2>1 DEF Verified, PlanTypes
  <2>2. ASSUME NEW bytes \in Fetched(Head(plan)), Stored(Head(plan), bytes)
        PROVE  cache' = [p \in FilesOf(world) |-> cache'[p]] /\ Verified'
    <3>1. PICK e : e = Head(plan)
      OBVIOUS
    <3>2. verified' \subseteq verified /\ verified' \subseteq verified \cup {<<Path(e), e.sum>>}
      BY <1>1
    <3> QED BY <1>1, <1>2, <1>5, <2>2, <3>1, <3>2, StoredKeeps, VerifiedGrows
  <2> QED BY <2>1, <2>2 DEF InstallFails
<1>7. PlanTypes'
  BY <1>1, <1>2, <1>3, <1>4, <1>6 DEF PlanTypes
<1>8. Visiting'
  BY <1>1 DEF Visiting
<1> QED BY <1>3, <1>4, <1>6, <1>7, <1>8 DEF PlanInv

\* A package installed supplies its names; a name nothing supplies any longer
\* was supplied by the package it replaced, and is noted.
LEMMA InstalledSettles ==
  ASSUME PlanTypes, NEW e, e.name \in NameSet, e # Nothing,
         NEW stale \in SUBSET PathsOf(db, e.name),
         db' = [db EXCEPT ![e.name] = e],
         present' = (present \ stale) \cup {f.path : f \in e.files},
         UNCHANGED <<cuts, dropped>>, shed' = shed \cup Shed(e.name)
  PROVE  /\ \A n, d : Settled(n, d) => Settled(n, d)'
         /\ \A d : Gives(e, d) \/ d \in Recorded(e) => Supplied(db, present, d)'
         /\ \A d : Supplied(db, present, d) => Supplied(db, present, d)' \/ d \in shed'
         /\ \A m \in NameSet : db'[m] = IF m = e.name THEN e ELSE db[m]
<1>1. PICK D, P : D = db' /\ P = present'
  OBVIOUS
<1>2. \A m \in NameSet : D[m] = IF m = e.name THEN e ELSE db[m]
  BY <1>1 DEF PlanTypes
<1>3. ASSUME NEW d, Gives(e, d) \/ d \in Recorded(e)
      PROVE  Supplied(D, P, d)
  <2>1. d \in {e.name} \cup Lends(e)
    BY <1>3 DEF Gives, Recorded, Lends, Provided
  <2> QED BY <1>2, <2>1 DEF Supplied
<1>4. ASSUME NEW d, Supplied(db, present, d), ~Supplied(D, P, d)
      PROVE  d \in shed'
  <2>1. CASE d \in present
    <3>1. d \in PathsOf(db, e.name)
      BY <1>1, <1>4, <2>1 DEF Supplied
    <3>2. d \in Lent(db, e.name)
      BY <3>1 DEF PathsOf, Lent
    <3> QED BY <1>1, <1>4, <3>2 DEF Shed
  <2>2. CASE d \notin present
    <3>1. PICK m \in NameSet : db[m] # Nothing /\ d \in {m} \cup Lends(db[m])
      BY <1>4, <2>2 DEF Supplied
    <3>2. m = e.name
      BY <1>2, <1>4, <3>1 DEF Supplied
    <3>3. d \in Lent(db, e.name)
      BY <3>1, <3>2 DEF Lent
    <3> QED BY <1>1, <1>4, <3>3 DEF Shed
  <2> QED BY <2>1, <2>2
<1>5. ASSUME NEW n, NEW d, Settled(n, d)
      PROVE  Supplied(D, P, d) \/ <<n, d>> \in cuts' \/ d \in dropped' \cup shed'
  BY <1>4, <1>5 DEF Settled
<1> QED BY <1>1, <1>2, <1>3, <1>4, <1>5 DEF Settled

\* The first of the plan is installed: what it needs is there, and the plan
\* without it is still in order.
LEMMA InstallNextKeeps == ASSUME PlanInv, InstallNext PROVE PlanInv'
<1> USE DEF stores, have, search, ask
<1>1. PICK e : e = Head(plan)
  OBVIOUS
<1>2. /\ PlanTypes /\ Verified /\ InOrder(plan) /\ Prefixed /\ BytesAsIndexed
      /\ plan # <<>> /\ plan' = Tail(plan) /\ order' = order /\ step' # "resolve"
      /\ world' = world /\ mirror' = mirror /\ index' = index /\ fetching' = fetching
      /\ cuts' = cuts /\ dropped' = dropped
  BY DEF PlanInv, InstallNext
<1>3. PICK bytes \in Fetched(e), stale \in SUBSET PathsOf(db, e.name) :
        /\ Passes(e, bytes) /\ Stored(e, bytes)
        /\ verified' = verified \cup {<<Path(e), e.sum>>}
        /\ db' = [db EXCEPT ![e.name] = Unpacked(e, bytes)]
        /\ present' = (present \ stale) \cup {f.path : f \in e.files}
        /\ caps' \subseteq caps \cup Recorded(e)
        /\ shed' = shed \cup Shed(e.name)
  BY <1>1 DEF InstallNext
<1>4. PICK n : n = Len(plan)
  OBVIOUS
<1>5. /\ n \in Nat \ {0} /\ DOMAIN plan = 1 .. n /\ e \in Offered /\ plan[1] = e
      /\ Tail(plan) \in Seq(Offered) /\ DOMAIN Tail(plan) = 1 .. n - 1
      /\ \A j \in 1 .. n - 1 : Tail(plan)[j] = plan[j + 1]
  BY <1>1, <1>2, <1>4 DEF PlanTypes
<1>6. /\ e.repo \in RepoSet /\ e \in Entries(e.repo) /\ e.name \in NameSet /\ e # Nothing
  BY <1>2, <1>5, OfferedEntry
<1>7. db' = [db EXCEPT ![e.name] = e]
  <2>1. bytes = e.sum
    BY <1>2, <1>3, <1>5, PassesRight
  <2> QED BY <1>3, <2>1 DEF Unpacked
<1>8. /\ \A m, d : Settled(m, d) => Settled(m, d)'
      /\ \A d : Gives(e, d) \/ d \in Recorded(e) => Supplied(db, present, d)'
      /\ \A d : Supplied(db, present, d) => Supplied(db, present, d)' \/ d \in shed'
      /\ \A m \in NameSet : db'[m] = IF m = e.name THEN e ELSE db[m]
  BY <1>2, <1>3, <1>6, <1>7, InstalledSettles
<1>9. Offered' = Offered /\ \A r \in RepoSet : Entries(r)' = Entries(r)
  BY <1>2 DEF Offered, Entries
<1>10. cache' = [p \in FilesOf(world) |-> cache'[p]] /\ Verified'
  <2>1. /\ verified' \subseteq verified \cup {<<Path(e), e.sum>>}
        /\ verified' \subseteq verified \/ Passes(e, bytes)
    BY <1>3
  <2> QED BY <1>2, <1>3, <1>5, <2>1, StoredKeeps, VerifiedGrows
<1>11. PlanTypes'
  <2>1. db' = [m \in NameSet |-> db'[m]]
    BY <1>2, <1>6, <1>7 DEF PlanTypes
  <2> QED BY <1>2, <1>5, <1>9, <1>10, <2>1 DEF PlanTypes
<1>12. \A d \in NamesIn(e.depends) : Settled(e.name, d)
  <2>1. 1 \in DOMAIN plan /\ 1 .. 1 - 1 = {}
    BY <1>5
  <2>2. \A d \in NamesIn(plan[1].depends) :
          Settled(plan[1].name, d) \/ \E i \in 1 .. 1 - 1 : Gives(plan[i], d)
    BY <1>2, <2>1, Zenon DEF InOrder
  <2> QED BY <1>5, <2>1, <2>2
<1>13. Prefixed'
  <2>0. \A c \in caps' : Supplied(db, present, c)' \/ c \in shed'
    BY <1>2, <1>3, <1>8 DEF Prefixed
  <2> SUFFICES ASSUME NEW m \in NameSet, db'[m] # Nothing, NEW d \in NamesIn(db'[m].depends)
               PROVE  Settled(m, d)'
    BY <2>0 DEF Prefixed, Installed
  <2>1. CASE m = e.name
    BY <1>8, <1>12, <2>1
  <2>2. CASE m # e.name
    BY <1>2, <1>8, <2>2 DEF Prefixed, Installed
  <2> QED BY <2>1, <2>2
<1>14. BytesAsIndexed'
  <2> SUFFICES ASSUME NEW m \in NameSet, db'[m] # Nothing
               PROVE  db'[m] = world.db[m] \/ \E r \in RepoSet : db'[m] \in Entries(r)
    BY <1>2, <1>9 DEF BytesAsIndexed, Installed
  <2>1. CASE m = e.name
    BY <1>6, <1>8, <2>1
  <2>2. CASE m # e.name
    BY <1>2, <1>8, <2>2 DEF BytesAsIndexed, Installed
  <2> QED BY <2>1, <2>2
<1>15. InOrder(plan)'
  <2>1. PICK p : p = Tail(plan)
    OBVIOUS
  <2>2. ASSUME NEW j \in 1 .. n - 1, NEW d \in NamesIn(p[j].depends)
        PROVE  Settled(p[j].name, d)' \/ \E i \in 1 .. j - 1 : Gives(p[i], d)
    <3>1. j + 1 \in DOMAIN plan /\ p[j] = plan[j + 1]
      BY <1>5, <2>1
    <3>2. Settled(p[j].name, d) \/ \E i \in 1 .. j : Gives(plan[i], d)
      <4>1. d \in NamesIn(plan[j + 1].depends) /\ (j + 1) - 1 = j
        BY <1>5, <2>2, <3>1
      <4>2. Settled(plan[j + 1].name, d) \/ \E i \in 1 .. (j + 1) - 1 : Gives(plan[i], d)
        BY <1>2, <3>1, <4>1 DEF InOrder
      <4> QED BY <3>1, <4>1, <4>2
    <3>3. ASSUME NEW i \in 1 .. j, Gives(plan[i], d)
          PROVE  Supplied(db, present, d)' \/ \E k \in 1 .. j - 1 : Gives(p[k], d)
      <4>1. CASE i = 1
        BY <1>5, <1>8, <3>3, <4>1
      <4>2. CASE i # 1
        <5>1. i - 1 \in 1 .. j - 1 /\ i - 1 \in 1 .. n - 1 /\ (i - 1) + 1 = i
          BY <1>5, <4>2
        <5>2. p[i - 1] = plan[i]
          BY <1>5, <2>1, <5>1
        <5> QED BY <3>3, <5>1, <5>2
      <4> QED BY <4>1, <4>2
    <3> QED BY <1>8, <3>2, <3>3 DEF Settled
  <2>3. InOrder(p)'
    BY <1>5, <2>1, <2>2 DEF InOrder
  <2>4. \A q : q = plan' => InOrder(q)'
    BY <1>2, <2>1, <2>3
  <2> QED BY <2>4 DEF InOrder
<1>16. Visiting'
  BY <1>2 DEF Visiting
<1> QED BY <1>10, <1>11, <1>13, <1>14, <1>15, <1>16 DEF PlanInv

LEMMA PlanStarts == PlanInit => PlanInv
<1> SUFFICES ASSUME NEW w \in Worlds, PlanInitAt(w) PROVE PlanInv
  BY DEF PlanInit
<1>1. \A r \in RepoSet : world.index[r] \in Seq(ToSet(world.index[r])) \ {<<>>}
  BY WorldsAssumption DEF PlanInitAt, Publishes
<1>2. Sound(db, present)
  BY WorldsAssumption DEF PlanInitAt
<1>3. PlanTypes
  <2>1. \A r \in RepoSet : 1 \in DOMAIN world.index[r]
    BY <1>1
  <2>2. <<>> \in Seq(Offered)
    OBVIOUS
  <2>3. db = [n \in NameSet |-> db[n]]
    BY <1>2 DEF Sound
  <2> QED BY <2>1, <2>2, <2>3 DEF PlanInitAt, PlanTypes
<1>4. Prefixed
  BY <1>2 DEF PlanInitAt, Sound, Prefixed, Installed, NamesIn, Settled
<1>5. Verified /\ Visiting /\ BytesAsIndexed
  BY DEF PlanInitAt, Verified, Visiting, BytesAsIndexed, Installed
<1>6. InOrder(plan)
  BY DEF PlanInitAt, InOrder
<1> QED BY <1>3, <1>4, <1>5, <1>6 DEF PlanInv

\* The invariant both theorems rest on.
LEMMA PlanKeeps == ASSUME PlanInv, [PlanNext]_planVars PROVE PlanInv'
<1>1. CASE \/ \E r \in RepoSet : MirrorMoves(r) \/ LoadCut(r)
           \/ \E c \in Commands : Command(c)
           \/ \E reached \in SUBSET RepoSet : Load(reached)
           \/ \E agreed \in BOOLEAN : StartUpgrade(agreed)
           \/ StartInstall \/ UpgradeNext \/ Killed
           \/ \E need \in Wanted : Unresolved(need)
           \/ UNCHANGED planVars
  BY <1>1, PlanOutside
<1>2. ASSUME NEW need \in Wanted, Skip(need) PROVE PlanInv'
  BY <1>2, SkipKeeps
<1>3. ASSUME NEW need \in Wanted, NEW e \in find(need), Descend(need, e) PROVE PlanInv'
  BY <1>3, DescendKeeps
<1>4. CASE Return
  BY <1>4, ReturnKeeps
<1>5. CASE Planned
  BY <1>5, PlannedKeeps
<1>6. ASSUME NEW e \in fetching, Prefetch(e) PROVE PlanInv'
  BY <1>6, PrefetchKeeps
<1>7. CASE InstallNext
  BY <1>7, InstallNextKeeps
<1>8. CASE InstallFails
  BY <1>8, InstallFailsKeeps
<1> QED BY <1>1, <1>2, <1>3, <1>4, <1>5, <1>6, <1>7, <1>8 DEF PlanNext, Advance

LEMMA PlanInvariant == PlanSpec => []PlanInv
<1>1. PlanInit => PlanInv
  BY PlanStarts
<1>2. PlanInv /\ [PlanNext]_planVars => PlanInv'
  BY PlanKeeps
<1> QED BY <1>1, <1>2, PTL DEF PlanSpec

\* What is installed is what an index described, for any indexes, any cache
\* and any order of the downloads: the sum is compared before a file is used,
\* what a process has compared stays as it is in the cache, and a file of a
\* directory keeps its bytes (Repository.download, npkg.py:585).
THEOREM BytesAreIndexed == PlanSpec => []BytesAsIndexed
<1>1. PlanInv => BytesAsIndexed
  BY DEF PlanInv
<1> QED BY <1>1, PlanInvariant, PTL

\* Wherever an install stops, and whatever the packages depend on, what is
\* installed has its dependencies, but for a cycle, a second version of one
\* package chosen, and a replaced package that supplied them: depth first, a
\* package goes into the plan after all it needs (Solver.resolve, npkg.py:685;
\* the order it returns, 713-733).
THEOREM PrefixesAreClosed == PlanSpec => []ClosedPrefix
<1>1. PlanInv => ClosedPrefix
  BY DEF PlanInv, Prefixed, ClosedPrefix, NamesIn, ToSet, Settled
<1> QED BY <1>1, PlanInvariant, PTL

-----------------------------------------------------------------------------
(* What an install may replace.  Each name the solver went into had a      *)
(* reason when the plan was made, and each package of the plan gives one of *)
(* those names: the reason lasts, as it is about what was installed then.   *)

\* Why the solver went after the name v.
Reason(v) == SupplierIn(base, v) = Nothing \/ AskedFor(v)
Warranted(e) == \E v \in chosen : Gives(e, v) /\ Reason(v)
AllWarranted(p) == \A i \in DOMAIN p : Warranted(p[i])
FrameWarranted(f) == Gives(f.entry, f.key) /\ Reason(f.key)

AskedInv ==
  /\ step = "resolve" => /\ base = db /\ AllWarranted(order)
                         /\ \A i \in DOMAIN stack : FrameWarranted(stack[i])
  /\ IF step = "install" THEN AllWarranted(plan) ELSE plan = <<>>

\* What the solver goes into has a reason.
LEMMA DescendWarranted ==
  ASSUME PlanTypes, base = db, NEW need, ~Skips(need), NEW e \in find(need)
  PROVE  Gives(e, need.name) /\ Reason(need.name)
<1>1. Gives(e, need.name)
  BY FindGives
<1>2. ASSUME need \notin requests
      PROVE  SupplierIn(base, need.name) = Nothing
  BY <1>2 DEF Skips, Met, is_satisfied, Supplier
<1>3. ASSUME need \in requests, SupplierIn(base, need.name) # Nothing
      PROVE  AskedFor(need.name)
  <2>1. \/ reinstall /\ Need(need.name) \in requests
        \/ ~satisfies(Version(base[SupplierIn(base, need.name)].version, <<>>), need)
    BY <1>3 DEF Skips, Met, Supplier
  <2>2. Need(need.name).name = need.name
    BY DEF Need
  <2> QED BY <1>3, <2>1, <2>2 DEF AskedFor
<1> QED BY <1>1, <1>2, <1>3 DEF Reason

\* The package installed had a reason; the others of the plan keep theirs.
LEMMA InstallWarranted ==
  ASSUME PlanInv, AskedInv, InstallNext
  PROVE  /\ AskedInv'
         /\ \E e : /\ Warranted(e) /\ e.name \in NameSet
                   /\ \A m \in NameSet : db'[m] = IF m = e.name THEN e ELSE db[m]
<1> USE DEF stores, search, ask
<1>1. PICK e, n : e = Head(plan) /\ n = Len(plan)
  OBVIOUS
<1>2. /\ PlanTypes /\ Verified /\ AllWarranted(plan) /\ plan # <<>> /\ plan' = Tail(plan)
      /\ UNCHANGED <<requests, reinstall, base, chosen>> /\ step' # "resolve"
      /\ (step' # "install" => plan' = <<>>)
  BY DEF PlanInv, InstallNext, AskedInv
<1>3. /\ n \in Nat \ {0} /\ DOMAIN plan = 1 .. n /\ e \in Offered /\ plan[1] = e
      /\ DOMAIN Tail(plan) = 1 .. n - 1
      /\ \A j \in 1 .. n - 1 : Tail(plan)[j] = plan[j + 1]
  BY <1>1, <1>2 DEF PlanTypes
<1>4. PICK bytes \in Fetched(e) : /\ Passes(e, bytes)
                                  /\ db' = [db EXCEPT ![e.name] = Unpacked(e, bytes)]
  BY <1>1 DEF InstallNext
<1>5. db' = [db EXCEPT ![e.name] = e]
  <2>1. bytes = e.sum
    BY <1>2, <1>3, <1>4, PassesRight
  <2> QED BY <1>4, <2>1 DEF Unpacked
<1>6. e.name \in NameSet
  BY <1>2, <1>3, OfferedEntry
<1>7. \A m \in NameSet : db'[m] = IF m = e.name THEN e ELSE db[m]
  BY <1>2, <1>5 DEF PlanTypes
<1>8. \A f : Warranted(f) => Warranted(f)'
  BY <1>2 DEF Warranted, Reason, AskedFor
<1>9. PICK p : p = Tail(plan)
  OBVIOUS
<1>10. \A j \in DOMAIN p : Warranted(p[j])'
  <2>1. \A j \in DOMAIN p : j \in 1 .. n - 1 /\ j + 1 \in DOMAIN plan /\ p[j] = plan[j + 1]
    BY <1>3, <1>9
  <2> QED BY <1>2, <1>8, <2>1 DEF AllWarranted
<1>11. AskedInv'
  <2>1. plan' = p
    BY <1>2, <1>9
  <2>2. AllWarranted(plan)'
    BY <1>10, <2>1 DEF AllWarranted
  <2> QED BY <1>2, <2>2 DEF AskedInv
<1>12. Warranted(e)
  BY <1>2, <1>3 DEF AllWarranted
<1> QED BY <1>6, <1>7, <1>11, <1>12

LEMMA AskedSteps ==
  ASSUME PlanInv, AskedInv, [PlanNext]_planVars
  PROVE  AskedInv'
<1> USE DEF stores, have, search, ask, notes
<1>0. ASSUME UNCHANGED <<base, requests, reinstall>>, chosen \subseteq chosen'
      PROVE  /\ \A v : Reason(v) => Reason(v)'
             /\ \A e : Warranted(e) => Warranted(e)'
             /\ \A f : FrameWarranted(f) => FrameWarranted(f)'
             /\ \A p : AllWarranted(p) => AllWarranted(p)'
  <2>1. \A v : Reason(v) => Reason(v)'
    BY <1>0 DEF Reason, AskedFor
  <2>2. \A e : Warranted(e) => Warranted(e)'
    BY <1>0, <2>1 DEF Warranted
  <2> QED BY <2>1, <2>2 DEF FrameWarranted, AllWarranted
<1>2. ASSUME UNCHANGED <<db, base, chosen, requests, reinstall, order, stack, plan, step>>
      PROVE  AskedInv'
  BY <1>2 DEF AskedInv, AllWarranted, Warranted, FrameWarranted, Reason, AskedFor
<1>3. ASSUME UNCHANGED plan, step # "install", step' \notin {"install", "resolve"}
      PROVE  AskedInv'
  BY <1>3 DEF AskedInv
<1>4. ASSUME plan' = <<>>, step' \notin {"install", "resolve"}
      PROVE  AskedInv'
  BY <1>4 DEF AskedInv
<1>5. ASSUME NEW r \in RepoSet, MirrorMoves(r) \/ LoadCut(r)
      PROVE  AskedInv'
  BY <1>2, <1>3, <1>5 DEF MirrorMoves, LoadCut
<1>6. ASSUME NEW c \in Commands, Command(c)
      PROVE  AskedInv'
  BY <1>3, <1>6 DEF Command
<1>7. ASSUME NEW reached \in SUBSET RepoSet, Load(reached)
      PROVE  AskedInv'
  BY <1>3, <1>7 DEF Load
<1>8. ASSUME NEW agreed \in BOOLEAN, StartUpgrade(agreed)
      PROVE  AskedInv'
  BY <1>3, <1>8 DEF StartUpgrade
<1>9. CASE StartInstall \/ UpgradeNext
  <2>1. plan = <<>> /\ plan' = plan /\ step' = "resolve" /\ stack' = <<>> /\ order' = <<>>
        /\ base' = db /\ db' = db
    BY <1>9 DEF StartInstall, UpgradeNext, Resolve, AskedInv
  <2> QED BY <2>1 DEF AskedInv, AllWarranted
<1>10. CASE Killed \/ InstallFails
  BY <1>4, <1>10 DEF Killed, InstallFails, Over
<1>11. ASSUME NEW need \in Wanted, Unresolved(need)
       PROVE  AskedInv'
  BY <1>4, <1>11 DEF Unresolved, Over
<1>12. ASSUME NEW need \in Wanted, Skip(need)
       PROVE  AskedInv'
  <2>1. /\ step = "resolve"
        /\ UNCHANGED <<db, base, chosen, requests, reinstall, order, plan, step>>
        /\ stack' = IF stack = <<>> THEN stack ELSE Visited
    BY <1>12 DEF Skip, Rest, Wanted
  <2>2. \A i \in DOMAIN stack' : i \in DOMAIN stack /\ FrameWarranted(stack'[i]) = FrameWarranted(stack[i])
    <3>1. CASE stack = <<>>
      BY <2>1, <3>1
    <3>2. CASE stack # <<>>
      <4>1. \A i \in DOMAIN stack : /\ Visited[i].entry = stack[i].entry
                                    /\ Visited[i].key = stack[i].key
        BY <3>2 DEF Visited, FrameOf, Top
      <4>2. DOMAIN Visited = DOMAIN stack
        BY DEF Visited
      <4> QED BY <2>1, <3>2, <4>1, <4>2 DEF FrameWarranted
    <3> QED BY <3>1, <3>2
  <2>3. /\ \A f : FrameWarranted(f) => FrameWarranted(f)'
        /\ \A p : AllWarranted(p) => AllWarranted(p)'
    BY <1>0, <2>1
  <2>4. /\ AllWarranted(order) /\ plan' = <<>> /\ base = db
        /\ \A i \in DOMAIN stack : FrameWarranted(stack[i])
    BY <2>1 DEF AskedInv
  <2>5. PICK s : s = stack'
    OBVIOUS
  <2>6. \A i \in DOMAIN s : FrameWarranted(s[i])'
    BY <2>2, <2>3, <2>4, <2>5
  <2>7. AllWarranted(order)'
    <3>1. PICK o : o = order
      OBVIOUS
    <3>2. \A e : Warranted(e) => Warranted(e)'
      BY <1>0, <2>1
    <3>3. ASSUME NEW i \in DOMAIN o
          PROVE  Warranted(o[i])'
      <4>1. PICK e : e = o[i]
        OBVIOUS
      <4>2. Warranted(e)
        BY <2>4, <3>1, <4>1 DEF AllWarranted
      <4>3. Warranted(e)'
        BY <3>2, <4>2
      <4> QED BY <4>1, <4>3
    <3>4. order' = o
      BY <2>1, <3>1
    <3> QED BY <3>3, <3>4 DEF AllWarranted
  <2> QED BY <2>1, <2>4, <2>5, <2>6, <2>7 DEF AskedInv
<1>13. ASSUME NEW need \in Wanted, NEW e \in find(need), Descend(need, e)
       PROVE  AskedInv'
  <2>1. /\ step = "resolve"
        /\ UNCHANGED <<db, base, chosen, requests, reinstall, order, plan, step>>
        /\ stack' = Append(IF stack = <<>> THEN stack ELSE Visited,
                           FrameOf(need.name, e, e.depends))
        /\ PlanTypes /\ Visiting /\ ~Skips(need)
    BY <1>13 DEF Descend, Frame, Wanted, PlanInv
  <2>2. PICK rest : rest = IF stack = <<>> THEN stack ELSE Visited
    OBVIOUS
  <2>3. /\ rest \in Seq(ToSet(rest))
        /\ \A i \in DOMAIN rest : /\ i \in DOMAIN stack /\ rest[i].entry = stack[i].entry
                                  /\ rest[i].key = stack[i].key
    <3>1. CASE stack = <<>>
      BY <2>2, <3>1
    <3>2. CASE stack # <<>>
      <4>1. \A i \in DOMAIN stack : /\ Visited[i].entry = stack[i].entry
                                    /\ Visited[i].key = stack[i].key
        BY <3>2 DEF Visited, FrameOf, Top
      <4>2. DOMAIN Visited = DOMAIN stack
        BY DEF Visited
      <4> QED BY <2>1, <2>2, <3>2, <4>1, <4>2, TopVisited
    <3> QED BY <3>1, <3>2
  <2>4. PICK new, s : new = FrameOf(need.name, e, e.depends) /\ s = Append(rest, new)
    OBVIOUS
  <2>5. \A i \in DOMAIN s : (i \in DOMAIN rest /\ s[i] = rest[i]) \/ s[i] = new
    BY <2>3, <2>4
  <2>6. /\ AllWarranted(order) /\ plan' = <<>> /\ base = db
        /\ \A i \in DOMAIN stack : FrameWarranted(stack[i])
    BY <2>1 DEF AskedInv
  <2>7. FrameWarranted(new)
    BY <1>13, <2>1, <2>4, <2>6, DescendWarranted DEF FrameOf, FrameWarranted
  <2>8. \A i \in DOMAIN s : FrameWarranted(s[i])
    BY <2>3, <2>5, <2>6, <2>7 DEF FrameWarranted
  <2>9. /\ \A f : FrameWarranted(f) => FrameWarranted(f)'
        /\ \A e1 : Warranted(e1) => Warranted(e1)'
    BY <1>0, <2>1
  <2>10. \A i \in DOMAIN s : FrameWarranted(s[i])'
    BY <2>8, <2>9
  <2>11. stack' = s /\ AllWarranted(order)'
    BY <2>1, <2>2, <2>4, <2>6, <2>9 DEF AllWarranted
  <2> QED BY <2>1, <2>6, <2>10, <2>11 DEF AskedInv
<1>14. CASE Return
  <2>1. /\ step = "resolve" /\ UNCHANGED <<db, base, requests, reinstall, plan, step>>
        /\ chosen' = chosen \cup {Top.key}
        /\ stack # <<>> /\ stack' = Front(stack) /\ PlanTypes /\ Visiting
    BY <1>14 DEF Return, PlanInv
  <2>2. /\ AllWarranted(order) /\ plan' = <<>> /\ base = db
        /\ \A i \in DOMAIN stack : FrameWarranted(stack[i])
    BY <2>1 DEF AskedInv
  <2>3. PICK top, o, s, last : top = Top /\ o = order' /\ s = Front(stack) /\ last = Len(order)
    OBVIOUS
  <2>4. FrameWarranted(top) /\ \A i \in DOMAIN s : i \in DOMAIN stack /\ s[i] = stack[i]
    <3>1. Len(stack) \in Nat \ {0} /\ DOMAIN stack = 1 .. Len(stack) /\ Top = stack[Len(stack)]
      BY <2>1, TopVisited
    <3> QED BY <2>2, <2>3, <3>1 DEF Front
  <2>5. last \in Nat /\ DOMAIN order = 1 .. last /\ order \in Seq(Offered)
    BY <2>1, <2>3 DEF PlanTypes
  <2>6. /\ \A e : Warranted(e) => Warranted(e)'
        /\ \A f : FrameWarranted(f) => FrameWarranted(f)'
    BY <1>0, <2>1
  <2>7. Warranted(top.entry)'
    BY <2>1, <2>3, <2>4, <2>6 DEF Warranted, FrameWarranted
  <2>8. \A i \in DOMAIN o : (i \in DOMAIN order /\ o[i] = order[i]) \/ o[i] = top.entry
    <3>1. o = order \/ o = Append(order, top.entry)
      BY <1>14, <2>3 DEF Return
    <3> QED BY <2>3, <2>5, <3>1
  <2>9. ASSUME NEW i \in DOMAIN o
        PROVE  Warranted(o[i])'
    <3>1. PICK e : e = o[i]
      OBVIOUS
    <3>2. CASE e = top.entry
      BY <2>7, <3>1, <3>2
    <3>3. CASE i \in DOMAIN order /\ e = order[i]
      <4>1. Warranted(e)
        BY <2>2, <3>3 DEF AllWarranted
      <4>2. Warranted(e)'
        BY <2>6, <4>1
      <4> QED BY <3>1, <4>2
    <3> QED BY <2>8, <3>1, <3>2, <3>3
  <2>10. \A i \in DOMAIN s : FrameWarranted(s[i])'
    BY <2>2, <2>4, <2>6
  <2>11. stack' = s /\ order' = o
    BY <2>1, <2>3
  <2> QED BY <2>1, <2>2, <2>9, <2>10, <2>11 DEF AskedInv, AllWarranted
<1>15. CASE Planned
  <2>1. CASE Plan = <<>>
    BY <1>4, <1>15, <2>1 DEF Planned, Over
  <2>2. CASE Plan # <<>>
    <3>1. /\ UNCHANGED <<base, chosen, requests, reinstall, order>>
          /\ step = "resolve" /\ step' = "install" /\ plan' = order
      BY <1>15, <2>2 DEF Planned, Plan
    <3>2. AllWarranted(order) /\ \A e : Warranted(e) => Warranted(e)'
      BY <1>0, <3>1 DEF AskedInv
    <3> QED BY <3>1, <3>2 DEF AskedInv, AllWarranted
  <2> QED BY <2>1, <2>2
<1>16. ASSUME NEW e \in fetching, Prefetch(e)
       PROVE  AskedInv'
  BY <1>2, <1>16 DEF Prefetch
<1>17. CASE InstallNext
  BY <1>17, InstallWarranted
<1>18. CASE UNCHANGED planVars
  BY <1>2, <1>18 DEF planVars
<1> QED BY <1>5, <1>6, <1>7, <1>8, <1>9, <1>10, <1>11, <1>12, <1>13, <1>14, <1>15, <1>16,
           <1>17, <1>18 DEF PlanNext, Advance

\* The invariant the theorem rests on.
LEMMA AskedInvariant == PlanSpec => []AskedInv
<1>1. PlanInit => AskedInv
  BY DEF PlanInit, PlanInitAt, AskedInv, AllWarranted
<1>2. PlanInv /\ AskedInv /\ [PlanNext]_planVars => AskedInv'
  BY AskedSteps
<1> QED BY <1>1, <1>2, PlanInvariant, PTL DEF PlanSpec

\* An install leaves an installed package alone unless a name that package
\* has, or the new one gives, was asked for and not to be had as it was, or was
\* given by nothing installed when the plan was made: for any packages, cycles
\* and virtual names (Solver.resolve, npkg.py:687-697).
THEOREM OnlyAskedReplaced == PlanSpec => ReplacedOnlyIfAsked
<1> DEFINE Replaces == \A n \in Installed : db'[n] # db[n] =>
       \E v \in chosen \cap ({n} \cup Provided(db'[n])) :
         SupplierIn(base, v) = Nothing \/ AskedFor(v)
<1>1. ASSUME PlanInv, AskedInv, [PlanNext]_planVars
      PROVE  [Replaces]_planVars
  <2>1. CASE db' = db
    BY <2>1
  <2>2. CASE db' # db
    <3>1. InstallNext
      BY <1>1, <2>2 DEF PlanNext, Advance, planVars, stores, have, search, ask, MirrorMoves, LoadCut,
        Command, Load, StartInstall, StartUpgrade, UpgradeNext, Skip, Unresolved, Descend,
        Return, Planned, Prefetch, InstallFails, Killed
    <3>2. PICK e : /\ Warranted(e) /\ e.name \in NameSet
                   /\ \A m \in NameSet : db'[m] = IF m = e.name THEN e ELSE db[m]
      BY <1>1, <3>1, InstallWarranted
    <3> SUFFICES ASSUME NEW n \in Installed, db'[n] # db[n]
                 PROVE  \E v \in chosen \cap ({n} \cup Provided(db'[n])) : Reason(v)
      BY DEF Reason
    <3>3. n = e.name /\ db'[n] = e
      BY <3>2 DEF Installed
    <3> QED BY <3>2, <3>3 DEF Warranted, Gives
  <2> QED BY <2>1, <2>2
<1> QED BY <1>1, PlanInvariant, AskedInvariant, PTL DEF PlanSpec, ReplacedOnlyIfAsked

-----------------------------------------------------------------------------
(* What resolve can report.  Versions are ordered by their first           *)
(* difference, whatever they are compared with; so what is taken with the  *)
(* upstream version first, one of the two forms of a version takes, and of *)
(* the entries and providers that fit, if there are any, one comes first   *)
(* and is found.                                                           *)

\* Where two sequences differ first, and that it is KeyLess either way.
LEMMA FirstDifference ==
  ASSUME NEW a \in Seq(RunSet), NEW b \in Seq(RunSet)
  PROVE  KeyLess(a, b) \/ a = b \/ KeyLess(b, a)
<1>1. Len(a) \in Nat /\ Len(b) \in Nat
  OBVIOUS
<1> DEFINE same(i) == \A j \in 1 .. i - 1 : a[j] = b[j]
           S == {i \in Nat \ {0} : \/ i = Len(a) + 1 \/ i = Len(b) + 1
                                   \/ i <= Len(a) /\ i <= Len(b) /\ a[i] # b[i]}
<1>2. PICK i \in S : \A k \in S : i <= k
  <2>1. Len(a) + 1 \in S /\ S \in SUBSET Nat
    BY <1>1
  <2> HIDE DEF S
  <2> QED BY <2>1, LeastNumber
<1>3. i \in Nat \ {0} /\ i <= Len(a) + 1 /\ i <= Len(b) + 1
  BY <1>1, <1>2
<1>4. ASSUME NEW j \in 1 .. i - 1
      PROVE  a[j] = b[j]
  <2>1. j \in Nat \ {0} /\ j < i /\ j <= Len(a) /\ j <= Len(b)
    BY <1>1, <1>3
  <2> QED BY <1>2, <2>1
<1>5. CASE i = Len(a) + 1 /\ i = Len(b) + 1
  <2>1. Len(a) = Len(b) /\ \A j \in 1 .. Len(a) : a[j] = b[j]
    BY <1>1, <1>4, <1>5
  <2> QED BY <1>1, <2>1
<1>6. CASE i = Len(a) + 1 /\ i <= Len(b)
  BY <1>1, <1>3, <1>4, <1>6 DEF KeyLess
<1>7. CASE i = Len(b) + 1 /\ i <= Len(a)
  BY <1>1, <1>3, <1>4, <1>7 DEF KeyLess
<1>8. CASE i <= Len(a) /\ i <= Len(b) /\ a[i] # b[i]
  <2>1. a[i] \in RunSet /\ b[i] \in RunSet
    BY <1>1, <1>3, <1>8
  <2>2. \A p, q \in RunSet : p # q => RunLess(p, q) \/ RunLess(q, p)
    <3> TAKE p, q \in RunSet
    <3>1. p = <<p[1], p[2]>> /\ q = <<q[1], q[2]>> /\ p[1] \in {0, 1} /\ q[1] \in {0, 1} /\ p[2] \in Nat /\ q[2] \in Nat
      BY DEF RunSet
    <3> QED BY <3>1 DEF RunLess
  <2>3. RunLess(a[i], b[i]) \/ RunLess(b[i], a[i])
    BY <1>8, <2>1, <2>2
  <2> QED BY <1>1, <1>3, <1>4, <1>8, <2>3 DEF KeyLess
<1> QED BY <1>1, <1>2, <1>3, <1>5, <1>6, <1>7, <1>8

\* KeyLess is strict.
LEMMA KeyOrder ==
  ASSUME NEW a \in Seq(RunSet), NEW b \in Seq(RunSet), NEW c \in Seq(RunSet)
  PROVE  /\ ~KeyLess(a, a)
         /\ KeyLess(a, b) /\ KeyLess(b, c) => KeyLess(a, c)
         /\ ~(KeyLess(a, b) /\ KeyLess(b, a))
<1>1. ASSUME NEW s \in Seq(RunSet)
      PROVE  ~KeyLess(s, s)
  <2>1. Len(s) \in Nat /\ \A i \in 1 .. Len(s) : s[i] \in RunSet /\ i # Len(s) + 1
    OBVIOUS
  <2>2. \A p \in RunSet : ~RunLess(p, p)
    BY DEF RunSet, RunLess
  <2> QED BY <2>1, <2>2 DEF KeyLess
<1>2. ASSUME NEW x \in Seq(RunSet), NEW y \in Seq(RunSet), NEW z \in Seq(RunSet), KeyLess(x, y), KeyLess(y, z)
      PROVE  KeyLess(x, z)
  <2>1. PICK i \in 1 .. Len(y) : /\ i <= Len(x) + 1
                                 /\ \A j \in 1 .. i - 1 : x[j] = y[j]
                                 /\ i = Len(x) + 1 \/ RunLess(x[i], y[i])
    BY <1>2 DEF KeyLess
  <2>2. PICK k \in 1 .. Len(z) : /\ k <= Len(y) + 1
                                 /\ \A j \in 1 .. k - 1 : y[j] = z[j]
                                 /\ k = Len(y) + 1 \/ RunLess(y[k], z[k])
    BY <1>2 DEF KeyLess
  <2>3. Len(x) \in Nat /\ Len(y) \in Nat /\ Len(z) \in Nat
    OBVIOUS
  <2>4. CASE i < k
    <3>1. i \in 1 .. Len(z) /\ y[i] = z[i] /\ \A j \in 1 .. i - 1 : y[j] = z[j]
      BY <2>1, <2>2, <2>3, <2>4
    <3>2. \A j \in 1 .. i - 1 : x[j] = z[j]
      BY <2>1, <3>1
    <3> QED BY <2>1, <3>1, <3>2 DEF KeyLess
  <2>5. CASE k < i
    <3>1. k \in 1 .. Len(y) /\ k # Len(y) + 1 /\ x[k] = y[k] /\ k <= Len(x) + 1 /\ \A j \in 1 .. k - 1 : x[j] = y[j]
      BY <2>1, <2>2, <2>3, <2>5
    <3>2. \A j \in 1 .. k - 1 : x[j] = z[j]
      BY <2>2, <3>1
    <3> QED BY <2>2, <3>1, <3>2 DEF KeyLess
  <2>6. CASE i = k
    <3>1. \A j \in 1 .. i - 1 : x[j] = z[j]
      BY <2>1, <2>2, <2>6
    <3>2. CASE i = Len(x) + 1
      BY <2>1, <2>2, <2>3, <2>6, <3>1, <3>2 DEF KeyLess
    <3>3. CASE i <= Len(x)
      <4>1. RunLess(x[i], y[i]) /\ RunLess(y[i], z[i]) /\ x[i] \in RunSet /\ y[i] \in RunSet /\ z[i] \in RunSet
        BY <2>1, <2>2, <2>3, <2>6, <3>3
      <4>2. \A p, q, r \in RunSet : RunLess(p, q) /\ RunLess(q, r) => RunLess(p, r)
        BY DEF RunSet, RunLess
      <4>3. RunLess(x[i], z[i])
        BY <4>1, <4>2
      <4> QED BY <2>1, <2>2, <2>6, <3>1, <4>3 DEF KeyLess
    <3> QED BY <2>1, <2>3, <3>2, <3>3
  <2> QED BY <2>1, <2>2, <2>3, <2>4, <2>5, <2>6
<1> QED BY <1>1, <1>2

\* What stands before and behind: a first difference stays; what is less stays
\* so behind the same; and a prefix is less than what goes on.
LEMMA KeyConcat ==
  ASSUME NEW a \in Seq(RunSet), NEW b \in Seq(RunSet), NEW x \in Seq(RunSet), NEW y \in Seq(RunSet)
  PROVE  /\ KeyLess(a, b) => KeyLess(a, b \o y)
         /\ KeyLess(a, b) /\ ~IsPrefix(a, b) => KeyLess(a \o x, b \o y)
         /\ KeyLess(x, y) => KeyLess(a \o x, a \o y)
         /\ x # <<>> => KeyLess(a, a \o x)
<1>1. /\ Len(a) \in Nat /\ Len(b) \in Nat /\ Len(x) \in Nat /\ Len(y) \in Nat
  OBVIOUS
<1>2. ASSUME NEW s \in Seq(RunSet), NEW t \in Seq(RunSet)
      PROVE  /\ s \o t \in Seq(RunSet) /\ Len(s \o t) = Len(s) + Len(t)
             /\ \A i \in 1 .. Len(s) : (s \o t)[i] = s[i]
             /\ \A i \in 1 .. Len(t) : (s \o t)[Len(s) + i] = t[i]
  <2>1. /\ s \o t \in Seq(RunSet) /\ Len(s \o t) = Len(s) + Len(t)
        /\ \A i \in 1 .. Len(s) + Len(t) : (s \o t)[i] = IF i <= Len(s) THEN s[i] ELSE t[i - Len(s)]
    BY ConcatProperties
  <2>2. \A i \in 1 .. Len(t) : Len(s) + i \in 1 .. Len(s) + Len(t) /\ ~(Len(s) + i <= Len(s)) /\ (Len(s) + i) - Len(s) = i
    BY <1>1
  <2>3. \A i \in 1 .. Len(s) : i \in 1 .. Len(s) + Len(t) /\ i <= Len(s)
    BY <1>1
  <2> QED BY <2>1, <2>2, <2>3
<1>3. ASSUME KeyLess(a, b)
      PROVE  KeyLess(a, b \o y)
  <2>1. PICK i \in 1 .. Len(b) : /\ i <= Len(a) + 1
                                 /\ \A j \in 1 .. i - 1 : a[j] = b[j]
                                 /\ i = Len(a) + 1 \/ RunLess(a[i], b[i])
    BY <1>3 DEF KeyLess
  <2>2. /\ i \in 1 .. Len(b \o y) /\ (b \o y)[i] = b[i]
        /\ \A j \in 1 .. i - 1 : (b \o y)[j] = b[j]
    <3>1. i \in 1 .. Len(b) + Len(y) /\ \A j \in 1 .. i - 1 : j \in 1 .. Len(b)
      BY <1>1
    <3> QED BY <1>2, <3>1
  <2>3. \A j \in 1 .. i - 1 : a[j] = (b \o y)[j]
    BY <2>1, <2>2
  <2> QED BY <2>1, <2>2, <2>3 DEF KeyLess
<1>4. ASSUME KeyLess(a, b), ~IsPrefix(a, b)
      PROVE  KeyLess(a \o x, b \o y)
  <2>1. PICK i \in 1 .. Len(b) : /\ i <= Len(a) + 1
                                 /\ \A j \in 1 .. i - 1 : a[j] = b[j]
                                 /\ i = Len(a) + 1 \/ RunLess(a[i], b[i])
    BY <1>4 DEF KeyLess
  <2>2. i # Len(a) + 1
    <3> SUFFICES ASSUME i = Len(a) + 1 PROVE FALSE
      OBVIOUS
    <3>1. Len(a) <= Len(b) /\ \A j \in 1 .. Len(a) : a[j] = b[j]
      BY <1>1, <2>1
    <3> QED BY <1>4, <3>1, PrefixMeans
  <2>3. i \in 1 .. Len(a) /\ RunLess(a[i], b[i])
    BY <1>1, <2>1, <2>2
  <2>4. /\ (a \o x)[i] = a[i] /\ (b \o y)[i] = b[i]
        /\ \A j \in 1 .. i - 1 : (a \o x)[j] = a[j] /\ (b \o y)[j] = b[j]
    <3>1. \A j \in 1 .. i - 1 : j \in 1 .. Len(a) /\ j \in 1 .. Len(b)
      BY <1>1, <2>3
    <3> QED BY <1>2, <2>3, <3>1
  <2>5. i \in 1 .. Len(b \o y) /\ i <= Len(a \o x) + 1
    <3>1. i \in 1 .. Len(b) + Len(y) /\ i <= Len(a) + Len(x) + 1
      BY <1>1, <2>3
    <3> QED BY <1>2, <3>1
  <2>6. \A j \in 1 .. i - 1 : (a \o x)[j] = (b \o y)[j]
    BY <2>1, <2>4
  <2> QED BY <2>3, <2>4, <2>5, <2>6 DEF KeyLess
<1>5. ASSUME KeyLess(x, y)
      PROVE  KeyLess(a \o x, a \o y)
  <2>1. PICK i \in 1 .. Len(y) : /\ i <= Len(x) + 1
                                 /\ \A j \in 1 .. i - 1 : x[j] = y[j]
                                 /\ i = Len(x) + 1 \/ RunLess(x[i], y[i])
    BY <1>5 DEF KeyLess
  <2> DEFINE m == Len(a) + i
  <2>2. /\ m \in 1 .. Len(a) + Len(y) /\ m <= (Len(a) + Len(x)) + 1
        /\ m = (Len(a) + Len(x)) + 1 <=> i = Len(x) + 1
    <3>1. i \in Nat /\ 1 <= i /\ i <= Len(y) /\ i <= Len(x) + 1
      BY <1>1, <2>1
    <3>2. m \in 1 .. Len(a) + Len(y)
      BY <1>1, <3>1
    <3>3. m <= (Len(a) + Len(x)) + 1
      BY <1>1, <3>1
    <3>4. m = (Len(a) + Len(x)) + 1 <=> i = Len(x) + 1
      <4>1. ASSUME m = (Len(a) + Len(x)) + 1 PROVE i = Len(x) + 1
        BY <1>1, <3>1, <4>1
      <4>2. ASSUME i = Len(x) + 1 PROVE m = (Len(a) + Len(x)) + 1
        BY <1>1, <3>1, <4>2
      <4> QED BY <4>1, <4>2
    <3> QED BY <3>2, <3>3, <3>4
  <2>3. ASSUME NEW j \in 1 .. m - 1
        PROVE  (a \o x)[j] = (a \o y)[j]
    <3>1. CASE j <= Len(a)
      BY <1>1, <1>2, <3>1
    <3>2. CASE j > Len(a)
      <4>1. PICK k \in 1 .. i - 1 : j = Len(a) + k
        <5>1. j - Len(a) \in 1 .. i - 1 /\ j = Len(a) + (j - Len(a))
          BY <1>1, <2>1, <3>2
        <5> QED BY <5>1
      <4>2. k \in 1 .. Len(x) /\ k \in 1 .. Len(y) /\ x[k] = y[k]
        BY <1>1, <2>1
      <4> QED BY <1>2, <4>1, <4>2
    <3> QED BY <1>1, <2>1, <3>1, <3>2
  <2>4. i = Len(x) + 1 \/ RunLess((a \o x)[m], (a \o y)[m])
    <3> SUFFICES ASSUME i # Len(x) + 1 PROVE RunLess((a \o x)[m], (a \o y)[m])
      OBVIOUS
    <3>1. i \in 1 .. Len(x) /\ RunLess(x[i], y[i])
      BY <1>1, <2>1
    <3>2. (a \o x)[m] = x[i] /\ (a \o y)[m] = y[i]
      BY <1>2, <3>1
    <3> QED BY <3>1, <3>2
  <2> HIDE DEF m
  <2>5. m \in 1 .. Len(a \o y) /\ m <= Len(a \o x) + 1 /\ (m = Len(a \o x) + 1 <=> i = Len(x) + 1)
    BY <1>2, <2>2
  <2> QED BY <2>3, <2>4, <2>5 DEF KeyLess
<1>6. ASSUME x # <<>>
      PROVE  KeyLess(a, a \o x)
  <2>1. Len(a) + 1 \in 1 .. Len(a) + Len(x)
    BY <1>1, <1>6
  <2>2. \A j \in 1 .. (Len(a) + 1) - 1 : a[j] = (a \o x)[j]
    BY <1>1, <1>2
  <2> QED BY <1>1, <1>2, <2>1, <2>2 DEF KeyLess
<1> QED BY <1>3, <1>4, <1>5, <1>6

\* The comparisons one by one.
LEMMA Comparisons ==
  ASSUME NEW a, NEW b
  PROVE  /\ Compare(a, "==", b) <=> a = b
         /\ Compare(a, ">=", b) <=> ~KeyLess(a, b)
         /\ Compare(a, "<=", b) <=> ~KeyLess(b, a)
         /\ Compare(a, ">", b) <=> KeyLess(b, a)
         /\ Compare(a, "<", b) <=> KeyLess(a, b)
BY DEF Compare

\* What is accepted half by half fits in one of the two forms.
LEMMA FitsSplit ==
  ASSUME NEW e, IsVersion(e.whole), e.version = Upstream(e.whole), e.release = Release(e.whole),
         NEW r, IsRequirement(r), SplitSatisfies(e.whole, r), ~GoesOn(e.whole, r)
  PROVE  Fits(e, r)
<1>1. PICK U, D, R, u, w \in Seq(RunSet) :
        /\ e.whole = Version(U, D) /\ e.version = U /\ e.release = R /\ r.ver = Version(u, w)
        /\ D # <<>> => R = D
  <2>1. <<<<0, 1>>>> \in Seq(RunSet)
    BY DEF RunSet
  <2>2. Release(e.whole) \in Seq(RunSet) /\ (e.whole.rev # <<>> => Release(e.whole) = e.whole.rev)
    BY <2>1 DEF Release, IsVersion
  <2> QED BY <2>2 DEF IsVersion, IsRequirement, Upstream
<1>2. /\ U \o <<>> = U /\ u \o <<>> = u
      /\ U \o R \in Seq(RunSet) /\ u \o w \in Seq(RunSet) /\ U \o w \in Seq(RunSet) /\ <<>> \in Seq(RunSet)
  BY ConcatProperties
<1>3. satisfies(Version(U, <<>>), r) \/ satisfies(Version(U, R), r) => Fits(e, r)
  BY <1>1 DEF Fits, Forms
<1>4. /\ version_key(Version(U, <<>>)) = U /\ version_key(Version(U, R)) = U \o R
      /\ version_key(r.ver) = u \o w
      /\ Version(U, <<>>).up = U /\ Version(U, R).up = U
      /\ e.whole.up = U /\ e.whole.rev = D /\ r.ver.up = u /\ r.ver.rev = w
      /\ (U = u /\ D = w) <=> (e.whole = r.ver)
  BY <1>1, <1>2 DEF version_key, Version
<1>5. CASE r.op = ""
  BY <1>3, <1>5 DEF satisfies
<1>6. CASE r.op # "" /\ r.any /\ r.op # "=="
  <2>1. w = <<>> /\ version_key(r.ver) = u
    BY <1>2, <1>4, <1>6 DEF IsRequirement
  <2>2. CASE r.op \in {"<", "<="}
    <3>1. ~KeyLess(u, U)
      BY <1>4, <1>6, <2>2 DEF SplitSatisfies
    <3>2. Compare(U, "<=", u)
      BY <3>1, Comparisons
    <3> QED BY <1>3, <1>4, <1>6, <2>1, <2>2, <3>2 DEF satisfies
  <2>3. CASE r.op \in {">", ">="}
    <3>1. KeyLess(u, U)
      BY <1>4, <1>6, <2>3 DEF SplitSatisfies
    <3>2. Compare(U, ">=", u)
      BY <1>1, <3>1, KeyOrder, Comparisons
    <3> QED BY <1>3, <1>4, <1>6, <2>1, <2>3, <3>2 DEF satisfies
  <2> QED BY <1>6, <2>2, <2>3 DEF IsRequirement
<1>7. CASE r.op # "" /\ (~r.any \/ r.op = "==")
  <2>1. Compare(U, r.op, u \o w) \/ Compare(U \o R, r.op, u \o w) => Fits(e, r)
    BY <1>3, <1>4, <1>7 DEF satisfies
  <2>2. U = u /\ D = w => U = u \o w \/ U \o R = u \o w
    BY <1>1, <1>2
  <2>3. ASSUME ~r.any
        PROVE  SplitLess(e.whole, r.ver) <=> KeyLess(U, u) \/ (U = u /\ KeyLess(D, w))
    BY <1>4 DEF SplitLess
  <2>4. ASSUME KeyLess(U, u) \/ (U = u /\ KeyLess(D, w))
        PROVE  KeyLess(U, u \o w)
    <3>1. CASE KeyLess(U, u)
      BY <1>1, <3>1, KeyConcat
    <3>2. CASE U = u /\ KeyLess(D, w)
      <4>1. w # <<>>
        BY <3>2 DEF KeyLess
      <4> QED BY <1>1, <3>2, <4>1, KeyConcat
    <3> QED BY <2>4, <3>1, <3>2
  <2>5. ASSUME ~(KeyLess(U, u) \/ (U = u /\ KeyLess(D, w))), ~(U = u /\ D = w),
               ~(w # <<>> /\ IsStrictPrefix(u, U))
        PROVE  KeyLess(u \o w, U \o R)
    <3>1. CASE U # u
      <4>1. KeyLess(u, U)
        BY <1>1, <2>5, <3>1, FirstDifference
      <4>2. CASE w = <<>>
        BY <1>1, <1>2, <4>1, <4>2, KeyConcat
      <4>3. CASE ~IsPrefix(u, U)
        BY <1>1, <4>1, <4>3, KeyConcat
      <4> QED BY <2>5, <3>1, <4>2, <4>3 DEF IsStrictPrefix
    <3>2. CASE U = u
      <4>1. KeyLess(w, D)
        BY <1>1, <2>5, <3>2, FirstDifference
      <4>2. D # <<>>
        BY <4>1 DEF KeyLess
      <4> QED BY <1>1, <3>2, <4>1, <4>2, KeyConcat
    <3> QED BY <3>1, <3>2
  <2>6. CASE r.op = "=="
    <3>1. U = u /\ D = w
      <4>1. e.whole = r.ver
        BY <2>6 DEF SplitSatisfies
      <4> QED BY <1>4, <4>1
    <3>2. Compare(U, "==", u \o w) \/ Compare(U \o R, "==", u \o w)
      BY <2>2, <3>1 DEF Compare
    <3> QED BY <2>1, <2>6, <3>2
  <2>7. CASE r.op = "<" /\ ~r.any
    <3>1. KeyLess(U, u \o w)
      BY <2>3, <2>4, <2>7 DEF SplitSatisfies
    <3> QED BY <2>1, <2>7, <3>1, Comparisons
  <2>8. CASE r.op = "<=" /\ ~r.any
    <3>1. KeyLess(U, u \o w) \/ (U = u /\ D = w)
      BY <1>4, <2>3, <2>4, <2>8 DEF SplitSatisfies
    <3>2. ~KeyLess(u \o w, U) \/ ~KeyLess(u \o w, U \o R)
      <4>1. CASE KeyLess(U, u \o w)
        BY <1>1, <1>2, <4>1, KeyOrder
      <4>2. CASE U = u /\ D = w
        BY <1>2, <2>2, <4>2, KeyOrder
      <4> QED BY <3>1, <4>1, <4>2
    <3> QED BY <2>1, <2>8, <3>2, Comparisons
  <2>9. CASE r.op = ">" /\ ~r.any
    <3>1. KeyLess(u \o w, U \o R)
      BY <1>4, <2>3, <2>5, <2>9 DEF SplitSatisfies, GoesOn
    <3> QED BY <2>1, <2>9, <3>1, Comparisons
  <2>10. CASE r.op = ">=" /\ ~r.any
    <3>1. KeyLess(u \o w, U \o R) \/ (U = u /\ D = w)
      BY <1>4, <2>3, <2>5, <2>10 DEF SplitSatisfies, GoesOn
    <3>2. ~KeyLess(U, u \o w) \/ ~KeyLess(U \o R, u \o w)
      <4>1. CASE KeyLess(u \o w, U \o R)
        BY <1>1, <1>2, <4>1, KeyOrder
      <4>2. CASE U = u /\ D = w
        BY <1>2, <2>2, <4>2, KeyOrder
      <4> QED BY <3>1, <4>1, <4>2
    <3> QED BY <2>1, <2>10, <3>2, Comparisons
  <2> QED BY <1>7, <2>6, <2>7, <2>8, <2>9, <2>10 DEF IsRequirement
<1> QED BY <1>5, <1>6, <1>7

\* Of places in an index, if there are any, one comes first: the newest, and of
\* those the least.
LEMMA OneIsFirst ==
  ASSUME NEW es, NEW n \in Nat, NEW ps \in SUBSET (1 .. n), ps # {},
         \A i \in 1 .. n : es[i].version \in Seq(RunSet)
  PROVE  FirstIn(es, ps) # {}
<1> DEFINE older(i) == {j \in ps : Before(es, j, i)}
           rank(i) == Cardinality(older(i))
<1>1. /\ \A i \in ps : i \in Nat /\ es[i].version \in Seq(RunSet)
      /\ IsFiniteSet(ps)
  <2>1. IsFiniteSet(1 .. n)
    BY FS_Interval
  <2>2. IsFiniteSet(ps)
    BY <2>1, FS_Subset
  <2> QED BY <2>2
<1>2. \A i, j \in ps : Before(es, i, j) \/ Before(es, j, i)
  BY <1>1, KeyOrder DEF Before
<1>3. \A i, j \in ps : Before(es, i, j) /\ Before(es, j, i) => i = j
  BY <1>1, KeyOrder DEF Before
<1>4. ASSUME NEW i \in ps, NEW j \in ps, NEW k \in ps, Before(es, i, j), Before(es, j, k)
      PROVE  Before(es, i, k)
  <2>1. PICK a, b, c \in Seq(RunSet) : a = es[i].version /\ b = es[j].version /\ c = es[k].version
    BY <1>1
  <2>2. KeyLess(b, a) \/ (a = b /\ i <= j)
    BY <1>4, <2>1, FirstDifference DEF Before
  <2>3. KeyLess(c, b) \/ (b = c /\ j <= k)
    BY <1>4, <2>1, FirstDifference DEF Before
  <2>4. KeyLess(c, a) \/ (a = c /\ i <= k)
    <3>1. i <= j /\ j <= k => i <= k
      BY <1>1
    <3> QED BY <2>1, <2>2, <2>3, <3>1, KeyOrder
  <2> QED BY <2>1, <2>4, KeyOrder DEF Before
<1>5. \A i \in ps : older(i) \subseteq ps /\ IsFiniteSet(older(i)) /\ rank(i) \in Nat
  BY <1>1, FS_Subset, FS_CardinalityType
<1>6. PICK i \in ps : \A j \in ps : rank(i) <= rank(j)
  <2> DEFINE S == {rank(k) : k \in ps}
  <2>1. S \in SUBSET Nat /\ S # {}
    BY <1>5
  <2> HIDE DEF S, rank
  <2>2. PICK m \in S : \A k \in S : m <= k
    BY <2>1, LeastNumber
  <2> QED BY <2>2 DEF S
<1>7. ASSUME NEW j \in ps
      PROVE  Before(es, i, j)
  <2> SUFFICES ASSUME ~Before(es, i, j) PROVE FALSE
    OBVIOUS
  <2>1. Before(es, j, i) /\ i # j
    BY <1>2
  <2>2. older(j) \subseteq older(i)
    BY <1>4, <2>1
  <2>3. i \in older(i) /\ i \notin older(j)
    BY <1>2
  <2>4. rank(j) < rank(i)
    <3>1. older(j) # older(i)
      BY <2>3
    <3>2. IsFiniteSet(older(i)) /\ rank(i) \in Nat /\ rank(j) \in Nat
      BY <1>5
    <3>3. rank(j) <= rank(i) /\ rank(i) # rank(j)
      <4> HIDE DEF older
      <4> QED BY <2>2, <3>1, <3>2, FS_Subset
    <3> HIDE DEF rank
    <3> QED BY <3>2, <3>3
  <2>5. rank(i) <= rank(j) /\ rank(i) \in Nat /\ rank(j) \in Nat
    BY <1>5, <1>6
  <2> HIDE DEF rank
  <2> QED BY <2>4, <2>5
<1> QED BY <1>7 DEF FirstIn

\* What a repository offers is a list of packages of its own.
LEMMA OffersAre ==
  ASSUME PlanTypes, NEW r \in RepoSet
  PROVE  /\ Len(Offers(r)) \in Nat /\ DOMAIN Offers(r) = 1 .. Len(Offers(r))
         /\ \A i \in DOMAIN Offers(r) :
              /\ Offers(r)[i] \in Offered /\ Offers(r)[i].repo = r
              /\ Offers(r)[i].version \in Seq(RunSet)
<1>1. CASE index[r] \in Nat
  <2>1. index[r] \in DOMAIN world.index[r] /\ Offers(r) = world.index[r][index[r]]
    BY <1>1, PlanConstants DEF PlanTypes, Offers
  <2>2. Publishes(world, r)
    BY WorldsAssumption DEF PlanTypes
  <2>3. Offers(r) \in Seq(ToSet(Offers(r)))
    BY <2>1, <2>2 DEF Publishes
  <2>4. \A i \in DOMAIN Offers(r) : Offers(r)[i] \in EntriesOf(world, r)
    BY <2>1 DEF EntriesOf, ToSet
  <2>5. \A e \in EntriesOf(world, r) : /\ e \in Offered /\ e.repo = r
                                       /\ e.version \in Seq(RunSet)
    BY <2>2 DEF Offered, Entries, Publishes, IsEntryOf, IsVersion, Upstream
  <2> QED BY <2>3, <2>4, <2>5
<1>2. CASE index[r] \notin Nat
  BY <1>2 DEF Offers
<1> QED BY <1>1, <1>2

\* What fits is found: if nothing is, nothing fits and nothing supplies it.
LEMMA FindNothing ==
  ASSUME PlanTypes, NEW need, find(need) = {}, NEW r \in RepoSet, NEW i \in DOMAIN Offers(r)
  PROVE  /\ Offers(r)[i].name = need.name => ~Fits(Offers(r)[i], need)
         /\ ~Supplies(Offers(r)[i], need)
<1> DEFINE named == UNION {best(q, need) : q \in RepoSet}
           able == UNION {provider(q, need) : q \in RepoSet}
           first(es) == {e \in es : \A f \in es : Place(e.repo) <= Place(f.repo)}
<1>1. ASSUME NEW q \in RepoSet
      PROVE  /\ Len(Offers(q)) \in Nat /\ DOMAIN Offers(q) = 1 .. Len(Offers(q))
             /\ \A k \in DOMAIN Offers(q) : Offers(q)[k].repo \in RepoSet
             /\ \A ps \in SUBSET DOMAIN Offers(q) : ps # {} => FirstIn(Offers(q), ps) # {}
  BY OffersAre, OneIsFirst
<1>2. ASSUME NEW es, es # {}, \A e \in es : e.repo \in RepoSet
      PROVE  first(es) # {}
  <2> DEFINE S == {Place(e.repo) : e \in es}
  <2>1. \A q \in RepoSet : Place(q) \in Nat
    <3>1. \A q \in RepoSet : \E k \in DOMAIN Repos : Repos[k] = q
      BY DEF RepoSet, ToSet
    <3>2. DOMAIN Repos = 1 .. Len(Repos) /\ Len(Repos) \in Nat
      BY PlanConstants
    <3> QED BY <3>1, <3>2 DEF Place
  <2>2. S \in SUBSET Nat /\ S # {}
    BY <1>2, <2>1
  <2> HIDE DEF S
  <2>3. PICK m \in S : \A k \in S : m <= k
    BY <2>2, LeastNumber
  <2> QED BY <2>3 DEF S
<1>3. \A e \in named : e.repo \in RepoSet
  BY <1>1 DEF best, FirstIn
<1>4. \A e \in able : e.repo \in RepoSet
  BY <1>1 DEF provider, FirstIn
<1>5. find(need) = IF named # {} THEN first(named) ELSE first(able)
  BY DEF find
<1>6. named = {} /\ able = {}
  <2> HIDE DEF named, able, first
  <2> QED BY <1>2, <1>3, <1>4, <1>5
<1>7. ASSUME Offers(r)[i].name = need.name, Fits(Offers(r)[i], need)
      PROVE  FALSE
  <2> DEFINE ps == {k \in DOMAIN Offers(r) :
                      Offers(r)[k].name = need.name /\ Fits(Offers(r)[k], need)}
  <2>1. ps \in SUBSET DOMAIN Offers(r) /\ ps # {}
    BY <1>7
  <2>2. best(r, need) = FirstIn(Offers(r), ps)
    BY DEF best
  <2> HIDE DEF ps
  <2> QED BY <1>1, <1>6, <2>1, <2>2
<1>8. ASSUME Supplies(Offers(r)[i], need)
      PROVE  FALSE
  <2> DEFINE names(ps) == {Offers(r)[k].name : k \in ps}
             places(n) == {k \in DOMAIN Offers(r) : Offers(r)[k].name = n}
             suits == {k \in DOMAIN Offers(r) : Supplies(Offers(r)[k], need)}
             leading == {k \in suits : \A n \in names(suits) :
                           \E l \in places(Offers(r)[k].name) : \A m \in places(n) : l <= m}
             S == {l \in DOMAIN Offers(r) : Offers(r)[l].name \in names(suits)}
  <2>1. provider(r, need) = FirstIn(Offers(r), leading)
    BY DEF provider
  <2>2. S \in SUBSET Nat /\ i \in S
    BY <1>1, <1>8
  <2>3. PICK l \in S : \A m \in S : l <= m
    <3> HIDE DEF S
    <3> QED BY <2>2, LeastNumber
  <2>4. PICK k \in suits : Offers(r)[k].name = Offers(r)[l].name
    BY <2>3
  <2>5. k \in leading
    <3> SUFFICES ASSUME NEW n \in names(suits)
                 PROVE  \E j \in places(Offers(r)[k].name) : \A m \in places(n) : j <= m
      BY <2>4
    <3>1. l \in places(Offers(r)[k].name)
      BY <2>3, <2>4
    <3>2. \A m \in places(n) : m \in S
      OBVIOUS
    <3> QED BY <2>3, <3>1, <3>2
  <2>6. leading \in SUBSET DOMAIN Offers(r)
    OBVIOUS
  <2> HIDE DEF leading
  <2> QED BY <1>1, <1>6, <2>1, <2>5, <2>6
<1> QED BY <1>7, <1>8

\* What a command, and what stands on the stack, asks for are requirements.
WantedInv ==
  /\ step \in {"load", "start"} => cmd \in Commands
  /\ step = "resolve" =>
       Requires(todo) /\ \A i \in DOMAIN stack : \A q \in ToSet(stack[i].deps) : IsRequirement(q)

\* What is left of a list of requirements behind its first.
LEMMA RequiresTail ==
  ASSUME NEW rs, Requires(rs), rs # <<>>
  PROVE  Requires(Tail(rs)) /\ IsRequirement(Head(rs))
BY ToSetTail DEF Requires

\* The requirement to visit is one.
LEMMA WantedIsRequirement ==
  ASSUME PlanInv, WantedInv, NEW need \in Wanted
  PROVE  /\ step = "resolve" /\ IsRequirement(need)
         /\ stack = <<>> => todo # <<>> /\ Requires(Tail(todo))
         /\ stack # <<>> => \A i \in DOMAIN Visited : \A q \in ToSet(Visited[i].deps) : IsRequirement(q)
<1>1. step = "resolve" /\ Visiting
  BY DEF Wanted, PlanInv
<1>2. CASE stack = <<>>
  <2>1. Requires(todo) /\ 1 \in DOMAIN todo /\ need = todo[1]
    BY <1>1, <1>2 DEF Wanted, WantedInv
  <2>2. todo # <<>> /\ need = Head(todo)
    BY <2>1 DEF Requires
  <2> QED BY <1>1, <1>2, <2>1, <2>2, RequiresTail
<1>3. CASE stack # <<>>
  <2>1. /\ Len(stack) \in Nat \ {0} /\ DOMAIN stack = 1 .. Len(stack)
        /\ Top = stack[Len(stack)] /\ Len(stack) \in DOMAIN stack
        /\ need = Head(Top.deps) /\ Top.deps # <<>>
        /\ DOMAIN Visited = 1 .. Len(stack)
        /\ \A i \in 1 .. Len(stack) - 1 : Visited[i] = stack[i]
        /\ Visited[Len(stack)].deps = Tail(Top.deps)
    BY <1>1, <1>3, TopVisited DEF FrameOf
  <2>2. Top.deps \in Seq(ToSet(Top.deps))
    BY <1>1, <2>1 DEF Visiting, IsFrame
  <2>3. Requires(Top.deps)
    BY <1>1, <2>1, <2>2 DEF WantedInv, Requires
  <2>4. \A q \in ToSet(Tail(Top.deps)) : IsRequirement(q)
    BY <2>1, <2>3, RequiresTail DEF Requires
  <2>5. IsRequirement(need)
    BY <2>1, <2>3, RequiresTail
  <2>6. ASSUME NEW i \in DOMAIN Visited, NEW q \in ToSet(Visited[i].deps)
        PROVE  IsRequirement(q)
    <3>1. CASE i = Len(stack)
      BY <2>1, <2>4, <2>6, <3>1
    <3>2. CASE i # Len(stack)
      <4>1. i \in DOMAIN stack /\ i \in 1 .. Len(stack) - 1
        BY <2>1, <3>2
      <4> QED BY <1>1, <2>1, <2>6, <4>1 DEF WantedInv
    <3> QED BY <3>1, <3>2
  <2> QED BY <1>1, <1>3, <2>5, <2>6
<1> QED BY <1>2, <1>3

\* A list of one requirement.
LEMMA RequiresOne ==
  ASSUME NEW n
  PROVE  Requires(<<Need(n)>>)
<1> DEFINE q == Need(n)
           s == <<q>>
<1>1. IsRequirement(q)
  <2>1. q.op = "" /\ q.any = FALSE /\ q.ver = Unversioned
    BY DEF Need
  <2>2. /\ Unversioned.up = <<>> /\ Unversioned.rev = <<>>
        /\ Unversioned = Version(<<>>, <<>>) /\ <<>> \in Seq(RunSet)
    BY DEF Unversioned, Version
  <2>3. IsVersion(Unversioned)
    BY <2>2 DEF IsVersion
  <2> QED BY <2>1, <2>2, <2>3 DEF IsRequirement
<1> HIDE DEF q
<1>2. ToSet(s) = {q} /\ s \in Seq({q})
  BY DEF ToSet
<1> HIDE DEF s
<1>3. Requires(s)
  BY <1>1, <1>2 DEF Requires
<1> QED BY <1>3 DEF s, q

\* One requirement further.
LEMMA WantedVisits ==
  ASSUME PlanInv, WantedInv, NEW need \in Wanted,
         Skip(need) \/ \E e \in find(need) : Descend(need, e)
  PROVE  WantedInv'
<1> USE DEF stores, have, search, ask, notes
<1>1. /\ step = "resolve" /\ step' = step /\ cmd' = cmd
      /\ stack = <<>> => Requires(Tail(todo))
      /\ stack # <<>> => \A i \in DOMAIN Visited : \A q \in ToSet(Visited[i].deps) : IsRequirement(q)
      /\ Requires(todo)
  BY WantedIsRequirement DEF Skip, Descend, WantedInv
<1>2. Requires(todo')
  BY <1>1 DEF Skip, Rest, Descend
<1>3. CASE Skip(need)
  <2>1. ASSUME NEW i \in DOMAIN stack', NEW q \in ToSet(stack'[i].deps)
        PROVE  IsRequirement(q)
    <3>1. CASE stack = <<>>
      <4>1. stack' = <<>>
        BY <1>3, <3>1 DEF Skip, Rest
      <4> QED BY <2>1, <4>1
    <3>2. CASE stack # <<>>
      BY <1>1, <1>3, <2>1, <3>2 DEF Skip, Rest
    <3> QED BY <3>1, <3>2
  <2> QED BY <1>1, <1>2, <2>1 DEF WantedInv
<1>4. ASSUME NEW e \in find(need), Descend(need, e)
      PROVE  WantedInv'
  <2> DEFINE below == IF stack = <<>> THEN stack ELSE Visited
             frame == FrameOf(need.name, e, e.depends)
  <2>1. Requires(e.depends)
    BY FindGives, OfferedEntry DEF PlanInv
  <2>2. below \in Seq(ToSet(below)) /\ \A i \in DOMAIN below : \A q \in ToSet(below[i].deps) : IsRequirement(q)
    <3>1. CASE stack = <<>>
      BY <3>1
    <3>2. CASE stack # <<>>
      BY <1>1, <3>2, TopVisited DEF PlanInv
    <3> QED BY <3>1, <3>2
  <2>3. stack' = Append(below, frame) /\ frame.deps = e.depends
    BY <1>4 DEF Descend, Frame, FrameOf
  <2> HIDE DEF below, frame
  <2>4. ASSUME NEW i \in DOMAIN stack', NEW q \in ToSet(stack'[i].deps)
        PROVE  IsRequirement(q)
    <3>1. /\ Len(below) \in Nat /\ DOMAIN below = 1 .. Len(below)
          /\ DOMAIN stack' = 1 .. Len(below) + 1 /\ stack'[Len(below) + 1] = frame
          /\ \A k \in 1 .. Len(below) : stack'[k] = below[k]
      BY <2>2, <2>3, AppendProperties
    <3>2. i \in 1 .. Len(below) \/ i = Len(below) + 1
      BY <3>1
    <3> QED BY <2>1, <2>2, <2>3, <2>4, <3>1, <3>2 DEF Requires
  <2> QED BY <1>1, <1>2, <2>4 DEF WantedInv
<1> QED BY <1>3, <1>4

\* Where resolve comes back to, every frame is one that was there.
LEMMA WantedReturns ==
  ASSUME PlanInv, WantedInv, Return
  PROVE  WantedInv'
<1>1. /\ step = "resolve" /\ step' = step /\ todo' = todo /\ stack' = Front(stack) /\ stack # <<>>
  BY DEF Return, search
<1>2. /\ Len(stack) \in Nat \ {0} /\ DOMAIN stack = 1 .. Len(stack) /\ stack \in Seq(ToSet(stack))
  BY <1>1, TopVisited DEF PlanInv, Visiting
<1>3. /\ DOMAIN stack' = 1 .. Len(stack) - 1 /\ \A i \in 1 .. Len(stack) - 1 : stack'[i] = stack[i]
  BY <1>1, <1>2, SubSeqUpTo DEF Front
<1>4. \A i \in DOMAIN stack' : i \in DOMAIN stack /\ stack'[i] = stack[i]
  BY <1>2, <1>3
<1> QED BY <1>1, <1>4 DEF WantedInv

LEMMA WantedSteps ==
  ASSUME PlanInv, WantedInv, [PlanNext]_planVars
  PROVE  WantedInv'
<1> USE DEF stores, have, search, ask, notes
<1>1. ASSUME NEW r \in RepoSet, MirrorMoves(r) \/ LoadCut(r)
      PROVE  WantedInv'
  BY <1>1 DEF MirrorMoves, LoadCut, WantedInv
<1>2. ASSUME NEW c \in Commands, Command(c)
      PROVE  WantedInv'
  BY <1>2 DEF Command, WantedInv
<1>3. ASSUME NEW reached \in SUBSET RepoSet, Load(reached)
      PROVE  WantedInv'
  <2>1. step = "load" /\ step' \in {"idle", "start"} /\ cmd' = cmd
    BY <1>3 DEF Load
  <2> QED BY <2>1 DEF WantedInv
<1>4. CASE StartInstall
  <2>1. Requires(todo') /\ stack' = <<>> /\ step' = "resolve"
    BY <1>4, PlanConstants DEF StartInstall, Resolve, WantedInv
  <2> QED BY <2>1 DEF WantedInv
<1>5. CASE UpgradeNext
  <2>1. Requires(todo') /\ stack' = <<>> /\ step' = "resolve"
    BY <1>5, RequiresOne DEF UpgradeNext, Resolve
  <2> QED BY <2>1 DEF WantedInv
<1>6. ASSUME NEW agreed \in BOOLEAN, StartUpgrade(agreed)
      PROVE  WantedInv'
  BY <1>6 DEF StartUpgrade, WantedInv
<1>7. ASSUME NEW need \in Wanted, Skip(need) \/ \E e \in find(need) : Descend(need, e)
      PROVE  WantedInv'
  BY <1>7, WantedVisits
<1>8. ASSUME NEW need \in Wanted, Unresolved(need)
      PROVE  WantedInv'
  BY <1>8 DEF Unresolved, Over, WantedInv
<1>9. CASE Return
  BY <1>9, WantedReturns
<1>10. CASE Planned
  <2>1. step' \notin {"load", "start", "resolve"}
    BY <1>10 DEF Planned, Over
  <2> QED BY <2>1 DEF WantedInv
<1>11. ASSUME NEW e \in fetching, Prefetch(e)
       PROVE  WantedInv'
  BY <1>11 DEF Prefetch, WantedInv
<1>12. CASE InstallNext \/ InstallFails \/ Killed
  <2>1. step' \notin {"load", "start", "resolve"}
    BY <1>12 DEF InstallNext, InstallFails, Killed, Over
  <2> QED BY <2>1 DEF WantedInv
<1>13. CASE UNCHANGED planVars
  BY <1>13 DEF planVars, WantedInv
<1> QED BY <1>1, <1>2, <1>3, <1>4, <1>5, <1>6, <1>7, <1>8, <1>9, <1>10, <1>11, <1>12, <1>13
        DEF PlanNext, Advance

LEMMA WantedInvariant == PlanSpec => []WantedInv
<1>1. PlanInit => WantedInv
  BY DEF PlanInit, PlanInitAt, WantedInv
<1>2. PlanInv /\ WantedInv /\ [PlanNext]_planVars => WantedInv'
  BY WantedSteps
<1> QED BY <1>1, <1>2, PlanInvariant, PTL DEF PlanSpec

\* No requirement, as conversion left it, is reported unsatisfiable that a
\* package on offer provides, or satisfies with the upstream version compared
\* first and the revision after it, in npkg's own order of their parts: unless
\* the package goes on where a revision was asked for.  That order is total,
\* each comparison in two halves is one of the two forms', and the best of the
\* entries that fit is always there to be found (Repository.best, npkg.py:533;
\* Solver.find, 624).
THEOREM NoneRefusedWrongly == PlanSpec => NoFalseFailure
<1> DEFINE Reports == lacking' \notin {lacking, Nothing} =>
       \A r \in RepoSet : \A i \in DOMAIN Offers(r) :
         LET e == Offers(r)[i]
         IN /\ e.name = lacking'.name =>
                 ~SplitSatisfies(e.whole, lacking') \/ GoesOn(e.whole, lacking')
            /\ ~Supplies(e, lacking')
<1>1. ASSUME PlanInv, WantedInv, [PlanNext]_planVars
      PROVE  [Reports]_planVars
  <2>1. CASE lacking' \in {lacking, Nothing}
    BY <2>1
  <2>2. CASE lacking' \notin {lacking, Nothing}
    <3>1. PICK need \in Wanted : Unresolved(need)
      BY <1>1, <2>2 DEF PlanNext, Advance, planVars, stores, search, ask, notes, MirrorMoves,
        LoadCut, Command, Load, StartInstall, StartUpgrade, UpgradeNext, Skip, Descend,
        Return, Planned, Prefetch, InstallNext, InstallFails, Killed
    <3>2. lacking' = need /\ find(need) = {} /\ IsRequirement(need) /\ PlanTypes
      BY <1>1, <3>1, WantedIsRequirement DEF Unresolved, PlanInv
    <3> SUFFICES ASSUME NEW r \in RepoSet, NEW i \in DOMAIN Offers(r)
                 PROVE  /\ Offers(r)[i].name = need.name =>
                             ~SplitSatisfies(Offers(r)[i].whole, need) \/ GoesOn(Offers(r)[i].whole, need)
                        /\ ~Supplies(Offers(r)[i], need)
      BY <3>2
    <3>3. /\ Offers(r)[i].name = need.name => ~Fits(Offers(r)[i], need)
          /\ ~Supplies(Offers(r)[i], need)
      BY <3>2, FindNothing
    <3>4. Offers(r)[i] \in Offered
      BY <3>2, OffersAre
    <3>5. /\ IsVersion(Offers(r)[i].whole)
          /\ Offers(r)[i].version = Upstream(Offers(r)[i].whole)
          /\ Offers(r)[i].release = Release(Offers(r)[i].whole)
      BY <3>2, <3>4, OfferedEntry
    <3> QED BY <3>2, <3>3, <3>5, FitsSplit
  <2> QED BY <2>1, <2>2
<1> QED BY <1>1, PlanInvariant, WantedInvariant, PTL DEF PlanSpec, NoFalseFailure

-----------------------------------------------------------------------------
(***************************************************************************)
(* Kernels.  No file leaves the ESP, and modules change in the idle slot   *)
(* alone; so it is enough that a pin names a kernel that is there with its *)
(* initramfs, that each step of an install finds what the one before it    *)
(* made, and that a file is of a build that was fetched: then two files of *)
(* a version are of one build, or the version is spoilt.                   *)
(***************************************************************************)

KernelSteps == {"idle", "sync", "unpack", "initramfs", "unpin", "pin", "here", "menu",
                "installed", "switch"}
KernelTypes ==
  /\ KernelTypeOK
  /\ running \in Slots /\ slot \in Slots /\ good \in Slots /\ kernelStep \in KernelSteps

\* A kernel that is pinned, or runs, has lasted: its file and its initramfs.
KernelsLast ==
  /\ uname \in Files(esp) \cap Files(initrd)
  /\ \A s \in Slots : pins[s] # Unpinned => pins[s] \in Files(esp) \cap Files(initrd)

\* What is in the files of a version is a build of it that was fetched.
OfVersion(p, v) == p \in Packages => p \in fetched /\ p[1] = v
FilesFetched ==
  \A v \in Kernels : /\ OfVersion(esp[v], v) /\ OfVersion(initrd[v], v)
                     /\ \A s \in Slots : OfVersion(modules[s][v], v)

\* A system that was marked good is the fallback of what it installs.
CommandsAtWork ==
  /\ power = "marked" => good = running
  /\ power = "off" => kernelStep = "idle"

\* How far an install has come.
InstallSteps ==
  /\ kernelStep = "unpack" => asking \in Packages
  /\ kernelStep \in {"initramfs", "unpin", "pin", "here", "menu", "installed"} =>
       kver \in Files(modules[idle])
  /\ kernelStep \in {"unpin", "pin", "here", "menu", "installed"} =>
       kver \in Files(esp) /\ initrd[kver] = modules[idle][kver]
  /\ kernelStep \in {"here", "menu", "installed"} => pins[idle] = kver
  /\ kernelStep \in {"menu", "installed"} => pins[running] # Unpinned

KernelInv ==
  /\ KernelTypes /\ KernelsLast /\ CommandsAtWork /\ FilesFetched
  /\ InstallSteps /\ InstallLeavesTwo

\* There are two slots.
LEMMA TheOtherSlot ==
  ASSUME NEW s \in Slots
  PROVE  Other(s) \in Slots /\ Other(s) # s /\ \A t \in Slots : t = s \/ t = Other(s)
<1>1. \E t \in Slots : t # s
  BY DEF Slots
<1>2. Other(s) \in Slots /\ Other(s) # s
  BY <1>1 DEF Other
<1> QED BY <1>2 DEF Slots

\* Of any kernels there is a newest.
LEMMA NewestKernel ==
  ASSUME KernelsAssumption, NEW S \in SUBSET Kernels, S # {}
  PROVE  Max(S) \in S
<1>1. PICK m \in S : \A i \in S : i <= m
  BY GreatestNumber DEF KernelsAssumption, Kernels
<1>2. \A i \in S : m >= i
  BY <1>1 DEF KernelsAssumption, Kernels
<1> QED BY <1>2 DEF Max

\* A kernel, an initramfs and modules of one version, each of a build that was
\* fetched, are of one build, or one of the two on the ESP is torn, or two builds
\* were fetched.
LEMMA OneBuild ==
  ASSUME NEW F, NEW v, NEW e \in Packages \cup {Torn}, NEW i \in Packages \cup {Torn},
         NEW m \in Packages,
         \A p \in {e, i, m} : p \in Packages => p \in F /\ p[1] = v
  PROVE  \/ Torn \in {e, i}
         \/ \E p, q \in F : p # q /\ p[1] = v /\ q[1] = v
         \/ e \in Packages /\ i = e /\ m = e
OBVIOUS

\* grub-mkconfig gives a slot with a pin the kernel it names.
LEMMA MenuMade ==
  ASSUME KernelsAssumption, KernelTypes, KernelsLast, Mkconfig
  PROVE  /\ menu' \in [Slots -> [kernel : Kernels, initrd : BOOLEAN]]
         /\ realtime' \in Kernels \cup {NoKernel}
         /\ \A s \in Slots : pins[s] # Unpinned =>
              menu'[s] = [kernel |-> pins[s], initrd |-> TRUE]
<1>1. Files(esp) \in SUBSET Kernels /\ Files(esp) # {}
  BY DEF KernelsLast, Files
<1>2. newest \in Kernels
  BY <1>1, NewestKernel DEF newest
<1>3. \A s \in Slots : kver_for(s) \in Kernels /\ (pins[s] # Unpinned => kver_for(s) = pins[s])
  BY <1>1, <1>2 DEF kver_for, KernelsLast
<1>4. menu' = [s \in Slots |-> MenuEntry(kver_for(s))]
  BY DEF Mkconfig
<1>5. \A s \in Slots : menu'[s] = [kernel |-> kver_for(s), initrd |-> kver_for(s) \in Files(initrd)]
  BY <1>4 DEF MenuEntry
<1>6. menu' \in [Slots -> [kernel : Kernels, initrd : BOOLEAN]]
  BY <1>3, <1>4 DEF MenuEntry
<1>7. ASSUME NEW s \in Slots, pins[s] # Unpinned
      PROVE  menu'[s] = [kernel |-> pins[s], initrd |-> TRUE]
  <2>1. kver_for(s) = pins[s] /\ (kver_for(s) \in Files(initrd)) = TRUE
    BY <1>3, <1>7 DEF KernelsLast
  <2> QED BY <1>5, <2>1
<1>8. realtime' \in Kernels \cup {NoKernel}
  <2>1. CASE Files(esp) \cap RT = {}
    BY <2>1 DEF Mkconfig
  <2>2. CASE Files(esp) \cap RT # {}
    <3>1. Max(Files(esp) \cap RT) \in Files(esp) \cap RT
      BY <1>1, <2>2, NewestKernel
    <3> QED BY <1>1, <2>2, <3>1 DEF Mkconfig
  <2> QED BY <2>1, <2>2
<1> QED BY <1>6, <1>7, <1>8

\* Before any command the machine runs what it was installed with.
LEMMA KernelInvInit == ASSUME KernelsAssumption, KernelInit PROVE KernelInv
<1>1. First \in Packages /\ First[1] \in Kernels /\ First # NoKernel
  BY DEF KernelsAssumption
<1>2. Only(First) \in [Kernels -> Packages \cup {NoKernel, Torn}]
  BY <1>1 DEF Only
<1>3. KernelTypes
  BY <1>1, <1>2 DEF KernelInit, KernelTypes, KernelTypeOK, KernelsAssumption, Slots, KernelSteps
<1>4. KernelsLast
  BY <1>1 DEF KernelInit, KernelsLast, Files, Only
<1>5. FilesFetched
  <2>1. \A v \in Kernels : Only(First)[v] \in Packages => Only(First)[v] = First /\ First[1] = v
    BY <1>1 DEF Only, KernelsAssumption
  <2>2. NoKernel \notin Packages
    BY DEF KernelsAssumption
  <2> QED BY <2>1, <2>2 DEF KernelInit, FilesFetched, OfVersion, Slots
<1>6. CommandsAtWork /\ InstallSteps /\ InstallLeavesTwo
  BY DEF KernelInit, CommandsAtWork, InstallSteps, InstallLeavesTwo
<1> QED BY <1>3, <1>4, <1>5, <1>6 DEF KernelInv

\* An entry whose kernel and initramfs are there, and whose modules are whole, is
\* of use, or its version is spoilt; said of the state a step leads to.
LEMMA EntryOf ==
  ASSUME KernelTypes', FilesFetched', NEW s \in Slots, NEW v \in Kernels,
         menu'[s] = [kernel |-> v, initrd |-> TRUE],
         esp'[v] # NoKernel, initrd'[v] # NoKernel, modules'[s][v] \in Packages
  PROVE  (EntryFits(s) \/ Spoilt(menu[s].kernel))'
<1>1. esp'[v] \in Packages \cup {Torn} /\ initrd'[v] \in Packages \cup {Torn}
  BY DEF KernelTypes, KernelTypeOK
<1>2. \A p \in {esp'[v], initrd'[v], modules'[s][v]} : p \in Packages => p \in fetched' /\ p[1] = v
  BY DEF FilesFetched, OfVersion
<1>3. menu'[s].kernel = v /\ menu'[s].initrd
  OBVIOUS
<1>4. \/ Torn \in {esp'[v], initrd'[v]}
      \/ \E p, q \in fetched' : p # q /\ p[1] = v /\ q[1] = v
      \/ esp'[v] \in Packages /\ initrd'[v] = esp'[v] /\ modules'[s][v] = esp'[v]
  BY <1>1, <1>2, OneBuild
<1> QED BY <1>3, <1>4 DEF EntryFits, Spoilt

\* Each step of an install finds what the one before it made, and no other
\* command disturbs it.
LEMMA KernelInvStep ==
  ASSUME KernelsAssumption, KernelInv, [KernelNext]_kernelVars
  PROVE  KernelInv'
<1> USE DEF KernelInv
<1>a. /\ idle \in Slots /\ idle # running
      /\ \A t \in Slots : t = running \/ t = idle
  BY TheOtherSlot DEF KernelTypes, idle
<1>b. ASSUME running' = running
      PROVE  idle' = idle
  BY <1>b DEF idle
<1>1. ASSUME NEW k \in Packages \cup {NoKernel}, StartKernel(k)
      PROVE  KernelInv'
  <2> USE <1>1, <1>b DEF StartKernel, KernelCommand, At, espVars, menuVars, kernelBootVars
  <2>1. KernelTypes'
    BY DEF KernelTypes, KernelTypeOK, KernelSteps
  <2>2. KernelsLast' /\ CommandsAtWork' /\ FilesFetched'
    BY DEF KernelsLast, CommandsAtWork, FilesFetched, OfVersion
  <2>3. InstallSteps' /\ InstallLeavesTwo'
    BY DEF InstallSteps, InstallLeavesTwo
  <2> QED BY <2>1, <2>2, <2>3
<1>2. ASSUME Sync
      PROVE  KernelInv'
  <2> USE <1>2, <1>a, <1>b DEF Sync, At, espVars, menuVars, kernelBootVars
  <2>1. KernelTypes'
    BY DEF KernelTypes, KernelTypeOK, KernelSteps
  <2>2. KernelsLast' /\ CommandsAtWork' /\ FilesFetched'
    <3>1. modules' = [modules EXCEPT ![idle] = modules[running]]
      OBVIOUS
    <3>2. running \in Slots /\ modules \in [Slots -> [Kernels -> Packages \cup {NoKernel, Torn}]]
      BY DEF KernelTypes, KernelTypeOK
    <3>3. \A s \in Slots : modules'[s] = IF s = idle THEN modules[running] ELSE modules[s]
      BY <3>1, <3>2
    <3>4. FilesFetched'
      BY <3>2, <3>3 DEF FilesFetched, OfVersion
    <3> QED BY <3>4 DEF KernelsLast, CommandsAtWork
  <2>3. InstallSteps' /\ InstallLeavesTwo'
    BY DEF InstallSteps, InstallLeavesTwo, KernelTypes, KernelTypeOK
  <2> QED BY <2>1, <2>2, <2>3
<1>3. ASSUME UnpackKernel
      PROVE  KernelInv'
  <2> USE <1>3, <1>a, <1>b DEF UnpackKernel, At, menuVars, kernelBootVars, Dies
  <2> DEFINE a == asking[1]
  <2>1. /\ asking \in Packages /\ a \in Kernels /\ kernelStep = "unpack" /\ asking # NoKernel
        /\ Torn # NoKernel /\ Torn \notin Packages
    BY DEF InstallSteps, KernelsAssumption
  <2>2. PICK k, m : /\ KernelLands(k, m)
                    /\ k \in {esp[a], Torn, asking} /\ m \in {modules[idle][a], Torn, asking}
                    /\ kernelStep' = "initramfs" => k = asking /\ m = asking
    BY <2>1
  <2> HIDE <1>3
  <2>3. /\ esp' = [esp EXCEPT ![a] = k]
        /\ modules' = [modules EXCEPT ![idle] = [modules[idle] EXCEPT ![a] = m]]
    BY <2>2 DEF KernelLands
  <2>4. /\ esp \in [Kernels -> Packages \cup {NoKernel, Torn}]
        /\ modules \in [Slots -> [Kernels -> Packages \cup {NoKernel, Torn}]]
    BY DEF KernelTypes, KernelTypeOK
  <2>5. /\ k \in Packages \cup {NoKernel, Torn} /\ m \in Packages \cup {NoKernel, Torn}
        /\ esp[a] # NoKernel => k # NoKernel
    BY <2>1, <2>2, <2>4
  <2>6. /\ esp' \in [Kernels -> Packages \cup {NoKernel, Torn}]
        /\ modules' \in [Slots -> [Kernels -> Packages \cup {NoKernel, Torn}]]
    BY <2>1, <2>3, <2>4, <2>5
  <2>7. /\ \A v \in Kernels : esp'[v] = IF v = a THEN k ELSE esp[v]
        /\ \A s \in Slots, v \in Kernels :
             modules'[s][v] = IF s = idle /\ v = a THEN m ELSE modules[s][v]
    BY <2>1, <2>3, <2>4
  <2>8. /\ UNCHANGED <<initrd, pins, power, running, uname, slot, trying, good, once, menu, realtime>>
        /\ fetched' = fetched \cup {asking}
        /\ \/ kernelStep' = "idle" /\ kver' = kver /\ asking' = asking
           \/ /\ kernelStep' = "initramfs" /\ kver' = Max(Files(modules'[idle]))
              /\ asking' = asking
    BY <1>3
  <2> HIDE DEF a
  <2>9. kernelStep' = "initramfs" => kver' \in Files(modules'[idle])
    <3>1. kernelStep' = "initramfs" => a \in Files(modules'[idle])
      BY <2>1, <2>2, <2>7 DEF Files
    <3>2. Files(modules'[idle]) \in SUBSET Kernels
      BY DEF Files
    <3> QED BY <2>8, <3>1, <3>2, NewestKernel
  <2>10. kver' \in Kernels \cup {NoKernel}
    BY <2>8, <2>9 DEF KernelTypes, KernelTypeOK, Files
  <2>11. KernelTypes'
    BY <2>1, <2>6, <2>8, <2>10 DEF KernelTypes, KernelTypeOK, KernelSteps
  <2>12. Files(esp) \subseteq Files(esp')
    BY <2>5, <2>7 DEF Files
  <2>13. KernelsLast' /\ CommandsAtWork'
    BY <2>1, <2>8, <2>12 DEF KernelsLast, CommandsAtWork
  <2>14. FilesFetched'
    <3>1. \A p : OfVersion(p, a) \/ p \in {asking, Torn} => (p \in Packages => p \in fetched' /\ p[1] = a)
      BY <2>1, <2>8 DEF OfVersion, a
    <3>2. OfVersion(esp[a], a) /\ OfVersion(modules[idle][a], a)
      BY <2>1 DEF FilesFetched
    <3>3. \A p \in {k, m} : p \in Packages => p \in fetched' /\ p[1] = a
      BY <2>2, <3>1, <3>2
    <3>4. \A v \in Kernels : /\ OfVersion(esp[v], v)' /\ OfVersion(initrd[v], v)'
                            /\ \A s \in Slots : OfVersion(modules[s][v], v)'
      BY <2>7, <2>8, <3>3 DEF FilesFetched, OfVersion
    <3> QED BY <3>4 DEF FilesFetched
  <2>15. InstallSteps' /\ InstallLeavesTwo'
    BY <1>b, <2>8, <2>9 DEF InstallSteps, InstallLeavesTwo
  <2> QED BY <2>11, <2>13, <2>14, <2>15
<1>4. ASSUME Initramfs
      PROVE  KernelInv'
  <2> USE <1>4, <1>a, <1>b DEF Initramfs, At, menuVars, kernelBootVars, Dies
  <2>1. /\ kver \in Kernels /\ modules[idle][kver] # NoKernel /\ Torn # NoKernel
        /\ modules[idle][kver] \in Packages \cup {NoKernel, Torn} /\ Torn \notin Packages
    BY DEF InstallSteps, KernelTypes, KernelTypeOK, Files, KernelsAssumption
  <2>2. PICK i \in {initrd[kver], Torn, modules[idle][kver]} :
          /\ initrd' = [initrd EXCEPT ![kver] = i]
          /\ \/ kernelStep' = "idle"
             \/ /\ kernelStep' = "unpin" /\ i = modules[idle][kver]
                /\ kver \in Files(esp)
    OBVIOUS
  <2>3. /\ UNCHANGED <<esp, modules, pins, power, running, uname, slot, trying, good, once, menu>>
        /\ UNCHANGED <<realtime, fetched, kver, asking>> /\ power # "off"
    OBVIOUS
  <2> HIDE <1>4
  <2>4. initrd \in [Kernels -> Packages \cup {NoKernel, Torn}]
    BY DEF KernelTypes, KernelTypeOK
  <2>5. /\ initrd' \in [Kernels -> Packages \cup {NoKernel, Torn}]
        /\ \A v \in Kernels : initrd'[v] = IF v = kver THEN i ELSE initrd[v]
    BY <2>1, <2>2, <2>4
  <2>6. Files(initrd) \subseteq Files(initrd')
    BY <2>1, <2>2, <2>5 DEF Files
  <2>7. KernelTypes'
    BY <2>2, <2>3, <2>5 DEF KernelTypes, KernelTypeOK, KernelSteps
  <2>8. KernelsLast' /\ CommandsAtWork'
    BY <2>3, <2>6 DEF KernelsLast, CommandsAtWork
  <2>9. FilesFetched'
    <3>1. OfVersion(i, kver)
      BY <2>1, <2>2 DEF FilesFetched, OfVersion
    <3>2. \A v \in Kernels : OfVersion(initrd[v], v)'
      BY <2>3, <2>5, <3>1 DEF FilesFetched, OfVersion
    <3> QED BY <2>3, <3>2 DEF FilesFetched, OfVersion
  <2>10. InstallSteps'
    <3>1. kernelStep' = "unpin" => initrd'[kver] = modules[idle][kver]
      BY <2>1, <2>2, <2>5
    <3> QED BY <2>1, <2>2, <2>3, <3>1 DEF InstallSteps, Files
  <2>11. InstallLeavesTwo'
    BY <2>2 DEF InstallLeavesTwo
  <2> QED BY <2>7, <2>8, <2>9, <2>10, <2>11
<1>5. ASSUME Unpin
      PROVE  KernelInv'
  <2> USE <1>5, <1>a, <1>b DEF Unpin, At, menuVars, kernelBootVars
  <2>1. KernelTypes'
    BY DEF KernelTypes, KernelTypeOK, KernelSteps
  <2>2. KernelsLast' /\ CommandsAtWork' /\ FilesFetched'
    BY DEF KernelsLast, CommandsAtWork, FilesFetched, OfVersion, KernelTypes,
             KernelTypeOK
  <2>3. InstallSteps' /\ InstallLeavesTwo'
    BY DEF InstallSteps, InstallLeavesTwo
  <2> QED BY <2>1, <2>2, <2>3
<1>6. ASSUME PinIdle
      PROVE  KernelInv'
  <2> USE <1>6, <1>a, <1>b DEF PinIdle, At, menuVars, kernelBootVars
  <2>1. kver \in Files(esp) /\ kver \in Files(initrd) /\ kver \in Kernels
    BY DEF InstallSteps, Files
  <2>2. KernelTypes'
    BY <2>1 DEF KernelTypes, KernelTypeOK, KernelSteps
  <2>3. KernelsLast' /\ CommandsAtWork' /\ FilesFetched'
    BY <2>1 DEF KernelsLast, CommandsAtWork, FilesFetched, OfVersion, KernelTypes,
             KernelTypeOK
  <2>4. InstallSteps' /\ InstallLeavesTwo'
    BY <2>1 DEF InstallSteps, InstallLeavesTwo, KernelTypes, KernelTypeOK
  <2> QED BY <2>2, <2>3, <2>4
<1>7. ASSUME PinHere
      PROVE  KernelInv'
  <2> USE <1>7, <1>a, <1>b DEF PinHere, Here, At, menuVars, kernelBootVars
  <2>1. KernelTypes'
    BY DEF KernelTypes, KernelTypeOK, KernelSteps
  <2>2. KernelsLast' /\ CommandsAtWork' /\ FilesFetched'
    BY DEF KernelsLast, CommandsAtWork, FilesFetched, OfVersion, KernelTypes,
             KernelTypeOK
  <2>3. pins'[running] # Unpinned /\ pins'[idle] = pins[idle]
    BY DEF KernelTypes, KernelTypeOK, KernelsAssumption
  <2>4. InstallSteps' /\ InstallLeavesTwo'
    BY <2>3 DEF InstallSteps, InstallLeavesTwo
  <2> QED BY <2>1, <2>2, <2>4
<1>8. ASSUME MakeMenu
      PROVE  KernelInv'
  <2> USE <1>8, <1>a, <1>b DEF MakeMenu, At, espVars, menuVars, kernelBootVars
  <2>1. KernelTypes'
    BY MenuMade DEF KernelTypes, KernelTypeOK, KernelSteps
  <2>2. KernelsLast' /\ CommandsAtWork' /\ InstallSteps' /\ FilesFetched'
    BY DEF KernelsLast, CommandsAtWork, InstallSteps, FilesFetched, OfVersion
  <2>3. ASSUME kernelStep' = "installed", ~Stale(running)', NEW s \in Slots
        PROVE  (EntryFits(s) \/ Spoilt(menu[s].kernel))'
    <3>1. Mkconfig
      BY <2>3
    <3> DEFINE v == pins[s]
    <3>2. /\ v # Unpinned /\ v \in Kernels /\ v \in Files(esp) \cap Files(initrd)
          /\ modules[s][v] \in Packages \/ initrd[v] = Torn
      <4>1. v # Unpinned
        BY DEF InstallSteps, KernelsAssumption, Files
      <4>2. v \in Kernels /\ v \in Files(esp) \cap Files(initrd)
        BY <4>1 DEF KernelsLast, Files
      <4>3. CASE s = idle
        <5>1. v = kver /\ initrd[v] = modules[s][v] /\ initrd[v] # NoKernel
          BY <4>2, <4>3 DEF InstallSteps, Files
        <5> QED BY <4>1, <4>2, <5>1 DEF KernelTypes, KernelTypeOK
      <4>4. CASE s = running
        BY <4>1, <4>2, <4>4, <2>3 DEF Stale
      <4> QED BY <4>3, <4>4
    <3>3. menu'[s] = [kernel |-> v, initrd |-> TRUE]
      BY <3>1, <3>2, MenuMade
    <3> HIDE DEF v
    <3>4. CASE initrd[v] = Torn
      BY <3>3, <3>4 DEF Spoilt
    <3>5. CASE modules[s][v] \in Packages
      <4>1. esp'[v] # NoKernel /\ initrd'[v] # NoKernel /\ modules'[s][v] \in Packages
        BY <3>2, <3>5 DEF Files
      <4> QED BY <2>1, <2>2, <3>2, <3>3, <4>1, EntryOf
    <3> QED BY <3>2, <3>4, <3>5
  <2> QED BY <2>1, <2>2, <2>3 DEF InstallLeavesTwo
<1>9. ASSUME Switch
      PROVE  KernelInv'
  <2> USE <1>9, <1>a, <1>b DEF Switch, At, espVars, menuVars
  <2>1. KernelTypes'
    BY DEF KernelTypes, KernelTypeOK, KernelSteps
  <2>2. KernelsLast' /\ CommandsAtWork' /\ FilesFetched'
    BY DEF KernelsLast, CommandsAtWork, FilesFetched, OfVersion
  <2>3. InstallSteps' /\ InstallLeavesTwo'
    BY DEF InstallSteps, InstallLeavesTwo
  <2> QED BY <2>1, <2>2, <2>3
<1>10. ASSUME Regenerate
       PROVE  KernelInv'
  <2> USE <1>10, <1>b DEF Regenerate, KernelCommand, At, espVars, kernelBootVars, jobVars
  <2>1. KernelTypes'
    BY MenuMade DEF KernelTypes, KernelTypeOK
  <2>2. KernelsLast' /\ CommandsAtWork' /\ FilesFetched'
    BY DEF KernelsLast, CommandsAtWork, FilesFetched, OfVersion
  <2>3. InstallSteps' /\ InstallLeavesTwo'
    BY DEF InstallSteps, InstallLeavesTwo
  <2> QED BY <2>1, <2>2, <2>3
<1>11. ASSUME Rollback \/ BootRT \/ Off \/ MarkGood
       PROVE  KernelInv'
  <2> USE <1>11, <1>b DEF Rollback, BootRT, Off, MarkGood, KernelCommand, At, espVars,
            menuVars, jobVars
  <2>1. KernelTypes'
    BY DEF KernelTypes, KernelTypeOK, KernelSteps
  <2>2. KernelsLast' /\ CommandsAtWork' /\ FilesFetched'
    BY DEF KernelsLast, CommandsAtWork, FilesFetched, OfVersion
  <2>3. InstallSteps' /\ InstallLeavesTwo'
    BY DEF InstallSteps, InstallLeavesTwo, EntryFits, Stale, Spoilt
  <2> QED BY <2>1, <2>2, <2>3
<1>12. ASSUME BootOnce \/ BootSlot
       PROVE  KernelInv'
  <2>1. /\ power = "off" /\ kernelStep = "idle"
        /\ UNCHANGED <<espVars, menuVars, modules, good, jobVars, fetched>>
    BY <1>12 DEF BootOnce, BootSlot, Boot, CommandsAtWork
  <2>2. /\ running' \in Slots /\ slot' \in Slots /\ power' \in {"off", "up"}
        /\ uname' \in Files(esp) \cap Files(initrd)
    BY <1>12 DEF BootOnce, BootSlot, Boot, KernelTypes, KernelTypeOK, KernelsLast,
                    Files, KernelsAssumption
  <2> USE <2>1, <2>2 DEF espVars, menuVars, jobVars
  <2>3. KernelTypes'
    BY DEF KernelTypes, KernelTypeOK, Files
  <2>4. KernelsLast' /\ CommandsAtWork' /\ FilesFetched'
    BY DEF KernelsLast, CommandsAtWork, FilesFetched, OfVersion
  <2>5. InstallSteps' /\ InstallLeavesTwo'
    BY DEF InstallSteps, InstallLeavesTwo
  <2> QED BY <2>3, <2>4, <2>5
<1>13. ASSUME UNCHANGED kernelVars
       PROVE  KernelInv'
  <2> USE <1>13, <1>b DEF kernelVars, espVars, menuVars, kernelBootVars, jobVars
  <2>1. KernelTypes' /\ KernelsLast' /\ CommandsAtWork' /\ FilesFetched'
    BY DEF KernelTypes, KernelTypeOK, KernelsLast, CommandsAtWork, FilesFetched, OfVersion
  <2>2. InstallSteps' /\ InstallLeavesTwo'
    BY DEF InstallSteps, InstallLeavesTwo, EntryFits, Stale, Spoilt
  <2> QED BY <2>1, <2>2
<1> QED
  BY <1>1, <1>2, <1>3, <1>4, <1>5, <1>6, <1>7, <1>8, <1>9, <1>10, <1>11, <1>12, <1>13
  DEF KernelNext

\* What makes an entry of use stays as it was, or is made again from the pin.
LEMMA PinnedEntryStays ==
  ASSUME KernelsAssumption, KernelInv, [KernelNext]_kernelVars
  PROVE  PinnedEntryKept
<1> SUFFICES ASSUME NEW s \in Slots, s = good, EntryFits(s), pins[s] # Unpinned, ~Stale(s),
                    power # "up"
             PROVE  (EntryFits(s) \/ Spoilt(menu[s].kernel))'
  BY DEF PinnedEntryKept
<1>a. KernelTypes' /\ FilesFetched'
  BY KernelInvStep DEF KernelInv
<1> USE DEF KernelInv
<1> DEFINE v == menu[s].kernel
<1>b. /\ v \in Kernels /\ pins[s] \in Kernels /\ pins[s] \in Files(esp) \cap Files(initrd)
      /\ modules[s][pins[s]] \in Packages /\ modules[s][v] \in Packages
      /\ v \in Files(esp) \cap Files(initrd)
      /\ menu[s] = [kernel |-> v, initrd |-> TRUE]
  BY DEF KernelsLast, Stale, EntryFits, KernelTypes, KernelTypeOK, Files, KernelsAssumption
<1>1. CASE Mkconfig /\ UNCHANGED <<esp, initrd, modules>>
  <2>1. menu'[s] = [kernel |-> pins[s], initrd |-> TRUE]
    BY <1>1, MenuMade
  <2> QED BY <1>a, <1>b, <1>1, <2>1, EntryOf DEF Files
<1>2. ASSUME UNCHANGED menu, modules'[s] = modules[s], Files(esp) \subseteq Files(esp'),
             Files(initrd) \subseteq Files(initrd')
      PROVE  (EntryFits(s) \/ Spoilt(menu[s].kernel))'
  BY <1>a, <1>b, <1>2, EntryOf DEF Files
<1>3. ASSUME Sync \/ UnpackKernel \/ Initramfs
      PROVE  s # idle /\ idle \in Slots
  <2>1. power # "off" /\ good = running /\ power = "marked"
    BY <1>3 DEF Sync, UnpackKernel, Initramfs, At, KernelTypes, KernelTypeOK, CommandsAtWork
  <2> QED BY <2>1, TheOtherSlot DEF idle
<1>4. CASE Sync
  BY <1>2, <1>3, <1>4 DEF Sync, espVars, menuVars, KernelTypes, KernelTypeOK
<1>5. CASE UnpackKernel
  <2>1. /\ asking \in Packages /\ asking[1] \in Kernels /\ asking # NoKernel /\ Torn # NoKernel
    BY <1>5 DEF UnpackKernel, At, InstallSteps, KernelsAssumption
  <2>2. PICK k, m : KernelLands(k, m) /\ k \in {esp[asking[1]], Torn, asking}
    BY <1>5 DEF UnpackKernel
  <2>3. modules'[s] = modules[s]
    BY <1>3, <1>5, <2>2 DEF KernelLands, KernelTypes, KernelTypeOK
  <2>4. Files(esp) \subseteq Files(esp')
    BY <2>1, <2>2 DEF KernelLands, KernelTypes, KernelTypeOK, Files
  <2> QED BY <1>2, <1>5, <2>3, <2>4 DEF UnpackKernel, menuVars
<1>6. CASE Initramfs
  <2>1. kver \in Kernels /\ modules[idle][kver] # NoKernel /\ Torn # NoKernel
    BY <1>6 DEF Initramfs, At, InstallSteps, Files, KernelsAssumption
  <2>2. PICK i \in {initrd[kver], Torn, modules[idle][kver]} :
          initrd' = [initrd EXCEPT ![kver] = i]
    BY <1>6 DEF Initramfs
  <2>3. Files(initrd) \subseteq Files(initrd')
    BY <2>1, <2>2 DEF KernelTypes, KernelTypeOK, Files
  <2> QED BY <1>2, <1>6, <2>3 DEF Initramfs, menuVars
<1>7. CASE MakeMenu \/ Regenerate
  BY <1>1, <1>2, <1>7 DEF MakeMenu, Regenerate, espVars, menuVars
<1>8. CASE UNCHANGED <<esp, initrd, menu, modules>>
  BY <1>2, <1>8
<1> QED
  BY <1>4, <1>5, <1>6, <1>7, <1>8
  DEF KernelNext, StartKernel, Unpin, PinIdle, PinHere, Switch, Rollback, BootRT, Off, BootOnce,
      BootSlot, MarkGood, kernelVars, espVars, menuVars

\* For any packages, whichever are real-time kernels or do not boot, and any
\* number of commands, failures and cuts: an install that made the menu leaves
\* both slots an entry of use, but for a stale pin of the running one, and none
\* takes that of a pinned fallback; except where the version was installed
\* again, in another build or in part (nethos-kernel:96, 118, 542,
\* 09_nethos_ab:55).
THEOREM KernelEntriesStay == KernelSpec => KernelEntriesKept
<1>1. KernelInit => KernelInv
  BY KernelInvInit, KernelsAssumption
<1>2. KernelInv /\ [KernelNext]_kernelVars => KernelInv'
  BY KernelInvStep, KernelsAssumption
<1>3. KernelInv /\ [KernelNext]_kernelVars => [InstallLeavesTwo' /\ PinnedEntryKept]_kernelVars
  <2>1. KernelInv /\ [KernelNext]_kernelVars => InstallLeavesTwo' /\ PinnedEntryKept
    BY KernelInvStep, PinnedEntryStays, KernelsAssumption DEF KernelInv
  <2> QED BY <2>1
<1> QED BY <1>1, <1>2, <1>3, PTL DEF KernelSpec, KernelEntriesKept

-----------------------------------------------------------------------------
(***************************************************************************)
(* The layout.  Whatever order the files are moved in, a path of the new   *)
(* layout that a file wants has a file once that file has been moved; one  *)
(* that only links want has one of them, with its target rewritten.        *)
(***************************************************************************)

LayoutTypes ==
  /\ DOMAIN tree = DOMAIN before
  /\ before \in [DOMAIN before -> {RegularFile, NoPath} \cup Targets]
  /\ tree \in [DOMAIN before -> {RegularFile, NoPath} \cup Targets]
  /\ \A p \in DOMAIN before : p \in PathNames /\ arch_path(p) \in DOMAIN before
  /\ toMove \subseteq {p \in DOMAIN before : before[p] # NoPath}
  /\ layout \in {"moving", "done"} /\ (layout = "done" => toMove = {})

\* What the walk has not come to lies as it was unpacked, unless a file has
\* taken its place.
Unmoved ==
  \A p \in toMove :
    tree[p] = before[p] \/ (arch_path(p) = p /\ tree[p] = RegularFile)

\* What it has come to has left something at its new path: a file, a file.
Relaid ==
  \A p \in DOMAIN before \ toMove :
    /\ before[p] = RegularFile => tree[arch_path(p)] = RegularFile
    /\ IsLink(before, p) => tree[arch_path(p)] # NoPath

\* Nothing else is there.
Sources ==
  \A d \in DOMAIN before \ toMove :
    tree[d] # NoPath =>
      \E p \in DOMAIN before :
        /\ arch_path(p) = d
        /\ \/ tree[d] = RegularFile /\ before[p] = RegularFile
           \/ IsLink(before, p) /\ tree[d] = arch_link_target(before[p])
FromFiles ==
  \A d \in toMove : tree[d] = RegularFile =>
     \E p \in DOMAIN before : arch_path(p) = arch_path(d) /\ before[p] = RegularFile

LayoutInv ==
  /\ LayoutTypes
  /\ layout = "moving" => Unmoved /\ Relaid /\ Sources /\ FromFiles
  /\ RelayoutResolves

\* A path of the new layout is one, and stays where it is.
LEMMA NewPaths ==
  ASSUME TreesAssumption, NEW p \in PathNames
  PROVE  arch_path(p) \in PathNames /\ arch_path(arch_path(p)) = arch_path(p)
BY DEF TreesAssumption

LEMMA LayoutStarts == ASSUME TreesAssumption, LayoutInit PROVE LayoutInv
<1>1. PICK t \in Trees : LayoutInitAt(t)
  BY DEF LayoutInit
<1>2. LayoutTypes
  BY <1>1 DEF LayoutInitAt, LayoutTypes, TreesAssumption
<1>3. Unmoved /\ Relaid /\ Sources /\ FromFiles
  BY <1>1 DEF LayoutInitAt, Unmoved, Relaid, Sources, FromFiles, IsLink
<1>4. RelayoutResolves
  BY <1>1 DEF LayoutInitAt, RelayoutResolves
<1> QED BY <1>2, <1>3, <1>4 DEF LayoutInv

\* What a move does, path by path.
LEMMA MoveByPath ==
  ASSUME TreesAssumption, LayoutTypes, Unmoved, NEW src \in toMove, Move(src)
  PROVE  /\ arch_path(src) \in DOMAIN before
         /\ arch_path(arch_path(src)) = arch_path(src)
         /\ toMove' = toMove \ {src} /\ layout' = layout /\ before' = before
         /\ layout = "moving"
         /\ tree' \in [DOMAIN before -> {RegularFile, NoPath} \cup Targets]
         /\ \A d \in DOMAIN before \ {src, arch_path(src)} : tree'[d] = tree[d]
         /\ src # arch_path(src) => tree[src] = before[src] /\ tree'[src] = NoPath
         /\ \/ /\ tree'[arch_path(src)] = tree[arch_path(src)] /\ src # arch_path(src)
               /\ tree[arch_path(src)] # NoPath
               /\ before[src] = RegularFile => tree[arch_path(src)] = RegularFile
            \/ /\ tree'[arch_path(src)] = RegularFile /\ tree[src] = RegularFile
            \/ /\ tree'[arch_path(src)] = arch_link_target(before[src]) /\ IsLink(before, src)
               /\ tree[src] = before[src]
               /\ src # arch_path(src) => tree[arch_path(src)] = NoPath
<1> DEFINE dst == arch_path(src)
<1>1. /\ src \in DOMAIN before /\ src \in PathNames /\ before[src] # NoPath
      /\ dst \in DOMAIN before /\ dst \in PathNames /\ arch_path(dst) = dst
  BY NewPaths DEF LayoutTypes
<1>2. /\ tree[src] = before[src] \/ (dst = src /\ tree[src] = RegularFile)
      /\ tree[src] \in {RegularFile} \cup Targets
  BY <1>1 DEF Unmoved, LayoutTypes, TreesAssumption
<1>3. /\ Rewritten(src) = RegularFile /\ tree[src] = RegularFile
      \/ /\ Rewritten(src) = arch_link_target(before[src]) /\ IsLink(before, src)
         /\ tree[src] = before[src] /\ before[src] \in Targets
         /\ arch_link_target(before[src]) \in Targets
  <2>1. CASE tree[src] = RegularFile
    BY <2>1 DEF Rewritten, IsLink
  <2>2. CASE tree[src] # RegularFile
    <3>1. tree[src] = before[src] /\ before[src] \in Targets /\ IsLink(before, src)
          /\ IsLink(tree, src)
      BY <2>2, <1>2, <1>1 DEF IsLink, TreesAssumption
    <3> QED BY <3>1 DEF Rewritten, TreesAssumption
  <2> QED BY <2>1, <2>2
<1>4. CASE dst = src
  <2>1. tree' = [tree EXCEPT ![src] = Rewritten(src)]
    BY <1>4 DEF Move
  <2>2. tree'[src] = Rewritten(src) /\ \A d \in DOMAIN before \ {src} : tree'[d] = tree[d]
    BY <2>1, <1>1 DEF LayoutTypes
  <2>3. tree' \in [DOMAIN before -> {RegularFile, NoPath} \cup Targets]
    BY <2>1, <1>3 DEF LayoutTypes
  <2> QED BY <1>4, <2>2, <2>3, <1>1, <1>3 DEF Move
<1>5. CASE dst # src /\ tree[dst] # NoPath /\ ~Wins(src, dst)
  <2>1. tree' = [tree EXCEPT ![src] = NoPath, ![dst] = @]
    BY <1>5 DEF Move, Has
  <2>2. tree'[src] = NoPath /\ \A d \in DOMAIN before \ {src} : tree'[d] = tree[d]
    BY <2>1, <1>1, <1>5 DEF LayoutTypes
  <2>3. tree' \in [DOMAIN before -> {RegularFile, NoPath} \cup Targets]
    BY <2>1, <1>1, <1>5 DEF LayoutTypes
  <2>4. before[src] = RegularFile => tree[dst] = RegularFile
    BY <1>2, <1>5 DEF Wins, IsLink
  <2> QED BY <1>5, <2>2, <2>3, <2>4, <1>1, <1>2 DEF Move
<1>6. CASE dst # src /\ (tree[dst] = NoPath \/ Wins(src, dst))
  <2>1. tree' = [tree EXCEPT ![src] = NoPath, ![dst] = Rewritten(src)]
    BY <1>6 DEF Move, Has
  <2>2. /\ tree'[src] = NoPath /\ tree'[dst] = Rewritten(src)
        /\ \A d \in DOMAIN before \ {src, dst} : tree'[d] = tree[d]
    BY <2>1, <1>1, <1>6 DEF LayoutTypes
  <2>3. tree' \in [DOMAIN before -> {RegularFile, NoPath} \cup Targets]
    BY <2>1, <1>3 DEF LayoutTypes
  <2>4. tree[src] # RegularFile => tree[dst] = NoPath
    BY <1>6, <1>2, <1>1 DEF Wins, IsLink, TreesAssumption
  <2> QED BY <1>6, <2>2, <2>3, <2>4, <1>1, <1>2, <1>3, TreesAssumption DEF Move, TreesAssumption
<1> QED BY <1>4, <1>5, <1>6

LEMMA MoveKeepsLayout ==
  ASSUME TreesAssumption, LayoutInv, NEW src \in toMove, Move(src)
  PROVE  LayoutInv'
<1> DEFINE dst == arch_path(src)
<1>0. LayoutTypes /\ Unmoved /\ Relaid /\ Sources /\ FromFiles
  BY DEF LayoutInv, Move
<1>1. /\ dst \in DOMAIN before /\ arch_path(dst) = dst
      /\ toMove' = toMove \ {src} /\ layout' = layout /\ before' = before /\ layout = "moving"
      /\ tree' \in [DOMAIN before -> {RegularFile, NoPath} \cup Targets]
      /\ \A d \in DOMAIN before \ {src, dst} : tree'[d] = tree[d]
      /\ src # dst => tree[src] = before[src] /\ tree'[src] = NoPath
      /\ \/ /\ tree'[dst] = tree[dst] /\ src # dst
            /\ tree[dst] # NoPath
            /\ before[src] = RegularFile => tree[dst] = RegularFile
         \/ /\ tree'[dst] = RegularFile /\ tree[src] = RegularFile
         \/ /\ tree'[dst] = arch_link_target(before[src]) /\ IsLink(before, src)
            /\ tree[src] = before[src]
            /\ src # dst => tree[dst] = NoPath
  BY <1>0, MoveByPath
<1>2. /\ src \in DOMAIN before /\ before[src] # NoPath /\ RegularFile # NoPath
      /\ \A p \in DOMAIN before : p \in PathNames /\ arch_path(p) \in DOMAIN before
      /\ \A p \in DOMAIN before : arch_path(arch_path(p)) = arch_path(p)
  BY <1>0, NewPaths DEF LayoutTypes, TreesAssumption
<1>3. IsLink(before, src) => arch_link_target(before[src]) \notin {RegularFile, NoPath}
  <2>1. IsLink(before, src) => before[src] \in Targets
    BY <1>0, <1>2 DEF IsLink, LayoutTypes
  <2> QED BY <2>1 DEF TreesAssumption
<1>4. LayoutTypes'
  BY <1>0, <1>1 DEF LayoutTypes
<1>5. Unmoved'
  <2> SUFFICES ASSUME NEW p \in toMove'
               PROVE  tree'[p] = before[p] \/ (arch_path(p) = p /\ tree'[p] = RegularFile)
    BY <1>1 DEF Unmoved
  <2>1. p \in toMove /\ p # src /\ p \in DOMAIN before /\ before[p] # NoPath
    BY <1>0, <1>1 DEF LayoutTypes
  <2>2. tree[p] = before[p] \/ (arch_path(p) = p /\ tree[p] = RegularFile)
    BY <1>0, <2>1 DEF Unmoved
  <2>3. CASE p # dst
    BY <2>1, <2>2, <2>3, <1>1
  <2>4. CASE p = dst
    <3>1. tree[dst] # NoPath
      BY <2>1, <2>2, <2>4, <1>2
    <3> QED BY <2>1, <2>2, <2>4, <3>1, <1>1
  <2> QED BY <2>3, <2>4
<1>6. Relaid'
  <2> SUFFICES ASSUME NEW p \in DOMAIN before, p \notin toMove'
               PROVE  /\ before[p] = RegularFile => tree'[arch_path(p)] = RegularFile
                      /\ IsLink(before, p) => tree'[arch_path(p)] # NoPath
    BY <1>1 DEF Relaid, IsLink
  <2>1. CASE p = src
    <3>1. before[src] = RegularFile => tree'[dst] = RegularFile
      BY <1>1 DEF IsLink
    <3>2. tree'[dst] # NoPath
      BY <1>1, <1>2, <1>3
    <3> QED BY <2>1, <3>1, <3>2
  <2>2. CASE p # src
    <3>1. /\ before[p] = RegularFile => tree[arch_path(p)] = RegularFile
          /\ IsLink(before, p) => tree[arch_path(p)] # NoPath
      BY <1>0, <1>1, <2>2 DEF Relaid
    <3>2. arch_path(p) # src \/ src = dst
      BY <1>2
    <3>3. CASE arch_path(p) = dst
      <4>1. CASE tree'[dst] = arch_link_target(before[src]) /\ IsLink(before, src)
        <5>1. tree[dst] # RegularFile
          BY <4>1, <1>1, <1>2, <1>3 DEF IsLink
        <5> QED BY <3>1, <3>3, <4>1, <5>1, <1>3
      <4>2. CASE tree'[dst] = tree[dst] \/ tree'[dst] = RegularFile
        BY <3>1, <3>3, <4>2, <1>2
      <4> QED BY <4>1, <4>2, <1>1
    <3>4. CASE arch_path(p) # dst
      BY <3>1, <3>2, <3>4, <1>1, <1>2
    <3> QED BY <3>3, <3>4
  <2> QED BY <2>1, <2>2

<1>7. Sources'
  <2> SUFFICES ASSUME NEW d \in DOMAIN before, d \notin toMove', tree'[d] # NoPath
               PROVE  \E p \in DOMAIN before :
                        /\ arch_path(p) = d
                        /\ \/ tree'[d] = RegularFile /\ before[p] = RegularFile
                           \/ IsLink(before, p) /\ tree'[d] = arch_link_target(before[p])
    BY <1>1 DEF Sources, IsLink
  <2>1. CASE d # src /\ d # dst
    BY <2>1, <1>0, <1>1 DEF Sources
  <2>2. CASE d = src /\ d # dst
    BY <2>2, <1>1
  <2>3. CASE d = dst
    <3>1. CASE tree'[dst] = RegularFile /\ tree[src] = RegularFile
      <4>1. PICK p \in DOMAIN before : arch_path(p) = arch_path(src) /\ before[p] = RegularFile
        BY <3>1, <1>0 DEF FromFiles
      <4> QED BY <2>3, <3>1, <4>1
    <3>2. CASE tree'[dst] = arch_link_target(before[src]) /\ IsLink(before, src)
      BY <2>3, <3>2, <1>2
    <3>3. CASE tree'[dst] = tree[dst] /\ src # dst
      <4>1. dst \notin toMove
        BY <2>3, <3>3, <1>1
      <4> QED BY <2>3, <3>3, <4>1, <1>0, <1>1 DEF Sources
    <3> QED BY <3>1, <3>2, <3>3, <1>1
  <2> QED BY <2>1, <2>2, <2>3
<1>8. FromFiles'
  <2> SUFFICES ASSUME NEW d \in toMove', tree'[d] = RegularFile
               PROVE  \E p \in DOMAIN before :
                        arch_path(p) = arch_path(d) /\ before[p] = RegularFile
    BY <1>1 DEF FromFiles
  <2>1. d \in toMove /\ d # src /\ d \in DOMAIN before
    BY <1>0, <1>1 DEF LayoutTypes
  <2>2. CASE d # dst \/ tree[d] = RegularFile
    BY <2>1, <2>2, <1>0, <1>1 DEF FromFiles
  <2>3. CASE d = dst /\ tree[d] # RegularFile
    <3>1. tree[src] = RegularFile
      BY <2>1, <2>3, <1>1, <1>3
    <3> QED BY <2>3, <3>1, <1>0, <1>1 DEF FromFiles
  <2> QED BY <2>2, <2>3
<1>9. RelayoutResolves'
  BY <1>1 DEF RelayoutResolves
<1> QED BY <1>4, <1>5, <1>6, <1>7, <1>8, <1>9 DEF LayoutInv

\* When the walk is over the paths a file was found from through links that
\* were kept lead, each under its new name, from link to link to that file's.
LEMMA UnloopKeepsLayout ==
  ASSUME TreesAssumption, LayoutInv, Unloop
  PROVE  LayoutInv'
<1>0. /\ LayoutTypes /\ Relaid /\ Sources /\ toMove = {}
      /\ toMove' = toMove /\ before' = before /\ layout' = "done"
      /\ tree' = [p \in DOMAIN before |-> IF Loops(p) THEN NoPath ELSE tree[p]]
  BY DEF LayoutInv, Unloop, LayoutTypes
<1>1. LayoutTypes'
  BY <1>0 DEF LayoutTypes
<1>2. /\ RegularFile \notin Targets /\ NoPath \notin Targets /\ RegularFile # NoPath
      /\ \A p \in DOMAIN before : /\ p \in PathNames /\ arch_path(p) \in DOMAIN before
                                /\ arch_path(arch_path(p)) = arch_path(p)
  BY <1>0 DEF LayoutTypes, TreesAssumption
<1>3. ASSUME NEW p \in DOMAIN tree'
      PROVE  ~Loops(p)'
  <2>1. tree'[p] = NoPath \/ (tree'[p] = tree[p] /\ ~Loops(p))
    BY <1>0, <1>3
  <2> QED BY <2>1 DEF Loops, IsLink
\* Where the link at the new place of a link that is kept leads, unless a file
\* is there.
<1>4. ASSUME NEW x \in DOMAIN before, IsLink(before, x), SaysSame(x),
             tree[arch_path(x)] # RegularFile
      PROVE  /\ tree[arch_path(x)] \in Targets
             /\ arch_path(Lands(arch_path(x), tree[arch_path(x)])) = Found(before, x)
  <2>1. arch_path(x) \in DOMAIN before /\ tree[arch_path(x)] # NoPath
    BY <1>0, <1>2, <1>4 DEF Relaid
  <2>2. PICK p \in DOMAIN before : /\ arch_path(p) = arch_path(x) /\ IsLink(before, p)
                                   /\ tree[arch_path(x)] = arch_link_target(before[p])
    BY <1>0, <2>1, <1>4 DEF Sources
  <2>3. tree[arch_path(x)] \in Targets
    BY <1>0, <1>4, <2>1 DEF LayoutTypes
  <2> QED BY <1>4, <2>2, <2>3 DEF SaysSame
<1>5. ASSUME NEW p \in DOMAIN before, Resolves(before, LedBefore, p)
      PROVE  Resolves(tree, LedNow, arch_path(p))'
  <2>0. DOMAIN tree' = DOMAIN before
    BY <1>0
  <2> SUFFICES ASSUME NEW S \in SUBSET DOMAIN before, arch_path(p) \in S,
                      \A x \in S : LedNow'[x] \in DOMAIN before => LedNow'[x] \in S,
                      \A x \in S : tree'[x] # RegularFile
               PROVE  FALSE
    BY <2>0 DEF Resolves
  <2> DEFINE Unlaid == {x \in DOMAIN before : arch_path(x) \in S}
  <2>1. \A x \in S : tree[x] # RegularFile
    BY <1>0, <1>2 DEF Loops, IsLink
  <2>2. ASSUME NEW x \in Unlaid, LedBefore[x] \in DOMAIN before
        PROVE  LedBefore[x] \in Unlaid
    <3>1. CASE ~(IsLink(before, x) /\ SaysSame(x))
      BY <2>2, <3>1 DEF LedBefore
    <3>2. CASE IsLink(before, x) /\ SaysSame(x)
      <4>1. PICK y, z : y = arch_path(x) /\ z = Lands(x, before[x])
        OBVIOUS
      <4>2. z \in DOMAIN before /\ LedBefore[x] = z /\ y \in S
        BY <2>2, <3>2, <4>1 DEF LedBefore
      <4>3. /\ tree[y] \in Targets /\ arch_path(Lands(y, tree[y])) = arch_path(z)
            /\ arch_path(z) \in DOMAIN before /\ arch_path(y) = y
        BY <1>2, <1>4, <2>1, <2>2, <3>2, <4>1, <4>2 DEF Found
      <4>4. CASE Loops(y)
        BY <4>2, <4>3, <4>4 DEF Loops
      <4>5. CASE ~Loops(y)
        <5>1. tree'[y] = tree[y] /\ IsLink(tree', y) /\ y \in DOMAIN tree'
          BY <1>0, <1>2, <4>2, <4>3, <4>5 DEF IsLink
        <5>2. LedNow'[y] = arch_path(z)
          BY <4>3, <5>1 DEF LedNow, Found, IsLink
        <5> QED BY <4>2, <4>3, <5>2
      <4> QED BY <4>4, <4>5
    <3> QED BY <3>1, <3>2
  <2>3. p \in Unlaid /\ Unlaid \subseteq DOMAIN before
    OBVIOUS
  <2>4. PICK f \in Unlaid : before[f] = RegularFile
    BY <2>2, <2>3, <1>5 DEF Resolves
  <2>5. tree[arch_path(f)] = RegularFile
    BY <2>4, <1>0 DEF Relaid
  <2> QED BY <2>1, <2>4, <2>5
<1>6. RelayoutResolves'
  <2>1. LedBefore' = LedBefore
    BY <1>0 DEF LedBefore, IsLink, SaysSame, Found
  <2>2. \A p \in DOMAIN before : Resolves(before, LedBefore, p)' <=> Resolves(before, LedBefore, p)
    BY <1>0, <2>1 DEF Resolves
  <2> QED BY <1>0, <1>3, <1>5, <2>2 DEF RelayoutResolves
<1> QED BY <1>0, <1>1, <1>6 DEF LayoutInv

\* Any package keeps every path to a file through links whose text means at
\* their new place what it meant, through any number of them and in whatever
\* order os.walk comes to them (relayout, npkg_convert.py:430).
THEOREM LayoutKeepsPaths == LayoutSpec => []RelayoutResolves
<1>1. LayoutInit => LayoutInv
  BY LayoutStarts, TreesAssumption
<1>2. LayoutInv /\ [LayoutNext]_layoutVars => LayoutInv'
  <2> SUFFICES ASSUME LayoutInv, [LayoutNext]_layoutVars
               PROVE  LayoutInv'
    OBVIOUS
  <2>1. CASE \E src \in toMove : Move(src)
    BY <2>1, MoveKeepsLayout, TreesAssumption
  <2>2. CASE Unloop
    BY <2>2, UnloopKeepsLayout, TreesAssumption
  <2>3. CASE UNCHANGED layoutVars
    <3>1. tree' = tree /\ before' = before /\ toMove' = toMove /\ layout' = layout
      BY <2>3 DEF layoutVars
    <3>2. LedBefore' = LedBefore /\ LedNow' = LedNow /\ \A p : Loops(p)' <=> Loops(p)
      BY <3>1 DEF LedBefore, LedNow, IsLink, SaysSame, Found, Loops
    <3>3. RelayoutResolves' <=> RelayoutResolves
      BY <3>1, <3>2 DEF RelayoutResolves, Resolves
    <3>4. LayoutTypes' <=> LayoutTypes
      BY <3>1 DEF LayoutTypes
    <3>5. (Unmoved /\ Relaid /\ Sources /\ FromFiles)' <=> Unmoved /\ Relaid /\ Sources /\ FromFiles
      BY <3>1 DEF Unmoved, Relaid, Sources, FromFiles, IsLink
    <3> QED BY <3>1, <3>3, <3>4, <3>5 DEF LayoutInv
  <2> QED BY <2>1, <2>2, <2>3 DEF LayoutNext
<1>3. LayoutInv => RelayoutResolves
  BY DEF LayoutInv
<1> QED BY <1>1, <1>2, <1>3, PTL DEF LayoutSpec
-----------------------------------------------------------------------------
(* Types.  What the invariants above leave out of npkg's: the index cached *)
(* is one published already, a package is installed under its own name,    *)
(* and what is to be upgraded stays installed.  While requirements are     *)
(* resolved the names being visited are those of the frames, each of one   *)
(* frame only: so a name returned from is no longer being visited.         *)

PlanRange ==
  /\ DOMAIN base = NameSet
  /\ \A r \in RepoSet : index[r] \in {Nothing, CutIndex} \cup 1 .. mirror[r]
  /\ \A n \in Installed : db[n].name = n
  /\ cmd \in Commands \cup {Nothing} /\ commands \in 0 .. MaxCommands
  /\ step \in {"idle", "load", "start", "upgrade", "resolve", "install"}
  /\ reinstall \in BOOLEAN /\ queue \subseteq Installed

Keys(s) == {s[i].key : i \in DOMAIN s}
Once(s) == \A i, j \in DOMAIN s : s[i].key = s[j].key => i = j

Searching ==
  /\ step = "resolve" => visiting = Keys(stack) /\ Once(stack)
  /\ \A i, j \in DOMAIN order : order[i].name = order[j].name => i = j

LEMMA RangeSteps ==
  ASSUME PlanInv, WantedInv, PlanRange, [PlanNext]_planVars
  PROVE  PlanRange'
<1> USE DEF stores, have, search, ask, notes
<1>0. \A r \in RepoSet : mirror[r] \in Nat \ {0}
  <2> SUFFICES ASSUME NEW r \in RepoSet PROVE mirror[r] \in Nat \ {0}
    OBVIOUS
  <2>1. world.index[r] \in Seq(ToSet(world.index[r])) /\ mirror[r] \in DOMAIN world.index[r]
    BY WorldsAssumption DEF PlanInv, PlanTypes, Publishes
  <2> QED BY <2>1
<1>b. DOMAIN db = NameSet
  BY DEF PlanInv, PlanTypes
<1>1. ASSUME NEW r \in RepoSet, MirrorMoves(r)
      PROVE  PlanRange'
  <2>1. \A q \in RepoSet : mirror'[q] \in Nat /\ mirror'[q] >= mirror[q]
    BY <1>0, <1>1 DEF MirrorMoves, PlanInv, PlanTypes
  <2>2. \A q \in RepoSet : 1 .. mirror[q] \subseteq 1 .. mirror'[q]
    BY <1>0, <2>1
  <2> QED BY <1>1, <2>2 DEF MirrorMoves, PlanRange, Installed
<1>2. ASSUME NEW r \in RepoSet, LoadCut(r)
      PROVE  PlanRange'
  <2>1. \A q \in RepoSet : index'[q] \in {index[q], CutIndex}
    BY <1>2 DEF LoadCut, PlanInv, PlanTypes
  <2> QED BY <1>2, <2>1 DEF LoadCut, PlanRange, Installed
<1>3. ASSUME NEW c \in Commands, Command(c)
      PROVE  PlanRange'
  <2>1. commands' \in 0 .. MaxCommands
    BY <1>3, PlanConstants DEF Command, PlanRange
  <2> QED BY <1>3, <2>1 DEF Command, PlanRange, Installed
<1>4. ASSUME NEW reached \in SUBSET RepoSet, Load(reached)
      PROVE  PlanRange'
  <2>1. \A r \in RepoSet : index'[r] \in {mirror[r], index[r]}
    BY <1>4 DEF Load
  <2>2. \A r \in RepoSet : mirror[r] \in 1 .. mirror[r]
    BY <1>0
  <2>3. step' \in {"idle", "start"} /\ UNCHANGED <<mirror, db, base, cmd, commands, reinstall, queue>>
    BY <1>4 DEF Load
  <2> QED BY <2>1, <2>2, <2>3 DEF PlanRange, Installed
<1>5. CASE StartInstall
  <2>1. cmd \in Commands
    BY <1>5 DEF StartInstall, WantedInv
  <2>2. reinstall' \in BOOLEAN
    BY <1>5, <2>1, PlanConstants DEF StartInstall, Resolve
  <2> QED BY <1>b, <1>5, <2>2 DEF StartInstall, Resolve, PlanRange, Installed
<1>6. CASE UpgradeNext
  <2>1. reinstall' = TRUE /\ queue' \subseteq queue /\ step' = "resolve" /\ base' = db
    BY <1>6 DEF UpgradeNext, Resolve
  <2> QED BY <1>b, <1>6, <2>1 DEF UpgradeNext, PlanRange, Installed
<1>7. ASSUME NEW agreed \in BOOLEAN, StartUpgrade(agreed)
      PROVE  PlanRange'
  BY <1>7 DEF StartUpgrade, Outdated, PlanRange, Installed
<1>8. ASSUME NEW need \in Wanted, Skip(need) \/ \E e \in find(need) : Descend(need, e)
      PROVE  PlanRange'
  BY <1>8 DEF Skip, Descend, PlanRange, Installed
<1>9. ASSUME NEW need \in Wanted, Unresolved(need)
      PROVE  PlanRange'
  BY <1>9 DEF Unresolved, Over, PlanRange, Installed
<1>10. CASE Return
  BY <1>10 DEF Return, PlanRange, Installed
<1>11. CASE Planned
  <2>1. step' \in {"idle", "upgrade", "install"}
    BY <1>11 DEF Planned, Over
  <2> QED BY <1>11, <2>1 DEF Planned, PlanRange, Installed
<1>12. ASSUME NEW e \in fetching, Prefetch(e)
       PROVE  PlanRange'
  BY <1>12 DEF Prefetch, PlanRange, Installed
<1>13. CASE InstallNext
  <2>1. plan \in Seq(Offered) /\ plan # <<>>
    BY <1>13 DEF InstallNext, PlanInv, PlanTypes
  <2>2. PICK e \in Offered : e = Head(plan)
    BY <2>1
  <2>3. PICK bytes \in Fetched(e) : Passes(e, bytes) /\ db' = [db EXCEPT ![e.name] = Unpacked(e, bytes)]
    BY <1>13, <2>2 DEF InstallNext
  <2>4. bytes = e.sum /\ e # Nothing
    BY <2>3, PassesRight, OfferedEntry DEF PlanInv
  <2>5. db' = [db EXCEPT ![e.name] = e]
    BY <2>3, <2>4 DEF Unpacked
  <2>6. \A n \in NameSet : db'[n] = IF n = e.name THEN e ELSE db[n]
    BY <2>5 DEF PlanInv, PlanTypes
  <2>7. Installed \subseteq Installed' /\ \A n \in Installed' : db'[n].name = n
    BY <2>4, <2>6 DEF Installed, PlanRange
  <2> QED BY <1>13, <2>7 DEF InstallNext, PlanRange
<1>14. CASE InstallFails \/ Killed
  BY <1>14 DEF InstallFails, Killed, Over, PlanRange, Installed
<1>15. CASE UNCHANGED planVars
  BY <1>15 DEF planVars, PlanRange, Installed
<1> QED BY <1>1, <1>2, <1>3, <1>4, <1>5, <1>6, <1>7, <1>8, <1>9, <1>10, <1>11, <1>12, <1>13, <1>14, <1>15
        DEF PlanNext, Advance

\* The names on the stack once a requirement of its top has been visited.
LEMMA VisitedKeys ==
  ASSUME Visiting, Searching, step = "resolve", stack # <<>>
  PROVE  Keys(Visited) = visiting /\ Once(Visited)
<1>1. /\ Len(stack) \in Nat \ {0} /\ DOMAIN stack = 1 .. Len(stack)
      /\ Top = stack[Len(stack)] /\ DOMAIN Visited = 1 .. Len(stack)
      /\ \A i \in 1 .. Len(stack) - 1 : Visited[i] = stack[i]
      /\ Visited[Len(stack)].key = Top.key
  BY TopVisited DEF FrameOf
<1>2. \A i \in DOMAIN stack : i = Len(stack) \/ i \in 1 .. Len(stack) - 1
  BY <1>1
<1>3. DOMAIN Visited = DOMAIN stack /\ \A i \in DOMAIN stack : Visited[i].key = stack[i].key
  BY <1>1, <1>2
<1> QED BY <1>3 DEF Keys, Once, Searching

LEMMA SearchSteps ==
  ASSUME PlanInv, WantedInv, Searching, [PlanNext]_planVars
  PROVE  Searching'
<1> USE DEF stores, have, search, ask, notes
<1>1. CASE UNCHANGED search /\ (step' # "resolve" \/ step' = step)
  BY <1>1 DEF Searching, Keys, Once
<1>2. ASSUME NEW rs, NEW again, Resolve(rs, again)
      PROVE  Searching'
  BY <1>2 DEF Resolve, Searching, Keys, Once
<1>3. ASSUME NEW need \in Wanted, Skip(need)
      PROVE  Searching'
  <2>1. step = "resolve" /\ step' = step /\ visiting' = visiting /\ order' = order /\ Visiting
    BY <1>3 DEF Skip, Wanted, PlanInv
  <2>2. CASE stack = <<>>
    <3>1. stack' = stack
      BY <1>3, <2>2 DEF Skip, Rest
    <3> QED BY <2>1, <3>1 DEF Searching, Keys, Once
  <2>3. CASE stack # <<>>
    <3>1. stack' = Visited /\ Keys(Visited) = visiting /\ Once(Visited)
      BY <1>3, <2>1, <2>3, VisitedKeys DEF Skip, Rest
    <3> QED BY <2>1, <3>1 DEF Searching, Keys, Once
  <2> QED BY <2>2, <2>3
<1>4. ASSUME NEW need \in Wanted, NEW e \in find(need), Descend(need, e)
      PROVE  Searching'
  <2> DEFINE below == IF stack = <<>> THEN stack ELSE Visited
             frame == FrameOf(need.name, e, e.depends)
  <2>1. /\ step = "resolve" /\ step' = step /\ visiting' = visiting \cup {need.name}
        /\ order' = order /\ Visiting /\ need.name \notin visiting
    BY <1>4 DEF Descend, Skips, Wanted, PlanInv
  <2>2. below \in Seq(ToSet(below)) /\ Keys(below) = visiting /\ Once(below)
    <3>1. CASE stack = <<>>
      BY <2>1, <3>1 DEF Searching
    <3>2. CASE stack # <<>>
      BY <2>1, <3>2, TopVisited, VisitedKeys
    <3> QED BY <3>1, <3>2
  <2>3. stack' = Append(below, frame) /\ frame.key = need.name
    BY <1>4 DEF Descend, Frame, FrameOf
  <2> HIDE DEF below, frame
  <2>4. /\ Len(below) \in Nat /\ DOMAIN below = 1 .. Len(below)
        /\ DOMAIN stack' = 1 .. Len(below) + 1 /\ stack'[Len(below) + 1] = frame
        /\ \A i \in 1 .. Len(below) : stack'[i] = below[i]
    BY <2>2, <2>3, AppendProperties
  <2>5. \A i \in DOMAIN stack' : i = Len(below) + 1 \/ i \in DOMAIN below
    BY <2>4
  <2>6. \A i \in DOMAIN below : i \in DOMAIN stack' /\ i # Len(below) + 1 /\ below[i].key # need.name
    BY <2>1, <2>2, <2>4 DEF Keys
  <2>7. Keys(stack') = visiting'
    BY <2>1, <2>2, <2>3, <2>4, <2>5, <2>6 DEF Keys
  <2>8. Once(stack')
    BY <2>2, <2>3, <2>4, <2>5, <2>6 DEF Once
  <2> QED BY <2>1, <2>7, <2>8 DEF Searching, Keys, Once
<1>5. CASE Return
  <2>1. /\ step = "resolve" /\ step' = step /\ stack # <<>> /\ stack' = Front(stack) /\ Visiting
        /\ visiting' = visiting \ {Top.key} /\ visiting = Keys(stack) /\ Once(stack)
    BY <1>5 DEF Return, PlanInv, Searching
  <2>2. /\ Len(stack) \in Nat \ {0} /\ DOMAIN stack = 1 .. Len(stack) /\ stack \in Seq(ToSet(stack))
        /\ Top = stack[Len(stack)] /\ Len(stack) \in DOMAIN stack
    BY <2>1, TopVisited DEF Visiting
  <2>3. /\ DOMAIN stack' = 1 .. Len(stack) - 1
        /\ \A i \in 1 .. Len(stack) - 1 : stack'[i] = stack[i]
    BY <2>1, <2>2, SubSeqUpTo DEF Front
  <2>4. DOMAIN stack' = DOMAIN stack \ {Len(stack)} /\ \A i \in DOMAIN stack' : stack'[i] = stack[i]
    BY <2>2, <2>3
  <2>5. Once(stack)'
    BY <2>1, <2>4 DEF Once
  <2>6. Keys(stack)' = visiting'
    <3>1. \A i \in DOMAIN stack' : stack[i].key # Top.key
      BY <2>1, <2>2, <2>4 DEF Once
    <3> QED BY <2>1, <2>2, <2>4, <3>1 DEF Keys
  <2>7. \A i, j \in DOMAIN order' : order'[i].name = order'[j].name => i = j
    <3>1. CASE order' = order
      BY <3>1 DEF Searching
    <3>2. CASE order' # order
      <4>1. /\ order' = Append(order, Top.entry)
            /\ \A i \in DOMAIN order : order[i].name # Top.entry.name
        BY <1>5, <3>2 DEF Return
      <4>2. order \in Seq(Offered)
        BY DEF PlanInv, PlanTypes
      <4>3. /\ Len(order) \in Nat /\ DOMAIN order = 1 .. Len(order)
            /\ DOMAIN order' = 1 .. Len(order) + 1 /\ order'[Len(order) + 1] = Top.entry
            /\ \A i \in 1 .. Len(order) : order'[i] = order[i]
        BY <4>1, <4>2
      <4>4. \A i \in DOMAIN order' : i = Len(order) + 1 \/ i \in DOMAIN order
        BY <4>3
      <4> QED BY <4>1, <4>3, <4>4 DEF Searching
    <3> QED BY <3>1, <3>2
  <2> QED BY <2>1, <2>5, <2>6, <2>7 DEF Searching
<1>6. CASE Planned
  <2>1. UNCHANGED search /\ step' # "resolve"
    BY <1>6 DEF Planned, Over
  <2> QED BY <1>1, <2>1
<1>7. CASE StartInstall \/ UpgradeNext
  BY <1>2, <1>7 DEF StartInstall, UpgradeNext
<1>8. CASE \/ \E r \in RepoSet : MirrorMoves(r) \/ LoadCut(r)
           \/ \E c \in Commands : Command(c)
           \/ \E reached \in SUBSET RepoSet : Load(reached)
           \/ \E agreed \in BOOLEAN : StartUpgrade(agreed)
  BY <1>1, <1>8 DEF MirrorMoves, LoadCut, Command, Load, StartUpgrade
<1>9. CASE \/ \E need \in Wanted : Unresolved(need)
           \/ \E e \in fetching : Prefetch(e)
           \/ InstallNext \/ InstallFails \/ Killed \/ UNCHANGED planVars
  BY <1>1, <1>9 DEF Unresolved, Prefetch, InstallNext, InstallFails, Killed, Over, planVars
<1> QED BY <1>3, <1>4, <1>5, <1>6, <1>7, <1>8, <1>9 DEF PlanNext, Advance

\* The types of what npkg install and upgrade keep.
PlanKnown == PlanInv /\ WantedInv /\ PlanRange /\ Searching

LEMMA PlanKnownStarts ==
  ASSUME NEW w \in Worlds, PlanInitAt(w)
  PROVE  PlanKnown
<1>1. PlanInv
  BY PlanStarts DEF PlanInit
<1>2. Sound(db, present)
  BY WorldsAssumption DEF PlanInitAt
<1>3. PlanRange
  <2>1. \A r \in RepoSet : index[r] \in {Nothing, CutIndex} \cup 1 .. mirror[r]
    BY DEF PlanInitAt
  <2>2. \A n \in Installed : db[n].name = n
    BY <1>2 DEF Installed, Sound
  <2>3. commands \in 0 .. MaxCommands
    BY PlanConstants DEF PlanInitAt
  <2>4. DOMAIN base = NameSet
    BY <1>1 DEF PlanInv, PlanTypes, PlanInitAt
  <2> QED BY <2>1, <2>2, <2>3, <2>4 DEF PlanInitAt, PlanRange
<1>4. WantedInv /\ Searching
  BY DEF PlanInitAt, WantedInv, Searching
<1> QED BY <1>1, <1>3, <1>4 DEF PlanKnown

LEMMA PlanKnownSteps == ASSUME PlanKnown, [PlanNext]_planVars PROVE PlanKnown'
BY PlanKeeps, WantedSteps, RangeSteps, SearchSteps DEF PlanKnown

LEMMA PlanTyped == PlanKnown => PlanTypeOK
BY DEF PlanKnown, PlanInv, PlanTypes, PlanRange, Searching, Keys, PlanTypeOK

\* The directories of the links npkg service makes.
ServiceRange ==
  /\ services \in 0 .. MaxServices /\ links \subseteq Wants \X Units
  /\ aliases \in [Aliases -> Units \cup {NoUnit}]

LEMMA ServiceRangeKept ==
  ASSUME ServiceInv, ServiceRange, [ServiceNext]_serviceVars
  PROVE  ServiceRange'
<1>1. ASSUME NEW u \in Units, Enable(u)
      PROVE  ServiceRange'
  BY <1>1, InstallsAssumption DEF Enable, ServiceRange
<1>2. ASSUME NEW u \in Units, Disable(u)
      PROVE  ServiceRange'
  BY <1>2, InstallsAssumption DEF Disable, ServiceRange, LinksOf
<1>3. CASE Call
  <2>1. PICK u \in Units : u = Head(pending)
    BY <1>3 DEF Call, ServiceInv, ServiceTypes
  <2>2. \/ links' = links /\ aliases' = aliases
        \/ /\ Comes(u) /\ links' = links \cup _link_targets(u)
           /\ aliases' = [a \in Aliases |-> IF a \in units[u].alias THEN u ELSE aliases[a]]
    BY <1>3, <2>1 DEF Call
  <2>3. Comes(u) => _link_targets(u) \subseteq Wants \X Units
    <3>1. Comes(u) => units[u].in \subseteq Wants
      BY InstallsAssumption DEF Comes, ServiceInv, ServiceTypes
    <3> QED BY <3>1 DEF _link_targets
  <2> QED BY <1>3, <2>2, <2>3 DEF Call, ServiceRange
<1>4. CASE UNCHANGED serviceVars
  BY <1>4 DEF serviceVars, ServiceRange
<1> QED BY <1>1, <1>2, <1>3, <1>4 DEF ServiceNext

LEMMA ServiceTyped == ServiceInv /\ ServiceRange => ServiceTypeOK
BY DEF ServiceInv, ServiceTypes, ServiceRange, ServiceTypeOK

\* What is known of the subsystem a behaviour is about.
PackagesKnown ==
  /\ focus = "plan" => PlanKnown
  /\ focus = "service" => ServiceInv /\ ServiceRange
  /\ focus = "install" => BuildInv /\ InstallTypes
  /\ focus = "kernel" => KernelInv

LEMMA PackagesStart == PackagesInit => PackagesKnown
<1> SUFFICES ASSUME PackagesInit PROVE PackagesKnown
  OBVIOUS
<1>1. focus = "plan" => PlanKnown
  <2>1. focus = "plan" => \E w \in Worlds : PlanInitAt(w)
    BY DEF PackagesInit, PlanInit
  <2> QED BY <2>1, PlanKnownStarts
<1>2. focus = "service" => ServiceInv /\ ServiceRange
  <2>1. focus = "service" => ServiceInit
    BY DEF PackagesInit
  <2>2. ServiceInit => ServiceRange
    BY InstallsAssumption DEF ServiceInit, ServiceInitAt, ServiceRange
  <2> QED BY <2>1, <2>2, ServiceStarts
<1>3. focus = "install" => BuildInv /\ InstallTypes
  <2>1. focus = "install" => InstallerInit
    BY DEF PackagesInit
  <2> QED BY <2>1, InitBuild, InstallTypesStart
<1>4. KernelInv
  BY KernelInvInit, KernelsAssumption DEF PackagesInit
<1> QED BY <1>1, <1>2, <1>3, <1>4 DEF PackagesKnown

LEMMA PackagesStep ==
  ASSUME PackagesKnown, [PackagesNext]_packagesVars
  PROVE  PackagesKnown'
<1>1. focus' = focus
  BY DEF PackagesNext, packagesVars
<1>2. CASE focus = "plan"
  <2>1. [PlanNext]_planVars
    BY <1>2 DEF PackagesNext, packagesVars, npkgVars
  <2> QED BY <1>1, <1>2, <2>1, PlanKnownSteps DEF PackagesKnown
<1>3. CASE focus = "service"
  <2>1. [ServiceNext]_serviceVars
    BY <1>3 DEF PackagesNext, packagesVars, npkgVars
  <2> QED BY <1>1, <1>3, <2>1, ServiceKeeps, ServiceRangeKept DEF PackagesKnown
<1>4. CASE focus = "install"
  <2>1. [InstallerNext]_installerVars
    BY <1>4 DEF PackagesNext, packagesVars, npkgVars
  <2> QED BY <1>1, <1>4, <2>1, BuildInductive, InstallTypesKept DEF PackagesKnown
<1>5. CASE focus = "kernel"
  <2>1. [KernelNext]_kernelVars
    BY <1>5 DEF PackagesNext, packagesVars, npkgVars
  <2> QED BY <1>1, <1>5, <2>1, KernelInvStep, KernelsAssumption DEF PackagesKnown
<1> QED BY <1>1, <1>2, <1>3, <1>4, <1>5 DEF PackagesKnown

\* Whatever the package tools are given, what they keep stays what the code
\* reads it as: a cached index is one that was published, a package is
\* installed under its own name, the stack of resolve visits a name once at a
\* time and plans a package once, the root that is built is a tree of the
\* archive's paths, and no bound of the model is passed (npkg.py:685,
\* npkg_service.py:125, npkg_bootstrap.py:508, installer.py:351).
THEOREM PackagesTypes == PackagesSpec => []PackagesTypeOK
<1>1. PackagesKnown => PackagesTypeOK
  <2>1. PlanKnown => PlanTypeOK
    BY PlanTyped
  <2>2. ServiceInv /\ ServiceRange => ServiceTypeOK
    BY ServiceTyped
  <2>3. InstallTypes => InstallTypeOK
    BY DEF InstallTypes
  <2>4. KernelInv => KernelTypeOK
    BY DEF KernelInv, KernelTypes
  <2> QED BY <2>1, <2>2, <2>3, <2>4 DEF PackagesKnown, PackagesTypeOK
<1>2. PackagesInit => PackagesKnown
  BY PackagesStart
<1>3. PackagesKnown /\ [PackagesNext]_packagesVars => PackagesKnown'
  BY PackagesStep
<1> QED BY <1>1, <1>2, <1>3, PTL DEF PackagesSpec
==============================================================================

----------------------------- MODULE NpkgService ------------------------------
(***************************************************************************)
(* npkg service (src/pkg/npkg_service.py): units of an offline root are    *)
(* enabled by making the links their [Install] section asks for: <<d, u>>  *)
(* in a directory d of what a target wants, and aliases, links to the unit *)
(* in the directory of the units itself.  An alias is not taken for a unit *)
(* of its own, as it would be on the system that runs (find_unit, 40).     *)
(***************************************************************************)
EXTENDS Naturals, FiniteSets, SequencesExt

CONSTANTS
  Units,       \* the units a root may have
  Wants,       \* the directories <target>.wants and <target>.requires
  Aliases,     \* names units may be given besides
  Installs,    \* unit -> [in, also, alias], or NoUnit: what a root has
  NoUnit,
  MaxServices  \* bound: commands

\* A unit names units and is wanted by targets, which have directories of
\* their own; an Also is the words of a line.
ASSUME InstallsAssumption ==
  /\ MaxServices \in Nat
  /\ NoUnit \notin Units
  /\ \A i \in Installs, u \in Units : i[u] # NoUnit =>
       /\ i[u].in \subseteq Wants /\ i[u].alias \subseteq Aliases
       /\ i[u].also \subseteq Units /\ IsFiniteSet(i[u].also)

VARIABLES
  units,    \* the root: unit -> its [Install] section
  links,    \* the links made in the directories of targets
  aliases,  \* alias -> the unit it leads to, or NoUnit
  pending,  \* calls of enable not made yet, the first first
  seen,     \* units enable has come to
  services, \* commands so far
  asked,    \* history: what the commands have asked to be enabled
  ever      \* history: what was asked for at some time, disabled since or not

serviceVars == <<units, links, aliases, pending, seen, services, asked, ever>>

ServiceInitAt(u) ==
  /\ units = u /\ links = {} /\ aliases = [a \in Aliases |-> NoUnit]
  /\ pending = <<>> /\ seen = {} /\ services = 0 /\ asked = {} /\ ever = {}
ServiceInit == \E u \in Installs : ServiceInitAt(u)

is_enabled(u) == \E d \in Wants : <<d, u>> \in links

_link_targets(u) == {<<d, u>> : d \in units[u].in}

\* What a command to enable u is to switch on: u and its companions, as far
\* as they are there and are wanted by something.
There(S) == {u \in S : units[u] # NoUnit}
Companions(S) == {u \in There(S) : units[u].in # {}}
HasItsAlso(S) == \A u \in S : units[u] # NoUnit => units[u].also \subseteq S
Reached(u) == {v \in Units : \A S \in SUBSET Units : u \in S /\ HasItsAlso(S) => v \in S}

Enable(u) ==
  /\ pending = <<>> /\ services < MaxServices /\ units[u] # NoUnit
  /\ pending' = <<u>> /\ seen' = {} /\ services' = services + 1
  /\ asked' = asked \cup Companions(Reached(u)) /\ ever' = ever \cup There(Reached(u))
  /\ UNCHANGED <<units, links, aliases>>

Comes(u) == u \notin seen /\ units[u] # NoUnit

\* One call of enable: its links, in the place of whatever was there, then the
\* units of its Also, each before the ones after it.
Call ==
  /\ pending # <<>>
  /\ \E u \in {Head(pending)} :
       /\ seen' = seen \cup {u}
       /\ IF Comes(u)
          THEN /\ links' = links \cup _link_targets(u)
               /\ aliases' = [a \in Aliases |-> IF a \in units[u].alias THEN u ELSE aliases[a]]
               /\ pending' = SetToSeq(units[u].also) \o Tail(pending)
          ELSE pending' = Tail(pending) /\ UNCHANGED <<links, aliases>>
  /\ UNCHANGED <<units, services, asked, ever>>

\* A bug: links are removed from the .wants directories only.
MutLinksOf(u) == {l \in links : l[2] = u /\ l[1] # "boot.requires"}

LinksOf(u) == {l \in links : l[2] = u}

\* disable: aliases and companions stay.
Disable(u) ==
  /\ pending = <<>> /\ services < MaxServices
  /\ links' = links \ LinksOf(u)
  /\ services' = services + 1 /\ asked' = asked \ {u}
  /\ UNCHANGED <<units, aliases, pending, seen, ever>>

ServiceNext == (\E u \in Units : Enable(u) \/ Disable(u)) \/ Call
ServiceSpec == ServiceInit /\ [][ServiceNext]_serviceVars

-----------------------------------------------------------------------------
ServiceTypeOK ==
  /\ units \in Installs /\ services \in 0 .. MaxServices
  /\ ToSet(pending) \cup seen \subseteq Units
  /\ links \subseteq Wants \X Units
  /\ aliases \in [Aliases -> Units \cup {NoUnit}]
  /\ asked \cup ever \subseteq Units

\* After any commands the targets want what was asked for: a unit is enabled
\* with every companion its Also names, however they name each other, and
\* disabling it leaves no link to it in a directory of a target.  Aliases are
\* another matter: npkg_service.py:22 says that disable removes the links of
\* [Install], but one that was made stays for good, leading to a unit that has
\* it and was once asked for; display-manager.service goes on starting what
\* was disabled (enable and disable, npkg_service.py:125, 168).
EnabledAsAsked ==
  pending = <<>> =>
    /\ {u \in Units : is_enabled(u)} = asked
    /\ \A a \in Aliases :
         LET holders == {u \in ever : a \in units[u].alias}
         IN aliases[a] \in IF holders = {} THEN {NoUnit} ELSE holders
=============================================================================

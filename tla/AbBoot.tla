------------------------------- MODULE AbBoot -------------------------------
(***************************************************************************)
(* The two system slots of NETHOS, the bootloader that chooses between     *)
(* them and the command that manages them: src/payload/bin/nethos-ab, the  *)
(* GRUB logic emitted by src/payload/grub/09_nethos_ab, the boot-success   *)
(* service nethos-ab-markgood and the --slot path of nethos-update.        *)
(*                                                                         *)
(* What survives a power cut is the GRUB environment block (one variable   *)
(* per key, each grub-editenv or save_env call one atomic write) and the   *)
(* contents of the two slots.  Everything else is lost with the power.     *)
(***************************************************************************)
EXTENDS Integers

CONSTANTS
  Builds,     \* the builds of the system a slot can hold
  Sound,      \* those of them that boot as far as multi-user.target
  NoBuild,    \* what a freshly formatted slot holds
  Unset,      \* a grubenv key that is absent or empty
  TRIES,      \* attempts a switch grants the new slot
  MaxCmds,    \* bound: administrative commands started
  MaxCuts     \* bound: power cuts

Slots == {"A", "B"}

ASSUME BuildsAssumption == Sound \subseteq Builds /\ Sound # {} /\ NoBuild \notin Builds
ASSUME UnsetAssumption  == Unset \notin Slots /\ Unset \notin Int
ASSUME TriesAssumption  == TRIES \in 1..3
ASSUME BoundsAssumption == MaxCmds \in Nat /\ MaxCuts \in Nat

VARIABLES
  nethos_slot, nethos_try, nethos_last_good, nethos_try2, next_entry,
              \* the GRUB environment block on the shared ESP
  build,      \* slot -> the build it holds
  whole,      \* slot -> is that build all there
  incomplete, \* slot -> does .nethos-slot-incomplete exist in it
  slotfile,   \* slot -> what its /etc/nethos/slot says (a missing file reads A)
  init,       \* slot -> is the /sbin/init symlink there
  power,      \* "off" (or in GRUB), "booting" or "up"
  running,    \* the slot that is mounted as / when power is not off
  recovery,   \* was it booted with nethos.recovery=1
  mark,       \* the next write of mark-good, or "done" or "failed"
  job,        \* where the administrative command in progress is
  updating,   \* is that command part of nethos-update --slot
  target,     \* its $oth, the slot it took for the idle one
  cmds, cuts, \* how much of the bounds is used
  armed,      \* history: the slot a finished switch is trying, or Unset
  attempts,   \* history: boots of the armed slot since that switch
  settled,    \* history: the slot that ran when it was marked good, or Unset
  misses      \* history: boots since the last complete mark-good, up to 3

grubenv == <<nethos_slot, nethos_try, nethos_last_good, nethos_try2, next_entry>>
disk    == <<build, whole, incomplete, slotfile, init>>
machine == <<power, running, recovery, mark>>
command == <<job, updating, target>>
bounds  == <<cmds, cuts>>
history == <<armed, attempts, settled, misses>>
vars    == <<grubenv, disk, machine, command, bounds, history>>

MarkSteps == {"try", "last_good", "slot", "try2"}
JobSteps  == {"idle", "copy", "stamp", "unflag", "enter", "install", "check",
              "set_slot", "set_try", "set_last_good", "unset_try"}

TypeOK ==
  /\ nethos_slot \in Slots \cup {Unset}
  /\ nethos_try \in 0..3 \cup {Unset}
  /\ nethos_last_good \in Slots \cup {Unset}
  /\ nethos_try2 \in 0..3 \cup {Unset}
  /\ next_entry \in Slots \cup {Unset}
  /\ build \in [Slots -> Builds \cup {NoBuild}]
  /\ whole \in [Slots -> BOOLEAN]
  /\ incomplete \in [Slots -> BOOLEAN]
  /\ slotfile \in [Slots -> Slots]
  /\ init \in [Slots -> BOOLEAN]
  /\ power \in {"off", "booting", "up"}
  /\ running \in Slots
  /\ recovery \in BOOLEAN
  /\ mark \in MarkSteps \cup {"done", "failed"}
  /\ job \in JobSteps
  /\ updating \in BOOLEAN
  /\ target \in Slots
  /\ cmds \in 0..MaxCmds
  /\ cuts \in 0..MaxCuts
  /\ armed \in Slots \cup {Unset}
  /\ attempts \in 0..(TRIES + 1)
  /\ settled \in Slots \cup {Unset}
  /\ misses \in 0..3

-----------------------------------------------------------------------------
(* A machine just installed with --layout ab: a sound system in A, B        *)
(* formatted and empty, no NETHOS key in the environment block.            *)

Init ==
  /\ nethos_slot = Unset /\ nethos_try = Unset /\ nethos_last_good = Unset
  /\ nethos_try2 = Unset /\ next_entry = Unset
  /\ \E b \in Sound : build = [s \in Slots |-> IF s = "A" THEN b ELSE NoBuild]
  /\ whole = [s \in Slots |-> s = "A"]
  /\ incomplete = [s \in Slots |-> FALSE]
  /\ slotfile = [s \in Slots |-> "A"]
  /\ init = [s \in Slots |-> s = "A"]
  /\ power = "off" /\ running = "A" /\ recovery = FALSE /\ mark = "try"
  /\ job = "idle" /\ updating = FALSE /\ target = "B"
  /\ cmds = 0 /\ cuts = 0
  /\ armed = Unset /\ attempts = 0 /\ settled = Unset /\ misses = 0

\* A bug: the identity is taken from the environment block.
MutActiveSlot == IF nethos_slot = "B" THEN "B" ELSE "A"

active_slot == slotfile[running]
other_slot  == IF active_slot = "A" THEN "B" ELSE "A"

-----------------------------------------------------------------------------
(* GRUB.  The three `if`s that spend an attempt are in sequence, each      *)
(* reading what the one before it has just set.                            *)

TryOf(n)      == IF n = Unset THEN 0 ELSE n
Dec(k, n)     == IF n = k THEN k - 1 ELSE n

\* Bugs: an unguarded decrement; one that is never saved.
MutSpendBelow(n) == IF n = Unset THEN n ELSE n - 1
MutSpendNone(n)  == n

Spend(n)      == IF n = Unset THEN n ELSE Dec(1, Dec(2, Dec(3, n)))
Saved(n)      == IF n = Unset THEN {} ELSE {m \in 0..3 : Spend(n) <= m /\ m < n}

OutOfAttempts == TryOf(nethos_try) = 0 /\ nethos_last_good # Unset
Try2Seen      == IF nethos_try2 = Unset THEN 3 ELSE nethos_try2

\* A bug: the fallback is computed and not used.
MutGrubSlot   == IF nethos_slot = "B" THEN "B" ELSE "A"

GrubSlot      == IF OutOfAttempts THEN nethos_last_good
                 ELSE IF nethos_slot = "B" THEN "B" ELSE "A"
RecoveryBoot  == OutOfAttempts /\ Try2Seen = 0

Plus1(n, top) == IF n < top THEN n + 1 ELSE top

\* 00_header has a one-shot entry to boot: it clears the key, sets boot_once
\* and 09_nethos_ab leaves every decision alone.
GrubOneShot ==
  /\ power = "off" /\ next_entry # Unset
  /\ running' = next_entry /\ recovery' = TRUE
  /\ power' = "booting" /\ mark' = "try"
  /\ next_entry' = Unset
  /\ misses' = Plus1(misses, 3)
  /\ UNCHANGED <<nethos_slot, nethos_try, nethos_last_good, nethos_try2,
                 disk, command, bounds, armed, attempts, settled>>

\* The ordinary boot: choose, spend an attempt, save it, boot.
GrubBoot ==
  /\ power = "off" /\ next_entry = Unset
  /\ running' = GrubSlot /\ recovery' = RecoveryBoot
  /\ power' = "booting" /\ mark' = "try"
  /\ nethos_try2' = IF OutOfAttempts THEN Spend(Try2Seen) ELSE nethos_try2
  /\ nethos_try' = Spend(nethos_try)
  /\ misses' = Plus1(misses, 3)
  /\ attempts' = IF GrubSlot = armed THEN Plus1(attempts, TRIES + 1) ELSE attempts
  /\ UNCHANGED <<nethos_slot, nethos_last_good, next_entry, disk, command,
                 bounds, armed, settled>>

\* The power goes while GRUB is between two save_env calls.  An attempt is
\* spent only if one of them was reached.
GrubCut ==
  /\ power = "off" /\ cuts < MaxCuts
  /\ next_entry' = Unset
  /\ IF next_entry # Unset
     THEN UNCHANGED <<nethos_try, nethos_try2, attempts, misses>>
     ELSE /\ nethos_try' \in {nethos_try} \cup Saved(nethos_try)
          /\ nethos_try2' \in {nethos_try2} \cup
                 (IF OutOfAttempts THEN Saved(Try2Seen) ELSE {})
          /\ attempts' = IF nethos_try' # nethos_try /\ GrubSlot = armed
                         THEN Plus1(attempts, TRIES + 1) ELSE attempts
          /\ misses' = IF nethos_try2' # nethos_try2 THEN Plus1(misses, 3) ELSE misses
  /\ cuts' = cuts + 1
  /\ UNCHANGED <<nethos_slot, nethos_last_good, disk, machine, command, cmds,
                 armed, settled>>

-----------------------------------------------------------------------------
(* The boot itself.  A whole sound slot reaches multi-user.target and a    *)
(* whole unsound one never does; half a system may do either.              *)

MayComeUp(s)  == build[s] \in Sound \/ ~whole[s]
MustComeUp(s) == build[s] \in Sound /\ whole[s]

ComeUp ==
  /\ power = "booting" /\ MayComeUp(running)
  /\ power' = "up"
  /\ UNCHANGED <<grubenv, disk, running, recovery, mark, command, bounds, history>>

\* It hangs or panics and whoever is in front of it resets the machine.
Hang ==
  /\ power = "booting" /\ ~MustComeUp(running)
  /\ power' = "off"
  /\ UNCHANGED <<grubenv, disk, running, recovery, mark, command, bounds, history>>

\* nethos-ab mark-good, four writes, run once by the service at
\* multi-user.target of every boot (recovery boots included).
MarkGood(step, next) ==
  /\ power = "up" /\ mark = step
  /\ mark' = next
  /\ armed' = Unset
  /\ attempts' = 0

MarkTry ==
  /\ MarkGood("try", "last_good")
  /\ nethos_try' = 0
  /\ settled' = Unset
  /\ UNCHANGED <<nethos_slot, nethos_last_good, nethos_try2, next_entry, disk,
                 power, running, recovery, command, bounds, misses>>

\* A bug: the idle slot is recorded.
MutMarkLastGood ==
  /\ MarkGood("last_good", "slot")
  /\ nethos_last_good' = other_slot
  /\ UNCHANGED <<nethos_slot, nethos_try, nethos_try2, next_entry, disk,
                 power, running, recovery, command, bounds, settled, misses>>

MarkLastGood ==
  /\ MarkGood("last_good", "slot")
  /\ nethos_last_good' = active_slot
  /\ UNCHANGED <<nethos_slot, nethos_try, nethos_try2, next_entry, disk,
                 power, running, recovery, command, bounds, settled, misses>>

MarkSlot ==
  /\ MarkGood("slot", "try2")
  /\ nethos_slot' = active_slot
  /\ UNCHANGED <<nethos_try, nethos_last_good, nethos_try2, next_entry, disk,
                 power, running, recovery, command, bounds, settled, misses>>

\* A bug: the attempts of the fallback slot are not given back.
MutMarkTry2 ==
  /\ MarkGood("try2", "done")
  /\ misses' = 0
  /\ settled' = Unset
  /\ UNCHANGED <<grubenv, disk, power, running, recovery, command, bounds>>

MarkTry2 ==
  /\ MarkGood("try2", "done")
  /\ nethos_try2' = Unset
  /\ misses' = 0
  /\ settled' = IF /\ whole[running] /\ TryOf(nethos_try) = 0
                   /\ job \notin {"set_try", "set_last_good"}
                THEN running ELSE Unset
  /\ UNCHANGED <<nethos_slot, nethos_try, nethos_last_good, next_entry, disk,
                 power, running, recovery, command, bounds>>

\* The service may not get that far: /boot not mounted, an unwritable ESP.
\* SuccessExitStatus=0 1 and the counters stay where they are.
MarkFails ==
  /\ power = "up" /\ mark \in MarkSteps
  /\ mark' = "failed"
  /\ UNCHANGED <<grubenv, disk, power, running, recovery, command, bounds, history>>

\* A power cut at any moment of a boot or of a running system.  An install
\* into the idle slot that it interrupts leaves that slot half written.
PowerCut ==
  /\ power # "off" /\ cuts < MaxCuts
  /\ power' = "off"
  /\ job' = "idle" /\ updating' = FALSE
  /\ whole' = IF job = "install" THEN [whole EXCEPT ![target] = FALSE] ELSE whole
  /\ cuts' = cuts + 1
  /\ UNCHANGED <<grubenv, build, incomplete, slotfile, init, running, recovery,
                 mark, target, cmds, history>>

\* An orderly reboot between commands.
Reboot ==
  /\ power = "up" /\ job = "idle" /\ cmds < MaxCmds
  /\ power' = "off"
  /\ cmds' = cmds + 1
  /\ UNCHANGED <<grubenv, disk, running, recovery, mark, command, cuts, history>>

-----------------------------------------------------------------------------
(* nethos-ab, one command at a time.                                       *)

Begin ==
  /\ power = "up" /\ job = "idle" /\ cmds < MaxCmds
  /\ cmds' = cmds + 1

At(step) == power = "up" /\ job = step

\* sync: mount the idle slot, raise the flag, start rsync.  How far rsync has
\* come when it stops is open: the identity file and /sbin/init of the slot
\* are the old ones or already the copies.  A running system that takes
\* itself for the other slot copies itself onto itself.
SyncBegin(upd) ==
  /\ Begin
  /\ job' = "copy" /\ updating' = upd /\ target' = other_slot
  /\ incomplete' = [incomplete EXCEPT ![other_slot] = TRUE]
  /\ build' = [build EXCEPT ![other_slot] = build[running]]
  /\ whole' = IF other_slot = running THEN whole ELSE [whole EXCEPT ![other_slot] = FALSE]
  /\ \E f \in {slotfile[other_slot], slotfile[running]},
        i \in {init[other_slot], init[running]} :
       /\ slotfile' = [slotfile EXCEPT ![other_slot] = f]
       /\ init' = [init EXCEPT ![other_slot] = i]
  /\ UNCHANGED <<grubenv, machine, cuts, history>>

\* rsync is through: the slot is a copy, down to the name of the slot it is
\* a copy of.
SyncCopied ==
  /\ At("copy")
  /\ job' = "stamp"
  /\ slotfile' = [slotfile EXCEPT ![target] = slotfile[running]]
  /\ init' = [init EXCEPT ![target] = init[running]]
  /\ UNCHANGED <<grubenv, build, whole, incomplete, machine, updating, target,
                 bounds, history>>

\* The copy learns which slot it is and which root it mounts.
\* A bug: the copy keeps the identity of the slot it is a copy of.
MutSyncStamp ==
  /\ At("stamp")
  /\ job' = "unflag"
  /\ whole' = [whole EXCEPT ![target] = whole[running]]
  /\ UNCHANGED <<grubenv, build, incomplete, slotfile, init, machine, updating,
                 target, bounds, history>>

SyncStamp ==
  /\ At("stamp")
  /\ job' = "unflag"
  /\ slotfile' = [slotfile EXCEPT ![target] = target]
  /\ whole' = [whole EXCEPT ![target] = whole[running]]
  /\ UNCHANGED <<grubenv, build, incomplete, init, machine, updating, target,
                 bounds, history>>

SyncEnd ==
  /\ At("unflag")
  /\ job' = IF updating THEN "enter" ELSE "idle"
  /\ incomplete' = [incomplete EXCEPT ![target] = FALSE]
  /\ UNCHANGED <<grubenv, build, whole, slotfile, init, machine, updating,
                 target, bounds, history>>

\* set -e: rsync or a later step failed, and the flag outlives it.
SyncFails ==
  /\ job \in {"copy", "stamp"} /\ power = "up"
  /\ job' = "idle" /\ updating' = FALSE
  /\ UNCHANGED <<grubenv, disk, machine, target, bounds, history>>

\* nethos-update --slot: after sync the installer runs in a chroot of what
\* `nethos-ab status` now calls the idle slot.  No flag is raised.
InstallBegin ==
  /\ At("enter")
  /\ job' = "install" /\ target' = other_slot
  /\ UNCHANGED <<grubenv, disk, machine, updating, bounds, history>>

InstallEnd(b) ==
  /\ At("install")
  /\ job' = "check"
  /\ build' = [build EXCEPT ![target] = b]
  /\ UNCHANGED <<grubenv, whole, incomplete, slotfile, init, machine, updating,
                 target, bounds, history>>

\* It failed, before or after it had replaced something: nethos-update dies.
InstallFails ==
  /\ At("install")
  /\ job' = "idle" /\ updating' = FALSE
  /\ \E w \in {FALSE, whole[target]} : whole' = [whole EXCEPT ![target] = w]
  /\ UNCHANGED <<grubenv, build, incomplete, slotfile, init, machine, target,
                 bounds, history>>

\* switch refuses on  [ -f flag ] || [ ! -x init ] && [ ! -L init ]  which the
\* shell reads from left to right.  /sbin/init is a symlink that resolves on
\* the running system, so -x and -L both say whether it is there.
Refuses(s) == (incomplete[s] \/ ~init[s]) /\ ~init[s]

SwitchPasses ==
  /\ ~Refuses(other_slot)
  /\ job' = "set_slot" /\ target' = other_slot
  /\ UNCHANGED <<grubenv, disk, machine, cuts, history>>

SwitchBegin == Begin /\ SwitchPasses /\ UNCHANGED updating

\* The switch nethos-update ends with, or the update dies of its refusal.
UpdateSwitches ==
  /\ At("check") /\ UNCHANGED cmds
  /\ \/ SwitchPasses /\ UNCHANGED updating
     \/ /\ Refuses(other_slot)
        /\ job' = "idle" /\ updating' = FALSE
        /\ UNCHANGED <<grubenv, disk, machine, target, cuts, history>>

SwitchSlot ==
  /\ At("set_slot")
  /\ job' = "set_try"
  /\ nethos_slot' = target
  /\ armed' = Unset /\ attempts' = 0 /\ settled' = Unset
  /\ UNCHANGED <<nethos_try, nethos_last_good, nethos_try2, next_entry, disk,
                 machine, updating, target, bounds, misses>>

SwitchTry ==
  /\ At("set_try")
  /\ job' = "set_last_good"
  /\ nethos_try' = TRIES
  /\ UNCHANGED <<nethos_slot, nethos_last_good, nethos_try2, next_entry, disk,
                 machine, updating, target, bounds, history>>

\* A bug: the slot switched to becomes its own fallback.
MutSwitchLastGood ==
  /\ At("set_last_good")
  /\ job' = "idle" /\ updating' = FALSE
  /\ nethos_last_good' = target
  /\ armed' = Unset /\ attempts' = 0
  /\ UNCHANGED <<nethos_slot, nethos_try, nethos_try2, next_entry, disk,
                 machine, target, bounds, settled, misses>>

\* From here a switch is complete: armed, unless mark-good got in between.
SwitchLastGood ==
  /\ At("set_last_good")
  /\ job' = "idle" /\ updating' = FALSE
  /\ nethos_last_good' = active_slot
  /\ armed' = IF nethos_slot = target /\ nethos_try = TRIES THEN target ELSE Unset
  /\ attempts' = 0
  /\ UNCHANGED <<nethos_slot, nethos_try, nethos_try2, next_entry, disk,
                 machine, target, bounds, settled, misses>>

\* rollback: an absent nethos_last_good reads as the empty string, the
\* `|| other_slot` never runs.
RollbackSlot ==
  /\ Begin
  /\ job' = "unset_try"
  /\ nethos_slot' = nethos_last_good
  /\ armed' = Unset /\ attempts' = 0
  /\ UNCHANGED <<nethos_try, nethos_last_good, nethos_try2, next_entry, disk,
                 machine, updating, target, cuts, settled, misses>>

RollbackTry ==
  /\ At("unset_try")
  /\ job' = "idle"
  /\ nethos_try' = Unset
  /\ UNCHANGED <<nethos_slot, nethos_last_good, nethos_try2, next_entry, disk,
                 machine, updating, target, bounds, history>>

Recovery ==
  /\ Begin
  /\ next_entry' = active_slot
  /\ UNCHANGED <<nethos_slot, nethos_try, nethos_last_good, nethos_try2, disk,
                 machine, command, cuts, history>>

-----------------------------------------------------------------------------
Firmware == GrubOneShot \/ GrubBoot \/ GrubCut \/ ComeUp \/ Hang \/ PowerCut \/ Reboot
Marking  == MarkTry \/ MarkLastGood \/ MarkSlot \/ MarkTry2 \/ MarkFails
Syncing  == \/ \E upd \in BOOLEAN : SyncBegin(upd)
            \/ SyncCopied \/ SyncStamp \/ SyncEnd \/ SyncFails
Updating == \/ InstallBegin \/ InstallFails \/ UpdateSwitches
            \/ \E b \in Builds : InstallEnd(b)
Switching == \/ SwitchBegin \/ SwitchSlot \/ SwitchTry \/ SwitchLastGood
             \/ RollbackSlot \/ RollbackTry \/ Recovery

Next == Firmware \/ Marking \/ Syncing \/ Updating \/ Switching

Spec == Init /\ [][Next]_vars

\* The firmware starts GRUB whenever the machine is off, a boot that can end
\* ends, and a hung machine is reset sooner or later.  Nothing is assumed of
\* the commands, of mark-good or of the absence of power cuts.
Fairness == /\ WF_vars(GrubOneShot \/ GrubBoot)
            /\ WF_vars(ComeUp)
            /\ WF_vars(Hang)

FairSpec == Spec /\ Fairness

-----------------------------------------------------------------------------
(* The keys of the environment block and the power state seen as SlotTrial. *)

Left0 == TryOf(nethos_try)

Trial == INSTANCE SlotTrial WITH
  None    <- Unset,
  Tries   <- TRIES,
  on      <- IF power = "off" THEN Unset ELSE running,
  trusted <- nethos_last_good,
  trial   <- IF Left0 = 0 THEN Unset ELSE IF nethos_slot = "B" THEN "B" ELSE "A",
  left    <- Left0,
  once    <- next_entry # Unset

\* GRUB, nethos-ab and mark-good together keep the promise of SlotTrial: no
\* boot of a slot on trial is free, no attempt is ever given back by the
\* firmware, and with no attempt left the trusted slot boots.
KeepsTrialPromise == Trial!Spec

-----------------------------------------------------------------------------
(* Properties.                                                             *)

\* While a whole system that has marked itself good is running, the slot
\* GRUB would fall back to is the one it runs from, at every moment of every
\* command and of a switch in particular (nethos-ab:138-140, 171-173).
FallbackIsRunning ==
  (power = "up" /\ mark = "done" /\ whole[running]) => nethos_last_good = running

\* From a complete mark-good of a whole system until the next switch writes
\* something, GRUB chooses the slot that system ran from: syncs, rollbacks, recovery boots,
\* reboots and power cuts, also ones inside GRUB, change nothing about it
\* (nethos-ab:157-179, 09_nethos_ab:96-139).
SettledBoots == settled # Unset => GrubSlot = settled

\* A switched-to slot is never booted more often than it was granted
\* (09_nethos_ab:131-133).
AttemptsBounded == attempts <= TRIES

\* A whole slot knows its own name, so a system that runs from one never
\* takes itself for the idle slot (nethos-ab:104, nethos-slots.sh:26-27).
WholeSlotKnowsItself == \A s \in Slots : whole[s] => slotfile[s] = s

\* No step of sync, update or switch changes the slot a whole system is
\* running from (docs/ABUPDATE.md:33, "An upgrade never touches the running
\* system"; nethos-ab:80-118, nethos-update:151-187).
RunningSlotUntouched ==
  [][power = "up" /\ whole[running] =>
       /\ build'[running] = build[running] /\ whole'[running] = whole[running]
       /\ incomplete'[running] = incomplete[running]
       /\ slotfile'[running] = slotfile[running]]_vars

\* GRUB goes to recovery by itself only after a boot that was not marked
\* good (nethos-ab:174-178 says why mark-good clears nethos_try2).
RecoveryAfterFailure ==
  [][power = "off" /\ next_entry = Unset /\ power' = "booting" /\ recovery'
       => misses >= 1]_vars

\* If the fallback slot holds a whole sound system when the machine is off,
\* the machine comes up, whatever is armed and whatever state it is in.
ComesBack ==
  (/\ power = "off" /\ nethos_last_good # Unset
   /\ \E s \in Slots : s = nethos_last_good /\ MustComeUp(s)) ~> power = "up"

\* nethos-ab:135-137, "Three attempts, then back to what worked": GRUB leaves
\* an armed slot for the fallback only after TRIES boots of it.
ThreeAttempts ==
  [][GrubBoot /\ armed # Unset /\ running' # armed => attempts = TRIES]_vars

\* nethos-ab:87-88 and 129-131: a slot that carries the half-written flag is
\* not a complete system and switch does not accept it.
SwitchRefusesIncomplete ==
  [][SwitchSlot => ~incomplete[target]]_vars
=============================================================================

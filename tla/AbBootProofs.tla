---------------------------- MODULE AbBootProofs ----------------------------
(***************************************************************************)
(* Proofs about AbBoot for every set of builds, every number of attempts   *)
(* the assumptions allow and any number of commands and power cuts.        *)
(***************************************************************************)
EXTENDS AbBoot, TLAPS

Counters == 0..3 \cup {Unset}

\* The three cascading decrements spend every attempt there is in one go.
LEMMA SpendAll ==
  ASSUME NEW n \in Counters
  PROVE  Spend(n) = IF n = Unset THEN Unset ELSE 0
BY UnsetAssumption DEF Counters, Spend, Dec

\* What a power cut between two save_env calls can leave is a count again.
LEMMA SavedType ==
  ASSUME NEW n \in Counters
  PROVE  Saved(n) \subseteq 0..3
BY DEF Saved

LEMMA Plus1Type ==
  ASSUME NEW top \in Nat, NEW n \in 0..top
  PROVE  /\ Plus1(n, top) \in 0..top
         /\ n < top => Plus1(n, top) = n + 1
BY DEF Plus1

\* Where GRUB goes is always a slot, and the count of the fallback it reads
\* is always a number.
LEMMA GrubTypes ==
  ASSUME TypeOK
  PROVE  GrubSlot \in Slots /\ Try2Seen \in 0..3 /\ TryOf(nethos_try) \in 0..3
BY UnsetAssumption DEF TypeOK, GrubSlot, OutOfAttempts, Try2Seen, TryOf, Slots

LEMMA SlotNames ==
  ASSUME TypeOK
  PROVE  active_slot \in Slots /\ other_slot \in Slots /\ other_slot # active_slot
BY DEF TypeOK, active_slot, other_slot, Slots

-----------------------------------------------------------------------------
LEMMA FirmwareType == TypeOK /\ Firmware => TypeOK'
<1> SUFFICES ASSUME TypeOK, Firmware PROVE TypeOK'
  OBVIOUS
<1> USE DEF grubenv, disk, machine, command, bounds, history
<1>1. CASE GrubOneShot
  <2>1. misses' \in 0..3
    BY <1>1, Plus1Type DEF GrubOneShot, TypeOK
  <2> QED BY <1>1, <2>1, UnsetAssumption DEF GrubOneShot, TypeOK, MarkSteps
<1>2. CASE GrubBoot
  <2>1. misses' \in 0..3
    BY <1>2, Plus1Type DEF GrubBoot, TypeOK
  <2>2. attempts' \in 0..(TRIES + 1)
    BY <1>2, Plus1Type, TriesAssumption DEF GrubBoot, TypeOK
  <2>3. nethos_try' \in Counters /\ nethos_try2' \in Counters
    BY <1>2, GrubTypes, SpendAll DEF GrubBoot, TypeOK, Counters
  <2>4. recovery' \in BOOLEAN
    BY <1>2 DEF GrubBoot, RecoveryBoot, OutOfAttempts
  <2> QED BY <1>2, <2>1, <2>2, <2>3, <2>4, GrubTypes
          DEF GrubBoot, TypeOK, MarkSteps, Counters
<1>3. CASE GrubCut
  <2>1. misses' \in 0..3
    BY <1>3, Plus1Type DEF GrubCut, TypeOK
  <2>2. attempts' \in 0..(TRIES + 1)
    BY <1>3, Plus1Type, TriesAssumption DEF GrubCut, TypeOK
  <2>3. nethos_try' \in Counters /\ nethos_try2' \in Counters
    BY <1>3, GrubTypes, SavedType DEF GrubCut, TypeOK, Counters
  <2>4. cuts' \in 0..MaxCuts
    BY <1>3, BoundsAssumption DEF GrubCut, TypeOK
  <2> QED BY <1>3, <2>1, <2>2, <2>3, <2>4 DEF GrubCut, TypeOK, Counters
<1>4. CASE ComeUp
  BY <1>4 DEF ComeUp, TypeOK
<1>5. CASE Hang
  BY <1>5 DEF Hang, TypeOK
<1>6. CASE PowerCut
  <2>1. cuts' \in 0..MaxCuts
    BY <1>6, BoundsAssumption DEF PowerCut, TypeOK
  <2>2. whole' \in [Slots -> BOOLEAN]
    BY <1>6 DEF PowerCut, TypeOK
  <2> QED BY <1>6, <2>1, <2>2 DEF PowerCut, TypeOK, JobSteps
<1>7. CASE Reboot
  <2>1. cmds' \in 0..MaxCmds
    BY <1>7, BoundsAssumption DEF Reboot, TypeOK
  <2> QED BY <1>7, <2>1 DEF Reboot, TypeOK
<1> QED BY <1>1, <1>2, <1>3, <1>4, <1>5, <1>6, <1>7 DEF Firmware

LEMMA MarkingType == TypeOK /\ Marking => TypeOK'
<1> SUFFICES ASSUME TypeOK, Marking PROVE TypeOK'
  OBVIOUS
<1> USE TriesAssumption DEF grubenv, disk, machine, command, bounds, history,
        MarkGood, MarkSteps
<1>1. CASE MarkTry      BY <1>1 DEF MarkTry, TypeOK
<1>2. CASE MarkLastGood BY <1>2, SlotNames DEF MarkLastGood, TypeOK
<1>3. CASE MarkSlot     BY <1>3, SlotNames DEF MarkSlot, TypeOK
<1>4. CASE MarkTry2
  <2>1. settled' \in Slots \cup {Unset}
    BY <1>4 DEF MarkTry2, TypeOK
  <2> QED BY <1>4, <2>1 DEF MarkTry2, TypeOK
<1>5. CASE MarkFails    BY <1>5 DEF MarkFails, TypeOK
<1> QED BY <1>1, <1>2, <1>3, <1>4, <1>5 DEF Marking

LEMMA SyncingType == TypeOK /\ Syncing => TypeOK'
<1> SUFFICES ASSUME TypeOK, Syncing PROVE TypeOK'
  OBVIOUS
<1> USE DEF grubenv, disk, machine, command, bounds, history, JobSteps
<1>1. ASSUME NEW upd \in BOOLEAN, SyncBegin(upd) PROVE TypeOK'
  <2>1. cmds' \in 0..MaxCmds
    BY <1>1, BoundsAssumption DEF SyncBegin, Begin, TypeOK
  <2>2. /\ incomplete' \in [Slots -> BOOLEAN]
        /\ build' \in [Slots -> Builds \cup {NoBuild}]
        /\ whole' \in [Slots -> BOOLEAN]
    BY <1>1, SlotNames DEF SyncBegin, TypeOK
  <2>3. slotfile' \in [Slots -> Slots] /\ init' \in [Slots -> BOOLEAN]
    BY <1>1, SlotNames DEF SyncBegin, TypeOK
  <2> QED BY <1>1, <2>1, <2>2, <2>3, SlotNames DEF SyncBegin, TypeOK
<1>2. CASE SyncCopied BY <1>2 DEF SyncCopied, TypeOK
<1>3. CASE SyncStamp  BY <1>3 DEF SyncStamp, TypeOK
<1>4. CASE SyncEnd    BY <1>4 DEF SyncEnd, TypeOK
<1>5. CASE SyncFails  BY <1>5 DEF SyncFails, TypeOK
<1> QED BY <1>1, <1>2, <1>3, <1>4, <1>5 DEF Syncing

LEMMA UpdatingType == TypeOK /\ Updating => TypeOK'
<1> SUFFICES ASSUME TypeOK, Updating PROVE TypeOK'
  OBVIOUS
<1> USE DEF grubenv, disk, machine, command, bounds, history, JobSteps
<1>1. CASE InstallBegin  BY <1>1, SlotNames DEF InstallBegin, TypeOK
<1>2. CASE InstallFails
  <2>1. whole' \in [Slots -> BOOLEAN]
    <3>1. PICK w \in {FALSE, whole[target]} : whole' = [whole EXCEPT ![target] = w]
      BY <1>2 DEF InstallFails
    <3>2. w \in BOOLEAN
      BY <3>1 DEF TypeOK
    <3> QED BY <3>1, <3>2 DEF TypeOK
  <2>2. job' \in JobSteps /\ updating' \in BOOLEAN
    BY <1>2 DEF InstallFails
  <2>3. UNCHANGED <<nethos_slot, nethos_try, nethos_last_good, nethos_try2,
                    next_entry, build, incomplete, slotfile, init, power,
                    running, recovery, mark, target, cmds, cuts, armed,
                    attempts, settled, misses>>
    BY <1>2 DEF InstallFails
  <2> HIDE <1>2 DEF JobSteps
  <2> QED BY <2>1, <2>2, <2>3 DEF TypeOK
<1>3. CASE UpdateSwitches
  BY <1>3, SlotNames DEF UpdateSwitches, SwitchPasses, TypeOK
<1>4. ASSUME NEW b \in Builds, InstallEnd(b) PROVE TypeOK'
  BY <1>4 DEF InstallEnd, TypeOK
<1> QED BY <1>1, <1>2, <1>3, <1>4 DEF Updating

LEMMA SwitchingType == TypeOK /\ Switching => TypeOK'
<1> SUFFICES ASSUME TypeOK, Switching PROVE TypeOK'
  OBVIOUS
<1> USE TriesAssumption, BoundsAssumption
    DEF grubenv, disk, machine, command, bounds, history, JobSteps
<1>1. CASE SwitchBegin
  BY <1>1, SlotNames DEF SwitchBegin, SwitchPasses, Begin, TypeOK
<1>2. CASE SwitchSlot     BY <1>2 DEF SwitchSlot, TypeOK
<1>3. CASE SwitchTry      BY <1>3 DEF SwitchTry, TypeOK
<1>4. CASE SwitchLastGood
  <2>1. armed' \in Slots \cup {Unset}
    BY <1>4 DEF SwitchLastGood, TypeOK
  <2>2. nethos_last_good' \in Slots /\ attempts' \in 0..(TRIES + 1)
    BY <1>4, SlotNames DEF SwitchLastGood, TypeOK
  <2> QED BY <1>4, <2>1, <2>2 DEF SwitchLastGood, TypeOK
<1>5. CASE RollbackSlot   BY <1>5 DEF RollbackSlot, Begin, TypeOK
<1>6. CASE RollbackTry    BY <1>6 DEF RollbackTry, TypeOK
<1>7. CASE Recovery       BY <1>7, SlotNames DEF Recovery, Begin, TypeOK
<1> QED BY <1>1, <1>2, <1>3, <1>4, <1>5, <1>6, <1>7 DEF Switching

LEMMA InitType == Init => TypeOK
<1> SUFFICES ASSUME Init PROVE TypeOK
  OBVIOUS
<1>1. build \in [Slots -> Builds \cup {NoBuild}]
  BY BuildsAssumption DEF Init
<1>2. slotfile \in [Slots -> Slots]
  BY DEF Init, Slots
<1>3. /\ whole \in [Slots -> BOOLEAN] /\ incomplete \in [Slots -> BOOLEAN]
      /\ init \in [Slots -> BOOLEAN]
  BY DEF Init
<1>4. cmds \in 0..MaxCmds /\ cuts \in 0..MaxCuts /\ attempts \in 0..(TRIES + 1)
  BY BoundsAssumption, TriesAssumption DEF Init
<1>5. /\ running \in Slots /\ target \in Slots
      /\ mark \in MarkSteps \cup {"done", "failed"} /\ job \in JobSteps
  BY DEF Init, Slots, MarkSteps, JobSteps
<1>6. power \in {"off", "booting", "up"} /\ misses \in 0..3
  BY DEF Init
<1>7. recovery \in BOOLEAN /\ updating \in BOOLEAN
  BY Zenon DEF Init
<1> QED BY <1>1, <1>2, <1>3, <1>4, <1>5, <1>6, <1>7 DEF Init, TypeOK

\* Every key of the environment block, every slot and every process of the
\* machine stays in the states nethos-ab, GRUB and systemd can put it in.
THEOREM TypeCorrect == Spec => []TypeOK
<1>1. Init => TypeOK
  BY InitType
<1>2. TypeOK /\ [Next]_vars => TypeOK'
  <2>1. TypeOK /\ UNCHANGED vars => TypeOK'
    BY DEF TypeOK, vars, grubenv, disk, machine, command, bounds, history
  <2> QED BY <2>1, FirmwareType, MarkingType, SyncingType, UpdatingType,
             SwitchingType DEF Next
<1> QED BY <1>1, <1>2, PTL DEF Spec

-----------------------------------------------------------------------------
(* The inductive invariant.  Commands run only on a system that is up, the *)
(* slot being written is not a whole one, and the slot a switch arms is    *)
(* never the one it falls back to.                                         *)

Writing == {"copy", "stamp", "unflag", "install"}

CommandsWhileUp ==
  /\ power # "up" => job = "idle"
  /\ power = "booting" => mark = "try"

WrittenSlot ==
  /\ job \in {"copy", "stamp"} => ~whole[target]
  /\ job \in Writing /\ target = running => ~whole[running]

MarkedSlot ==
  power = "up" /\ mark \in {"slot", "try2", "done"} /\ whole[running]
    => nethos_last_good = running

SettledSlot ==
  settled # Unset => /\ nethos_last_good = settled
                     /\ TryOf(nethos_try) = 0
                     /\ job \notin {"set_try", "set_last_good"}
                     /\ mark # "last_good"

ArmedSlot ==
  /\ job \in {"set_slot", "set_try", "set_last_good"} => target # active_slot
  /\ job \in {"set_try", "set_last_good"} => armed = Unset
  /\ armed = Unset => attempts = 0
  /\ armed # Unset => /\ nethos_last_good \in Slots \ {armed}
                      /\ attempts + TryOf(nethos_try) <= TRIES

IInv == /\ TypeOK
        /\ CommandsWhileUp
        /\ WholeSlotKnowsItself
        /\ WrittenSlot
        /\ MarkedSlot
        /\ SettledSlot
        /\ ArmedSlot

\* A whole system never takes itself for the idle slot.
LEMMA OtherIsNotRunning ==
  ASSUME TypeOK, WholeSlotKnowsItself
  PROVE  whole[running] => other_slot # running
BY SlotNames DEF TypeOK, WholeSlotKnowsItself, active_slot

LEMMA FirmwareInv == IInv /\ Firmware => IInv'
<1> SUFFICES ASSUME IInv, Firmware PROVE IInv'
  OBVIOUS
<1>0. TypeOK'
  BY FirmwareType DEF IInv
<1> USE DEF grubenv, disk, machine, command, bounds, history
<1>1. CASE GrubOneShot
  <2>1. job = "idle"
    BY <1>1 DEF GrubOneShot, IInv, CommandsWhileUp
  <2> QED
    BY <1>0, <1>1, <2>1 DEF GrubOneShot, IInv, CommandsWhileUp,
       WholeSlotKnowsItself, WrittenSlot, MarkedSlot, SettledSlot, ArmedSlot, Writing
<1>2. CASE GrubBoot
  <2>1. job = "idle" /\ job' = "idle"
    BY <1>2 DEF GrubBoot, IInv, CommandsWhileUp
  <2>2. TryOf(nethos_try') = 0 /\ TryOf(nethos_try) \in 0..3
    BY <1>2, GrubTypes, SpendAll, UnsetAssumption
       DEF GrubBoot, IInv, TypeOK, Counters, TryOf
  <2>3. CommandsWhileUp' /\ WholeSlotKnowsItself' /\ WrittenSlot' /\ MarkedSlot'
    BY <1>2, <2>1 DEF GrubBoot, IInv, CommandsWhileUp, WholeSlotKnowsItself,
       WrittenSlot, MarkedSlot, Writing
  <2>4. SettledSlot'
    BY <1>2, <2>1, <2>2 DEF GrubBoot, IInv, SettledSlot
  <2>5. ArmedSlot'
    <3>1. CASE GrubSlot = armed
      <4>1. armed # Unset
        BY <3>1, GrubTypes, UnsetAssumption DEF IInv, Slots
      <4>2. TryOf(nethos_try) > 0
        BY <3>1, <4>1, <2>2, UnsetAssumption
           DEF IInv, ArmedSlot, GrubSlot, OutOfAttempts, Slots
      <4>3. attempts \in Nat /\ attempts + TryOf(nethos_try) <= TRIES
        BY <4>1 DEF IInv, ArmedSlot, TypeOK
      <4>4. attempts' = attempts + 1
        BY <1>2, <3>1, <4>2, <4>3, <2>2, TriesAssumption DEF GrubBoot, Plus1
      <4>5. attempts' + TryOf(nethos_try') <= TRIES
        BY <4>2, <4>3, <4>4, <2>2, TriesAssumption
      <4> QED BY <1>2, <2>1, <4>1, <4>5 DEF GrubBoot, IInv, ArmedSlot
    <3>2. CASE GrubSlot # armed
      <4>1. attempts' = attempts /\ attempts \in Nat
        BY <1>2, <3>2 DEF GrubBoot, IInv, TypeOK
      <4>2. armed # Unset => attempts' + TryOf(nethos_try') <= TRIES
        BY <4>1, <2>2, TriesAssumption DEF IInv, ArmedSlot
      <4> QED BY <1>2, <2>1, <4>1, <4>2 DEF GrubBoot, IInv, ArmedSlot
    <3> QED BY <3>1, <3>2
  <2> QED BY <1>0, <2>3, <2>4, <2>5 DEF IInv
<1>3. CASE GrubCut
  <2>1. job = "idle" /\ job' = "idle" /\ power' = "off"
    BY <1>3 DEF GrubCut, IInv, CommandsWhileUp
  <2>2. TryOf(nethos_try) \in 0..3 /\ TryOf(nethos_try') \in 0..3
    <3>1. nethos_try \in 0..3 \cup {Unset} /\ nethos_try' \in 0..3 \cup {Unset}
      BY <1>0 DEF IInv, TypeOK
    <3> QED BY <3>1, UnsetAssumption DEF TryOf
  <2>3. nethos_try' # nethos_try => TryOf(nethos_try') < TryOf(nethos_try)
    <3> SUFFICES ASSUME nethos_try' # nethos_try
                 PROVE  TryOf(nethos_try') < TryOf(nethos_try)
      OBVIOUS
    <3>1. nethos_try \in 0..3 \cup {Unset}
      BY DEF IInv, TypeOK
    <3>2. nethos_try' \in Saved(nethos_try)
      BY <1>3 DEF GrubCut
    <3>3. nethos_try # Unset /\ nethos_try' \in 0..3 /\ nethos_try' < nethos_try
      BY <3>2, Zenon DEF Saved
    <3> QED BY <3>1, <3>3, UnsetAssumption DEF TryOf
  <2>4. CommandsWhileUp' /\ WholeSlotKnowsItself' /\ WrittenSlot' /\ MarkedSlot'
    BY <1>3, <2>1 DEF GrubCut, IInv, CommandsWhileUp, WholeSlotKnowsItself,
       WrittenSlot, MarkedSlot, Writing
  <2>5. SettledSlot'
    BY <1>3, <2>1, <2>2, <2>3 DEF GrubCut, IInv, SettledSlot
  <2>6. ArmedSlot'
    <3>1. attempts \in Nat
      BY DEF IInv, TypeOK
    <3>2. armed # Unset => attempts' + TryOf(nethos_try') <= TRIES
      <4> SUFFICES ASSUME armed # Unset
                   PROVE  attempts' + TryOf(nethos_try') <= TRIES
        OBVIOUS
      <4>1. attempts + TryOf(nethos_try) <= TRIES
        BY DEF IInv, ArmedSlot
      <4>2. CASE nethos_try' # nethos_try
        <5>1. attempts' \in {attempts, attempts + 1}
          BY <1>3, <3>1, <2>2, <2>3, <4>1, <4>2, TriesAssumption DEF GrubCut, Plus1
        <5> QED BY <5>1, <4>1, <4>2, <2>2, <2>3, <3>1, TriesAssumption
      <4>3. CASE nethos_try' = nethos_try
        BY <1>3, <4>1, <4>3 DEF GrubCut
      <4> QED BY <4>2, <4>3
    <3>3. armed = Unset => attempts' = 0
      BY <1>3, GrubTypes, UnsetAssumption DEF GrubCut, IInv, ArmedSlot, Slots
    <3> QED BY <1>3, <2>1, <3>2, <3>3 DEF GrubCut, IInv, ArmedSlot
  <2> QED BY <1>0, <2>4, <2>5, <2>6 DEF IInv
<1>4. CASE ComeUp
  BY <1>0, <1>4 DEF ComeUp, IInv, CommandsWhileUp, WholeSlotKnowsItself,
     WrittenSlot, MarkedSlot, SettledSlot, ArmedSlot, active_slot
<1>5. CASE Hang
  <2>1. job = "idle"
    BY <1>5 DEF Hang, IInv, CommandsWhileUp
  <2> QED BY <1>0, <1>5, <2>1 DEF Hang, IInv, CommandsWhileUp,
     WholeSlotKnowsItself, WrittenSlot, MarkedSlot, SettledSlot, ArmedSlot, Writing
<1>6. CASE PowerCut
  <2>1. \A s \in Slots : whole'[s] => whole[s]
    BY <1>6 DEF PowerCut, IInv, TypeOK
  <2> QED BY <1>0, <1>6, <2>1 DEF PowerCut, IInv, CommandsWhileUp,
     WholeSlotKnowsItself, WrittenSlot, MarkedSlot, SettledSlot, ArmedSlot, Writing
<1>7. CASE Reboot
  BY <1>0, <1>7 DEF Reboot, IInv, CommandsWhileUp,
     WholeSlotKnowsItself, WrittenSlot, MarkedSlot, SettledSlot, ArmedSlot, Writing
<1> QED BY <1>1, <1>2, <1>3, <1>4, <1>5, <1>6, <1>7 DEF Firmware

LEMMA MarkingInv == IInv /\ Marking => IInv'
<1> SUFFICES ASSUME IInv, Marking PROVE IInv'
  OBVIOUS
<1>0. TypeOK'
  BY MarkingType DEF IInv
<1>1. WholeSlotKnowsItself' /\ WrittenSlot' /\ CommandsWhileUp'
  BY DEF Marking, MarkGood, MarkTry, MarkLastGood, MarkSlot, MarkTry2, MarkFails,
     IInv, WholeSlotKnowsItself, WrittenSlot, CommandsWhileUp, disk, machine, command
<1>2. ArmedSlot'
  BY UnsetAssumption DEF Marking, MarkGood, MarkTry, MarkLastGood, MarkSlot,
     MarkTry2, MarkFails, IInv, ArmedSlot, active_slot, grubenv, disk, command, history
<1> USE DEF grubenv, disk, command, history
<1>3. CASE MarkTry
  BY <1>0, <1>1, <1>2, <1>3 DEF MarkTry, MarkGood, IInv, MarkedSlot, SettledSlot
<1>4. CASE MarkLastGood
  <2>1. MarkedSlot'
    BY <1>4 DEF MarkLastGood, MarkGood, IInv, TypeOK, MarkedSlot,
       WholeSlotKnowsItself, active_slot
  <2>2. SettledSlot'
    BY <1>4 DEF MarkLastGood, MarkGood, IInv, SettledSlot
  <2> QED BY <1>0, <1>1, <1>2, <2>1, <2>2 DEF IInv
<1>5. CASE MarkSlot
  BY <1>0, <1>1, <1>2, <1>5 DEF MarkSlot, MarkGood, IInv, MarkedSlot, SettledSlot
<1>6. CASE MarkTry2
  <2>1. MarkedSlot'
    BY <1>6 DEF MarkTry2, MarkGood, IInv, MarkedSlot
  <2>2. settled' # Unset => nethos_last_good' = settled' /\ TryOf(nethos_try') = 0
                            /\ job' \notin {"set_try", "set_last_good"}
    BY <1>6 DEF MarkTry2, MarkGood, IInv, MarkedSlot, TryOf
  <2>3. SettledSlot'
    BY <1>6, <2>2 DEF MarkTry2, MarkGood, SettledSlot
  <2> QED BY <1>0, <1>1, <1>2, <2>1, <2>3 DEF IInv
<1>7. CASE MarkFails
  BY <1>0, <1>1, <1>2, <1>7 DEF MarkFails, IInv, MarkedSlot, SettledSlot
<1> QED BY <1>3, <1>4, <1>5, <1>6, <1>7 DEF Marking

LEMMA SyncingInv == IInv /\ Syncing => IInv'
<1> SUFFICES ASSUME IInv, Syncing PROVE IInv'
  OBVIOUS
<1>0. TypeOK'
  BY SyncingType DEF IInv
<1> USE DEF grubenv, machine, history
<1>1. ASSUME NEW upd \in BOOLEAN, SyncBegin(upd) PROVE IInv'
  <2>1. /\ job' = "copy" /\ power = "up" /\ job = "idle" /\ target' = other_slot
        /\ running' = running /\ other_slot \in Slots
        /\ \A s \in Slots : whole'[s] => whole[s]
        /\ ~whole'[other_slot]
    BY <1>1, SlotNames, OtherIsNotRunning DEF SyncBegin, Begin, IInv, TypeOK
  <2>2. \A s \in Slots : whole'[s] => slotfile'[s] = slotfile[s]
    BY <1>1, <2>1 DEF SyncBegin, IInv, TypeOK
  <2>3. WholeSlotKnowsItself' /\ WrittenSlot' /\ CommandsWhileUp'
    BY <1>1, <2>1, <2>2 DEF SyncBegin, IInv, WholeSlotKnowsItself, WrittenSlot,
       CommandsWhileUp
  <2>4. MarkedSlot' /\ SettledSlot' /\ ArmedSlot'
    BY <1>1, <2>1 DEF SyncBegin, IInv, TypeOK, MarkedSlot, SettledSlot, ArmedSlot
  <2> QED BY <1>0, <2>3, <2>4 DEF IInv
<1>2. CASE SyncCopied
  <2>1. \A s \in Slots : whole[s] => slotfile'[s] = slotfile[s]
    BY <1>2 DEF SyncCopied, At, IInv, TypeOK, WrittenSlot
  <2> QED BY <1>0, <1>2, <2>1 DEF SyncCopied, At, IInv, CommandsWhileUp,
     WholeSlotKnowsItself, WrittenSlot, MarkedSlot, SettledSlot, ArmedSlot, Writing
<1>3. CASE SyncStamp
  <2>1. WholeSlotKnowsItself'
    BY <1>3 DEF SyncStamp, IInv, TypeOK, WholeSlotKnowsItself
  <2>2. whole'[running] => whole[running]
    BY <1>3 DEF SyncStamp, IInv, TypeOK
  <2> QED BY <1>0, <1>3, <2>1, <2>2 DEF SyncStamp, At, IInv, CommandsWhileUp,
     WrittenSlot, MarkedSlot, SettledSlot, ArmedSlot, Writing
<1>4. CASE SyncEnd
  BY <1>0, <1>4 DEF SyncEnd, At, IInv, CommandsWhileUp, WholeSlotKnowsItself,
     WrittenSlot, MarkedSlot, SettledSlot, ArmedSlot, Writing
<1>5. CASE SyncFails
  BY <1>0, <1>5 DEF SyncFails, IInv, CommandsWhileUp, WholeSlotKnowsItself,
     WrittenSlot, MarkedSlot, SettledSlot, ArmedSlot, Writing, disk
<1> QED BY <1>1, <1>2, <1>3, <1>4, <1>5 DEF Syncing

LEMMA UpdatingInv == IInv /\ Updating => IInv'
<1> SUFFICES ASSUME IInv, Updating PROVE IInv'
  OBVIOUS
<1>0. TypeOK'
  BY UpdatingType DEF IInv
<1> USE DEF grubenv, machine, history
<1>1. CASE InstallBegin
  BY <1>0, <1>1, OtherIsNotRunning DEF InstallBegin, At, IInv, CommandsWhileUp,
     WholeSlotKnowsItself, WrittenSlot, MarkedSlot, SettledSlot, ArmedSlot,
     Writing, disk
<1>2. CASE InstallFails
  <2>1. \A s \in Slots : whole'[s] => whole[s]
    BY <1>2 DEF InstallFails, IInv, TypeOK
  <2> QED BY <1>0, <1>2, <2>1 DEF InstallFails, At, IInv, TypeOK, CommandsWhileUp,
     WholeSlotKnowsItself, WrittenSlot, MarkedSlot, SettledSlot, ArmedSlot, Writing
<1>3. CASE UpdateSwitches
  BY <1>0, <1>3, SlotNames DEF UpdateSwitches, SwitchPasses, At, IInv,
     CommandsWhileUp, WholeSlotKnowsItself, WrittenSlot, MarkedSlot, SettledSlot,
     ArmedSlot, Writing, disk, active_slot
<1>4. ASSUME NEW b \in Builds, InstallEnd(b) PROVE IInv'
  BY <1>0, <1>4 DEF InstallEnd, At, IInv, CommandsWhileUp, WholeSlotKnowsItself,
     WrittenSlot, MarkedSlot, SettledSlot, ArmedSlot, Writing
<1> QED BY <1>1, <1>2, <1>3, <1>4 DEF Updating

LEMMA SwitchingInv == IInv /\ Switching => IInv'
<1> SUFFICES ASSUME IInv, Switching PROVE IInv'
  OBVIOUS
<1>0. TypeOK'
  BY SwitchingType DEF IInv
<1> USE DEF disk, machine, command, history
<1>1. CASE SwitchBegin
  BY <1>0, <1>1, SlotNames DEF SwitchBegin, SwitchPasses, Begin, IInv,
     CommandsWhileUp, WholeSlotKnowsItself, WrittenSlot, MarkedSlot, SettledSlot,
     ArmedSlot, Writing, grubenv, active_slot
<1>2. CASE SwitchSlot
  BY <1>0, <1>2, UnsetAssumption DEF SwitchSlot, At, IInv, CommandsWhileUp,
     WholeSlotKnowsItself, WrittenSlot, MarkedSlot, SettledSlot, ArmedSlot,
     Writing, active_slot
<1>3. CASE SwitchTry
  BY <1>0, <1>3 DEF SwitchTry, At, IInv, CommandsWhileUp, WholeSlotKnowsItself,
     WrittenSlot, MarkedSlot, SettledSlot, ArmedSlot, Writing, active_slot
<1>4. CASE SwitchLastGood
  <2>1. nethos_last_good' = active_slot /\ active_slot \in Slots /\ target # active_slot
    BY <1>4, SlotNames DEF SwitchLastGood, At, IInv, ArmedSlot
  <2>2. MarkedSlot'
    BY <1>4, <2>1 DEF SwitchLastGood, IInv, TypeOK, MarkedSlot,
       WholeSlotKnowsItself, active_slot
  <2>3. ArmedSlot'
    <3>1. attempts' = 0 /\ job' = "idle" /\ nethos_try' = nethos_try
          /\ armed' \in {Unset, target} /\ (armed' # Unset => nethos_try = TRIES)
      BY <1>4 DEF SwitchLastGood
    <3>2. armed' # Unset => TryOf(nethos_try') = TRIES
      BY <3>1, TriesAssumption, UnsetAssumption DEF TryOf
    <3> QED BY <3>1, <3>2, <2>1, TriesAssumption DEF ArmedSlot
  <2>4. SettledSlot'
    BY <1>4 DEF SwitchLastGood, At, IInv, SettledSlot
  <2> QED BY <1>0, <1>4, <2>2, <2>3, <2>4 DEF SwitchLastGood, IInv, CommandsWhileUp,
     WholeSlotKnowsItself, WrittenSlot, Writing
<1>5. CASE RollbackSlot
  BY <1>0, <1>5 DEF RollbackSlot, Begin, IInv, CommandsWhileUp,
     WholeSlotKnowsItself, WrittenSlot, MarkedSlot, SettledSlot, ArmedSlot,
     Writing, active_slot
<1>6. CASE RollbackTry
  <2>1. TryOf(nethos_try') = 0 /\ TryOf(nethos_try) \in 0..3 /\ attempts \in Nat
    BY <1>6, GrubTypes DEF RollbackTry, TryOf, IInv, TypeOK
  <2> QED BY <1>0, <1>6, <2>1, TriesAssumption DEF RollbackTry, At, IInv, CommandsWhileUp,
     WholeSlotKnowsItself, WrittenSlot, MarkedSlot, SettledSlot, ArmedSlot,
     Writing, active_slot
<1>7. CASE Recovery
  BY <1>0, <1>7 DEF Recovery, Begin, IInv, CommandsWhileUp,
     WholeSlotKnowsItself, WrittenSlot, MarkedSlot, SettledSlot, ArmedSlot,
     Writing, active_slot
<1> QED BY <1>1, <1>2, <1>3, <1>4, <1>5, <1>6, <1>7 DEF Switching

LEMMA Inductive == Spec => []IInv
<1>1. Init => IInv
  <2> SUFFICES ASSUME Init PROVE IInv
    OBVIOUS
  <2>1. TypeOK
    BY InitType
  <2>2. WholeSlotKnowsItself
    BY DEF Init, WholeSlotKnowsItself
  <2> QED BY <2>1, <2>2 DEF Init, IInv, CommandsWhileUp, WrittenSlot, MarkedSlot,
     SettledSlot, ArmedSlot, Writing
<1>2. IInv /\ [Next]_vars => IInv'
  <2>1. IInv /\ UNCHANGED vars => IInv'
    BY DEF IInv, TypeOK, CommandsWhileUp, WholeSlotKnowsItself, WrittenSlot,
       MarkedSlot, SettledSlot, ArmedSlot, Writing, active_slot, TryOf,
       vars, grubenv, disk, machine, command, bounds, history
  <2> QED BY <2>1, FirmwareInv, MarkingInv, SyncingInv, UpdatingInv, SwitchingInv
          DEF Next
<1> QED BY <1>1, <1>2, PTL DEF Spec

-----------------------------------------------------------------------------
\* The fallback of a running marked system is itself, whatever command or
\* switch is in progress.
THEOREM FallbackSafe == Spec => []FallbackIsRunning
<1>1. IInv => FallbackIsRunning
  BY DEF IInv, MarkedSlot, FallbackIsRunning
<1> QED BY <1>1, Inductive, PTL

\* A slot marked good keeps being GRUB's choice until the next switch.
THEOREM SettledSafe == Spec => []SettledBoots
<1>1. IInv => SettledBoots
  BY DEF IInv, SettledSlot, SettledBoots, GrubSlot, OutOfAttempts
<1> QED BY <1>1, Inductive, PTL

\* No slot on trial is booted more often than it was granted.
THEOREM AttemptsSafe == Spec => []AttemptsBounded
<1>1. IInv => AttemptsBounded
  <2> SUFFICES ASSUME IInv PROVE attempts <= TRIES
    BY DEF AttemptsBounded
  <2>1. attempts \in Nat /\ TryOf(nethos_try) \in 0..3
    BY GrubTypes DEF IInv, TypeOK
  <2> QED BY <2>1, TriesAssumption DEF IInv, ArmedSlot
<1> QED BY <1>1, Inductive, PTL

\* A whole slot carries its own name.
THEOREM NamesSafe == Spec => []WholeSlotKnowsItself
<1>1. IInv => WholeSlotKnowsItself
  BY DEF IInv
<1> QED BY <1>1, Inductive, PTL

-----------------------------------------------------------------------------
\* A whole running system is not touched by anything a command writes: the
\* slot being written is another one.
LEMMA RunningKept ==
  ASSUME IInv, Next, power = "up", whole[running]
  PROVE  /\ build'[running] = build[running] /\ whole'[running] = whole[running]
         /\ incomplete'[running] = incomplete[running]
         /\ slotfile'[running] = slotfile[running]
<1> DEFINE Kept == /\ build'[running] = build[running]
                   /\ whole'[running] = whole[running]
                   /\ incomplete'[running] = incomplete[running]
                   /\ slotfile'[running] = slotfile[running]
<1>1. other_slot # running
  BY OtherIsNotRunning DEF IInv
<1>2. job \in Writing => target # running
  BY DEF IInv, WrittenSlot
<1>3. running \in Slots /\ target \in Slots /\ other_slot \in Slots
      /\ build \in [Slots -> Builds \cup {NoBuild}] /\ whole \in [Slots -> BOOLEAN]
      /\ incomplete \in [Slots -> BOOLEAN] /\ slotfile \in [Slots -> Slots]
  BY SlotNames DEF IInv, TypeOK
<1>4. ASSUME UNCHANGED disk PROVE Kept
  BY <1>4 DEF disk
<1>5. CASE Firmware
  <2>1. CASE PowerCut
    BY <2>1, <1>2, <1>3 DEF PowerCut, Writing
  <2> QED BY <1>5, <2>1, <1>4
          DEF Firmware, GrubOneShot, GrubBoot, GrubCut, ComeUp, Hang, Reboot
<1>6. CASE Marking
  BY <1>4, <1>6 DEF Marking, MarkTry, MarkLastGood, MarkSlot, MarkTry2, MarkFails
<1>7. CASE Syncing
  <2>1. ASSUME NEW upd \in BOOLEAN, SyncBegin(upd) PROVE Kept
    BY <2>1, <1>1, <1>3 DEF SyncBegin
  <2>2. CASE SyncCopied
    BY <2>2, <1>2, <1>3 DEF SyncCopied, At, Writing
  <2>3. CASE SyncStamp
    BY <2>3, <1>2, <1>3 DEF SyncStamp, At, Writing
  <2>4. CASE SyncEnd
    BY <2>4, <1>2, <1>3 DEF SyncEnd, At, Writing
  <2>5. CASE SyncFails
    BY <2>5, <1>4 DEF SyncFails
  <2> QED BY <1>7, <2>1, <2>2, <2>3, <2>4, <2>5 DEF Syncing
<1>8. CASE Updating
  <2>1. CASE InstallBegin
    BY <2>1, <1>4 DEF InstallBegin
  <2>2. CASE InstallFails
    BY <2>2, <1>2, <1>3 DEF InstallFails, At, Writing
  <2>3. CASE UpdateSwitches
    BY <2>3, <1>4 DEF UpdateSwitches, SwitchPasses
  <2>4. ASSUME NEW b \in Builds, InstallEnd(b) PROVE Kept
    BY <2>4, <1>2, <1>3 DEF InstallEnd, At, Writing
  <2> QED BY <1>8, <2>1, <2>2, <2>3, <2>4 DEF Updating
<1>9. CASE Switching
  BY <1>4, <1>9 DEF Switching, SwitchBegin, SwitchPasses, SwitchSlot, SwitchTry,
     SwitchLastGood, RollbackSlot, RollbackTry, Recovery
<1> QED BY <1>5, <1>6, <1>7, <1>8, <1>9 DEF Next

\* An update never touches the system it runs on.
THEOREM RunningSafe == Spec => RunningSlotUntouched
<1>1. IInv /\ [Next]_vars =>
        [power = "up" /\ whole[running] =>
           /\ build'[running] = build[running] /\ whole'[running] = whole[running]
           /\ incomplete'[running] = incomplete[running]
           /\ slotfile'[running] = slotfile[running]]_vars
  BY RunningKept
<1> QED BY <1>1, Inductive, PTL DEF Spec, RunningSlotUntouched

-----------------------------------------------------------------------------
(* The refinement of SlotTrial.  Every step that writes one key of the     *)
(* environment block or turns the power on or off is one step of SlotTrial *)
(* and every other step is a stutter.                                      *)

TrialStep   == [Trial!Next]_(Trial!vars)
TrialOn     == IF power = "off" THEN Unset ELSE running
TrialSlot   == IF nethos_slot = "B" THEN "B" ELSE "A"
TrialStutter == UNCHANGED <<grubenv, TrialOn>>

LEMMA StutterStep == TrialStutter => TrialStep
BY DEF TrialStutter, TrialStep, TrialOn, Trial!vars, Left0, TryOf, grubenv

LEMMA TrialTypes ==
  ASSUME TypeOK
  PROVE  /\ Left0 \in 0..3 /\ TrialSlot \in Slots /\ Unset \notin Slots
         /\ running \in Slots
         /\ TrialOn = Unset <=> power = "off"
BY GrubTypes, UnsetAssumption DEF TypeOK, Left0, TrialSlot, TrialOn, Slots

LEMMA FirmwareStep == ASSUME TypeOK, TypeOK', Firmware PROVE TrialStep
<1> USE DEF machine, command, grubenv
<1>1. CASE GrubOneShot
  <2>1. Trial!OneShot
    BY <1>1, TrialTypes DEF GrubOneShot, TypeOK, Trial!OneShot, Left0
  <2> QED BY <2>1 DEF TrialStep, Trial!Next
<1>2. CASE GrubBoot
  <2>1. Left0' = 0
    BY <1>2, SpendAll, UnsetAssumption DEF GrubBoot, TypeOK, Counters, Left0, TryOf
  <2>2. power = "off" /\ power' # "off" /\ running' \in Slots
        /\ next_entry = Unset /\ next_entry' = Unset /\ nethos_last_good' = nethos_last_good
    BY <1>2, GrubTypes DEF GrubBoot
  <2>3. CASE Left0 > 0
    <3>1. running' = TrialSlot
      BY <1>2, <2>3 DEF GrubBoot, GrubSlot, OutOfAttempts, Left0, TrialSlot
    <3>2. 0 \in 0..(Left0 - 1)
      BY <2>3, TrialTypes
    <3>3. Trial!Boot
      BY <2>1, <2>2, <2>3, <3>1, <3>2 DEF Trial!Boot, Trial!Left, TrialSlot
    <3> QED BY <3>3 DEF TrialStep, Trial!Next
  <2>4. CASE Left0 = 0
    <3>1. nethos_last_good \in {Unset, running'}
      BY <1>2, <2>4 DEF GrubBoot, GrubSlot, OutOfAttempts, Left0
    <3>2. Trial!Boot
      BY <2>1, <2>2, <2>4, <3>1 DEF Trial!Boot, Trial!Left
    <3> QED BY <3>2 DEF TrialStep, Trial!Next
  <2> QED BY <2>3, <2>4, TrialTypes
<1>3. CASE GrubCut
  <2>1. Left0' \in 0..Left0
    <3>1. CASE nethos_try' = nethos_try
      BY <3>1, TrialTypes DEF Left0, TryOf
    <3>2. CASE nethos_try' # nethos_try
      <4>1. nethos_try' \in Saved(nethos_try)
        BY <1>3, <3>2 DEF GrubCut
      <4>2. nethos_try # Unset /\ nethos_try' \in 0..3 /\ nethos_try' < nethos_try
        BY <4>1, Zenon DEF Saved
      <4>3. nethos_try \in 0..3
        BY <4>2 DEF TypeOK
      <4> QED BY <4>2, <4>3, UnsetAssumption DEF Left0, TryOf
    <3> QED BY <3>1, <3>2
  <2>2. Trial!Lose
    BY <1>3, <2>1 DEF GrubCut, Trial!Lose, Trial!Left
  <2> QED BY <2>2 DEF TrialStep, Trial!Next
<1>4. CASE ComeUp
  <2>1. TrialStutter
    BY <1>4 DEF ComeUp, TrialStutter, TrialOn
  <2> QED BY <2>1, StutterStep
<1>5. ASSUME power # "off", power' = "off", UNCHANGED grubenv PROVE TrialStep
  <2>1. Trial!Stop
    BY <1>5, TrialTypes DEF Trial!Stop, Left0, TryOf
  <2> QED BY <2>1 DEF TrialStep, Trial!Next
<1>6. CASE Hang \/ PowerCut \/ Reboot
  BY <1>5, <1>6 DEF Hang, PowerCut, Reboot
<1> QED BY <1>1, <1>2, <1>3, <1>4, <1>6 DEF Firmware

\* A running system re-aims nethos_slot: a trial in progress gets another
\* slot and where there is none nothing changes.
LEMMA AimStep ==
  ASSUME TypeOK, TypeOK', power = "up",
         UNCHANGED machine \/ (power' = "up" /\ running' = running),
         UNCHANGED <<nethos_try, nethos_last_good, nethos_try2, next_entry>>
  PROVE  TrialStep
<1>1. power' = "up" /\ running' = running
  BY DEF machine
<1>2. Left0' = Left0
  BY DEF Left0, TryOf
<1>3. CASE Left0 = 0
  BY <1>1, <1>2, <1>3 DEF TrialStep, Trial!vars
<1>4. CASE Left0 > 0
  <2>1. Trial!Aim
    BY <1>2, <1>4 DEF Trial!Aim, Slots
  <2>2. Trial!Decide
    BY <1>1, <2>1, TrialTypes DEF Trial!Decide
  <2> QED BY <2>2 DEF TrialStep, Trial!Next
<1> QED BY <1>3, <1>4, TrialTypes

LEMMA DisarmStep ==
  ASSUME TypeOK, power = "up", power' = "up", running' = running, TryOf(nethos_try') = 0,
         UNCHANGED <<nethos_last_good, next_entry>>
  PROVE  TrialStep
<1>1. Trial!Disarm
  BY DEF Trial!Disarm, Trial!Left, Left0, TryOf
<1>2. Trial!Decide
  BY <1>1, TrialTypes DEF Trial!Decide
<1> QED BY <1>2 DEF TrialStep, Trial!Next

LEMMA TrustStep ==
  ASSUME TypeOK, power = "up", power' = "up", running' = running, nethos_last_good' \in Slots,
         UNCHANGED <<nethos_slot, nethos_try, next_entry>>
  PROVE  TrialStep
<1>1. Trial!Trust
  BY DEF Trial!Trust, Left0, TryOf
<1>2. Trial!Decide
  BY <1>1, TrialTypes DEF Trial!Decide
<1> QED BY <1>2 DEF TrialStep, Trial!Next

LEMMA MarkingStep == ASSUME TypeOK, TypeOK', Marking PROVE TrialStep
<1> USE DEF MarkGood
<1>1. CASE MarkTry
  BY <1>1, DisarmStep, UnsetAssumption DEF MarkTry, TryOf
<1>2. CASE MarkLastGood
  BY <1>2, TrustStep, SlotNames DEF MarkLastGood
<1>3. CASE MarkSlot
  BY <1>3, AimStep DEF MarkSlot
<1>4. CASE MarkTry2
  <2>1. power = "up" /\ power' = "up" /\ running' = running
        /\ UNCHANGED <<nethos_slot, nethos_try, nethos_last_good, next_entry>>
    BY <1>4 DEF MarkTry2
  <2> QED BY <2>1 DEF TrialStep, Trial!vars, Left0, TryOf
<1>5. CASE MarkFails
  BY <1>5, StutterStep DEF MarkFails, TrialStutter, TrialOn
<1> QED BY <1>1, <1>2, <1>3, <1>4, <1>5 DEF Marking

LEMMA SwitchingStep == ASSUME TypeOK, TypeOK', Switching PROVE TrialStep
<1> USE DEF machine, At, Begin
<1>1. CASE SwitchBegin
  BY <1>1, StutterStep DEF SwitchBegin, SwitchPasses, TrialStutter, TrialOn
<1>2. CASE SwitchSlot
  BY <1>2, AimStep DEF SwitchSlot
<1>3. CASE SwitchTry
  <2>1. power = "up" /\ power' = "up" /\ running' = running /\ Left0' = TRIES
        /\ UNCHANGED <<nethos_slot, nethos_last_good, next_entry>>
    BY <1>3, TriesAssumption, UnsetAssumption DEF SwitchTry, Left0, TryOf
  <2>2. Trial!Arm
    BY <2>1, TriesAssumption DEF Trial!Arm, Slots
  <2>3. Trial!Decide
    BY <2>1, <2>2, TrialTypes DEF Trial!Decide
  <2> QED BY <2>3 DEF TrialStep, Trial!Next
<1>4. CASE SwitchLastGood
  BY <1>4, TrustStep, SlotNames DEF SwitchLastGood
<1>5. CASE RollbackSlot
  BY <1>5, AimStep DEF RollbackSlot
<1>6. CASE RollbackTry
  BY <1>6, DisarmStep DEF RollbackTry, TryOf
<1>7. CASE Recovery
  <2>1. power = "up" /\ power' = "up" /\ running' = running /\ next_entry' # Unset
        /\ UNCHANGED <<nethos_slot, nethos_try, nethos_last_good>>
    BY <1>7, SlotNames, UnsetAssumption DEF Recovery
  <2>2. Trial!Ask
    BY <2>1 DEF Trial!Ask, Left0, TryOf
  <2>3. Trial!Decide
    BY <2>1, <2>2, TrialTypes DEF Trial!Decide
  <2> QED BY <2>3 DEF TrialStep, Trial!Next
<1> QED BY <1>1, <1>2, <1>3, <1>4, <1>5, <1>6, <1>7 DEF Switching

\* GRUB, nethos-ab and mark-good together implement SlotTrial.
THEOREM TrialKept == Spec => KeepsTrialPromise
<1>1. Init => Trial!Init
  BY DEF Init, Trial!Init, Left0, TryOf
<1>2. ASSUME TypeOK, TypeOK', [Next]_vars PROVE TrialStep
  <2>1. CASE UNCHANGED vars
    BY <2>1, StutterStep DEF vars, machine, grubenv, TrialStutter, TrialOn
  <2>2. CASE Syncing \/ Updating
    <3>1. TrialStutter
      BY <2>2 DEF Syncing, SyncBegin, SyncCopied, SyncStamp, SyncEnd, SyncFails, Updating,
         InstallBegin, InstallEnd, InstallFails, UpdateSwitches, SwitchPasses,
         machine, grubenv, TrialStutter, TrialOn
    <3> QED BY <3>1, StutterStep
  <2> QED BY <1>2, <2>1, <2>2, FirmwareStep, MarkingStep, SwitchingStep DEF Next
<1> QED BY <1>1, <1>2, TypeCorrect, PTL DEF Spec, KeepsTrialPromise, Trial!Spec, TrialStep

-----------------------------------------------------------------------------
(* Automatic recovery.  The attempts of the fallback are counted only by   *)
(* boots GRUB has begun, and given back only by a complete mark-good.      *)

MissCounted == nethos_try2 # Unset => misses >= 1

LEMMA StepMissCounted ==
  ASSUME TypeOK, MissCounted, Next
  PROVE  MissCounted'
<1> USE DEF grubenv, disk, machine, command, bounds, history
<1>1. CASE GrubOneShot \/ GrubBoot
  BY <1>1 DEF GrubOneShot, GrubBoot, MissCounted, TypeOK, Plus1
<1>2. CASE GrubCut
  <2>1. CASE misses' = misses /\ nethos_try2' = nethos_try2
    BY <2>1 DEF MissCounted
  <2>2. CASE misses' = Plus1(misses, 3)
    BY <2>2 DEF MissCounted, TypeOK, Plus1
  <2> QED BY <1>2, <2>1, <2>2 DEF GrubCut
<1>3. CASE ComeUp \/ Hang \/ PowerCut \/ Reboot
  BY <1>3 DEF ComeUp, Hang, PowerCut, Reboot, MissCounted
<1>4. CASE MarkTry2
  BY <1>4 DEF MarkTry2, MissCounted
<1>5. CASE MarkTry \/ MarkLastGood \/ MarkSlot \/ MarkFails
  BY <1>5 DEF MarkTry, MarkLastGood, MarkSlot, MarkFails, MissCounted
<1>6. CASE Syncing
  BY <1>6 DEF Syncing, SyncBegin, SyncCopied, SyncStamp, SyncEnd, SyncFails, MissCounted
<1>7. CASE Updating
  BY <1>7 DEF Updating, InstallBegin, InstallFails, UpdateSwitches, InstallEnd,
     SwitchPasses, MissCounted
<1>8. CASE Switching
  BY <1>8 DEF Switching, SwitchBegin, SwitchPasses, SwitchSlot, SwitchTry, SwitchLastGood,
     RollbackSlot, RollbackTry, Recovery, MissCounted
<1> QED BY <1>1, <1>2, <1>3, <1>4, <1>5, <1>6, <1>7, <1>8 DEF Next, Firmware, Marking

\* A boot into recovery that nobody asked for comes after at least one boot
\* that was not marked good, wherever the power went in between.
THEOREM RecoverySafe == Spec => RecoveryAfterFailure
<1> DEFINE Unasked == power = "off" /\ next_entry = Unset /\ power' = "booting" /\ recovery'
<1>1. Init => MissCounted
  BY DEF Init, MissCounted
<1>2. TypeOK /\ MissCounted /\ [Next]_vars => MissCounted'
  <2>1. ASSUME MissCounted, UNCHANGED vars PROVE MissCounted'
    BY <2>1 DEF vars, grubenv, history, MissCounted
  <2> QED BY <2>1, StepMissCounted
<1>3. TypeOK /\ MissCounted /\ [Next]_vars => [Unasked => misses >= 1]_vars
  <2> SUFFICES ASSUME TypeOK, MissCounted, Next, Unasked PROVE misses >= 1
    OBVIOUS
  <2>1. GrubBoot
    <3>1. CASE Firmware
      BY <3>1 DEF Firmware, GrubOneShot, GrubCut, ComeUp, Hang, PowerCut, Reboot, machine
    <3>2. Marking => power = "up"
      BY DEF Marking, MarkTry, MarkLastGood, MarkSlot, MarkTry2, MarkFails, MarkGood
    <3>3. Syncing => power = "up"
      BY DEF Syncing, SyncBegin, Begin, SyncCopied, SyncStamp, SyncEnd, SyncFails, At
    <3>4. Updating => power = "up"
      BY DEF Updating, InstallBegin, InstallFails, UpdateSwitches, InstallEnd, At
    <3>5. Switching => power = "up"
      BY DEF Switching, SwitchBegin, SwitchSlot, SwitchTry, SwitchLastGood, RollbackSlot,
         RollbackTry, Recovery, Begin, At
    <3> QED BY <3>1, <3>2, <3>3, <3>4, <3>5 DEF Next
  <2>2. recovery' = RecoveryBoot /\ recovery'
    BY <2>1 DEF GrubBoot
  <2>3. RecoveryBoot
    BY <2>2, Zenon
  <2>4. nethos_try2 # Unset
    BY <2>3 DEF RecoveryBoot, Try2Seen
  <2> QED BY <2>4 DEF MissCounted
<1> QED BY <1>1, <1>2, <1>3, TypeCorrect, PTL DEF Spec, RecoveryAfterFailure
=============================================================================

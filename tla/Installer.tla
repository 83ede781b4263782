------------------------------ MODULE Installer ------------------------------
(***************************************************************************)
(* The installer of the live image (src/payload/installer/installer.py):   *)
(* it finds a disk, partitions it, runs the bootstrap of Bootstrap on it   *)
(* and makes it bootable.  The machine may lose power at any point and the *)
(* installer be started again.  Without the installer (phase "off") the    *)
(* same bootstrap builds images.                                           *)
(***************************************************************************)
EXTENDS Bootstrap

CONSTANTS
  Disks,        \* [dev, gb]: what /sys/block lists, in no order
  Target,       \* the disk named on the kernel's command line, or NoDisk
  NoDisk,
  InstallBuild, \* the build the installer asks for
  KernelPath    \* the path of the image where a kernel lies

ASSUME InstallAssumption == IsFiniteSet(InstallBuild.sets) /\ IsFiniteSet(InstallBuild.firmware)

VARIABLES
  phase,    \* what the screen says
  script,   \* commands of finish.sh still to run
  boot      \* what finish.sh has put on the disk: "initramfs", "grub", "menu"

installerVars == <<bootVars, phase, script, boot>>

\* disks: only what can hold a system; the rest is not offered.
disks == {d \in Disks : d.gb >= 8}

InstallerInit == BootInit /\ phase = "off" /\ script = <<>> /\ boot = {}

Idle == stage \in {"idle", "failed", "done"}

\* Without a network the installer goes on: an offline image needs none.
PowerOn ==
  /\ phase \in {"off", "failed"} /\ Idle /\ runs < MaxRuns
  /\ phase' = "disk"
  /\ UNCHANGED <<bootVars, script, boot>>

PickDisk ==
  /\ phase = "disk"
  /\ phase' = IF disks = {} \/ Target = NoDisk THEN "failed" ELSE "partition"
  /\ UNCHANGED <<bootVars, script, boot>>

\* partition: a new table and new file systems; any command may fail, and
\* the disk is then without what it had.
Partition ==
  /\ phase = "partition"
  /\ phase' \in {"bootstrap", "failed"}
  /\ boot' = {}
  /\ IF phase' = "failed"
     THEN sys' = EmptyRoot /\ UNCHANGED <<cached, build, runs, stage, walk, pool, npks, finish>>
     ELSE /\ sys' = EmptyRoot /\ build' = InstallBuild /\ runs' = runs + 1
          /\ stage' = "load" /\ UNCHANGED <<cached, walk, pool, npks, finish>>
  /\ UNCHANGED script

Commands_ == <<"initramfs", "grub", "menu">>

\* What finish.sh runs under set -e, after depmod, which may fail.
BootstrapOver ==
  /\ phase = "bootstrap" /\ stage \in {"done", "failed"}
  /\ phase' = IF stage = "done" THEN "finalise" ELSE "failed"
  /\ script' = IF stage = "done" THEN Commands_ ELSE <<>>
  /\ UNCHANGED <<bootVars, boot>>

\* A bug: finish.sh runs on after a command has failed.
MutStops(works) == FALSE

Stops(works) == ~works

\* A command of finish.sh: there is no initramfs without the kernel's
\* modules, and no entry in the menu without a kernel.
Finalise(works) ==
  /\ phase = "finalise" /\ script # <<>>
  /\ Head(script) = "initramfs" => (works => sys.fs[KernelPath] = File)
  /\ boot' = IF works THEN boot \cup {Head(script)} ELSE boot
  /\ script' = IF Stops(works) THEN <<>> ELSE Tail(script)
  /\ phase' = IF Stops(works) THEN "failed" ELSE phase
  /\ UNCHANGED bootVars

Done ==
  /\ phase = "finalise" /\ script = <<>>
  /\ phase' = "done"
  /\ UNCHANGED <<bootVars, script, boot>>

PowerLost ==
  /\ phase \in {"disk", "partition", "finalise"}
  /\ phase' = "off" /\ script' = <<>>
  /\ UNCHANGED <<bootVars, boot>>

InstallerStep ==
  \/ PickDisk \/ Partition \/ BootstrapOver \/ Done
  \/ \E works \in BOOLEAN : Finalise(works)
  \/ BootStep /\ UNCHANGED <<phase, script, boot>>

InstallerNext ==
  \/ PowerOn \/ PowerLost \/ InstallerStep
  \/ /\ phase = "off" /\ \E b \in Builds : Start(b)
     /\ UNCHANGED <<phase, script, boot>>
  \/ PointRelease /\ UNCHANGED <<phase, script, boot>>
  \/ /\ Interrupted /\ phase' = (IF phase = "bootstrap" THEN "off" ELSE phase)
     /\ UNCHANGED <<script, boot>>

InstallerFairness == WF_installerVars(InstallerStep)
InstallerSpec == InstallerInit /\ [][InstallerNext]_installerVars /\ InstallerFairness

-----------------------------------------------------------------------------
InstallTypeOK ==
  /\ BootTypeOK /\ build \in Builds \cup {InstallBuild, Absent}
  /\ phase \in {"off", "disk", "partition", "bootstrap", "finalise", "done", "failed"}
  /\ boot \subseteq ToSet(Commands_)

\* When the screen says the disk can be restarted from, it can: it has a
\* kernel, an initramfs for it, the bootloader and its menu, also when the
\* kernel was one of the packages the build passed over (finalise,
\* installer.py:351).
DoneBootable ==
  phase = "done" => sys.fs[KernelPath] = File /\ boot = ToSet(Commands_)
=============================================================================

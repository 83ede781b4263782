----------------------------- MODULE KernelPins -----------------------------
(***************************************************************************)
(* Which kernel each slot boots (nethos-kernel, 09_nethos_ab).  Both slots *)
(* read their kernels from the one ESP, so a file on it pins a version per *)
(* slot, and grub-mkconfig turns the pins into a menu.  Files are named by *)
(* the version; what is in them is of a package <<version, build>>, and an *)
(* install of a version that is there writes over its files.  A kernel     *)
(* fits a slot that has the modules of its build.  The counter, the        *)
(* half-written slot and the writes of nethos-ab are AbBoot's; here a      *)
(* trial is one boot, and syncing and switching are one step each.         *)
(***************************************************************************)
EXTENDS Integers, FiniteSets, FiniteSetsExt

CONSTANTS Versions,     \* how many versions there are, numbered as sort -V puts them
          Packages,     \* <<version, build>>: what there is to install
          RT,           \* versions with "rt" in the name
          Bad,          \* packages that do not boot here
          First,        \* the package the machine was installed with
          MaxKernelCommands, MaxPowerCuts,
          Unpinned, NoKernel,
          Torn          \* a file, or modules, half written

Kernels == 1 .. Versions
ASSUME KernelsAssumption ==
  /\ Versions \in Nat /\ Packages \subseteq Kernels \X Nat /\ First \in Packages
  /\ Unpinned \notin Kernels /\ NoKernel \notin Kernels
  /\ {NoKernel, Torn} \cap Packages = {} /\ Torn # NoKernel

Slots == {"A", "B"}
Other(s) == CHOOSE t \in Slots : t # s

VARIABLES esp, initrd,    \* kernels and initramfs on the ESP: version -> package,
                        \* Torn, or NoKernel where there is no file
          pins,           \* nethos-kernels.conf: slot -> kernel or Unpinned
          menu,           \* grub.cfg: slot -> [kernel, initrd]
          realtime,       \* grub.cfg: the kernel of the real-time entries, or NoKernel
          modules,        \* slot -> its /lib/modules, as esp is
          power, running, uname,
          slot, trying, good,  \* nethos_slot, nethos_try above 0, nethos_last_good
          once,           \* next_entry asks for the real-time kernel
          kernelStep,     \* of the command under way
          asking, kver,   \* the package it installs, the version it found there
          kernelCommands, powerCuts,
          fetched         \* history: packages an install has begun to unpack

espVars == <<esp, initrd, pins>>
menuVars == <<menu, realtime>>
kernelBootVars == <<power, running, uname, slot, trying, good, once>>
jobVars == <<kernelStep, asking, kver>>
kernelVars == <<espVars, menuVars, modules, kernelBootVars, jobVars, kernelCommands, powerCuts,
                fetched>>

-----------------------------------------------------------------------------
(* 09_nethos_ab, which grub-mkconfig runs.                                 *)

Files(f) == {v \in Kernels : f[v] # NoKernel}
MenuEntry(k) == [kernel |-> k, initrd |-> k \in Files(initrd)]
newest == Max(Files(esp))
Mutkver_for(s) == newest
kver_for(s) == IF pins[s] \in Files(esp) THEN pins[s] ELSE newest
Mkconfig ==
  /\ menu' = [s \in Slots |-> MenuEntry(kver_for(s))]
  /\ realtime' = IF Files(esp) \cap RT = {} THEN NoKernel ELSE Max(Files(esp) \cap RT)

\* A slot's entry is of use if its kernel is there with an initramfs, and its
\* modules are in the slot, all of one build.
EntryFits(s) ==
  LET v == menu[s].kernel
  IN /\ esp[v] \in Packages /\ initrd[v] = esp[v] /\ modules[s][v] = esp[v]
     /\ menu[s].initrd

Only(p) == [v \in Kernels |-> IF v = p[1] THEN p ELSE NoKernel]

KernelInit ==
  /\ esp = Only(First) /\ initrd = Only(First) /\ pins = [s \in Slots |-> Unpinned]
  /\ menu = [s \in Slots |-> [kernel |-> First[1], initrd |-> TRUE]]
  /\ realtime = NoKernel
  /\ modules = [s \in Slots |-> IF s = "A" THEN Only(First) ELSE [v \in Kernels |-> NoKernel]]
  /\ power = "marked" /\ running = "A" /\ uname = First[1]
  /\ slot = "A" /\ trying = FALSE /\ good = "A" /\ once = FALSE
  /\ kernelStep = "idle" /\ asking = NoKernel /\ kver = NoKernel
  /\ kernelCommands = 0 /\ powerCuts = 0 /\ fetched = {First}

-----------------------------------------------------------------------------
(* nethos-kernel install and install-tar, and nethos-update --slot, which  *)
(* does the first and the last of their steps.                             *)

idle == Other(running)
At(s) == power # "off" /\ kernelStep = s
KernelCommand ==
  At("idle") /\ kernelCommands < MaxKernelCommands /\ kernelCommands' = kernelCommands + 1
Dies == kernelStep' = "idle" /\ UNCHANGED <<asking, kver>>

StartKernel(k) ==
  /\ KernelCommand /\ kernelStep' = "sync" /\ asking' = k
  /\ UNCHANGED <<espVars, menuVars, modules, kernelBootVars, kver, powerCuts, fetched>>

\* nethos-ab sync; the modules are part of the system it copies.
Sync ==
  /\ At("sync") /\ modules' = [modules EXCEPT ![idle] = modules[running]]
  /\ kernelStep' = IF asking = NoKernel THEN "switch" ELSE "unpack"
  /\ UNCHANGED <<espVars, menuVars, kernelBootVars, asking, kver, kernelCommands, powerCuts,
                 fetched>>

\* The kernel lands on the ESP and its modules in the idle slot, over what is
\* there of that version; where it fails, whole or in part.
KernelLands(k, m) ==
  /\ esp' = [esp EXCEPT ![asking[1]] = k]
  /\ modules' = [modules EXCEPT ![idle] = [@ EXCEPT ![asking[1]] = m]]
UnpackKernel ==
  /\ At("unpack")
  /\ \/ /\ KernelLands(asking, asking)
        /\ kver' = Max(Files(modules'[idle])) /\ kernelStep' = "initramfs" /\ UNCHANGED asking
     \/ /\ \E k \in {esp[asking[1]], Torn, asking} :
             \E m \in {modules[idle][asking[1]], Torn, asking} : KernelLands(k, m)
        /\ Dies
  /\ fetched' = fetched \cup {asking}
  /\ UNCHANGED <<initrd, pins, menuVars, kernelBootVars, kernelCommands, powerCuts>>

\* update-initramfs, of the newest modules in the slot, over what is there of
\* that version; then the kernel has to be there, whatever is in it.
Initramfs ==
  /\ At("initramfs")
  /\ LET built == modules[idle][kver]
     IN \/ /\ initrd' = [initrd EXCEPT ![kver] = built]
           /\ kver \in Files(esp) /\ kernelStep' = "unpin" /\ UNCHANGED <<asking, kver>>
        \/ /\ \E i \in {initrd[kver], Torn, built} : initrd' = [initrd EXCEPT ![kver] = i]
           /\ Dies
  /\ UNCHANGED <<esp, pins, menuVars, modules, kernelBootVars, kernelCommands, powerCuts, fetched>>

\* sed removes the line of the idle slot, echo appends the new one, and the
\* running slot is pinned if it never was.
Unpin ==
  /\ At("unpin") /\ pins' = [pins EXCEPT ![idle] = Unpinned] /\ kernelStep' = "pin"
  /\ UNCHANGED <<esp, initrd, menuVars, modules, kernelBootVars, asking, kver, kernelCommands,
                 powerCuts, fetched>>

PinIdle ==
  /\ At("pin") /\ pins' = [pins EXCEPT ![idle] = kver] /\ kernelStep' = "here"
  /\ UNCHANGED <<esp, initrd, menuVars, modules, kernelBootVars, asking, kver, kernelCommands,
                 powerCuts, fetched>>

MutHere == pins
Here == IF pins[running] = Unpinned THEN [pins EXCEPT ![running] = uname] ELSE pins
PinHere ==
  /\ At("here") /\ pins' = Here /\ kernelStep' = "menu"
  /\ UNCHANGED <<esp, initrd, menuVars, modules, kernelBootVars, asking, kver, kernelCommands,
                 powerCuts, fetched>>

\* A grub-mkconfig that fails is passed over, and leaves the menu as it was.
MakeMenu ==
  /\ At("menu")
  /\ \/ Mkconfig /\ kernelStep' = "installed"
     \/ UNCHANGED menuVars /\ kernelStep' = "switch"
  /\ UNCHANGED <<espVars, modules, kernelBootVars, asking, kver, kernelCommands, powerCuts,
                 fetched>>

Switch ==
  /\ At("installed") \/ At("switch")
  /\ slot' = idle /\ trying' = TRUE /\ good' = running /\ kernelStep' = "idle"
  /\ UNCHANGED <<espVars, menuVars, modules, power, running, uname, once, asking, kver,
                 kernelCommands, powerCuts, fetched>>

-----------------------------------------------------------------------------
(* Other commands, the machine.                                            *)

\* install-nethos.sh, of an update in place or of nethos-devsync.
Regenerate ==
  /\ KernelCommand /\ Mkconfig
  /\ UNCHANGED <<espVars, modules, kernelBootVars, jobVars, powerCuts, fetched>>

Rollback ==
  /\ KernelCommand /\ slot' = good /\ trying' = FALSE
  /\ UNCHANGED <<espVars, menuVars, modules, power, running, uname, good, once, jobVars,
                 powerCuts, fetched>>

\* nethos-kernel rt: one boot of the running slot's real-time entry.
BootRT ==
  /\ KernelCommand /\ realtime # NoKernel /\ once' = TRUE
  /\ UNCHANGED <<espVars, menuVars, modules, power, running, uname, slot, trying, good,
                 jobVars, powerCuts, fetched>>

\* A reboot, asked for between commands; a cut, at any time.
Off ==
  /\ power # "off" /\ power' = "off"
  /\ \/ kernelStep = "idle" /\ UNCHANGED powerCuts
     \/ powerCuts < MaxPowerCuts /\ powerCuts' = powerCuts + 1
  /\ kernelStep' = "idle"
  /\ UNCHANGED <<espVars, menuVars, modules, running, uname, slot, trying, good, once,
                 asking, kver, kernelCommands, fetched>>

\* GRUB boots an entry of a slot.  Without kernel or initramfs nothing comes
\* up; a kernel without its modules may, as far as its initramfs carries it.
Boot(s, k, ok) ==
  /\ power = "off"
  /\ \/ /\ ok /\ esp[k] \in Packages \ Bad /\ initrd[k] \in Packages
        /\ power' = "up" /\ running' = s /\ uname' = k
     \/ /\ ~(/\ ok /\ esp[k] \in Packages \ Bad
             /\ initrd[k] = esp[k] /\ modules[s][k] = esp[k])
        /\ UNCHANGED <<power, running, uname>>

BootOnce ==
  /\ once /\ once' = FALSE /\ Boot(running, realtime, realtime \in Files(initrd))
  /\ UNCHANGED <<espVars, menuVars, modules, slot, trying, good, jobVars, kernelCommands,
                 powerCuts, fetched>>

BootSlot ==
  LET s == IF trying THEN slot ELSE good
  IN /\ ~once /\ Boot(s, menu[s].kernel, menu[s].initrd)
     /\ slot' = s /\ trying' = FALSE
     /\ UNCHANGED <<espVars, menuVars, modules, good, once, jobVars, kernelCommands,
                    powerCuts, fetched>>

\* nethos-ab mark-good, once the system is up.
MarkGood ==
  /\ power = "up" /\ power' = "marked"
  /\ slot' = running /\ good' = running /\ trying' = FALSE
  /\ UNCHANGED <<espVars, menuVars, modules, running, uname, once, jobVars, kernelCommands,
                 powerCuts, fetched>>

KernelNext ==
  \/ \E k \in Packages \cup {NoKernel} : StartKernel(k)
  \/ Sync \/ UnpackKernel \/ Initramfs \/ Unpin \/ PinIdle \/ PinHere \/ MakeMenu \/ Switch
  \/ Regenerate \/ Rollback \/ BootRT
  \/ Off \/ BootOnce \/ BootSlot \/ MarkGood

KernelSpec == KernelInit /\ [][KernelNext]_kernelVars

-----------------------------------------------------------------------------
KernelTypeOK ==
  LET contents == [Kernels -> Packages \cup {NoKernel, Torn}]
  IN /\ esp \in contents /\ initrd \in contents /\ modules \in [Slots -> contents]
     /\ pins \in [Slots -> Kernels \cup {Unpinned}]
     /\ menu \in [Slots -> [kernel : Kernels, initrd : BOOLEAN]]
     /\ power \in {"off", "up", "marked"} /\ fetched \subseteq Packages
     /\ asking \in Packages \cup {NoKernel} /\ uname \in Kernels
     /\ {kver, realtime} \subseteq Kernels \cup {NoKernel}

\* A pin outlives the modules it names: the next sync takes them away, and an
\* install that fails leaves a part of them.
Stale(s) == pins[s] # Unpinned /\ modules[s][pins[s]] \notin Packages

\* Pins name versions, and do not keep what is in their files.  An install of a
\* version again writes over both, of a trial or of the fallback itself
\* (nethos-kernel:96, 108, 542, 548): another build of it takes the place of the
\* fallback's, and one cut off leaves half a file.  Of these versions nothing is
\* said.
Spoilt(v) ==
  \/ Torn \in {esp[v], initrd[v]}
  \/ \E p, q \in fetched : p # q /\ p[1] = v /\ q[1] = v

\* When nethos-kernel says the idle slot runs the new kernel, and the menu was
\* made, both entries are of use: whatever earlier attempts left on the ESP, in
\* the pins and in the menu, but for a pin of the running slot that is stale
\* (nethos-kernel:118) and versions that are spoilt.  It says so too when
\* grub-mkconfig has failed (127, 130), and then the idle slot's entry may be
\* any it had before.
InstallLeavesTwo ==
  kernelStep = "installed" /\ ~Stale(running) =>
    \A s \in Slots : EntryFits(s) \/ Spoilt(menu[s].kernel)

\* The fallback's entry stays of use through any command, any failure of one,
\* grub-mkconfig's too, and any cut, if its slot has a pin that is not stale, the
\* system that gives the commands has been marked good, and no install has
\* spoilt the version (09_nethos_ab:55).
PinnedEntryKept ==
  \A s \in Slots :
    s = good /\ EntryFits(s) /\ pins[s] # Unpinned /\ ~Stale(s) /\ power # "up" =>
      EntryFits(s)' \/ Spoilt(menu[s].kernel)'

\* Both at every step: a new version never takes the fallback with it.
KernelEntriesKept == [][InstallLeavesTwo' /\ PinnedEntryKept]_kernelVars
=============================================================================

# NETHOS in TLA+

A verification project for the parts of NETHOS whose correctness does not show
in a unit test: what survives a power cut, an interrupted install or two
programs doing the same thing at once. The modules are translated from the
code under `src/`; `PROJECT.json` maps every definition to the lines it models,
lists the hazards found on the way, the runs, and for every checked property a
mutation of the code that breaks it.

## The system

NETHOS is a Linux system with two root slots, its own package manager and a
desktop made of HTML pages. About 36,000 lines: Python (npkg, nethosd), shell
(slots, kernels, updates, images), JavaScript (the desktop) and some C (the
native host of the pages).

| Component | State it keeps | Operations | Talks to |
|---|---|---|---|
| A/B slots (`nethos-ab`, `nethos-slots.sh`, `09_nethos_ab`, mark-good service) | GRUB environment block; `/etc/nethos/slot`, half-written flag and contents of each slot | sync, switch, recovery, rollback, mark-good; GRUB's choice at boot | firmware, nethos-update, nethos-kernel, recovery page |
| `nethos-update` | none of its own | in place, or sync + install in a chroot of the idle slot + switch | nethos-ab, nethos-snapshot, installer script |
| npkg database and transactions (`npkg.py`) | one directory per package (`manifest.json`, `files`), `capabilities.json`, `alternatives.json`, the root itself; owner map per process | install files, fetch, upgrade, remove | Debian archive, repositories, nethosd's store |
| npkg solver and repositories | cached index and packages | resolve, find, download, upgrade plan | transactions |
| npkg conversion and layout | none | deb/rpm to npk, files into the layout of Arch | repositories, bootstrap |
| npkg service | links below `/etc/systemd/system` | enable, disable | bootstrap, build scripts |
| Bootstrap of a root (`npkg_bootstrap.py`) | cached index and packages, the root it builds | index, resolve, download pool, convert, install, finish | Debian mirror or npkg repository, image builder, installer |
| Kernel pins (`nethos-kernel`) | `/boot/nethos-kernels.conf`, `grub.cfg`, `nethos_kernel`, `saved_entry` | install, install-tar, rt, normal | nethos-ab, npkg |
| nethosd events and live reload | generation, one bounded queue per stream; a baseline in every page | subscribe, publish, bump, hello; reload | nethos-view's single stream, `shell.js`, `nethos-reload` |
| nethosd jobs and applications | `PKG_JOB`, `PKG_LOCK`, `EXTRACT_JOB`, `_app_cache` | package and archive jobs in threads, the cached list | npkg, events |
| nethosd files | the user's home | mkdir, rename, trash, copy, move, delete | Files application |
| nethosd settings and storage | JSON files written through one `.tmp` | read-modify-write per request | events |
| nethosd windows | compositor sockets, cached views, switcher state, snap suppression | commands, window list, switcher, snapping | sway or Wayfire, taskbar |
| nethosd app host | a Unix socket and a child process | ensure, launch | nethos-view |
| nethosd tray | icons and a name on the session bus | register, quit | applications, panel |
| `nethos-snapshot` | tarballs and sidecars | create, list, restore, remove, prune | nethos-update |
| growroot, devsync, memory | stamps, a git checkout, cgroup limits | once per boot, loops | systemd |
| Installer of the live image | the disk it erases | disk, partition, bootstrap, finalise | bootstrap, GRUB |
| Image, ISO and payload scripts | none that survives | run once | everything |
| nethos-view, session, assistant, pages | user interface | | nethosd |

Where it is hard: grubenv is written key by key while power can go at any
moment and GRUB itself writes it too; a slot is copied from the running one,
identity file included; npkg commits file by file, in place, without a lock and
with an owner map it keeps up to date by hand; plans are made over dependency graphs
with cycles, from indexes that move on while they are used, into caches an
earlier run was cut off in; events are dropped, reordered with reconnects and
renumbered when the daemon restarts; every request of nethosd has a thread, and
nearly none of them takes a lock.

What makes each part correct:

* slots: the fallback is always something that worked, whatever was cut short;
  the running slot is never written; an attempt is never free; a machine with a
  sound fallback always comes up;
* npkg: no file has two owners, no package is damaged by what is done to
  another, nothing is left behind or removed from under a dependent;
* plans: what is installed has its dependencies whenever a command stops, is
  what an index described, and nothing is moved that nobody asked to move;
* layout and services: no path or unit is lost on the way, but for the kinds named below;
* bootstrap and installer: a root that is called finished is, however many
  attempts it took; a disk that is called bootable is;
* kernel pins: the fallback keeps a kernel and modules that fit, unless its version is
  installed again;
* live reload: a page that is open ends up running what is on disk;
* jobs: one npkg at a time, a job's state is that of its process;
* files: no request loses a file it could see;
* settings: no accepted change is lost, the file is always readable;
* tray, taskbar, dock: in the end they show what is there, or could be read;
* launches: every one is answered, and opens a window if it says so;
* snapping: a window dragged to an edge comes to rest in that edge's zone;
* snapshots: what is restored is what was asked for.

## Modules

| Module | What it is |
|---|---|
| `AbBoot` | both slots, the environment block, GRUB, nethos-ab, mark-good, `nethos-update --slot`, power cuts |
| `SlotTrial` | the abstract promise of the A/B scheme, five variables |
| `AbBootProofs` | theorems about `AbBoot` |
| `MCAbBoot` | its instance for TLC |
| `NpkgTx` | npkg's database, transactions, removal, interruptions, several processes |
| `NpkgTxProofs` | theorems about `NpkgTx` |
| `MCNpkgTx` | its instance for TLC |
| `SequenceLemmas` | lemmas on sequences, sets and numbers that several proofs cite |
| `LiveReload` | nethosd's events, nethos-view's stream, the reload check of the shell's surfaces |
| `LiveReloadProofs` | theorems about `LiveReload` |
| `MCLiveReload` | its instance for TLC |
| `NpkgVersions` | versions and requirements, compared as npkg does, and in halves for reference |
| `NpkgPackages` | how a deb or rpm becomes an entry of an index; sonames |
| `NpkgPlan` | repositories, the solver, prefetch, `npkg install` and `upgrade` |
| `NpkgLayout` | moving the files of a package into the layout of Arch |
| `NpkgService` | enabling and disabling the units of an offline root |
| `Bootstrap` | building a root from Debian or from a repository of npkg |
| `Installer` | the installer of the live image, around `Bootstrap` |
| `MCNpkgPlan`, `MCPackages` | the worlds of `NpkgPlan`; `NpkgPlan`, `NpkgLayout`, `NpkgService`, `Installer` and `KernelPins` in one run |
| `PackagesProofs` | theorems about `NpkgPlan`, `NpkgLayout`, `NpkgService` and `KernelPins`, and the types of `MCPackages` |
| `BootstrapProofs` | theorems about `Installer` and `Bootstrap` |
| `NethosdJobs` | package jobs and the cached list of applications |
| `NethosdExtract` | archives unpacked in threads |
| `NethosdWork` | the two kinds of jobs together |
| `NethosdFiles` | the file operations of the Files application |
| `NethosdSettings` | settings and application storage |
| `NethosdTray` | the tray's watcher on the session bus |
| `NethosdLaunch` | opening an application through the app host |
| `NethosdTaskbar` | the window list under Wayfire and the taskbar that shows it |
| `NethosdWindows` | window actions and snapping under sway |
| `KernelPins` | `nethos-kernel`, the pins and the menu made from them, which kernel a slot boots |
| `Snapshots` | `nethos-snapshot`: archives, sidecars, pruning and restoring |
| `DesktopProofs` | theorems about `NethosdTray`, `NethosdWork`, `NethosdFiles`, `NethosdSettings` and `MCDesktop` |
| `SnapshotsProofs` | theorems about `Snapshots` |
| `MCDesktop` | the eight parts of nethosd, and the snapshots it asks for, in one run |

`NpkgPlan` uses `NpkgPackages`, which uses `NpkgVersions`; `Installer` extends
`Bootstrap`. `MCPackages` and `MCDesktop` put parts that share no state in the
code into one run: the variable `focus` says which part a behaviour is about,
and the others stay where they start. What crosses between the parts is in them:
the bootstrap in the installer, a restart of nethosd in the package jobs, the
extractions and the settings; the rest of nethosd is checked while it lives.

### AbBoot

*State.* `nethos_slot`, `nethos_try`, `nethos_last_good`, `nethos_try2`,
`next_entry` are the keys of the environment block (`Unset` is an absent or
empty key). Per slot: `build` (what is installed there), `whole` (all of it),
`incomplete` (the flag file), `slotfile` (`/etc/nethos/slot`), `init` (the
`/sbin/init` link). `power`, `running` and `recovery` say what was booted;
`mark`, `job`, `updating`, `target` are program counters of mark-good and of
the one administrative command in progress, with the slot it took for idle.
`armed`, `attempts`, `settled` and `misses` are history: nothing but properties
and bookkeeping reads them.

*Actions.* One per write, because power can go between any two:
`MarkTry`, `MarkLastGood`, `MarkSlot`, `MarkTry2` are the four lines of
`cmd_mark_good`; `SwitchSlot`, `SwitchTry`, `SwitchLastGood` the three of
`cmd_switch`; `RollbackSlot`, `RollbackTry` those of `cmd_rollback`;
`SyncBegin`, `SyncCopied`, `SyncStamp`, `SyncEnd` are flag and start of rsync,
its end, the identity and fstab lines, the removal of the flag. `InstallBegin`,
`InstallEnd`, `InstallFails` and `UpdateSwitches` are the slot path of
nethos-update. `GrubBoot` is the whole of `09_nethos_ab`, with the three
sequential `if`s as nested `Dec`; `GrubCut` is power lost between two
`save_env`; `GrubOneShot` is the `boot_once` branch. `ComeUp` and `Hang` are
the boot itself: a whole sound build comes up, a whole unsound one never does,
half a system may do either. mark-good runs beside administrative commands, so
their writes interleave. Only one administrative command runs at a time.

*Abstracted.* Contents of a slot are a build and three booleans; rsync's
progress is a nondeterministic choice of what it has copied when it stops; the
kernel of a menu entry belongs to the kernel-pin component.

### SlotTrial

A machine has a slot it trusts and at times a slot on trial with a number of
attempts. Firmware only spends attempts, spends at least one for every boot of
the slot on trial, and with none left boots the trusted slot; only a running
system starts a trial, ends it, or changes what is trusted. `AbBoot` implements
it under the mapping at the end of that module (`trial` is defined while
`nethos_try` is positive). Note that spending *at least* one attempt is what
the code does keep; the exact count is the first finding.

### NpkgTx

*State.* `manifest` and `filelist` are the two files of a package's database
entry, `caps` is `capabilities.json`, `root` what is at each path of the
system, the links of alternatives included; `state` is `alternatives.json`. Per
process: `pc`, the packages `todo`, the `names` to remove, `force`, the package
and name in hand, the paths `left`, the `stale` ones, the cached `owners` map.

*Actions.* `InstallFiles` starts a batch (a local install, a fetch or an upgrade);
`Accept`, `Reject` and `Skip` are the clash and conflict checks of `_install_file`
with their outcomes; `Place` is one turn of the file loop, with the directory that
goes when a file comes in its place (and `Fail` when one is needed where a file is),
`Prune` one stale file; `RecordManifest` and `RecordFiles` are the two writes of
`Database.record`; `IndexCapabilities` is `_index_capabilities` together with the
update of the owner map; `ApplyAlternatives` puts the two links of each group over
whatever is there, and closes the package. `Remove` is every guard of `remove` for
every name, then `NextName`, `Delete`, `Forget`, `Forgotten`, `ForgetCapabilities` per
name. `Interrupt` ends a process between any two writes, or in the middle of one: the
file being replaced is gone, a JSON file opened for writing is cut. `trampled` is
history: files that went by a link or a directory's removal, of which no check of
owners knows.

*Abstracted.* A package file is a model value; its name, members, dependencies,
capabilities, conflicts and alternatives are constants. Versions appear only
through the set of builds a conflict matches; a directory is what lies below it.
Post-install and pre-remove scripts (a failure is a warning) and the unpacking into the staging
directory (no effect on anything modelled) are left out.

### LiveReload

*State.* `disk` is the version of the served files last saved. In nethosd:
`generation`, the version the watcher has seen, for each publishing thread (the
watcher, any number of `Requests` and of `Others`, which publish what is no
reload) how far it is and the event it has made, the
stream's bounded `queue` and whether it is still among the subscribers. Beyond
nethosd: `conn`, the state of nethos-view's one stream, and per surface the
events under way (`inbox`), whether its page is there (`phase`), the `version`
it was parsed from and `hostGeneration`, the baseline of `shell.js`. `sound`,
`owed`, `reloads` and `bumps` are history.

*Actions.* `FilesChanged` and `Post` are the two ways into `bump`; `Build` and
`Put` are the halves of `publish`, the generation read before the lock is taken
again; `Connect` and `Hello` open a stream, `Write` is its loop. `Baseline`,
`Reload` and `Handle` are the branches of `window.nethosEvent`, `Lose` an event
for a page that is not there to hear it, `Load` the page coming up, or failing
to while nethosd is down. `Stop` takes the queues and threads with it and
`Start` counts from 0.

*Abstracted.* The tree of files is one number, every event that is not a reload
a tick. The poll that finds a change and the counting up are one step: nothing
reads what they write in between. The native host drops a line longer than its
buffer; reload events are short.

### NpkgVersions and NpkgPackages

Pure operators. A version is two sequences of runs, what stands before its
first dash and after it, a run a number or a word; `KeyLess` compares as `version_key`
does, `SplitLess` by what stands before the dash and then by the rest, for
reference. `convert_deb` and
`convert_rpm` turn the fields of a package into an entry of an index: the first
alternative of a clause, the epoch dropped, the revision that is kept or made
up, the names and sonames provided. The order of two runs is npkg's in both
comparisons: where Debian has another, for `~`, letters and epochs, nothing here
says so. Separators, characters and the containers are left out.

### NpkgPlan

*State.* `world` and `mirror` are what the repositories publish and which of
their indexes is current; `index` and `cache` what is under `/var/cache`;
`db` what is installed, `caps` the names in `capabilities.json`, `present` the paths that
exist. A command is a `step`, the `stack` of the recursion of
`Solver.resolve`, the names `chosen`, the `order` of the plan (each package once,
as the first name chose it), and what prefetch and the installation have still
to do. `base`, `cuts`, `dropped` and `shed` are history: what was installed when
the plan was made, dependencies a cycle put after
their dependent, names whose package stands in the plan in another version, names
a replaced package supplied.

*Actions.* `Command`, `Load` and `LoadCut` (the index read from the cache or
fetched, or cut off while it is written), `StartInstall`, `StartUpgrade`,
`UpgradeNext`; of the recursion `Skip`, `Descend`, `Unresolved` and `Return`,
one requirement at a time; `Planned`, `Prefetch` by one of its threads,
`InstallNext`, `InstallFails`; `Killed` at any point and `MirrorMoves` at any
time. What unpacking one package writes is `NpkgTx`; here it is one step.

### NpkgLayout

`tree` maps the paths of an unpacked package to a file or to what is written in a
link: a path from the root, or so many directories up and then a path. `Move` is one
turn of the loop of `relayout`, for any path left (the order of `os.walk` is the file
system's): the name in the layout of Arch, the link rewritten (a relative one only
where it names the triplet), and which of two entries that meet wins. `Unloop` removes
the relative links that came to name themselves; absolute ones stay. Directories are
those that hold libraries. `PathNames` are the paths there are, in the package or
outside. `TreesAssumption` says that the new paths are among them and stay where they
are when laid out again.

### NpkgService

`units` are the `[Install]` sections of a root, `links` what was made below it,
`pending` the calls of `enable` not made yet. `Enable` starts a command, `Call`
is one call with the links it makes and the recursion over `Also`, `Disable`
removes what `disable` removes, which is nothing of the `aliases`. `asked` and `ever`
(what was enabled at any time) are history.

### Bootstrap and Installer

*State.* The mirror (`archive`, `release`), the cached index (`packages`), the
cached packages (`debs`: absent, cut or whole), the program counter `stage`
with what the build has resolved and downloads, per thread of the pool its
connection and tries, and `sys`, what later steps or properties read of the
root: paths and links, accounts, units, what is enabled. `sys.unapplied` are the
accounts systemd-sysusers failed to make. `isfile` is `os.path.isfile`, which follows
an absolute link to what the builder has.

*Actions.* `FetchIndex` and `ReadIndex`; `Visit` is one turn of
`DebianArchive.resolve`; `TakeJob`, `Arrived`, `Refused` are the threads of the
pool, over a connection that may have been closed meanwhile; `Convert`,
`InstallOne`, `FromRepo`; `Finish` is one step of `_finish_root`, in the order
of `FinishSteps`; `Complete`. `Interrupted` ends a build anywhere and `Start`
runs it, or another, again over the same cache and root. `PointRelease` is the
mirror moving on under a cached index. `Installer` adds `PickDisk`, `Partition`
and the commands of `finish.sh` one by one (`Finalise`), of which any may fail, and
`PowerLost` anywhere.

*Abstracted.* A package is its name, clauses, accounts, units and the paths
that matter to a later step; what a finishing step writes that nothing reads
again is left out, and so are progress, speed and the framebuffer.

### NethosdJobs and NethosdExtract

*State.* Per request its `phase` and verdict, `PKG_LOCK`, `PKG_JOB`, and
`EXTRACT_JOB`; the directories of `.desktop` files, `_app_cache` and, per
surface, a `load_apps` under way and the list it last received.

*Actions.* `RequestJob` is the handler, `BeginJob` to `EndJob` are `pkg_job`
assignment by assignment (`StartNpkg`, `NpkgEnds`, `ReportJob` and `LeaveJob` in
between), `RestartJobs` a restart of nethosd, which an npkg survives (`OrphanEnds`).
`AskApps`, `ReadDirs`, `StoreApps` are a request for the list, and `Tick` lets it age.
`Ticking` are the surfaces that go on asking: the dock. An extraction is refused while
one is at work, but says so only once its thread runs; `ChooseFolder` and `MakeFolder`
are the check and the act on the folder's name.

### NethosdFiles

`fs` maps paths to files, folders and links. A request resolves its path and chooses a
free name (`Ask...`), and acts on both later (`Act`), with another request possibly in
between. `unique_path`, `shutil.move`, `copytree` and `rename` are modelled by what
they do to the tree. Links on a path are followed when the request acts (`Through`):
`copy2` writes into the file a link at its destination leads to. The home is one file
system, and its Trash no link. A name is a sequence of `Letters`, the number
`unique_path` puts behind it included; `HomesAssumption` says that a home is finite
and that paths go through folders.

### NethosdSettings

`content` is per inode what was written, `path` and `tmp` the inodes of a file's
name and of its `.tmp`. A writer reads, merges (`Merged`, with `Clamp` for the
schema), opens, writes and renames in steps of its own; `Crash` ends nethosd
between any two. `kept` is what the writes amount to, `mixed` the files that
had two writers at once.

### NethosdTray

`bus` is the sequence of messages nethosd's loop has not taken. `AppStarts`,
`AppRegisters`, `AppQuits` are the applications; `TakeName`, `RunLoop`,
`TakeRegistration` and `AddItem` the watcher, which waits for an application's properties
with whatever may come meanwhile. They may be had or not (`Answered`), even of an
application that runs; `unread` is history and has the icons lost that way.

### NethosdLaunch

Per request its `phase`; per host whether it starts, listens or is dead; `owner`
is the host the socket's name leads to, which every host unlinks and binds for itself.
`LookForWindow`, `Probe`, `StartSome`, `Poll`, `Send`, `SpawnAlone` are the
branches of `launch_web_app`, `ShellReturns` the second shell it may leave
behind, `HostDies` a crash at any time and `Opens` a host that gets to a request.

### NethosdTaskbar

The compositor has `views`; `stream` is the event connection and what is unread
on it; `viewCache` the list of 0.8 s; per request its answer under way. `Change`
maps or unmaps a window, `TakeEvent` clears the cache and announces, `Ask`, `Call`,
`Reply`, `Store`, `Show` are one request, `Break` and `Connect` the stream's end and
its next start.

### NethosdWindows

Per window where it is, whether it floats, and its rectangle in pixels;
`inFlight` are the commands sway has not run; `suppress` is `SNAP_SUPPRESS`, `track`
what the snapper remembers. `Drag`, `Focus`, `OpenPane` are the user, `Maximize`,
`Restore` and `Act_` requests, `Rules` the event loop, `Run` sway, and `Look` one tick of
the snapper with `snap_zone`.

### KernelPins

*State.* What the ESP holds: kernels (`esp`) and initramfs (`initrd`), files named by
version whose content is of a package <<version, build>>, or `Torn`; `pins`
(`/boot/nethos-kernels.conf`) and the entries of `grub.cfg` (`menu`,
`realtime`). Per slot the `modules` in it; what was booted (`power`, `running`,
`uname`); the slot on trial and the last good one; `kernelStep`, the package it is
`asking` for and the version found (`kver`) of the one command under way. `fetched` is history.

*Actions.* `StartKernel` to `Switch` are `cmd_install` (and `cmd_install_tar`, whose
steps are the same): sync, unpack, initramfs, the `sed` and the `echo` that pin the
idle slot, the pin of the running one, grub-mkconfig, which may fail unnoticed, and
switch. A version that is there already is written over in place. Asked for no package
it is the slot path of nethos-update. `Regenerate` is grub-mkconfig as the payload
installer runs it, `BootRT` `nethos-kernel rt`; `BootOnce`, `BootSlot` and `MarkGood`
a boot, `Off` a reboot or a cut.

*Abstracted.* A trial is one boot, sync and switch are one step: their writes
are in `AbBoot`. A kernel without its modules may come up or not.

### Snapshots

`live` are the files an update can touch, by version; `archive` what each
tarball holds and whether it is whole, `meta` the sidecars, `now` the second
that names the next one. `Create`, `Tar`, `WriteMeta` and the pruning
(`RemoveArchive`, `RemoveMeta`, one file at a time) make a snapshot; `Restore` starts with
one and goes on with `Extract`, file by file. `Interrupt` ends a command
anywhere. `taken`, `given` and `sought` are history. The one command at a time is
an assumption: two requests to nethosd within a second would start two.

## Runs

| Run | Instance | Shows |
|---|---|---|
| `ab_boot` | one sound and one unsound build, 3 tries, 4 commands, 2 power cuts; about 410,000 states | the invariants, action properties, refinement and liveness below |
| `ab_three_attempts` | 3 commands, no cut | violated: a switched-to slot gets one boot, not three |
| `ab_incomplete` | 3 commands, 1 cut | violated: `switch` takes a slot that carries the half-written flag |
| `npkg_tx` | three packages, four package files, seven paths, one capability, one alternatives group; 4 commands, 2 interruptions; about 1,580,000 states | the invariants and the removal guard below |
| `npkg_interrupt` | 2 commands, 1 interruption | violated: an interrupted install leaves part of a package |
| `npkg_two` | two processes, 2 commands | violated: two npkg overwrite each other's files |
| `npkg_virtual` | 3 commands | violated: the last supplier of a capability is removed without `--force` |
| `live_reload` | one surface, 2 saves, 1 POST, 1 restart of nethosd, a queue of 1; about 610,000 states | the invariants and the liveness property below |
| `live_saved` | one surface, 2 saves, no restart | violated: a saved file need not reach the screen |
| `packages` | 2 commands of npkg over every world of `MCNpkgPlan`; every tree, unit graph, archive and build of `MCPackages`; two versions of a kernel, one in two builds, 3 commands and a cut; about 450,000 states | the invariants, action and liveness properties below |
| `desktop` | the eight parts of nethosd, two requests of each kind at once; three snapshot commands, one interrupted; about 620,000 states | the invariants, action and liveness properties below |
| `snapshot_restore` | one file, the five snapshots the code keeps, 6 commands | violated: restoring the oldest snapshot removes it first |

`CHECK_DEADLOCK FALSE` is given for `AbBoot`, `NpkgTx`, `packages` and `desktop`
because those systems may really stop: no command or request need ever be
issued, and the bounds end every behaviour. `LiveReload` never stops: the ticker goes on.

*Bounds of `ab_boot`.* `MaxCmds = 4` counts commands and orderly reboots,
`MaxCuts = 2` power cuts (in the running system, in a boot or inside GRUB).
Boots themselves are not bounded. Four commands are enough for sync, switch, a
failed trial, and a second switch or rollback after it; with two cuts an
interrupted command can be followed by an interrupted recovery from it. One
unsound build is enough for every way a trial can end.

*Bounds of `npkg_tx`.* The archive is chosen so that every branch is taken: a
library in two versions that share one file and drop one (a symlink no prune
deletes), a substitute that carries the same capability, claims a file of the
second version and conflicts with the first, and an application that depends on
the library by name and by capability, ships a symlink to a directory and
competes for an alternative. The link of the alternative lies where the second
version and the substitute have a file, and a file of the substitute where the
application has a directory. `MaxOps = 4` reaches install, refused install,
upgrade, removal and reinstallation; `MaxBatch = 2` is a batch with a refusal
in it; two interruptions hit a command and the one that repairs it.

*Bounds of `live_reload`.* Three broadcasts, two of which can overlap in two threads
(the watcher's and a request's), before, during and after a restart of nethosd. The
queue of one overflows as soon as the stream's handler is one event behind; an inbox
of two is what it takes for events of two streams to meet. Surfaces share nothing but
the stream, so one is enough for properties of one surface; with two the state space
is beyond the time of a run.

*Bounds of `packages`.* The worlds hold every dependency graph over an application, a
user interface, a library and a manual page that has a cycle, a virtual name or both;
requirements on a pinned version, on "any revision" and on a native package; an
upgrade after which a library no longer provides a name; a disc behind and ahead of
the mirror; and a Fedora package that asks for a soname. Two commands are an install
and what comes after it, or an interrupted one and its repetition (`MaxCommands = 2`);
`MaxDepth = 5` is one more frame than there are names, and no behaviour reaches it. A
tree is a file and two links, one of which may lead to the other, anywhere in four
library directories, each written in full or from its directory. The units name each
other in a circle through `Also`, with and without directories to be wanted by. The
archives have a cycle through Pre-Depends and a virtual name, a point release that
renames a file, a kernel, the two variants of `regulatory.db`, a link to what only the
builder has, and two packages that provide each other's only name, on which a build
goes round for ever. Two threads and two attempts (`Attempts`, 3 in the code) are the
least with which a connection is reused after it broke and a download is given up;
`MaxRuns = 2` is a build cut short and the one that repeats it; `MaxSkipped = 1`
package may refuse to unpack. Of the kernels one is the one installed, one another
build of it that does not boot, one newer and real-time; three commands are a first
install, a second that fails after the trial of the first, and one that makes the menu
again.

*Bounds of `desktop`.* Two requests of each kind are what it takes for one to get
between two steps of another; of the two surfaces one goes on asking; `MaxRestarts =
1`, one death of a host and one that is slow are a fault and what follows it. `Fresh =
1` and `Polls = 1` stand for 30 s, 0.8 s and 50 polls: what counts is that the time
can run out before and after the other side's step. Three extractions make two that
overlap and a third that comes after. The settings have a range whose default lies
within it and a flag; two writers make three writes to two files. Two panes, one of
them a widget, are moved three times on the workspace that nethosd.py:1753 says was
measured; `Suppressed` is two ticks, where the code has five. Of snapshots two are
kept (`Keep`, 5 in the code and in `snapshot_restore`), so that the third command
already prunes; two files make a restore that is cut off between them, and two edits a
state before and one after a snapshot.

*Assumed of the windows.* A user is slower than a tick and sees the effect
of one command on a window before giving the next (`Sees`); a request's
command runs within the second the snapper is held off for (`HeldOff`); a new window has a new
id; nothing is fullscreen. *Of the taskbar:* a call of `list-views` fails only
while the event stream is down too.

### Properties of `ab_boot`

* `FallbackIsRunning`: while a whole system that marked itself good is up, the
  fallback is the slot it runs from, in the middle of any command.
* `SettledBoots`: from a complete mark-good to the first write of the next
  switch nothing changes what GRUB will boot.
* `AttemptsBounded`: a trial never exceeds the attempts it was granted.
* `WholeSlotKnowsItself`, `RunningSlotUntouched`: the copied identity file
  never makes a system write the slot it runs from.
* `RecoveryAfterFailure`: no unasked-for recovery boot without a boot that
  failed to be marked good.
* `KeepsTrialPromise`: refinement of `SlotTrial`.
* `ComesBack`: with a sound whole system in the fallback slot the machine
  comes up.

*Fairness.* `ComesBack` assumes weak fairness of GRUB (a machine that is off is
switched on), of `ComeUp` (a boot that can finish does) and of `Hang` (a hung
machine is reset). All three are physical: no program has to be scheduled.
Nothing is assumed of commands, of mark-good or of the absence of cuts.

### Properties of `npkg_tx`

* `OwnersDisjoint`: no path listed by two packages.
* `InstalledIntact`: a package whose own last command was not interrupted has
  every file it lists, of the version it says, but for those that went in the two
  ways the check of owners does not see (`trampled`): under a link of an alternatives
  group, or with a directory for which another package has a file.
* `NoOrphans`: without interruptions no file stays that nobody lists.
* `CapabilitiesHeld`: capabilities are credited to installed packages.
* `RemovalGuarded`: an unforced removal drops neither a critical package nor
  one that an installed package outside the batch names.

`torn` (an interruption between the two files of a database entry) and `broken`
(packages whose own last command was interrupted) say exactly what the first
two do not claim: npkg has no recovery for either beyond running the command
again. That a later implementation of lower priority never gets its link when the
one before was removed (npkg.py:997) is in the model and no property's business.

### Properties of `live_reload`

* `ReloadOnItsWay`: a surface that had a baseline from the present stream when
  a change was broadcast, and does not show the change yet, is loading or has an
  event before it that will make it reload: in its inbox, in the queue, or in
  the hands of a thread that has counted up and not yet published. Two
  broadcasts may overtake each other and still none is lost.
* `ReloadsEarned`: no surface reloads more often than reloads were broadcast,
  whatever the renumbering after a restart makes of the generations.
* `OwedIsShown`: such a surface comes to show the change, unless nethosd stops
  or drops the stream for a full queue. These two are real losses, not
  modelling ones: a dropped stream stays open and silent, and after a restart
  the number of a broadcast may coincide with a baseline.

*Fairness.* `OwedIsShown` assumes weak fairness of the threads of nethosd that
have counted up (they are past any condition, and hold the lock for a moment
only), of the stream's handler, of each page's script queue (nethos-view wakes
a surface before it hands it an event) and of the loading of a page. Nobody has
to save, to call the API or to restart nethosd, and the ticker may stop.

### Properties of `packages`

* `ClosedPrefix`: wherever a command stops, every installed package has its
  dependencies by name, by capability or by a file that is there, whatever their
  versions, as `is_satisfied` asks for none of a provided name; but for those a cycle
  made the solver put last (`cuts`), those that only another version of a package in the plan would
  supply (`dropped`), and those whose supplier was replaced by a package that no
  longer supplies them (`shed`). All three are the code's behaviour: cycles are
  tolerated, a package is put into a plan once, and an upgrade does not look at
  dependents.
* `BytesAsIndexed`: what is installed is what some index described, whatever
  the cache held and whichever thread fetched it.
* `ReplacedOnlyIfAsked`: an installed package is replaced only for a name the solver
  went after: one that was asked for and was not to be had as it was (another
  version, or a reinstall), or one that nothing installed gave when the plan was
  made. A dependency on what is there moves nothing.
* `NoFalseFailure`: a requirement, as conversion left it, is reported unsatisfiable
  only if no package on offer provides it or satisfies it when what stands before the
  dash is compared first and the rest after it, but for a version that goes on
  where the one asked for ends and its revision begins (`GoesOn`: 2.36.1-1 for
  `>= 2.36-9`). World `Further` has that one; without the exception TLC finds it.
  It is npkg's two forms of a version that are tested here, not its order of runs.
* `RelayoutResolves`: every path that led to a file in the package still does, in
  whatever order the files are moved, through any number of links whose text means
  the same where they come to (`SaysSame`); and no relative link names itself.
* `EnabledAsAsked`: the units the targets want are those the commands asked for with
  their companions, however they name each other. Of aliases it says only that they
  lead to a unit that has the name and was enabled once.
* `ResolvedIsClosure`: the set a build resolves is the closure of its seeds.
* `BuildsSound` is three: `WholeFiles`, no conversion sees a file shorter than the
  archive promised; `AccountsDeclared`, a finished root has the accounts its packages
  declare, but for those systemd-sysusers failed to make, which is printed and passed
  over; `AlternativesBound`, no link to an alternative dangles of which a variant is
  there, and a name has something if a regular file of the image can serve it. All
  three also when built over an earlier root.
* `DoneBootable`: a disk the installer calls done has a kernel, its initramfs,
  the bootloader and a menu.
* `KernelEntriesKept` is two. `InstallLeavesTwo`: when nethos-kernel has made the
  menu, both slots' entries name a kernel that is there, with its initramfs and with
  modules in the slot, whatever earlier attempts left behind. `PinnedEntryKept`:
  no command, failure or cut takes that from the fallback's
  entry, once its slot is pinned. An unpinned fallback can lose it: an install that
  fails after unpacking leaves its kernel on the ESP, and the next grub-mkconfig
  gives it to every slot without a pin. A stale pin, whose modules a sync took
  away, is left out of both, and so is a version of which two builds were installed
  or one in part (`Spoilt`): they share the names of their files.
* `EverythingEnds`: resolutions, layouts, builds and installations end, but for a
  build from an archive with a circle of virtual names (`GoesRound`).

*Fairness.* Weak fairness of `NpkgRuns`: a process that has been started goes on.
Commands, kills, interruptions, power loss and the mirror are owed nothing.

### Properties of `desktop`

* `WorkTruthful`: one npkg at work at most, named by the status and without a
  verdict while it runs; an archive reported as extracted is in the folder it
  chose, which a second extraction may share, and no failed one leaves an empty folder.
* `SettingsKept`: after any crash a file reads as what its writes left, and
  ranges hold. Files that had two writers at once are excepted (`mixed`): they
  share one `.tmp`, and a change can be lost or torn.
* `TrayMatches`: with the loop at rest the tray shows the icons that running
  applications have registered and no others, but for those whose properties could
  not be had (`unread`).
* `KeepsContents`: no request loses a file that it could see in its way but
  by deleting it; one that comes between the check and the act may be lost, and one
  to which a link leads that came in the request's way since.
* `SnapshotsSafe` is two. `SnapshotsKept`: a snapshot taken in full is there, as it
  was taken, until as many newer ones were taken as are kept or somebody asked it
  away. `RestoreKeepsBefore`: wherever a restore is cut off, every file is as the snapshot
  or as the one taken before it has it, and that one is whole. Restoring that one
  brings back what was there; files only the wrong snapshot had stay, for tar adds.
* `LaunchOpens`: every launch is answered, and one that reports success without
  a window to focus opens one, unless the host that took it dies.
* `ShellCatchesUp`: package jobs end; the dock comes to show the applications there
  are, and the panel's taskbar the windows. The launcher asks when it is loaded or
  opened, the desktop's widgets when loaded or reloaded: both have their requests in
  the model, and neither is promised to be up to date in between.
* `SnapsLand`: when the user rests, a focused floating window at an edge fills
  its zone, and no command answers another for ever.

*Fairness.* Weak fairness of what the kernel schedules: the threads of a
request once it is accepted, npkg, which ends, the ticks of nethosd and the
compositor's stream, a started host (it binds and opens), sway (it runs its
commands) and the snapper's tick. The dock asks again at ticks that nethos-view's own
timer evaluates in it every second (nethos-view:974, shell.js:565-568), whether the
event stream lives or not; of the other surfaces only a request they made goes on.
The user owes nothing, and nothing has to fail or to be restarted.

## Findings

Seven runs end in a counterexample to a sentence of the repository itself. They
are described with quotes in `PROJECT.json`: the boot counter loses all its
attempts in one boot; the guard of `switch` ignores the half-written flag when
`/sbin/init` is there; installs are not atomic; the overwrite check does not
hold for two processes; removing the only supplier of a capability another package
depends on is not refused; a
surface that has just reloaded takes the next reload for its baseline and stays
on the old files; restoring the oldest of five snapshots prunes it before it is
unpacked.

Met while modelling, and shown by no run of its own:

- `npkg upgrade` plans the newest version of all repositories but installs from
  the first repository that has the name, and compares no release (npkg.py:1152).
- A dependency on a package that is installed at a version that does not
  satisfy it is taken as met through the map of provided names, against the docstring
  of `is_satisfied` (npkg.py:439-440, "at an acceptable version"), and the second
  dependent's version is never looked at once a name is chosen (npkg.py:685). A path
  that is required need only exist; 441-442 say "exists and is owned by a package". A
  capability an upgrade dropped stays in `capabilities.json` and counts as there.
- The link of an alternatives group replaces whatever file lies at its path
  (npkg.py:1003-1009), and a file of a package a whole directory (924-925): another
  package's files go without a word.
- `resolve` chooses per name, so two requirements can lead to two versions of one
  package; the plan keeps the one chosen first (npkg.py:713-733). An application
  that needs `lib` at version 2 and a virtual name that only version 1 of `lib`
  provides is installed without the latter. TLC finds the plan (world `TwoLibs`)
  when `dropped` is left out of `ClosedPrefix`.
- Separators of a version do not count, so 2.36.1-1 is older than 2.36-9 and does
  not satisfy `>= 2.36-9`: the exception `GoesOn`. The proof of `NoFalseFailure` found
  it. There are other differences from Debian, of which it says nothing: `~` separates
  like a dot, so 2.0~rc1 is newer than 2.0; words order as words, numbers before them;
  the epoch is dropped (npkg_convert.py:335), and so is every alternative of a clause
  but the first (265); and npkg splits an upstream version that has a dash of its
  own at the first (npkg.py:200), where the conversion takes the last (336).
- Two links of a package that flatten to one path and lead to different ones
  are laid out by the order of `os.walk`: the first stays, and what only the
  other led to is lost (npkg_convert.py:459). A relative link that climbs out of a
  flattened directory is not rewritten (416-427): `../../share/x` of
  `usr/lib/<triplet>` leads to `share/x` from `usr/lib`. An absolute link that comes
  to name itself stays (477-480). `RelayoutResolves` excepts the first two and is
  silent on the third.
- `index.json` is not written in one step, and a cut one stops every command
  until it is removed; a cached package that fails its checksum is never
  deleted (npkg.py:585). A cut `Packages.gz` stays cached (npkg_bootstrap.py:380),
  and a cached index outlives the point release that removed its files.
- The release of an rpm keeps only its leading digits; a requirement of Arch is
  cut at its first colon (npkg_convert.py:113). Names that are only virtual
  and only need each other keep `DebianArchive.resolve` going for ever.
- `disable` leaves the links of `Alias`, against npkg_service.py:22, and the companions
  of `Also`: `display-manager.service` goes on starting what was disabled; a root
  built again with NetworkManager keeps networkd enabled. Accounts systemd-sysusers could not make are
  reported and missing (npkg_bootstrap.py:1176-1190). `ensure_alternatives` asks
  `os.path.isfile` (1262), which follows an absolute link to the builder's own root,
  the very mistake `resolve_in_root` (1215) was written against.
- nethosd: a package job gives up its wait after 900 s only if npkg closes its output;
  a hidden `.desktop` file does not hide one of a later directory; an icon one of whose
  properties was not answered in time is never shown (nethosd.py:2545); a copy onto a
  link writes into what it leads to (3323); deleting,
  trashing or renaming a link acts on what it leads to, and a rename overwrites
  a dangling link; resetting stores 2 for a setting whose default is 2.5;
  two quick launches open two windows, and a host started twice orphans the first.
- The snapper remembers the last command it gave, but its own snap changes the
  geometry, so the guard never matters; widgets are snapped as well. A window that
  *restore* has put back to 980 by 660 on the measured workspace has its top
  edge within the snapper's 24 pixels (y = 99, limit 120) and is maximised again
  once the second of suppression is over (nethosd.py:3683, against 2277).
- `nethos-kernel install` of a kernel older than the newest in `/lib/modules` pins
  the newest (nethos-kernel:101); installing a version again writes over its kernel and
  initramfs on the ESP both slots boot from (96, 108, 542, 548), so a second build of
  it takes the fallback's with it; a failed grub-mkconfig is ignored (127) and success
  printed; `rt --stay` has no effect (nothing reads
  `nethos_kernel`, and 09_nethos_ab sets the default itself); real-time entries are made for a
  slot without the modules; a fallback that was never pinned may be given a
  kernel it has no modules for, see `PinnedEntryKept`.
- A restore adds and does not remove: what only the wrong snapshot had stays when
  the one taken before it is restored (nethos-snapshot:131-136 against 126-127).
- Two snapshots of one second share a name, and the second replaces the first;
  files a failed update has added stay after "update rolled back; nothing
  changed" (nethos-update:202); an archive without sidecar is never pruned.

## Proofs

`tlapm` checks the following for every value of the constants that satisfies
the modules' assumptions: any number of packages, slots' builds, surfaces, jobs,
files or commands, and no bound of the instances. Every inductive invariant was
an invariant of the run of its module before it was proved.

*AbBoot.* `TypeCorrect`, `FallbackSafe`, `SettledSafe`, `AttemptsSafe`,
`NamesSafe`, `RunningSafe`, `RecoverySafe`, `TrialKept`. Assumptions: a non-empty
set of sound builds, `TRIES` between 1 and 3 (the strings GRUB compares with),
natural bounds. None of the invariants is inductive alone: each is threatened by
what a command or the mark-good service leaves half done when the power goes.
`IInv` adds to `TypeOK` and to the invariants of the runs:

- `CommandsWhileUp`: the firmware and the commands never step at the same time;
- `WrittenSlot`: from the start of `rsync` to the identity line the target is
  not whole, so a machine that runs a whole slot is not writing that slot;
- `MarkedSlot`: past its first write, mark-good on a whole slot has already
  made that slot the last good one;
- `SettledSlot`: once a system has marked itself, the counter is zero until a
  switch arms it, and a switch half way through is not at those writes;
- `ArmedSlot`: a switch never aims at the slot it falls back to, and the
  attempts used plus the attempts left never exceed `TRIES`.

`RunningSafe` and the refinement `TrialKept` follow from the same invariant, one
step per action; `RecoverySafe` from `MissCounted`: the fallback's attempts are
counted by a boot only.

*NpkgTx.* `TypeCorrect` holds for any number of processes. The others assume
`OneProcess`, at most one npkg, which the code does not enforce and `npkg_two` shows
to be needed. `OwnersSafe` and `IntactSafe` rest on `IInv`, which adds to the two
properties `Process` (what a process at each step holds), `Entries` (a name without
manifest lists nothing unless it is just being forgotten), `Reserved` (what is being
placed or pruned belongs to no other package), `OwnersRight` (the cached owner map
mirrors the file lists, except for the package being installed), `Poised` (a package
about to be replaced is still all there) and `Progress` (how far the loop has come).
Each of the other three needs a part of its own:

- `RemovalSafe`: `Guarded`, what the guards saw of a whole batch holds for the
  names left of it, because entries that go bring no new dependents;
- `CapabilitiesSafe`: `ManifestKnown`, the entry of the package in hand is the
  one just written, or just dropped, where the index is brought up to date;
- `NoOrphansSafe`: `Cleared` and `Accounted`, a file that is neither listed nor
  being placed has been deleted by the loop that took it off the list.

*LiveReload.* `LiveReloadTypes`, `ReloadsOnTheirWay`, `ReloadsAreEarned`, for any
number of surfaces, requests and other threads, any queue and any number of saves, calls and
restarts. `TypeInv` has `Paid`, which bounds generations by the saves and calls
there were. A reload is on its way by `StreamInv` (what the queue, the threads and
the inboxes hold is no newer than the generation of the running nethosd) and
`OwedInv`: a surface that is owed a reload is loading or has an event before it
that it will act on. It is earned by `EarnedInv`: the
reloads made and the reload events still in the inbox, in the queue and in the threads
are together no more than were broadcast.

*NpkgPlan.* `BytesAreIndexed`, `PrefixesAreClosed`, `OnlyAskedReplaced`, for any
repositories, indexes, requirements, cycles and commands. `WorldsAssumption` says
what an index and a database are: an entry is a package of its repository,
what is installed to begin with has its dependencies, and a file of a
*directory* repository keeps its bytes under its name. The last is needed: once a
process has compared a file it does not look again, and a directory, unlike the
cache, may change under it. `PlanInv` has

- `Verified`: what a process has compared is what the cache holds, since a cached
  file is never fetched again;
- `Visiting`: what the package of a frame needs is still to be visited, is being
  visited one frame up, or is settled: installed, before it in the order, or one
  of the three exceptions; a name chosen is given by the order or dropped;
- `InOrder`: every package of the plan has what it needs before it. So when the
  first is installed what it needs is there, and the rest is still in order;
- `Prefixed`: what `capabilities.json` names is supplied, or was by a package since
  replaced.

For `OnlyAskedReplaced` each package on the stack and in the plan is `Warranted`: it
gives a name the solver chose for a reason, and the reason is about what was
installed when the plan was made (`base`), so it lasts (`AskedInv`).

`NoneRefusedWrongly` does. Versions are lists of runs of any length; the first
difference orders them (`FirstDifference`, `KeyOrder`), and each comparison in halves
that holds is one that npkg makes with one of the two forms of the
version it keeps (`FitsSplit`), save where the version goes on. `OneIsFirst`: among
entries that fit one is the best, so nothing found means that nothing fits.
`WantedInv` says that whatever the solver asks for is a requirement as the
conversion makes them, which `PlanConstants` says of the indexes (each
version split at its first dash, `any` only for "-.").

*NpkgLayout.* `LayoutKeepsPaths`, for any package that satisfies `TreesAssumption`,
and any order of the moves. `LayoutInv` has `Unmoved` (what was not come to is as it
was unpacked), `Relaid` (what was come to left something at its new path, a file if it
was one), `Sources` (what is at a path now came from one that flattens to it) and
`FromFiles`. Absolute links, and relative ones whose text means the same, lead from
the new path to the new one of what they led to. A set of paths closed under the links
of the new tree is then pulled back to one closed under those of the old, which has a
file.

*NpkgService.* `ServicesAsAsked`. The units come to so far and those to come
(`Coming`) hold the unit of the command, lie among what its `Also` leads to, and are
closed but for the units not yet come to; when no call is left they are all of it.
`AliasesLead`: an alias leads to a unit that has it. `InstallsAssumption`: units name
units, finitely many, and are wanted by `.wants` directories.

*KernelPins.* `KernelEntriesStay`, for any versions, real-time or not, booting or not,
and any number of commands, failures and cuts; `KernelsAssumption` numbers the
versions and keeps the values that stand for none apart. Files on the ESP
never go, and are written over only by their own version's; modules change in the idle
slot alone. So `KernelInv` needs, beside
`InstallLeavesTwo`, `KernelsLast` (a kernel that runs or is pinned is there with its
initramfs, though perhaps without its modules), `FilesFetched` (what is in the files of
a version is a build of it that was fetched, so two of one version are of one build or
it is spoilt), `InstallSteps` (what each step of
an install may take from the one before) and `CommandsAtWork`: a system that was
marked good is its own fallback, so that the slot its commands write to is never
that one.

*Bootstrap and Installer.* `DoneIsBootable`, `BuildsAreSound`, `ResolutionIsClosure`, for any
archive, any number of threads, tries, builds and interruptions.
`ArchivesAssumption`, `AlternativesAssumption`, `SeedsAssumption` and
`InstallAssumption` say that indexes are sequences of stanzas, that alternatives have
their links and choices apart, and that sets are finite. `ScreenInv` relates the
screen to how far `finish.sh` has come; `Cover` has each file of the set
downloaded, in hand, waiting, or the build lost; `FinishInv` says which of the steps
of `_finish_root` left are enough for the accounts and links that are not there
yet, and that none of them undoes an earlier one; `WalkInv` has what was taken
within every closed set that holds the seeds, and what was taken closed but for
the queue.

*nethosd.* `FilesKeepContents` (`FilesInv`: what a path goes through is a folder, and
a request that is about to put something somewhere found no file there or below when
it looked; `unique_path` finds a free name because a finite home cannot have them
all), `TrayIsTrue` (`TrayInv`: an icon an application registered is shown, being read,
in a message on its way or given up as unread; one of an application that went has its
farewell on its way), `WorkIsTruthful` (`JobsInv`: who is past the lock holds it and
wrote the status; `ExtractInv`: an empty folder has an extraction that comes to it, or
was lost in a restart), `SettingsAreKept` (`SettingsInv`: each inode is named by, or
open for, one file, what a thread is about to write changes what it was asked to and
nothing else, and the temporary file of a file with one writer is what that thread
made it). `JobsAssumption`, `FoldersAssumption`, `InodesAssumption` and
`ItemsAssumption` keep the values that stand for nothing apart; `SchemaAssumption` has
the default of a range within it.

*MCDesktop.* `DesktopTypes`: `DesktopTypeOK`, for a behaviour about any of the nine
parts. It takes the invariants above, and what the other parts need.
`LockTypes`: a job that has been accepted names a package, so the status names one or
none. `AppTypes`: ages are counted for lists being read as for the one in the
cache. `LaunchTypes` and `TaskbarTypes`: what waits in a host's inbox is a request, and
the stream holds no more events than there were changes. `WindowTypes`: commands are for
windows there are, and the snapper, which waits for its command to be run, has at
most one in flight. `AppsAssumption` says that the directories hold files and that
a list stays for a time, `WritesAssumption` that the bound is a number; the
bounds of launches, windows and the taskbar are those of the module.

*MCPackages.* `PackagesTypes`: `PackagesTypeOK`, for a behaviour about any of the five
parts. It takes the invariants above and four more. `PlanRange`: a cached index
was published already, a package is installed under its own name (because the
bytes compared are the entry's), and what is to be upgraded stays installed.
`Searching`: the names being visited are those of the frames, each of one frame,
so `resolve` forgets none too early. `ServiceRange`: links lie where npkg makes
them. `InstallTypes`: what is unpacked are stanzas of the archive, so the root is a
tree of its paths, and the installer starts only the build that was counted when
it was switched on.

*Snapshots.* `SnapshotsAreSafe`, for any files and `Keep` of at least 1
(`KeepAssumption`). `SnapInv`: what is about to be pruned was given up or has `Keep`
newer snapshots; the one a restore has just taken is the newest, so it is never
among it, and holds what is live until the restore unpacks; while it unpacks,
every file is as one of the two archives has it.

*Only model-checked.* `ComesBack`, `OwedIsShown`, `EverythingEnds`, `LaunchOpens`,
`ShellCatchesUp` and `SnapsLand`, because liveness under fairness is beyond the
prover's reach.

## Not modelled

See `components` in `PROJECT.json` for each part and its reason. In short:

- not yet: building and repacking kernels, the first-boot and background services, the
  switcher with sway's retried commands, the streams of application windows;
- the containers of packages (ar, cpio, tar, the RPM header, ELF) and the
  writing of an index, whose correctness is in the bytes; `npkg fetch`, made of a
  Debian archive (`Bootstrap`) and an installation (`NpkgTx`), and the commands
  that only read;
- the payload installers and the image and ISO scripts: run once, straight
  through, on a disk they erase;
- displays, sound, network, the assistant and the recovery page: one call of
  another program per request; session start-up and the pages themselves:
  layout and wording; the inside of nethos-view but for its events.

Hazards beyond those in `PROJECT.json`: long legal sequences of switch, sync
and rollback (nethos-ab:126), under `SettledBoots`; the idle slot's device
looked up again after sync (nethos-update:158), under `WholeSlotKnowsItself`; a
symlink to a directory listed among directories (npkg.py:892) and an interrupted
remove (npkg.py:1063), under `InstalledIntact` and `CapabilitiesHeld`. Under no
property: commands that sway ran and nethosd sends again (nethosd.py:1183); the
recovery command and the reboot started side by side (nethosd.py:3402); a
subscriber dropped while its stream stays open (nethosd.py:1476); a reload that
finds no server (shell.js:1556); `resize2fs` that fails after the partition was
grown, after which the next boot takes the disk for filled (growroot:101).

## Plan

In order of what a failure would cost the user:

1. *KernelPins* composed with `AbBoot`: the pins under three attempts and the
   single writes of switch; two commands of `Snapshots` at once.
2. The switcher, and sway's commands with their retry.
3. *LiveReload*, second part: application windows with streams of their own
   (`nethos.js`), restarts of nethos-view, the waits of `nethos-reload`.
4. growroot, devsync, memory: small machines of one stamp or loop each.

--------------------------- MODULE BootstrapProofs ---------------------------
(***************************************************************************)
(* Proofs about Bootstrap and the Installer that runs it, for every        *)
(* archive, every invocation, any number of threads, builds and power      *)
(* cuts.                                                                   *)
(***************************************************************************)
EXTENDS Installer, SequenceLemmas

-----------------------------------------------------------------------------
(* What the screen says.  finish.sh runs over a root nobody changes any    *)
(* more, and stops at its first failure.                                   *)

Kernel_ == sys.fs[KernelPath] = File

\* How far finish.sh has come, and what it has put on the disk by then.
Scripted ==
  \/ script = <<"initramfs", "grub", "menu">> /\ boot = {}
  \/ script = <<"grub", "menu">> /\ boot = {"initramfs"} /\ Kernel_
  \/ script = <<"menu">> /\ boot = {"initramfs", "grub"} /\ Kernel_
  \/ script = <<>> /\ boot = {"initramfs", "grub", "menu"} /\ Kernel_

ScreenInv ==
  /\ phase \in {"disk", "partition", "finalise", "done"} => Idle
  /\ phase = "bootstrap" => boot = {}
  /\ phase = "finalise" => Scripted
  /\ phase = "done" => boot = {"initramfs", "grub", "menu"} /\ Kernel_

\* A build that is over does nothing.
LEMMA IdleRests == BootStep => ~Idle
BY DEF BootStep, Idle, FetchIndex, ReadIndex, Visit, Resolved, Arrived, Refused, TakeJob,
   Downloaded, Convert, InstallOne, AllInstalled, FromRepo, Finish, Complete

LEMMA StepScreen == ASSUME ScreenInv, InstallerNext PROVE ScreenInv'
<1> USE DEF bootVars, cached, walk, pool
<1>1. CASE PowerOn
  BY <1>1 DEF PowerOn, ScreenInv, Idle
<1>2. CASE PowerLost
  BY <1>2 DEF PowerLost, ScreenInv
<1>3. CASE PickDisk
  BY <1>3 DEF PickDisk, ScreenInv, Idle
<1>4. CASE Partition
  BY <1>4 DEF Partition, ScreenInv
<1>5. CASE BootstrapOver
  BY <1>5 DEF BootstrapOver, ScreenInv, Scripted, Commands_, Idle
<1>6. CASE Done
  BY <1>6 DEF Done, ScreenInv, Scripted, Kernel_, Idle
<1>7. ASSUME NEW works \in BOOLEAN, Finalise(works) PROVE ScreenInv'
  <2>1. /\ phase = "finalise" /\ script # <<>> /\ UNCHANGED <<stage, sys>> /\ Idle
        /\ Scripted /\ phase' \in {"finalise", "failed"}
    BY <1>7 DEF Finalise, ScreenInv
  <2>2. Idle'
    BY <2>1 DEF Idle
  <2>3. CASE works
    <3>1. /\ phase' = "finalise" /\ script' = Tail(script) /\ boot' = boot \cup {Head(script)}
          /\ Head(script) = "initramfs" => Kernel_
      BY <1>7, <2>3 DEF Finalise, Stops, Kernel_
    <3>2. Scripted'
      <4>1. CASE script = <<"initramfs", "grub", "menu">> /\ boot = {}
        BY <2>1, <3>1, <4>1 DEF Scripted, Kernel_
      <4>2. CASE script = <<"grub", "menu">> /\ boot = {"initramfs"} /\ Kernel_
        BY <2>1, <3>1, <4>2 DEF Scripted, Kernel_
      <4>3. CASE script = <<"menu">> /\ boot = {"initramfs", "grub"} /\ Kernel_
        BY <2>1, <3>1, <4>3 DEF Scripted, Kernel_
      <4> QED BY <2>1, <4>1, <4>2, <4>3 DEF Scripted
    <3> QED BY <2>2, <3>1, <3>2 DEF ScreenInv
  <2>4. CASE ~works
    BY <1>7, <2>2, <2>4 DEF Finalise, Stops, ScreenInv
  <2> QED BY <2>3, <2>4
<1>8. CASE BootStep /\ UNCHANGED <<phase, script, boot>>
  <2>1. phase \notin {"disk", "partition", "finalise", "done"}
    BY <1>8, IdleRests DEF ScreenInv
  <2> QED BY <1>8, <2>1 DEF ScreenInv
<1>9. ASSUME NEW b \in Builds, phase = "off", UNCHANGED <<phase, script, boot>> PROVE ScreenInv'
  BY <1>9 DEF ScreenInv
<1>10. CASE PointRelease /\ UNCHANGED <<phase, script, boot>>
  BY <1>10 DEF PointRelease, ScreenInv, Idle, Scripted, Kernel_
<1>11. CASE /\ Interrupted /\ phase' = (IF phase = "bootstrap" THEN "off" ELSE phase)
            /\ UNCHANGED <<script, boot>>
  <2>1. ~Idle
    BY <1>11 DEF Interrupted, Idle
  <2> QED BY <1>11, <2>1 DEF ScreenInv
<1> QED BY <1>1, <1>2, <1>3, <1>4, <1>5, <1>6, <1>7, <1>8, <1>9, <1>10, <1>11
        DEF InstallerNext, InstallerStep

\* Whatever fails on the way, and however often the machine is turned off and
\* the installation begun anew, the screen says "done" only of a disk that
\* boots.
THEOREM DoneIsBootable == InstallerSpec => []DoneBootable
<1>1. InstallerInit => ScreenInv
  BY DEF InstallerInit, ScreenInv
<1>2. ScreenInv /\ [InstallerNext]_installerVars => ScreenInv'
  <2> SUFFICES ASSUME ScreenInv, UNCHANGED installerVars PROVE ScreenInv'
    BY StepScreen
  <2> QED BY DEF installerVars, bootVars, ScreenInv, Idle, Scripted, Kernel_
<1>3. ScreenInv => DoneBootable
  <2>1. ToSet(Commands_) = {"initramfs", "grub", "menu"}
    BY DEF ToSet, Commands_
  <2> QED BY <2>1 DEF ScreenInv, DoneBootable, Kernel_
<1> QED BY <1>1, <1>2, <1>3, PTL DEF InstallerSpec

-----------------------------------------------------------------------------
(* The mirror and the index.                                               *)

ArchiveInv ==
  /\ archive \in Archives /\ release \in 1 .. Len(archive)
  /\ packages \in {Absent, Cut} \/ packages \in 1 .. release
  /\ stage \in {"resolve", "download", "convert"} => packages \in 1 .. release

LEMMA ArchiveType ==
  ASSUME ArchiveInv
  PROVE  /\ archive \in Seq(ToSet(archive)) /\ DOMAIN archive = 1 .. Len(archive)
         /\ \A r \in DOMAIN archive : archive[r] \in Seq(ToSet(archive[r]))
BY ArchivesAssumption DEF ArchiveInv

\* Steps of a build that leave mirror, cached index and invocation alone.
LEMMA StepArchive == ASSUME ArchiveInv, InstallerNext PROVE ArchiveInv'
<1> USE DEF bootVars, cached, walk, pool, ArchiveInv
<1>0. Len(archive) \in Nat
  BY ArchiveType
<1>1. ASSUME UNCHANGED <<archive, release, packages>>,
             stage' \in {stage, "idle", "load", "repo", "install", "finish", "done", "failed"}
      PROVE  ArchiveInv'
  BY <1>1
<1>2. CASE PointRelease
  BY <1>0, <1>2 DEF PointRelease
<1>3. CASE FetchIndex
  BY <1>3 DEF FetchIndex, Fail, Ends
<1>4. CASE ReadIndex
  BY <1>4 DEF ReadIndex, Fail, Ends
<1>5. CASE Visit
  BY <1>1, <1>5 DEF Visit
<1>6. CASE Resolved
  BY <1>6 DEF Resolved
<1>7. ASSUME NEW t \in Workers, Arrived(t) \/ Refused(t) \/ \E f \in jobs : TakeJob(t, f)
      PROVE  ArchiveInv'
  BY <1>1, <1>7 DEF Arrived, Refused, TakeJob
<1>8. CASE Downloaded
  BY <1>8 DEF Downloaded, Fail, Ends
<1>9. CASE \/ \E bad \in SUBSET bchosen : Convert(bad)
           \/ \E refused \in BOOLEAN : InstallOne(refused)
           \/ AllInstalled \/ FromRepo \/ Finish \/ Complete
  BY <1>1, <1>9 DEF Convert, InstallOne, AllInstalled, FromRepo, Finish, Complete, Fail, Ends
<1>10. CASE Interrupted
  BY <1>10 DEF Interrupted, Fail, Ends
<1>11. ASSUME NEW b \in Builds, Start(b) PROVE ArchiveInv'
  BY <1>1, <1>11 DEF Start
<1>12. CASE PowerOn \/ PowerLost \/ PickDisk \/ Partition \/ BootstrapOver \/ Done
            \/ \E works \in BOOLEAN : Finalise(works)
  BY <1>1, <1>12 DEF PowerOn, PowerLost, PickDisk, Partition, BootstrapOver, Done, Finalise
<1> QED BY <1>2, <1>3, <1>4, <1>5, <1>6, <1>7, <1>8, <1>9, <1>10, <1>11, <1>12
        DEF InstallerNext, InstallerStep, BootStep

LEMMA InitArchive == InstallerInit => ArchiveInv
BY ArchivesAssumption DEF InstallerInit, BootInit, BootInitAt, ArchiveInv

LEMMA StanzaType ==
  ASSUME ArchiveInv, NEW r \in 1 .. release, NEW n \in Names(r)
  PROVE  /\ r \in DOMAIN archive
         /\ Stanza(r, n) \in ToSet(archive[r]) /\ Stanza(r, n).Package = n
         /\ Stanza(r, n).Filename \in FilesIn(archive) \ {NoFile}
         /\ Stanza(r, n).Pre_Depends \in Seq(ToSet(Stanza(r, n).Pre_Depends))
         /\ Stanza(r, n).Depends \in Seq(ToSet(Stanza(r, n).Depends))
<1>1. r \in DOMAIN archive
  BY ArchiveType DEF ArchiveInv
<1>2. PICK i \in DOMAIN archive[r] : Stanza(r, n) = archive[r][i] /\ archive[r][i].Package = n
  BY DEF Names, Stanza, Stanzas
<1>3. Stanza(r, n) \in ToSet(archive[r])
  BY <1>2 DEF ToSet
<1>4. Stanza(r, n).Filename \in FilesIn(archive)
  BY <1>1, <1>2 DEF FilesIn
<1> QED BY <1>1, <1>2, <1>3, <1>4, ArchivesAssumption DEF ArchiveInv

-----------------------------------------------------------------------------
(* The package set, while it grows.                                        *)

\* bchosen names packages of the index the build has read, and a build starts
\* with nothing chosen.
Fresh == bqueue = <<>> /\ bchosen = {} /\ missing = {}

ChosenInv ==
  /\ stage \in {"resolve", "download", "convert"} => bchosen \subseteq Names(packages)
  /\ stage \in {"idle", "load", "repo", "done", "failed"} => Fresh

\* What provides a name is one package, or none.
LEMMA ProviderType ==
  ASSUME ArchiveInv, NEW r \in 1 .. release, NEW name
  PROVE  /\ archive_provider(r, name) \subseteq Names(r)
         /\ \A m, n \in archive_provider(r, name) : m = n
         /\ name \in Names(r) => archive_provider(r, name) = {name}
<1>1. DOMAIN archive[r] \subseteq Nat
  BY ArchiveType DEF ArchiveInv
<1> DEFINE able == {i \in DOMAIN archive[r] : name \in archive[r][i].Provides}
           first == {j \in able : \A k \in able : j <= k}
<1>2. name \notin Names(r) => archive_provider(r, name) = {archive[r][i].Package : i \in first}
  BY DEF archive_provider, Stanzas
<1>3. \A i, j \in first : i = j
  BY <1>1
<1>4. name \in Names(r) => archive_provider(r, name) = {name}
  BY DEF archive_provider
<1>5. {archive[r][i].Package : i \in first} \subseteq Names(r)
  BY DEF Names, Stanzas
<1> HIDE DEF first
<1> QED BY <1>2, <1>3, <1>4, <1>5

\* Outside of Visit the set is kept, or given up.
LEMMA StepChosen == ASSUME ScreenInv, ArchiveInv, ChosenInv, InstallerNext PROVE ChosenInv'
<1> USE DEF bootVars, cached, walk, pool
<1>0. ASSUME Fresh' \/ stage' \in {"install", "finish"} PROVE ChosenInv'
  BY <1>0 DEF ChosenInv, Fresh
<1>1. ASSUME Ends("done") \/ Fail PROVE Fresh'
  BY <1>1 DEF Fail, Ends, Fresh
<1>2. ASSUME UNCHANGED <<archive, packages, walk>>,
             \/ stage' = stage
             \/ stage \in {"resolve", "download"} /\ stage' \in {"download", "convert"}
             \/ Idle /\ stage' \in {"load", "repo"}
      PROVE  ChosenInv'
  BY <1>2 DEF ChosenInv, Names, Stanzas, Fresh, Idle
<1>3. CASE PointRelease
  BY <1>2, <1>3 DEF PointRelease
<1>4. CASE FetchIndex
  BY <1>0, <1>1, <1>4 DEF FetchIndex, ChosenInv, Fresh
<1>5. CASE ReadIndex
  <2>1. CASE Fail
    BY <1>0, <1>1, <2>1
  <2>2. CASE stage = "load" /\ stage' = "resolve" /\ UNCHANGED bchosen
    BY <2>2 DEF ChosenInv, Fresh
  <2> QED BY <1>5, <2>1, <2>2 DEF ReadIndex
<1>6. CASE Visit
  <2>1. /\ stage = "resolve" /\ packages \in 1 .. release /\ UNCHANGED <<archive, packages, stage>>
        /\ bchosen' = bchosen \/ \E n \in archive_provider(packages, Head(bqueue)) :
                                   bchosen' = bchosen \cup {n}
    BY <1>6 DEF Visit, ArchiveInv
  <2>2. archive_provider(packages, Head(bqueue)) \subseteq Names(packages)
    BY <2>1, ProviderType
  <2>3. Names(packages)' = Names(packages)
    BY <2>1 DEF Names, Stanzas
  <2> QED BY <2>1, <2>2, <2>3 DEF ChosenInv
<1>7. CASE Resolved
  BY <1>2, <1>7 DEF Resolved
<1>8. ASSUME NEW t \in Workers, Arrived(t) \/ Refused(t) \/ \E f \in jobs : TakeJob(t, f)
      PROVE  ChosenInv'
  BY <1>2, <1>8 DEF Arrived, Refused, TakeJob
<1>9. CASE Downloaded
  BY <1>0, <1>1, <1>2, <1>9 DEF Downloaded
<1>10. CASE \/ \E bad \in SUBSET bchosen : Convert(bad)
            \/ \E refused \in BOOLEAN : InstallOne(refused)
            \/ AllInstalled \/ FromRepo \/ Finish \/ Complete
  BY <1>0, <1>1, <1>10 DEF Convert, InstallOne, AllInstalled, FromRepo, Finish, Complete
<1>11. CASE Interrupted
  BY <1>0, <1>1, <1>11 DEF Interrupted
<1>12. ASSUME NEW b \in Builds, Start(b) PROVE ChosenInv'
  BY <1>2, <1>12 DEF Start, Idle
<1>13. CASE Partition
  <2>1. CASE phase' = "failed"
    BY <1>2, <1>13, <2>1 DEF Partition
  <2>2. CASE phase' # "failed"
    BY <1>2, <1>13, <2>2 DEF Partition, ScreenInv
  <2> QED BY <2>1, <2>2
<1>14. CASE PowerOn \/ PowerLost \/ PickDisk \/ BootstrapOver \/ Done
            \/ \E works \in BOOLEAN : Finalise(works)
  BY <1>2, <1>14 DEF PowerOn, PowerLost, PickDisk, BootstrapOver, Done, Finalise
<1> QED BY <1>3, <1>4, <1>5, <1>6, <1>7, <1>8, <1>9, <1>10, <1>11, <1>12, <1>13, <1>14
        DEF InstallerNext, InstallerStep, BootStep

-----------------------------------------------------------------------------
(* The downloads.  A chosen file is waiting, or in the hands of a thread,  *)
(* or whole in the cache -- or the build is already lost.                  *)

FileOf(n) == Stanza(packages, n).Filename

PoolTypes ==
  /\ debs \in [FilesIn(archive) -> {"none", "short", "whole"}]
  /\ worker \in [Workers -> [file : FilesIn(archive) \cup {NoFile}, tries : Nat,
                             conn : {"none", "open", "stale"}]]
  /\ jobs \subseteq FilesIn(archive)

Covered(f) == f \in jobs \/ broken \/ debs[f] = "whole" \/ \E t \in Workers : worker[t].file = f

Cover ==
  /\ stage = "download" => \A n \in bchosen : Covered(FileOf(n))
  /\ WholeFiles

LEMMA ChosenFiles ==
  ASSUME ArchiveInv, ChosenInv, stage \in {"resolve", "download", "convert"}, NEW n \in bchosen
  PROVE  FileOf(n) \in FilesIn(archive) \ {NoFile}
BY StanzaType DEF ArchiveInv, ChosenInv, FileOf

LEMMA NoJobType ==
  NoJob \in [file : FilesIn(archive) \cup {NoFile}, tries : Nat, conn : {"none", "open", "stale"}]
BY DEF NoJob

LEMMA StepPoolTypes == ASSUME ArchiveInv, ChosenInv, PoolTypes, InstallerNext PROVE PoolTypes'
<1> USE DEF bootVars, cached, walk, pool, PoolTypes
<1>0. /\ archive' = archive => FilesIn(archive)' = FilesIn(archive)
      /\ [t \in Workers |-> NoJob] \in
           [Workers -> [file : FilesIn(archive) \cup {NoFile}, tries : Nat,
                        conn : {"none", "open", "stale"}]]
  BY NoJobType DEF FilesIn
<1>1. ASSUME UNCHANGED <<archive, debs, worker, jobs>> PROVE PoolTypes'
  BY <1>0, <1>1
<1>2. ASSUME UNCHANGED <<archive, debs>>, Fail \/ Ends("done") PROVE PoolTypes'
  BY <1>0, <1>2 DEF Fail, Ends
<1>3. CASE PointRelease
  BY <1>1, <1>3 DEF PointRelease
<1>4. CASE FetchIndex
  BY <1>1, <1>2, <1>4 DEF FetchIndex
<1>5. CASE ReadIndex
  BY <1>1, <1>2, <1>5 DEF ReadIndex
<1>6. CASE Visit
  BY <1>1, <1>6 DEF Visit
<1>7. CASE Resolved
  BY <1>0, <1>7, ChosenFiles DEF Resolved, FileOf
<1>8. ASSUME NEW t \in Workers, NEW f \in jobs, TakeJob(t, f) PROVE PoolTypes'
  <2>1. UNCHANGED archive /\ f \in FilesIn(archive) /\ jobs' \subseteq jobs
    BY <1>8 DEF TakeJob
  <2>2. CASE UNCHANGED <<debs, worker>>
    BY <1>0, <2>1, <2>2
  <2>3. CASE /\ debs' = [debs EXCEPT ![f] = "none"]
             /\ worker' = [worker EXCEPT ![t].file = f, ![t].tries = 0]
    BY <1>0, <2>1, <2>3
  <2> QED BY <1>8, <2>2, <2>3 DEF TakeJob
<1>9. ASSUME NEW t \in Workers, Arrived(t) PROVE PoolTypes'
  BY <1>0, <1>9, NoJobType DEF Arrived
<1>10. ASSUME NEW t \in Workers, Refused(t) PROVE PoolTypes'
  <2>1. /\ worker[t].tries + 1 \in Nat /\ UNCHANGED <<archive, debs, jobs>>
        /\ worker[t] \in [file : FilesIn(archive) \cup {NoFile}, tries : Nat,
                          conn : {"none", "open", "stale"}]
    BY <1>10 DEF Refused
  <2>2. CASE LastTry(worker[t].tries)
    <3>1. worker' = [worker EXCEPT ![t] = NoJob]
      BY <1>10, <2>2 DEF Refused
    <3>2. NoJob \in [file : FilesIn(archive) \cup {NoFile}, tries : Nat,
                     conn : {"none", "open", "stale"}]
      BY NoJobType
    <3>3. worker' \in [Workers -> [file : FilesIn(archive) \cup {NoFile}, tries : Nat,
                                  conn : {"none", "open", "stale"}]]
      BY <3>1, <3>2
    <3>4. FilesIn(archive)' = FilesIn(archive)
      BY <1>0, <2>1
    <3> QED BY <2>1, <3>3, <3>4
  <2>3. CASE ~LastTry(worker[t].tries)
    <3> DEFINE again == [worker[t] EXCEPT !.tries = worker[t].tries + 1, !.conn = "none"]
    <3>1. worker' = [worker EXCEPT ![t] = again]
      BY <1>10, <2>3 DEF Refused
    <3>2. again \in [file : FilesIn(archive) \cup {NoFile}, tries : Nat,
                     conn : {"none", "open", "stale"}]
      BY <2>1
    <3> HIDE DEF again
    <3> QED BY <1>0, <2>1, <3>1, <3>2
  <2> QED BY <2>2, <2>3
<1>11. CASE Downloaded
  <2>1. CASE Fail
    BY <1>2, <1>11, <2>1 DEF Downloaded
  <2>2. CASE worker' = [t \in Workers |-> NoJob] /\ UNCHANGED jobs
    BY <1>0, <1>11, <2>2 DEF Downloaded
  <2> QED BY <1>11, <2>1, <2>2 DEF Downloaded
<1>12. CASE \/ \E bad \in SUBSET bchosen : Convert(bad)
            \/ \E refused \in BOOLEAN : InstallOne(refused)
            \/ AllInstalled \/ FromRepo \/ Finish
  BY <1>1, <1>2, <1>12 DEF Convert, InstallOne, AllInstalled, FromRepo, Finish
<1>13. CASE Complete
  BY <1>0, <1>13 DEF Complete, Ends
<1>14. CASE Interrupted
  BY <1>2, <1>14 DEF Interrupted
<1>15. CASE \/ \E b \in Builds : Start(b)
            \/ PowerOn \/ PowerLost \/ PickDisk \/ Partition \/ BootstrapOver \/ Done
            \/ \E works \in BOOLEAN : Finalise(works)
  BY <1>1, <1>15 DEF Start, PowerOn, PowerLost, PickDisk, Partition, BootstrapOver, Done, Finalise
<1> QED BY <1>3, <1>4, <1>5, <1>6, <1>7, <1>8, <1>9, <1>10, <1>11, <1>12, <1>13, <1>14, <1>15
        DEF InstallerNext, InstallerStep, BootStep

LEMMA StepCover ==
  ASSUME ScreenInv, ArchiveInv, ChosenInv, PoolTypes, Cover, InstallerNext
  PROVE  Cover'
<1> USE DEF bootVars, cached, walk, pool
<1>1. ASSUME stage' \notin {"download", "convert"} PROVE Cover'
  BY <1>1 DEF Cover, WholeFiles
<1>2. ASSUME UNCHANGED <<archive, packages, bchosen, debs, jobs, worker, broken, stage>>
      PROVE  Cover'
  BY <1>2 DEF Cover, WholeFiles, Covered, FileOf, Stanza, Stanzas
<1>3. ASSUME stage = "download", stage' = "download", UNCHANGED <<archive, packages, bchosen>>,
             \A f \in FilesIn(archive) \ {NoFile} : Covered(f) => Covered(f)'
      PROVE  Cover'
  <2>1. \A n \in bchosen : FileOf(n)' = FileOf(n)
    BY <1>3 DEF FileOf, Stanza, Stanzas
  <2>2. \A n \in bchosen : FileOf(n) \in FilesIn(archive) \ {NoFile}
    BY <1>3, ChosenFiles
  <2> QED BY <1>3, <2>1, <2>2 DEF Cover, WholeFiles
<1>4. CASE PointRelease
  BY <1>2, <1>4 DEF PointRelease
<1>5. CASE FetchIndex \/ ReadIndex \/ Visit \/ Interrupted
  BY <1>1, <1>5 DEF FetchIndex, ReadIndex, Visit, Interrupted, Fail, Ends
<1>6. CASE Resolved
  <2>1. /\ stage' = "download" /\ UNCHANGED <<archive, packages, bchosen>>
        /\ jobs' = {FileOf(n) : n \in bchosen}
    BY <1>6 DEF Resolved, FileOf
  <2>2. \A n \in bchosen : FileOf(n)' = FileOf(n)
    BY <2>1 DEF FileOf, Stanza, Stanzas
  <2>3. \A n \in bchosen' : Covered(FileOf(n))'
    BY <2>1, <2>2 DEF Covered
  <2> QED BY <2>1, <2>3 DEF Cover, WholeFiles
<1>7. ASSUME NEW t \in Workers, NEW f \in jobs, TakeJob(t, f) PROVE Cover'
  <2>1. /\ stage = "download" /\ worker[t].file = NoFile /\ jobs' = jobs \ {f}
        /\ UNCHANGED <<archive, packages, bchosen, stage, broken>>
    BY <1>7 DEF TakeJob
  <2>2. CASE debs[f] = "whole" /\ UNCHANGED <<debs, worker>>
    BY <1>3, <2>1, <2>2 DEF Covered
  <2>3. CASE /\ debs[f] # "whole" /\ debs' = [debs EXCEPT ![f] = "none"]
             /\ worker' = [worker EXCEPT ![t].file = f, ![t].tries = 0]
    <3>1. worker'[t].file = f /\ \A u \in Workers \ {t} : worker'[u].file = worker[u].file
      BY <2>3 DEF PoolTypes
    <3>2. \A g \in FilesIn(archive) \ {f} : debs'[g] = debs[g]
      BY <2>3 DEF PoolTypes
    <3> QED BY <1>3, <2>1, <2>3, <3>1, <3>2 DEF Covered
  <2> QED BY <1>7, <2>2, <2>3 DEF TakeJob, Usable
<1>8. ASSUME NEW t \in Workers, Arrived(t) PROVE Cover'
  <2>1. /\ stage = "download" /\ UNCHANGED <<archive, packages, bchosen, stage, broken, jobs>>
        /\ debs' = [debs EXCEPT ![worker[t].file] = "whole"] /\ worker[t].file # NoFile
    BY <1>8 DEF Arrived
  <2>2. worker[t].file \in FilesIn(archive)
    BY <2>1 DEF PoolTypes
  <2>3. /\ debs'[worker[t].file] = "whole"
        /\ \A g \in FilesIn(archive) : debs[g] = "whole" => debs'[g] = "whole"
    BY <2>1, <2>2 DEF PoolTypes
  <2>4. \A u \in Workers \ {t} : worker'[u].file = worker[u].file
    BY <1>8 DEF Arrived, PoolTypes
  <2> QED BY <1>3, <2>1, <2>3, <2>4 DEF Covered
<1>9. ASSUME NEW t \in Workers, Refused(t) PROVE Cover'
  <2>1. /\ stage = "download" /\ UNCHANGED <<archive, packages, bchosen, stage, jobs, debs>>
        /\ broken => broken'
    BY <1>9 DEF Refused
  <2>2. \A u \in Workers \ {t} : worker'[u].file = worker[u].file
    BY <1>9 DEF Refused, PoolTypes
  <2>3. broken' \/ worker'[t].file = worker[t].file
    <3>1. CASE LastTry(worker[t].tries)
      BY <1>9, <3>1 DEF Refused
    <3>2. CASE ~LastTry(worker[t].tries)
      BY <1>9, <3>2 DEF Refused, PoolTypes
    <3> QED BY <3>1, <3>2
  <2> QED BY <1>3, <2>1, <2>2, <2>3 DEF Covered
<1>10. CASE Downloaded
  <2>1. CASE Fail
    BY <1>1, <2>1 DEF Fail, Ends
  <2>2. CASE /\ ~broken /\ stage' = "convert"
             /\ UNCHANGED <<archive, packages, bchosen, debs>>
    <3>1. /\ stage = "download" /\ jobs = {} /\ \A t \in Workers : worker[t].file = NoFile
      BY <1>10 DEF Downloaded
    <3>2. \A n \in bchosen : FileOf(n) # NoFile /\ FileOf(n)' = FileOf(n)
      BY <2>2, <3>1, ChosenFiles DEF FileOf, Stanza, Stanzas
    <3>3. \A n \in bchosen : debs[FileOf(n)] = "whole"
      BY <2>2, <3>1, <3>2 DEF Cover, Covered
    <3> QED BY <2>2, <3>2, <3>3 DEF Cover, WholeFiles, FileOf
  <2> QED BY <1>10, <2>1, <2>2 DEF Downloaded
<1>11. CASE \/ \E bad \in SUBSET bchosen : Convert(bad)
            \/ \E refused \in BOOLEAN : InstallOne(refused)
            \/ AllInstalled \/ FromRepo \/ Finish \/ Complete
  BY <1>1, <1>11 DEF Convert, InstallOne, AllInstalled, FromRepo, Finish, Complete, Fail, Ends
<1>12. ASSUME NEW b \in Builds, Start(b) PROVE Cover'
  BY <1>1, <1>12 DEF Start
<1>13. CASE Partition
  BY <1>1, <1>2, <1>13 DEF Partition, ScreenInv, Idle
<1>14. CASE PowerOn \/ PowerLost \/ PickDisk \/ BootstrapOver \/ Done
            \/ \E works \in BOOLEAN : Finalise(works)
  BY <1>2, <1>14 DEF PowerOn, PowerLost, PickDisk, BootstrapOver, Done, Finalise
<1> QED BY <1>4, <1>5, <1>6, <1>7, <1>8, <1>9, <1>10, <1>11, <1>12, <1>13, <1>14
        DEF InstallerNext, InstallerStep, BootStep

-----------------------------------------------------------------------------
(* What _finish_root leaves.  The root keeps its fields; the steps come in *)
(* their order, each over what the ones before it have made.               *)

RootFields == DOMAIN sys = DOMAIN EmptyRoot

Accounts_(s) == s.declared \subseteq s.accounts \cup s.unapplied

\* The link at p leads to a file, as AlternativesBound has it.
Leads(fs, p) == fs[Linked(fs, Linked(fs, fs[p]))] = File
Fixed(fs) ==
  \A p \in DOMAIN Variants :
    Candidates(fs, Variants[p]) # {} /\ fs[p] \in AltPaths => Leads(fs, p)
Ensured(fs) ==
  \A p \in DOMAIN ALTERNATIVES : Candidates(fs, ALTERNATIVES[p]) # {} => fs[p] # Absent

\* What is to come are the steps from the k-th on.
From(k) ==
  /\ finish \in Seq(ToSet(FinishSteps)) /\ Len(finish) = 12 - k
  /\ \A i \in 1 .. 12 - k : finish[i] = FinishSteps[k + i - 1]

FinishInv ==
  /\ RootFields
  /\ stage = "finish" => \E k \in 1 .. 12 :
       /\ From(k)
       /\ k >= 8 => Accounts_(sys)
       /\ k >= 9 => Fixed(sys.fs)
       /\ k >= 10 => Ensured(sys.fs)
  /\ stage = "done" => Accounts_(sys) /\ Fixed(sys.fs) /\ Ensured(sys.fs)

LEMMA StepsType == FinishSteps \in Seq(ToSet(FinishSteps)) /\ Len(FinishSteps) = 11
<1>1. Len(FinishSteps) = 11
  BY DEF FinishSteps
<1>2. FinishSteps = [i \in 1 .. 11 |-> FinishSteps[i]] /\ DOMAIN FinishSteps = 1 .. 11
  BY DEF FinishSteps
<1>3. \A i \in 1 .. 11 : FinishSteps[i] \in ToSet(FinishSteps)
  BY <1>2 DEF ToSet
<1> QED BY <1>1, <1>2, <1>3

LEMMA NextStep ==
  ASSUME NEW k \in 1 .. 12, From(k), finish # <<>>
  PROVE  k \in 1 .. 11 /\ Head(finish) = FinishSteps[k] /\ (finish' = Tail(finish) => From(k + 1)')
<1>1. k \in 1 .. 11
  BY DEF From
<1>2. Head(finish) = FinishSteps[k]
  <2>1. 1 \in 1 .. 12 - k /\ k + 1 - 1 = k
    BY <1>1
  <2>2. finish[1] = FinishSteps[k + 1 - 1]
    BY <2>1 DEF From
  <2> QED BY <2>1, <2>2 DEF From
<1>3. ASSUME finish' = Tail(finish) PROVE From(k + 1)'
  <2>1. /\ finish' \in Seq(ToSet(FinishSteps)) /\ Len(finish') = 12 - (k + 1)
        /\ \A i \in 1 .. 12 - (k + 1) : finish'[i] = finish[i + 1]
    BY <1>1, <1>3 DEF From
  <2>2. \A i \in 1 .. 12 - (k + 1) : finish[i + 1] = FinishSteps[k + (i + 1) - 1]
    BY <1>1 DEF From
  <2> QED BY <1>1, <2>1, <2>2 DEF From
<1> QED BY <1>1, <1>2, <1>3

\* The variants of a link, and what may serve a name, are paths of the image,
\* the variants not those that fix_alternatives writes.
LEMMA CandidateType ==
  /\ \A p \in DOMAIN Variants : \A i \in DOMAIN Variants[p] : Variants[p][i] \in Paths \ AltPaths
  /\ \A p \in DOMAIN ALTERNATIVES :
       /\ DOMAIN ALTERNATIVES[p] \subseteq Nat
       /\ \A i \in DOMAIN ALTERNATIVES[p] : ALTERNATIVES[p][i] \in Paths
BY AlternativesAssumption

\* fix_alternatives mends every link that leads nowhere and leaves the others
\* leading where they did.
LEMMA FixFixes == ASSUME NEW s, "fs" \in DOMAIN s PROVE Fixed(fix_alternatives(s).fs)
<1> DEFINE fs == s.fs
           gs == fix_alternatives(s).fs
           mended == {p \in Paths : \E q \in Dangling(fs) :
                        fs[q] = p /\ Candidates(fs, Variants[q]) # {}}
<1>1. /\ \A p \in mended : gs[p] = File
      /\ \A p \in Paths \ mended : gs[p] = fs[p]
  BY DEF fix_alternatives
<1>2. mended \subseteq AltPaths
  BY DEF Dangling
<1>3. AltPaths \subseteq Paths /\ DOMAIN Variants \subseteq Paths /\ File \notin Paths
  BY BootstrapConstants, AlternativesAssumption
<1> SUFFICES ASSUME NEW p \in DOMAIN Variants,
                    Candidates(gs, Variants[p]) # {}, gs[p] \in AltPaths
             PROVE  Leads(gs, p)
  BY DEF Fixed
<1>4. Candidates(fs, Variants[p]) # {}
  BY <1>1, <1>2, CandidateType DEF Candidates
<1>5. gs[p] = fs[p] /\ fs[p] \in AltPaths
  BY <1>1, <1>3
<1>6. fs[p] \in mended => gs[fs[p]] = File
  BY <1>1
<1>7. CASE p \in Dangling(fs)
  <2>1. gs[fs[p]] = File
    BY <1>1, <1>3, <1>4, <1>5, <1>7
  <2> HIDE DEF gs
  <2> QED BY <1>3, <1>5, <2>1 DEF Leads, Linked
<1>8. CASE resolve_in_root(fs, p)
  <2> DEFINE a == fs[p]
             b == Linked(fs, a)
             c == Linked(fs, b)
  <2>1. a \in Paths /\ b \in Paths /\ c \in Paths /\ fs[c] = File
    BY <1>3, <1>5, <1>8 DEF resolve_in_root, Linked
  <2>2. \A x \in Paths : gs[x] = File \/ gs[x] = fs[x]
    BY <1>1
  <2>3. gs[p] = a
    BY <1>5
  <2>4. b = IF fs[a] \in Paths THEN fs[a] ELSE a
    BY DEF Linked
  <2>5. c = IF fs[b] \in Paths THEN fs[b] ELSE b
    BY DEF Linked
  <2> HIDE DEF gs, fs, a, b, c, mended
  <2>6. CASE gs[a] = File
    BY <1>3, <2>3, <2>6 DEF Leads, Linked
  <2>7. CASE gs[a] # File /\ gs[b] = File
    <3>1. gs[a] = fs[a] /\ Linked(gs, a) = b
      BY <2>1, <2>2, <2>4, <2>7 DEF Linked
    <3> QED BY <1>3, <2>3, <2>7, <3>1 DEF Leads, Linked
  <2>8. CASE gs[a] # File /\ gs[b] # File
    <3>1. Linked(gs, a) = b /\ Linked(gs, b) = c
      BY <2>1, <2>2, <2>4, <2>5, <2>8 DEF Linked
    <3>2. gs[c] = File
      BY <2>1, <2>2
    <3> QED BY <2>3, <3>1, <3>2 DEF Leads
  <2> QED BY <2>6, <2>7, <2>8
<1>9. p \in Dangling(fs) \/ resolve_in_root(fs, p)
  BY <1>5 DEF Dangling
<1> QED BY <1>7, <1>8, <1>9

\* ensure_alternatives fills what is absent, and never with a file.
LEMMA EnsureEnsures ==
  ASSUME NEW s, "fs" \in DOMAIN s, Fixed(s.fs)
  PROVE  Fixed(ensure_alternatives(s).fs) /\ Ensured(ensure_alternatives(s).fs)
<1> DEFINE fs == s.fs
           gs == ensure_alternatives(s).fs
           filled == {p \in Paths : /\ p \in DOMAIN ALTERNATIVES /\ fs[p] = Absent
                                    /\ Serving(fs, p) # {}}
           with(p) == ALTERNATIVES[p][Min(Serving(fs, p))]
<1>1. /\ \A p \in filled : gs[p] = with(p)
      /\ \A p \in Paths \ filled : gs[p] = fs[p]
  BY DEF ensure_alternatives
<1>2. \A p \in filled : with(p) \in Paths \ AltPaths
  <2> TAKE p \in filled
  <2>1. ALTERNATIVES[p] \in Seq(Paths \ AltPaths)
    BY AlternativesAssumption
  <2>2. Serving(fs, p) \in SUBSET Nat /\ Serving(fs, p) # {}
    BY <2>1 DEF Serving
  <2>3. Min(Serving(fs, p)) \in DOMAIN ALTERNATIVES[p]
    BY <2>2, LeastNumber DEF Serving
  <2> QED BY <2>1, <2>3
<1>3. /\ AltPaths \subseteq Paths /\ DOMAIN Variants \subseteq Paths
      /\ DOMAIN ALTERNATIVES \subseteq Paths
      /\ File \notin Paths /\ Absent \notin Paths /\ File # Absent
  BY BootstrapConstants, AlternativesAssumption
<1>4. \A p \in filled : fs[p] = Absent
  OBVIOUS
<1>5. \A p \in Paths : gs[p] = File <=> fs[p] = File
  <2> HIDE DEF with, gs, filled
  <2> QED BY <1>1, <1>2, <1>3, <1>4
<1>6. /\ \A p \in DOMAIN Variants : Candidates(gs, Variants[p]) = Candidates(fs, Variants[p])
      /\ \A p \in DOMAIN ALTERNATIVES :
           Candidates(gs, ALTERNATIVES[p]) = Candidates(fs, ALTERNATIVES[p])
  <2> HIDE DEF gs, fs
  <2> QED BY <1>5, CandidateType DEF Candidates
<1>7. Ensured(gs)
  <2> SUFFICES ASSUME NEW p \in DOMAIN ALTERNATIVES, Candidates(fs, ALTERNATIVES[p]) # {}
               PROVE  gs[p] # Absent
    BY <1>6 DEF Ensured
  <2>1. CASE p \in filled
    BY <1>1, <1>2, <1>3, <2>1
  <2>2. CASE p \notin filled
    <3>1. PICK i \in DOMAIN ALTERNATIVES[p] : fs[ALTERNATIVES[p][i]] = File
      BY DEF Candidates
    <3>2. isfile(fs, ALTERNATIVES[p][i])
      BY <1>3, <3>1 DEF isfile, Linked, Abroad
    <3>3. fs[p] # Absent
      BY <1>3, <2>2, <3>2 DEF Serving
    <3> QED BY <1>1, <1>3, <2>2, <3>3
  <2> QED BY <2>1, <2>2
<1>8. ASSUME NEW p \in DOMAIN Variants, Candidates(gs, Variants[p]) # {}, gs[p] \in AltPaths
      PROVE  Leads(gs, p)
  <2>1. CASE p \in filled
    BY <1>1, <1>2, <1>8, <2>1
  <2>2. CASE p \notin filled
    <3> DEFINE a == fs[p]
               b == Linked(fs, a)
               c == Linked(fs, b)
    <3>1. gs[p] = a /\ a \in Paths /\ fs[c] = File
      BY <1>1, <1>3, <1>6, <1>8, <2>2 DEF Fixed, Leads
    <3>2. b = (IF fs[a] \in Paths THEN fs[a] ELSE a) /\ c = (IF fs[b] \in Paths THEN fs[b] ELSE b)
      BY DEF Linked
    <3> HIDE DEF gs, fs, a, b, c, filled, with
    <3>3. b \in Paths /\ c \in Paths
      BY <3>1, <3>2
    <3>4. fs[a] # Absent /\ fs[b] # Absent
      BY <1>3, <3>1, <3>2
    <3>5. gs[a] = fs[a] /\ gs[b] = fs[b] /\ gs[c] = File
      BY <1>1, <1>4, <1>5, <3>1, <3>3, <3>4
    <3>6. Linked(gs, a) = b /\ Linked(gs, b) = c
      BY <3>2, <3>5 DEF Linked
    <3> QED BY <3>1, <3>5, <3>6 DEF Leads
  <2> QED BY <2>1, <2>2
<1> QED BY <1>7, <1>8 DEF Fixed

LEMMA EmptyIsSound == Accounts_(EmptyRoot) /\ Fixed(EmptyRoot.fs) /\ Ensured(EmptyRoot.fs)
<1>1. \A p \in Paths : EmptyRoot.fs[p] = Absent
  BY DEF EmptyRoot
<1>2. /\ \A p \in DOMAIN Variants : Candidates(EmptyRoot.fs, Variants[p]) = {}
      /\ \A p \in DOMAIN ALTERNATIVES : Candidates(EmptyRoot.fs, ALTERNATIVES[p]) = {}
  BY <1>1, CandidateType, AlternativesAssumption DEF Candidates
<1>3. Accounts_(EmptyRoot)
  BY DEF EmptyRoot, Accounts_
<1> QED BY <1>2, <1>3 DEF Fixed, Ensured

\* One step of _finish_root: the fields stay, and what the steps before it
\* have brought about is kept.
LEMMA StepKeeps ==
  ASSUME RootFields, NEW k \in 1 .. 11, From(k), finish # <<>>, NEW failed \in SUBSET sys.declared,
         k >= 8 => Accounts_(sys), k >= 9 => Fixed(sys.fs), k >= 10 => Ensured(sys.fs),
         NEW after, after = Step(sys, failed)
  PROVE  /\ DOMAIN after = DOMAIN EmptyRoot
         /\ k + 1 >= 8 => Accounts_(after)
         /\ k + 1 >= 9 => Fixed(after.fs)
         /\ k + 1 >= 10 => Ensured(after.fs)
<1>1. Head(finish) = FinishSteps[k]
  BY NextStep
<1>2. {"skeleton", "fs", "pkgs", "units", "declared", "accounts", "unapplied", "etc", "pam",
       "wheel", "power", "enabled", "login", "repos", "suite"} = DOMAIN sys
  BY DEF RootFields, EmptyRoot
<1>3. CASE k = 1
  <2>1. after = setup_etc(sys)
    BY <1>1, <1>3 DEF FinishSteps, Step
  <2> QED BY <1>2, <1>3, <2>1 DEF setup_etc, RootFields
<1>4. CASE k = 2
  <2>1. after = setup_users(sys)
    BY <1>1, <1>4 DEF FinishSteps, Step
  <2> QED BY <1>2, <1>4, <2>1 DEF setup_users, RootFields
<1>5. CASE k = 3
  <2>1. after = setup_pam(sys)
    BY <1>1, <1>5 DEF FinishSteps, Step
  <2> QED BY <1>2, <1>5, <2>1 DEF setup_pam, RootFields
<1>6. CASE k = 4
  <2>1. after = setup_sudo(sys)
    BY <1>1, <1>6 DEF FinishSteps, Step
  <2> QED BY <1>2, <1>6, <2>1 DEF setup_sudo, RootFields
<1>7. CASE k = 5
  <2>1. after = setup_network(sys)
    BY <1>1, <1>7 DEF FinishSteps, Step
  <2> QED BY <1>2, <1>7, <2>1 DEF setup_network, RootFields
<1>8. CASE k = 6
  <2>1. after = setup_polkit(sys)
    BY <1>1, <1>8 DEF FinishSteps, Step
  <2> QED BY <1>2, <1>8, <2>1 DEF setup_polkit, RootFields
<1>9. CASE k = 7
  <2>1. after = apply_systemd_declarations(sys, failed)
    BY <1>1, <1>9 DEF FinishSteps, Step
  <2>2. /\ DOMAIN after = DOMAIN sys /\ after.declared = sys.declared
        /\ after.unapplied = failed /\ after.accounts = sys.accounts \cup (sys.declared \ failed)
    BY <1>2, <2>1 DEF apply_systemd_declarations
  <2>3. Accounts_(after)
    BY <2>2 DEF Accounts_
  <2> QED BY <1>9, <2>2, <2>3 DEF RootFields
<1>10. CASE k = 8
  <2>1. after = fix_alternatives(sys)
    BY <1>1, <1>10 DEF FinishSteps, Step
  <2>2. Fixed(after.fs)
    BY <1>2, <2>1, FixFixes
  <2>3. /\ DOMAIN after = DOMAIN sys /\ after.declared = sys.declared
        /\ after.unapplied = sys.unapplied /\ after.accounts = sys.accounts
    BY <1>2, <2>1 DEF fix_alternatives
  <2> QED BY <1>10, <2>2, <2>3 DEF RootFields, Accounts_
<1>11. CASE k = 9
  <2>1. after = ensure_alternatives(sys)
    BY <1>1, <1>11 DEF FinishSteps, Step
  <2>2. Fixed(after.fs) /\ Ensured(after.fs)
    BY <1>2, <1>11, <2>1, EnsureEnsures
  <2>3. /\ DOMAIN after = DOMAIN sys /\ after.declared = sys.declared
        /\ after.unapplied = sys.unapplied /\ after.accounts = sys.accounts
    BY <1>2, <2>1 DEF ensure_alternatives
  <2> QED BY <1>11, <2>2, <2>3 DEF RootFields, Accounts_
<1>12. CASE k = 10
  <2>1. after = install_npkg(sys)
    BY <1>1, <1>12 DEF FinishSteps, Step
  <2>2. /\ after.fs = sys.fs /\ after.declared = sys.declared /\ after.accounts = sys.accounts
        /\ after.unapplied = sys.unapplied /\ DOMAIN after = DOMAIN sys
    BY <1>2, <2>1 DEF install_npkg
  <2> QED BY <1>12, <2>2 DEF RootFields, Accounts_
<1>13. CASE k = 11
  <2>1. after = install_desktop(sys)
    BY <1>1, <1>13 DEF FinishSteps, Step
  <2>2. /\ after.fs = sys.fs /\ after.declared = sys.declared /\ after.accounts = sys.accounts
        /\ after.unapplied = sys.unapplied /\ DOMAIN after = DOMAIN sys
    BY <1>2, <2>1 DEF install_desktop
  <2> QED BY <1>13, <2>2 DEF RootFields, Accounts_
<1> QED BY <1>3, <1>4, <1>5, <1>6, <1>7, <1>8, <1>9, <1>10, <1>11, <1>12, <1>13

LEMMA StepFinish ==
  ASSUME ScreenInv, FinishInv, InstallerNext
  PROVE  FinishInv'
<1> USE DEF bootVars, cached, walk, pool
<1>1. ASSUME UNCHANGED <<sys, stage, finish>> PROVE FinishInv'
  BY <1>1 DEF FinishInv, RootFields, From
<1>2. ASSUME RootFields', stage' \notin {"finish", "done"} PROVE FinishInv'
  BY <1>2 DEF FinishInv
<1>3. ASSUME UNCHANGED sys, stage' \notin {"finish", "done"} PROVE FinishInv'
  BY <1>2, <1>3 DEF FinishInv, RootFields
<1>4. CASE PointRelease
  BY <1>1, <1>4 DEF PointRelease
<1>5. CASE FetchIndex \/ ReadIndex \/ Resolved \/ Interrupted
  BY <1>3, <1>5 DEF FetchIndex, ReadIndex, Resolved, Interrupted, Fail, Ends
<1>6. CASE Visit
  BY <1>1, <1>6 DEF Visit
<1>7. ASSUME NEW t \in Workers, Arrived(t) \/ Refused(t) \/ \E f \in jobs : TakeJob(t, f)
      PROVE  FinishInv'
  BY <1>1, <1>7 DEF Arrived, Refused, TakeJob
<1>8. CASE Downloaded
  BY <1>3, <1>8 DEF Downloaded, Fail, Ends
<1>9. ASSUME NEW bad \in SUBSET bchosen, Convert(bad) PROVE FinishInv'
  BY <1>2, <1>9 DEF Convert, FinishInv, RootFields
<1>10. ASSUME NEW refused \in BOOLEAN, InstallOne(refused) PROVE FinishInv'
  <2>1. RootFields'
    BY <1>10 DEF InstallOne, Unpack, FinishInv, RootFields
  <2> QED BY <1>2, <1>10, <2>1 DEF InstallOne, Fail, Ends
<1>11. CASE AllInstalled
  <2>1. RootFields'
    BY <1>11 DEF AllInstalled, FinishInv, RootFields
  <2>2. stage' = "finish" /\ finish' = FinishSteps
    BY <1>11 DEF AllInstalled
  <2>3. From(1)'
    BY <2>2, StepsType DEF From
  <2> QED BY <2>1, <2>2, <2>3 DEF FinishInv
<1>12. CASE FromRepo
  <2>1. RootFields'
    BY <1>12 DEF FromRepo, FinishInv, RootFields
  <2> QED BY <1>2, <1>12, <2>1 DEF FromRepo, Fail, Ends
<1>13. CASE Finish
  <2>1. stage = "finish" /\ stage' = "finish" /\ finish # <<>> /\ finish' = Tail(finish)
    BY <1>13 DEF Finish
  <2>2. PICK failed \in SUBSET sys.declared : sys' = Step(sys, failed)
    BY <1>13 DEF Finish
  <2>3. PICK k \in 1 .. 12 : /\ From(k)
                             /\ k >= 8 => Accounts_(sys)
                             /\ k >= 9 => Fixed(sys.fs)
                             /\ k >= 10 => Ensured(sys.fs)
    BY <2>1 DEF FinishInv
  <2>4. k \in 1 .. 11 /\ From(k + 1)'
    BY <2>1, <2>3, NextStep
  <2>5. /\ DOMAIN sys' = DOMAIN EmptyRoot
        /\ k + 1 >= 8 => Accounts_(sys')
        /\ k + 1 >= 9 => Fixed(sys'.fs)
        /\ k + 1 >= 10 => Ensured(sys'.fs)
    BY <2>1, <2>2, <2>3, <2>4, StepKeeps DEF FinishInv
  <2>6. k + 1 \in 1 .. 12
    BY <2>4
  <2> QED BY <2>1, <2>4, <2>5, <2>6 DEF FinishInv, RootFields
<1>14. CASE Complete
  <2>1. stage = "finish" /\ finish = <<>> /\ UNCHANGED sys /\ stage' = "done"
    BY <1>14 DEF Complete, Ends
  <2>2. PICK k \in 1 .. 12 : /\ From(k)
                             /\ k >= 8 => Accounts_(sys)
                             /\ k >= 9 => Fixed(sys.fs)
                             /\ k >= 10 => Ensured(sys.fs)
    BY <2>1 DEF FinishInv
  <2>3. k = 12
    BY <2>1, <2>2 DEF From
  <2> QED BY <2>1, <2>2, <2>3 DEF FinishInv, RootFields
<1>15. ASSUME NEW b \in Builds, Start(b) PROVE FinishInv'
  BY <1>3, <1>15 DEF Start
<1>16. CASE Partition
  <2>1. RootFields' /\ sys' = EmptyRoot /\ stage' \in {stage, "load"} /\ Idle
    BY <1>16 DEF Partition, RootFields, ScreenInv
  <2> QED BY <1>2, <2>1, EmptyIsSound DEF FinishInv, Idle
<1>17. CASE PowerOn \/ PowerLost \/ PickDisk \/ BootstrapOver \/ Done
            \/ \E works \in BOOLEAN : Finalise(works)
  BY <1>1, <1>17 DEF PowerOn, PowerLost, PickDisk, BootstrapOver, Done, Finalise
<1> QED BY <1>4, <1>5, <1>6, <1>7, <1>8, <1>9, <1>10, <1>11, <1>12, <1>13, <1>14, <1>15, <1>16, <1>17
        DEF InstallerNext, InstallerStep, BootStep

-----------------------------------------------------------------------------
BuildInv == ScreenInv /\ ArchiveInv /\ ChosenInv /\ PoolTypes /\ Cover /\ FinishInv

LEMMA InitBuild == InstallerInit => BuildInv
<1> SUFFICES ASSUME InstallerInit PROVE BuildInv
  OBVIOUS
<1>1. /\ phase = "off" /\ stage = "idle" /\ Fresh /\ jobs = {} /\ sys = EmptyRoot
      /\ worker = [t \in Workers |-> NoJob]
      /\ \E d \in {"none", "short"} : debs = [f \in FilesIn(archive) |-> d]
  BY DEF InstallerInit, BootInit, BootInitAt, Fresh
<1>2. ScreenInv
  BY <1>1 DEF ScreenInv
<1>3. ChosenInv /\ Cover
  BY <1>1 DEF ChosenInv, Cover, WholeFiles
<1>4. PoolTypes
  BY <1>1, NoJobType DEF PoolTypes
<1>5. FinishInv
  BY <1>1 DEF FinishInv, RootFields
<1> QED BY <1>2, <1>3, <1>4, <1>5, InitArchive DEF BuildInv

LEMMA BuildInductive == BuildInv /\ [InstallerNext]_installerVars => BuildInv'
<1>1. ASSUME BuildInv, InstallerNext PROVE BuildInv'
  BY <1>1, StepScreen, StepArchive, StepChosen, StepPoolTypes, StepCover, StepFinish DEF BuildInv
<1>2. ASSUME BuildInv, UNCHANGED installerVars PROVE BuildInv'
  <2> USE <1>2 DEF installerVars, bootVars, cached, walk, pool
  <2>1. ScreenInv' /\ ArchiveInv'
    BY DEF BuildInv, ScreenInv, Idle, Scripted, Kernel_, ArchiveInv
  <2>2. ChosenInv'
    BY DEF BuildInv, ChosenInv, Fresh, Names, Stanzas
  <2>3. PoolTypes'
    BY DEF BuildInv, PoolTypes, FilesIn
  <2>4. Cover'
    BY DEF BuildInv, Cover, WholeFiles, Covered, FileOf, Stanza, Stanzas
  <2>5. FinishInv'
    BY DEF BuildInv, FinishInv, RootFields, From
  <2> QED BY <2>1, <2>2, <2>3, <2>4, <2>5 DEF BuildInv
<1> QED BY <1>1, <1>2

\* However many threads fetch the files, whatever earlier builds have left in
\* the cache and in the root, and wherever they were cut short: what is
\* converted is whole, and a root called finished has the accounts that
\* systemd-sysusers made of those declared, no link to an alternative that
\* dangles beside an installed variant, and no name missing that a regular file
\* could serve.
THEOREM BuildsAreSound == InstallerSpec => []BuildsSound
<1>1. BuildInv => BuildsSound
  BY DEF BuildInv, BuildsSound, Cover, FinishInv, AccountsDeclared, AlternativesBound,
         Accounts_, Fixed, Ensured, Leads
<1> QED BY <1>1, InitBuild, BuildInductive, PTL DEF InstallerSpec

-----------------------------------------------------------------------------
(* The package set is the closure of the seeds.  What is chosen belongs to *)
(* every closed set with the seeds in it; what is still missing from one   *)
(* is in the queue.                                                        *)

Heads(n) == LET s == Stanza(packages, n)
            IN {Head(c) : c \in ToSet(s.Pre_Depends) \cup ToSet(s.Depends)}

Brought(name) == archive_provider(packages, name) \subseteq bchosen
Pending(name) == name \in ToSet(bqueue) \/ Brought(name)

Able == {S \in SUBSET Names(packages) :
           /\ \A n \in Seeds(build, packages) : archive_provider(packages, n) \subseteq S
           /\ Closed(packages, S)}

Walked ==
  /\ bqueue \in Seq(ToSet(bqueue))
  /\ \A S \in Able : /\ bchosen \subseteq S
                     /\ \A n \in ToSet(bqueue) : archive_provider(packages, n) \subseteq S
  /\ \A n \in Seeds(build, packages) : Pending(n)
  /\ \A m \in bchosen : \A n \in Heads(m) : Pending(n)
  /\ \A n \in missing : archive_provider(packages, n) = {}

WalkInv ==
  /\ stage = "load" => build \in Builds \cup {InstallBuild}
  /\ stage \in {"resolve", "download"} => Walked
  /\ stage = "download" => bqueue = <<>>

LEMMA RequiredType ==
  ASSUME ArchiveInv, packages \in 1 .. release, NEW n \in Names(packages)
  PROVE  LET rs == Required(Stanza(packages, n))
         IN rs \in Seq(ToSet(rs)) /\ ToSet(rs) = Heads(n)
<1> DEFINE s == Stanza(packages, n)
           clauses == s.Pre_Depends \o s.Depends
           rs == Required(s)
<1>1. s.Pre_Depends \in Seq(ToSet(s.Pre_Depends)) /\ s.Depends \in Seq(ToSet(s.Depends))
  BY StanzaType
<1>2. /\ ToSet(clauses) = ToSet(s.Pre_Depends) \cup ToSet(s.Depends)
      /\ clauses \in Seq(ToSet(clauses))
  BY <1>1, ToSetConcat
<1>3. rs = [i \in DOMAIN clauses |-> Head(clauses[i])]
  BY DEF Required
<1> HIDE DEF s, clauses, rs
<1>4. /\ Len(clauses) \in Nat /\ DOMAIN clauses = 1 .. Len(clauses)
      /\ \A i \in 1 .. Len(clauses) : clauses[i] \in ToSet(clauses)
  BY <1>2 DEF ToSet
<1>5. DOMAIN rs = 1 .. Len(clauses) /\ \A i \in 1 .. Len(clauses) : rs[i] = Head(clauses[i])
  BY <1>3, <1>4
<1>6. ToSet(rs) = {Head(c) : c \in ToSet(clauses)}
  BY <1>4, <1>5 DEF ToSet
<1>7. rs \in Seq(ToSet(rs))
  <2>1. \A i \in 1 .. Len(clauses) : rs[i] \in ToSet(rs)
    BY <1>5 DEF ToSet
  <2>2. rs \in [1 .. Len(clauses) -> ToSet(rs)]
    BY <1>3, <1>4, <1>5, <2>1
  <2> QED BY <1>4, <2>2
<1> QED BY <1>2, <1>6, <1>7 DEF Heads, s, rs

LEMMA SeedsFinite ==
  ASSUME ArchiveInv, NEW r \in 1 .. release, NEW b \in Builds \cup {InstallBuild},
         b.sets \subseteq DOMAIN SETS
  PROVE  IsFiniteSet(Seeds(b, r))
<1> DEFINE of(s) == IF s = "firmware" /\ b.firmware # {} THEN b.firmware ELSE SETS[s]
           f == [s \in b.sets |-> of(s)]
           pieces == {of(s) : s \in b.sets}
<1>1. IsFiniteSet(b.sets) /\ IsFiniteSet(b.firmware) /\ \A s \in DOMAIN SETS : IsFiniteSet(SETS[s])
  BY SeedsAssumption, InstallAssumption
<1>2. f \in Surjection(b.sets, pieces)
  BY Fun_IsSurj
<1>3. IsFiniteSet(pieces)
  <2> HIDE DEF f, pieces
  <2> QED BY <1>1, <1>2, FS_Surjection
<1>4. \A p \in pieces : IsFiniteSet(p)
  BY <1>1
<1>5. IsFiniteSet(_seed_packages(b))
  <2>1. _seed_packages(b) = UNION pieces
    BY DEF _seed_packages
  <2> HIDE DEF pieces
  <2> QED BY <1>3, <1>4, <2>1, FS_UNION
<1> DEFINE g == [i \in DOMAIN archive[r] |-> archive[r][i].Package]
<1>6. g \in Surjection(DOMAIN archive[r], Names(r))
  BY Fun_IsSurj DEF Names, Stanzas
<1>7. archive[r] \in Seq(ToSet(archive[r]))
  BY ArchiveType DEF ArchiveInv
<1>8. IsFiniteSet(DOMAIN archive[r])
  BY <1>7, FS_Interval
<1>9. IsFiniteSet(Names(r))
  <2> HIDE DEF g
  <2> QED BY <1>6, <1>8, FS_Surjection
<1>10. IsFiniteSet(base_seeds(r))
  BY <1>9, FS_Subset DEF base_seeds
<1>11. IsFiniteSet(_seed_packages(b) \cup base_seeds(r))
  BY <1>5, <1>10, FS_Union
<1> QED BY <1>5, <1>11 DEF Seeds

\* Index and invocation stand, so the question does.
LEMMA SameQuestion ==
  ASSUME UNCHANGED <<archive, packages, build>>
  PROVE  /\ Able' = Able /\ Seeds(build, packages)' = Seeds(build, packages)
         /\ \A n : Heads(n)' = Heads(n)
         /\ \A n : archive_provider(packages, n)' = archive_provider(packages, n)
<1>1. /\ Names(packages)' = Names(packages)
      /\ \A n : Stanza(packages, n)' = Stanza(packages, n)
      /\ Stanzas(packages)' = Stanzas(packages)
  BY DEF Names, Stanza, Stanzas
<1>2. \A n : archive_provider(packages, n)' = archive_provider(packages, n)
  BY <1>1 DEF archive_provider
<1>3. Seeds(build, packages)' = Seeds(build, packages)
  BY <1>1 DEF Seeds, base_seeds, _seed_packages
<1>4. \A n : Heads(n)' = Heads(n)
  BY <1>1 DEF Heads
<1>5. \A S : Closed(packages, S)' = Closed(packages, S)
  BY <1>1, <1>2 DEF Closed
<1>6. Able' = Able
  BY <1>1, <1>2, <1>3, <1>5 DEF Able
<1> QED BY <1>2, <1>3, <1>4, <1>6

\* A name that is taken from the queue is provided for, or cannot be.
LEMMA Dequeued ==
  ASSUME Walked, bqueue # <<>>, Brought(Head(bqueue)),
         UNCHANGED <<archive, packages, build, bchosen>>, bqueue' = Tail(bqueue),
         \/ missing' = missing
         \/ missing' = missing \cup {Head(bqueue)} /\ archive_provider(packages, Head(bqueue)) = {}
  PROVE  Walked'
<1>1. /\ ToSet(bqueue) = {Head(bqueue)} \cup ToSet(bqueue')
      /\ bqueue' \in Seq(ToSet(bqueue'))
  BY ToSetTail DEF Walked
<1>2. \A n : Pending(n) => Pending(n)'
  BY <1>1, SameQuestion DEF Pending, Brought
<1>3. \A S \in Able : /\ bchosen \subseteq S
                      /\ \A n \in ToSet(bqueue') : archive_provider(packages, n) \subseteq S
  BY <1>1 DEF Walked
<1>4. \A n \in missing' : archive_provider(packages, n) = {}
  BY DEF Walked
<1> QED BY <1>1, <1>2, <1>3, <1>4, SameQuestion DEF Walked

\* A package that is chosen brings what it requires into the queue.
LEMMA Chose ==
  ASSUME ArchiveInv, packages \in 1 .. release, bchosen \subseteq Names(packages),
         Walked, bqueue # <<>>, NEW n \in archive_provider(packages, Head(bqueue)),
         bchosen' = bchosen \cup {n}, UNCHANGED <<archive, packages, build, missing>>,
         bqueue' = Tail(bqueue) \o Required(Stanza(packages, n))
  PROVE  Walked'
<1> DEFINE rs == Required(Stanza(packages, n))
<1>1. n \in Names(packages) /\ archive_provider(packages, Head(bqueue)) = {n}
  BY ProviderType
<1>2. rs \in Seq(ToSet(rs)) /\ ToSet(rs) = Heads(n)
  BY <1>1, RequiredType
<1>3. /\ ToSet(bqueue) = {Head(bqueue)} \cup ToSet(Tail(bqueue))
      /\ Tail(bqueue) \in Seq(ToSet(Tail(bqueue)))
  BY ToSetTail DEF Walked
<1> HIDE DEF rs
<1>4. /\ ToSet(bqueue') = ToSet(Tail(bqueue)) \cup Heads(n)
      /\ bqueue' \in Seq(ToSet(bqueue'))
  BY <1>2, <1>3, ToSetConcat DEF rs
<1>5. \A m : Pending(m) => Pending(m)'
  BY <1>1, <1>3, <1>4, SameQuestion DEF Pending, Brought
<1>6. \A m \in Heads(n) : Pending(m)'
  BY <1>4 DEF Pending
<1>7. ASSUME NEW S \in Able
      PROVE  bchosen' \subseteq S /\ \A m \in ToSet(bqueue') : archive_provider(packages, m) \subseteq S
  <2>1. n \in S
    BY <1>1, <1>3 DEF Walked
  <2>2. \A m \in Heads(n) : archive_provider(packages, m) \subseteq S
    BY <2>1 DEF Able, Closed, Heads
  <2> QED BY <1>3, <1>4, <2>1, <2>2 DEF Walked
<1>8. \A m \in bchosen' : \A k \in Heads(m) : Pending(k)'
  BY <1>5, <1>6 DEF Walked
<1> QED BY <1>4, <1>5, <1>7, <1>8, SameQuestion DEF Walked

LEMMA StepWalk ==
  ASSUME ScreenInv, ArchiveInv, ChosenInv, WalkInv, InstallerNext
  PROVE  WalkInv'
<1> USE DEF bootVars, cached, walk, pool
<1>1. ASSUME UNCHANGED <<archive, packages, build, walk, stage>> PROVE WalkInv'
  BY <1>1, SameQuestion DEF WalkInv, Walked, Pending, Brought
<1>2. ASSUME stage' \notin {"load", "resolve", "download"} PROVE WalkInv'
  BY <1>2 DEF WalkInv
<1>3. CASE PointRelease
  BY <1>1, <1>3 DEF PointRelease
<1>4. CASE FetchIndex
  BY <1>4 DEF FetchIndex, Fail, Ends, WalkInv
<1>5. CASE ReadIndex
  <2>1. CASE Fail
    BY <1>2, <2>1 DEF Fail, Ends
  <2>2. CASE ~Fail
    <3>1. /\ stage = "load" /\ packages # Absent /\ packages # Cut /\ stage' = "resolve"
          /\ build.sets \subseteq DOMAIN SETS /\ bqueue' = SetToSeq(Seeds(build, packages))
          /\ UNCHANGED <<archive, packages, build, bchosen, missing>>
      BY <1>5, <2>2 DEF ReadIndex
    <3>2. packages \in 1 .. release /\ bchosen = {} /\ missing = {}
      BY <3>1 DEF ArchiveInv, ChosenInv, Fresh
    <3>3. IsFiniteSet(Seeds(build, packages))
      BY <3>1, <3>2, SeedsFinite DEF WalkInv
    <3>4. ToSet(bqueue') = Seeds(build, packages) /\ bqueue' \in Seq(ToSet(bqueue'))
      BY <3>1, <3>3, ToSetSetToSeq
    <3>5. Walked'
      BY <3>1, <3>2, <3>4, SameQuestion DEF Walked, Pending, Able
    <3> QED BY <3>1, <3>5 DEF WalkInv
  <2> QED BY <2>1, <2>2
<1>6. CASE Visit
  <2>1. /\ stage = "resolve" /\ bqueue # <<>> /\ UNCHANGED <<archive, packages, build, stage>>
        /\ Walked /\ packages \in 1 .. release /\ bchosen \subseteq Names(packages)
    BY <1>6 DEF Visit, WalkInv, ArchiveInv, ChosenInv
  <2>2. Walked'
    <3>1. CASE Head(bqueue) \in bchosen \cup missing
      <4>1. bqueue' = Tail(bqueue) /\ UNCHANGED <<bchosen, missing>>
        BY <1>6, <3>1 DEF Visit
      <4>2. Brought(Head(bqueue))
        BY <2>1, <3>1, ProviderType DEF Brought, Walked
      <4> QED BY <2>1, <4>1, <4>2, Dequeued
    <3>2. CASE Head(bqueue) \notin bchosen \cup missing
      <4>1. \/ /\ archive_provider(packages, Head(bqueue)) = {}
               /\ missing' = missing \cup {Head(bqueue)}
               /\ bqueue' = Tail(bqueue) /\ UNCHANGED bchosen
            \/ \E n \in archive_provider(packages, Head(bqueue)) :
                 /\ bchosen' = bchosen \cup {n}
                 /\ bqueue' = Tail(bqueue) \o Required(Stanza(packages, n))
                 /\ UNCHANGED missing
        BY <1>6, <3>2 DEF Visit
      <4>2. archive_provider(packages, Head(bqueue)) = {} => Brought(Head(bqueue))
        BY DEF Brought
      <4> QED BY <2>1, <4>1, <4>2, Dequeued, Chose
    <3> QED BY <3>1, <3>2
  <2> QED BY <2>1, <2>2 DEF WalkInv
<1>7. CASE Resolved
  <2>1. /\ stage = "resolve" /\ bqueue = <<>> /\ stage' = "download"
        /\ UNCHANGED <<archive, packages, build, walk>>
    BY <1>7 DEF Resolved
  <2>2. Walked'
    BY <2>1, SameQuestion DEF WalkInv, Walked, Pending, Brought
  <2> QED BY <2>1, <2>2 DEF WalkInv
<1>8. ASSUME NEW t \in Workers, Arrived(t) \/ Refused(t) \/ \E f \in jobs : TakeJob(t, f)
      PROVE  WalkInv'
  BY <1>1, <1>8 DEF Arrived, Refused, TakeJob
<1>9. CASE Downloaded
  BY <1>2, <1>9 DEF Downloaded, Fail, Ends
<1>10. CASE \/ \E bad \in SUBSET bchosen : Convert(bad)
            \/ \E refused \in BOOLEAN : InstallOne(refused)
            \/ AllInstalled \/ FromRepo \/ Finish \/ Complete \/ Interrupted
  BY <1>2, <1>10 DEF Convert, InstallOne, AllInstalled, FromRepo, Finish, Complete,
     Interrupted, Fail, Ends
<1>11. ASSUME NEW b \in Builds, Start(b) PROVE WalkInv'
  BY <1>11 DEF Start, WalkInv
<1>12. CASE Partition
  <2>1. CASE phase' = "failed"
    BY <1>1, <1>12, <2>1 DEF Partition
  <2>2. CASE phase' # "failed"
    BY <1>12, <2>2 DEF Partition, WalkInv
  <2> QED BY <2>1, <2>2
<1>13. CASE PowerOn \/ PowerLost \/ PickDisk \/ BootstrapOver \/ Done
            \/ \E works \in BOOLEAN : Finalise(works)
  BY <1>1, <1>13 DEF PowerOn, PowerLost, PickDisk, BootstrapOver, Done, Finalise
<1> QED BY <1>3, <1>4, <1>5, <1>6, <1>7, <1>8, <1>9, <1>10, <1>11, <1>12, <1>13
        DEF InstallerNext, InstallerStep, BootStep

\* When the queue is empty what is chosen is closed itself, and so it is the
\* least of the closed sets.
LEMMA WalkEnds ==
  ASSUME bchosen \subseteq Names(packages), Walked, bqueue = <<>>
  PROVE  bchosen = Closure(packages, Seeds(build, packages))
<1>1. ToSet(bqueue) = {}
  BY DEF ToSet
<1>2. \A n \in Seeds(build, packages) : archive_provider(packages, n) \subseteq bchosen
  BY <1>1 DEF Walked, Pending, Brought
<1>3. Closed(packages, bchosen)
  BY <1>1 DEF Walked, Pending, Brought, Closed, Heads
<1>4. bchosen \in Able
  BY <1>2, <1>3 DEF Able
<1>5. \A S \in Able : bchosen \subseteq S
  BY DEF Walked
<1>6. Closure(packages, Seeds(build, packages)) = CHOOSE S \in Able : \A T \in Able : S \subseteq T
  BY DEF Closure, Able
<1>7. \A S \in Able : (\A T \in Able : S \subseteq T) => S = bchosen
  BY <1>4, <1>5
<1> HIDE DEF Able
<1> QED BY <1>4, <1>5, <1>6, <1>7

\* Whatever the index holds, in whatever order the queue is worked off, and
\* whatever cycles there are: the package set is the closure.
THEOREM ResolutionIsClosure == InstallerSpec => []ResolvedIsClosure
<1>1. InstallerInit => WalkInv
  BY DEF InstallerInit, BootInit, BootInitAt, WalkInv
<1>2. BuildInv /\ WalkInv /\ [InstallerNext]_installerVars => WalkInv'
  <2>1. ASSUME BuildInv, WalkInv, InstallerNext PROVE WalkInv'
    BY <2>1, StepWalk DEF BuildInv
  <2>2. ASSUME WalkInv, UNCHANGED installerVars PROVE WalkInv'
    BY <2>2, SameQuestion DEF installerVars, bootVars, cached, walk, WalkInv, Walked, Pending, Brought
  <2> QED BY <2>1, <2>2
<1>3. BuildInv /\ WalkInv => ResolvedIsClosure
  BY WalkEnds DEF BuildInv, ChosenInv, WalkInv, ResolvedIsClosure
<1> QED BY <1>1, <1>2, <1>3, InitBuild, BuildInductive, PTL DEF InstallerSpec
-----------------------------------------------------------------------------
(* The types.  What is unpacked are stanzas of the archive, so the root is *)
(* always a tree of the paths there are; and nobody starts more builds     *)
(* than the bound allows, because the installer only starts the one that   *)
(* was counted when it was switched on.                                    *)

IsTree(fs) == fs \in [Paths -> Paths \cup {File, Absent}]
Published_ == UNION {ToSet(archive[r]) : r \in DOMAIN archive}

InstallTypes ==
  /\ InstallTypeOK
  /\ phase \in {"disk", "partition"} => runs < MaxRuns
  /\ npks \subseteq Published_

LEMMA EmptyTree == IsTree(EmptyRoot.fs)
BY DEF IsTree, EmptyRoot

LEMMA UnpackTree ==
  ASSUME RootFields, IsTree(sys.fs), archive \in Archives, NEW s \in Published_
  PROVE  IsTree(Unpack(s).fs)
<1>1. PICK r \in DOMAIN archive : s \in ToSet(archive[r])
  BY DEF Published_
<1>2. s.files \subseteq Paths \X (Paths \cup {File})
  BY <1>1, ArchivesAssumption
<1> DEFINE at(p) == {f \in s.files : f[1] = p}
<1>3. ASSUME NEW p \in Paths, \E f \in s.files : f[1] = p
      PROVE  (CHOOSE f \in s.files : f[1] = p)[2] \in Paths \cup {File}
  BY <1>2, <1>3
<1>4. Unpack(s).fs = [p \in Paths |-> IF \E f \in s.files : f[1] = p
                        THEN (CHOOSE f \in s.files : f[1] = p)[2] ELSE sys.fs[p]]
  BY DEF RootFields, EmptyRoot, Unpack
<1>5. ASSUME NEW p \in Paths PROVE Unpack(s).fs[p] \in Paths \cup {File, Absent}
  <2>1. sys.fs[p] \in Paths \cup {File, Absent}
    BY DEF IsTree
  <2> QED BY <1>3, <1>4, <2>1
<1> QED BY <1>4, <1>5 DEF IsTree

\* The alternatives are paths, and so is what they are made to name.
LEMMA StepTree ==
  ASSUME RootFields, IsTree(sys.fs), Head(finish) \in ToSet(FinishSteps), NEW failed \in SUBSET sys.declared
  PROVE  IsTree(Step(sys, failed).fs)
<1> DEFINE step == Head(finish)
<1>1. {"skeleton", "fs", "pkgs", "units", "declared", "accounts", "unapplied", "etc", "pam",
       "wheel", "power", "enabled", "login", "repos", "suite"} = DOMAIN sys
  BY DEF RootFields, EmptyRoot
<1>2. step \in {"etc", "users", "pam", "sudo", "network", "polkit", "declarations",
                "fix", "ensure", "npkg", "desktop"}
  BY DEF FinishSteps, ToSet
<1>3. CASE step \in {"etc", "users", "pam", "sudo"}
  BY <1>1, <1>3 DEF Step, setup_etc, setup_users, setup_pam, setup_sudo
<1>4. CASE step \in {"network", "polkit", "declarations"}
  BY <1>1, <1>4 DEF Step, setup_network, setup_polkit, apply_systemd_declarations
<1>5. CASE step \in {"npkg", "desktop"}
  BY <1>1, <1>5 DEF Step, install_npkg, install_desktop
<1>6. CASE step = "fix"
  <2>1. Step(sys, failed) = fix_alternatives(sys)
    BY <1>6 DEF Step
  <2>2. fix_alternatives(sys).fs = [p \in Paths |->
           IF \E q \in Dangling(sys.fs) : sys.fs[q] = p /\ Candidates(sys.fs, Variants[q]) # {}
           THEN File ELSE sys.fs[p]]
    BY <1>1 DEF fix_alternatives
  <2>3. \A p \in Paths : fix_alternatives(sys).fs[p] \in Paths \cup {File, Absent}
    BY <2>2 DEF IsTree
  <2> QED BY <2>1, <2>2, <2>3 DEF IsTree
<1>7. CASE step = "ensure"
  <2>1. Step(sys, failed) = ensure_alternatives(sys)
    BY <1>7 DEF Step
  <2>2. ensure_alternatives(sys).fs = [p \in Paths |->
           IF p \in DOMAIN ALTERNATIVES /\ sys.fs[p] = Absent /\ Serving(sys.fs, p) # {}
           THEN ALTERNATIVES[p][Min(Serving(sys.fs, p))] ELSE sys.fs[p]]
    BY <1>1 DEF ensure_alternatives
  <2>3. ASSUME NEW p \in DOMAIN ALTERNATIVES, Serving(sys.fs, p) # {}
        PROVE  ALTERNATIVES[p][Min(Serving(sys.fs, p))] \in Paths
    <3>1. ALTERNATIVES[p] \in Seq(Paths \ AltPaths)
      BY AlternativesAssumption
    <3>2. Serving(sys.fs, p) \in SUBSET Nat
      BY <3>1 DEF Serving
    <3>3. Min(Serving(sys.fs, p)) \in DOMAIN ALTERNATIVES[p]
      BY <2>3, <3>2, LeastNumber DEF Serving
    <3> QED BY <3>1, <3>3
  <2>4. \A p \in Paths : ensure_alternatives(sys).fs[p] \in Paths \cup {File, Absent}
    BY <2>2, <2>3 DEF IsTree
  <2> QED BY <2>1, <2>2, <2>4 DEF IsTree
<1> QED BY <1>2, <1>3, <1>4, <1>5, <1>6, <1>7

\* What has to be in a set and in another is in both: so there is a least one
\* that is closed and holds the seeds.
LEMMA ClosureIs ==
  ASSUME ArchiveInv, NEW r \in 1 .. release, NEW seeds
  PROVE  Closure(r, seeds) \subseteq Names(r)
<1> DEFINE able == {S \in SUBSET Names(r) :
                      (\A n \in seeds : archive_provider(r, n) \subseteq S) /\ Closed(r, S)}
           least == {n \in Names(r) : \A S \in able : n \in S}
<1>1. \A name : archive_provider(r, name) \subseteq Names(r)
  BY ProviderType
<1>2. ASSUME NEW n \in seeds PROVE archive_provider(r, n) \subseteq least
  BY <1>1
<1>3. Closed(r, least)
  <2> SUFFICES ASSUME NEW n \in least,
                      NEW clause \in ToSet(Stanza(r, n).Pre_Depends) \cup ToSet(Stanza(r, n).Depends)
               PROVE  archive_provider(r, Head(clause)) \subseteq least
    BY DEF Closed
  <2>1. ASSUME NEW S \in able PROVE archive_provider(r, Head(clause)) \subseteq S
    <3>1. n \in S /\ Closed(r, S)
      OBVIOUS
    <3> QED BY <3>1 DEF Closed
  <2> QED BY <1>1, <2>1
<1>4. least \in able /\ \A S \in able : least \subseteq S
  BY <1>2, <1>3
<1>5. Closure(r, seeds) = CHOOSE S \in able : \A T \in able : S \subseteq T
  BY DEF Closure
<1> HIDE DEF least
<1>6. Closure(r, seeds) \in able
  <2> HIDE DEF able
  <2> QED BY <1>4, <1>5
<1> QED BY <1>6

LEMMA InstallTypesStart == InstallerInit => InstallTypes
<1> SUFFICES ASSUME InstallerInit PROVE InstallTypes
  OBVIOUS
<1>1. /\ archive \in Archives /\ release = 1 /\ packages = Absent /\ runs = 0 /\ stage = "idle"
      /\ jobs = {} /\ broken = FALSE /\ build = Absent /\ npks = {} /\ sys = EmptyRoot
      /\ phase = "off" /\ boot = {} /\ worker = [t \in Workers |-> NoJob]
      /\ \E d \in {"none", "short"} : debs = [f \in FilesIn(archive) |-> d]
  BY DEF InstallerInit, BootInit, BootInitAt
<1>2. release \in DOMAIN archive /\ runs \in 0 .. MaxRuns
  BY <1>1, ArchivesAssumption, BootstrapConstants
<1>3. \A t \in Workers : worker[t].tries \in 0 .. Attempts - 1
  BY <1>1, BootstrapConstants DEF NoJob
<1>4. sys.fs \in [Paths -> Paths \cup {File, Absent}]
  BY <1>1, EmptyTree DEF IsTree
<1> QED BY <1>1, <1>2, <1>3, <1>4 DEF InstallTypes, InstallTypeOK, BootTypeOK

\* What a step of a build does to the bounded and the finite parts.
LEMMA InstallTypesStep ==
  ASSUME BuildInv, InstallTypes, InstallerNext PROVE InstallTypes'
<1> DEFINE Screens == {"off", "disk", "partition", "bootstrap", "finalise", "done", "failed"}
           Stages == {"idle", "load", "repo", "resolve", "download", "convert", "install",
                      "finish", "done", "failed"}
           Runs == /\ runs \in 0 .. MaxRuns /\ stage \in Stages
                   /\ build \in Builds \cup {InstallBuild, Absent}
                   /\ phase \in Screens
                   /\ phase \in {"disk", "partition"} => runs < MaxRuns
           Tries == broken \in BOOLEAN /\ \A t \in Workers : worker[t].tries \in 0 .. Attempts - 1
           Root == IsTree(sys.fs)
           Stock == npks \subseteq Published_
<1> USE DEF bootVars, cached, walk, pool
<1>0. /\ Runs /\ Tries /\ Root /\ Stock /\ ArchiveInv /\ ChosenInv /\ RootFields
      /\ archive' = archive /\ boot \subseteq ToSet(Commands_)
  <2>1. archive' = archive
    BY DEF InstallerNext, InstallerStep, BootStep, PowerOn, PowerLost, PickDisk, Partition,
           BootstrapOver, Done, Finalise, FetchIndex, ReadIndex, Visit, Resolved, Arrived, Refused,
           TakeJob, Downloaded, Convert, InstallOne, AllInstalled, FromRepo, Finish, Complete,
           Start, PointRelease, Interrupted
  <2> QED BY <2>1 DEF InstallTypes, InstallTypeOK, BootTypeOK, IsTree, BuildInv, FinishInv
<1>1. NoJob.tries \in 0 .. Attempts - 1 /\ Attempts \in Nat \ {0} /\ MaxRuns \in Nat
  BY BootstrapConstants DEF NoJob
<1>2. Published_' = Published_
  BY <1>0 DEF Published_
<1>3. ASSUME Fail \/ Ends("done"), UNCHANGED <<runs, build, sys>>,
             phase' = phase \/ phase' \in Screens \ {"disk", "partition"}
      PROVE  Runs' /\ Tries' /\ Root' /\ Stock'
  BY <1>0, <1>1, <1>2, <1>3 DEF Fail, Ends
<1>4. ASSUME UNCHANGED <<runs, build, sys, npks, broken, worker>>, stage' \in Stages,
             phase' = phase \/ phase' \in Screens \ {"disk", "partition"}
      PROVE  Runs' /\ Tries' /\ Root' /\ Stock'
  BY <1>0, <1>2, <1>4
<1>5. Runs' /\ Tries' /\ Root' /\ Stock'
  <2>1. CASE PowerOn
    BY <1>0, <1>2, <2>1 DEF PowerOn
  <2>2. CASE PickDisk
    BY <1>0, <1>2, <2>2 DEF PickDisk
  <2>3. CASE Partition
    <3>1. phase = "partition" /\ runs < MaxRuns /\ sys' = EmptyRoot
      BY <1>0, <2>3 DEF Partition
    <3>2. /\ phase' \in {"bootstrap", "failed"} /\ UNCHANGED <<npks, broken, worker>>
          /\ \/ UNCHANGED <<runs, stage, build>>
             \/ runs' = runs + 1 /\ stage' = "load" /\ build' = InstallBuild
      BY <2>3 DEF Partition
    <3>3. runs' \in 0 .. MaxRuns
      BY <1>0, <1>1, <3>1, <3>2
    <3> QED BY <1>0, <1>2, <3>1, <3>2, <3>3, EmptyTree
  <2>4. CASE PowerLost \/ BootstrapOver \/ Done \/ \E works \in BOOLEAN : Finalise(works)
    BY <1>0, <1>4, <2>4 DEF PowerLost, BootstrapOver, Done, Finalise
  <2>5. CASE PointRelease /\ UNCHANGED <<phase, script, boot>>
    BY <1>0, <1>4, <2>5 DEF PointRelease
  <2>6. ASSUME NEW b \in Builds, Start(b), phase = "off", UNCHANGED <<phase, script, boot>>
        PROVE  Runs' /\ Tries' /\ Root' /\ Stock'
    BY <1>0, <1>1, <1>2, <2>6 DEF Start
  <2>7. CASE Interrupted /\ phase' = (IF phase = "bootstrap" THEN "off" ELSE phase)
    BY <1>3, <2>7 DEF Interrupted
  <2>8. CASE BootStep /\ UNCHANGED <<phase, script, boot>>
    <3>1. CASE FetchIndex \/ ReadIndex \/ Downloaded \/ Complete
      <4>1. CASE Fail \/ Ends("done")
        BY <1>3, <2>8, <3>1, <4>1 DEF FetchIndex, ReadIndex, Downloaded, Complete
      <4>2. CASE ~Fail /\ ~Ends("done") /\ ~Downloaded
        BY <1>0, <1>4, <2>8, <3>1, <4>2 DEF FetchIndex, ReadIndex, Complete
      <4>3. CASE ~Fail /\ Downloaded
        BY <1>0, <1>1, <1>2, <2>8, <4>3 DEF Downloaded
      <4> QED BY <4>1, <4>2, <4>3
    <3>2. CASE Visit \/ Resolved
      BY <1>0, <1>4, <2>8, <3>2 DEF Visit, Resolved
    <3>3. ASSUME NEW t \in Workers, \E f \in jobs : TakeJob(t, f)
          PROVE  Tries' /\ UNCHANGED <<runs, build, stage, sys, npks>>
      BY <1>0, <1>1, <3>3 DEF TakeJob, BuildInv, PoolTypes
    <3>4. ASSUME NEW t \in Workers, Arrived(t)
          PROVE  Tries' /\ UNCHANGED <<runs, build, stage, sys, npks>>
      BY <1>0, <1>1, <3>4 DEF Arrived, NoJob, BuildInv, PoolTypes
    <3>5. ASSUME NEW t \in Workers, Refused(t)
          PROVE  Tries' /\ UNCHANGED <<runs, build, stage, sys, npks>>
      <4>1. CASE LastTry(worker[t].tries)
        BY <1>0, <1>1, <3>5, <4>1 DEF Refused, BuildInv, PoolTypes
      <4>2. CASE ~LastTry(worker[t].tries)
        <5>1. worker[t].tries + 1 \in 0 .. Attempts - 1
          BY <1>0, <1>1, <4>2 DEF LastTry
        <5>2. /\ worker' = [worker EXCEPT ![t] = [worker[t] EXCEPT
                               !.tries = worker[t].tries + 1, !.conn = "none"]]
              /\ broken' = (broken \/ FALSE)
              /\ UNCHANGED <<runs, build, stage, sys, npks>>
          BY <3>5, <4>2 DEF Refused
        <5> QED BY <1>0, <5>1, <5>2 DEF BuildInv, PoolTypes
      <4> QED BY <4>1, <4>2
    <3>6. ASSUME NEW bad \in SUBSET bchosen, Convert(bad)
          PROVE  Runs' /\ Tries' /\ Root' /\ Stock'
      <4>1. /\ packages \in 1 .. release /\ bchosen \subseteq Names(packages)
        BY <1>0, <3>6 DEF Convert, ArchiveInv, ChosenInv
      <4>2. Converted(packages, bchosen \ bad) \subseteq Published_
        BY <1>0, <4>1, StanzaType DEF Converted, Published_
      <4>3. sys'.fs = sys.fs
        BY <1>0, <3>6 DEF Convert, RootFields, EmptyRoot
      <4> QED BY <1>0, <1>2, <2>8, <3>6, <4>2, <4>3 DEF Convert
    <3>7. ASSUME NEW refused \in BOOLEAN, InstallOne(refused)
          PROVE  Runs' /\ Tries' /\ Root' /\ Stock'
      <4>1. PICK s \in npks :
              /\ sys' = IF refused THEN sys ELSE Unpack(s)
              /\ IF refused /\ build.repo THEN Fail
                 ELSE npks' = npks \ {s} /\ UNCHANGED <<stage, walk, pool, finish>>
        BY <3>7 DEF InstallOne
      <4>2. IsTree(Unpack(s).fs)
        BY <1>0, UnpackTree DEF ArchiveInv
      <4>3. Root' /\ UNCHANGED <<runs, build>>
        BY <1>0, <3>7, <4>1, <4>2 DEF InstallOne
      <4>4. CASE refused /\ build.repo
        BY <1>3, <2>8, <4>1, <4>3, <4>4
      <4>5. CASE ~(refused /\ build.repo)
        BY <1>0, <1>2, <2>8, <4>1, <4>3, <4>5
      <4> QED BY <4>4, <4>5
    <3>8. CASE AllInstalled
      <4>1. sys'.fs = sys.fs
        BY <1>0, <3>8 DEF AllInstalled, RootFields, EmptyRoot
      <4> QED BY <1>0, <1>2, <2>8, <3>8, <4>1 DEF AllInstalled
    <3>9. CASE FromRepo
      <4>1. sys'.fs = sys.fs /\ UNCHANGED <<runs, build>>
        BY <1>0, <3>9 DEF FromRepo, RootFields, EmptyRoot
      <4>2. CASE Fail
        BY <1>0, <1>1, <1>2, <2>8, <4>1, <4>2 DEF Fail, Ends
      <4>3. CASE ~Fail
        <5>1. /\ bchosen' = Closure(release, _seed_packages(build) \cap Names(release))
              /\ npks' = Converted(release, bchosen') /\ stage' = "install"
              /\ UNCHANGED <<worker, broken>>
          BY <3>9, <4>3 DEF FromRepo
        <5>2. release \in 1 .. release /\ Len(archive) \in Nat
          BY <1>0, ArchiveType DEF ArchiveInv
        <5>3. bchosen' \subseteq Names(release)
          BY <1>0, <5>1, <5>2, ClosureIs
        <5>4. Converted(release, bchosen') \subseteq Published_
          BY <1>0, <5>2, <5>3, StanzaType DEF Converted, Published_
        <5> QED BY <1>0, <1>2, <2>8, <4>1, <5>1, <5>4
      <4> QED BY <4>2, <4>3
    <3>10. CASE Finish
      <4>1. PICK failed \in SUBSET sys.declared : sys' = Step(sys, failed)
        BY <3>10 DEF Finish
      <4>2. finish # <<>> /\ \E k \in 1 .. 12 : From(k)
        BY <3>10 DEF Finish, BuildInv, FinishInv
      <4>3. Head(finish) \in ToSet(FinishSteps)
        BY <4>2 DEF From
      <4>4. IsTree(sys'.fs)
        BY <1>0, <4>1, <4>3, StepTree
      <4> QED BY <1>0, <1>2, <2>8, <3>10, <4>4 DEF Finish
    <3> QED BY <1>0, <1>2, <2>8, <3>1, <3>2, <3>3, <3>4, <3>5, <3>6, <3>7, <3>8, <3>9, <3>10
            DEF BootStep
  <2> QED BY <2>1, <2>2, <2>3, <2>4, <2>5, <2>6, <2>7, <2>8 DEF InstallerNext, InstallerStep
<1>6. boot' \subseteq ToSet(Commands_)
  <2>1. CASE Partition
    BY <2>1 DEF Partition
  <2>2. ASSUME NEW works \in BOOLEAN, Finalise(works) PROVE boot' \subseteq ToSet(Commands_)
    <3>1. script # <<>> /\ Scripted
      BY <2>2 DEF Finalise, BuildInv, ScreenInv
    <3>2. Head(script) \in ToSet(Commands_)
      BY <3>1 DEF Scripted, Commands_, ToSet
    <3> QED BY <1>0, <2>2, <3>2 DEF Finalise
  <2>3. CASE boot' = boot
    BY <1>0, <2>3
  <2> QED BY <2>1, <2>2, <2>3 DEF InstallerNext, InstallerStep, PowerOn, PowerLost, PickDisk,
          BootstrapOver, Done
<1>7. ArchiveInv' /\ PoolTypes'
  BY BuildInductive DEF BuildInv
<1>8. DOMAIN archive' = 1 .. Len(archive')
  BY <1>7, ArchivesAssumption DEF ArchiveInv
<1> QED BY <1>5, <1>6, <1>7, <1>8
        DEF InstallTypes, InstallTypeOK, BootTypeOK, IsTree, ArchiveInv, PoolTypes

\* The builder's and the installer's state stays within its types and bounds.
LEMMA InstallTypesKept == BuildInv /\ InstallTypes /\ [InstallerNext]_installerVars => InstallTypes'
<1>1. ASSUME BuildInv, InstallTypes, InstallerNext PROVE InstallTypes'
  BY <1>1, InstallTypesStep
<1>2. ASSUME InstallTypes, UNCHANGED installerVars PROVE InstallTypes'
  <2> USE <1>2 DEF installerVars, bootVars, cached, walk, pool
  <2>1. BootTypeOK'
    BY DEF InstallTypes, InstallTypeOK, BootTypeOK, FilesIn
  <2>2. Published_' = Published_
    BY DEF Published_
  <2> QED BY <2>1, <2>2 DEF InstallTypes, InstallTypeOK
<1> QED BY <1>1, <1>2
==============================================================================

---------------------------- MODULE NpkgTxProofs ----------------------------
(***************************************************************************)
(* Proofs about NpkgTx for every archive of packages and any number of     *)
(* commands and interruptions, when one npkg process runs at a time.       *)
(***************************************************************************)
EXTENDS NpkgTx, TLAPS

OneProcess == \A p, q \in Procs : p = q

-----------------------------------------------------------------------------
(* The inductive invariant.                                                *)

\* A process that holds no owner map builds it anew; what an install works
\* on is a package file and its name.
Process ==
  \A p \in Procs :
    /\ pc[p] \in {"idle"} \cup RemoveSteps => owners[p] = Unbuilt
    /\ pc[p] \in InstallSteps =>
         pkg[p] \in Builds /\ cur[p] = Name[pkg[p]] /\ owners[p] # Unbuilt
    /\ pc[p] \in RemoveSteps \ {"next"} => cur[p] \in Names

\* A name without a manifest lists nothing, unless its entry is just going.
Entries ==
  /\ \A n \in Names : manifest[n] # Torn
  /\ \A n \in Names : manifest[n] = None /\ filelist[n] # {} =>
       \E p \in Procs : pc[p] = "forgotten" /\ cur[p] = n

Disjoint == \A n, m \in Names : n # m => filelist[n] \cap filelist[m] = {}

\* What an install places and what it prunes belongs to no other package.
Reserved ==
  \A p \in Procs : pc[p] \in InstallSteps =>
    \A m \in Names \ {cur[p]} :
      /\ Files[pkg[p]] \cap filelist[m] = {}
      /\ pc[p] # "alternatives" => stale[p] \cap filelist[m] = {}

\* The owner map mirrors the file lists; while a package is being installed
\* it still mirrors the previous list of that one.
Mirrors(p, m) == \A f \in Paths : owners[p][f] = m <=> f \in filelist[m]

OwnersRight ==
  \A p \in Procs : owners[p] # Unbuilt =>
    /\ pc[p] \in {"check", "alternatives"} => \A m \in Names : Mirrors(p, m)
    /\ pc[p] \in InstallSteps \ {"alternatives"} =>
         /\ \A m \in Names \ {cur[p]} : Mirrors(p, m)
         /\ \A f \in Paths : owners[p][f] = cur[p] => f \in stale[p]

\* How far the package being installed, or removed, has come.
Progress ==
  \A p \in Procs :
    /\ pc[p] = "place" => /\ left[p] \subseteq Placed(pkg[p])
                          /\ \A f \in Placed(pkg[p]) \ left[p] : root[f] = pkg[p]
    /\ pc[p] = "prune" => left[p] \subseteq stale[p] \ Placed(pkg[p])
    /\ pc[p] \in InstallSteps \ {"place"} =>
         \A f \in Placed(pkg[p]) : root[f] = pkg[p]
    /\ pc[p] \in {"files", "caps", "alternatives"} => manifest[cur[p]] = pkg[p]
    /\ pc[p] \in {"caps", "alternatives"} => filelist[cur[p]] = Placed(pkg[p])
    /\ pc[p] = "delete" => left[p] \subseteq filelist[cur[p]]
    /\ pc[p] = "uncaps" => manifest[cur[p]] = None

-----------------------------------------------------------------------------
(* Types.                                                                  *)

LEMMA PlacedType ==
  ASSUME NEW b \in Builds
  PROVE  /\ Files[b] \subseteq Paths /\ Placed(b) \subseteq Files[b]
         /\ Placed(b) \in SUBSET Paths /\ Name[b] \in Names
BY ShapeAssumption DEF Placed

LEMMA OwnerMapType == OwnerMap \in [Paths -> Names \cup {None}]
<1> SUFFICES ASSUME NEW f \in Paths PROVE OwnerMap[f] \in Names \cup {None}
  BY DEF OwnerMap
<1>1. CASE \E n \in installed : f \in filelist[n]
  <2>1. OwnerMap[f] = CHOOSE n \in installed : f \in filelist[n]
    BY <1>1 DEF OwnerMap
  <2> QED BY <1>1, <2>1 DEF installed
<1>2. CASE ~\E n \in installed : f \in filelist[n]
  BY <1>2 DEF OwnerMap
<1> QED BY <1>1, <1>2

LEMMA OwnersType ==
  ASSUME TypeOK, NEW p \in Procs
  PROVE  Owners(p) \in [Paths -> Names \cup {None}] /\ Owners(p) # Unbuilt
BY OwnerMapType, AbsentAssumption DEF TypeOK, Owners

LEMMA WinsType ==
  ASSUME NEW b \in Builds PROVE Wins(b) \in SUBSET Alts
BY ShapeAssumption DEF Wins

LEMMA LinkedType ==
  ASSUME TypeOK, NEW b \in Builds, NEW slots \in SUBSET Alts, NEW done \in SUBSET Alts,
         NEW cut \in SUBSET Paths
  PROVE  /\ Linked(b, slots, done, cut) \in [Paths -> Builds \cup Links \cup {None}]
         /\ LinkPaths(slots, done) \in SUBSET Paths
         /\ \A f \in Paths :
              \/ Linked(b, slots, done, cut)[f] = root[f]
              \/ /\ Linked(b, slots, done, cut)[f] \notin Builds
                 /\ f \in LinkPaths(slots, done) \cup cut
<1>1. LinkPaths(slots, done) \in SUBSET Paths
  BY LinkAssumption DEF LinkPaths
<1>2. ASSUME NEW f \in Paths
      PROVE  \/ Linked(b, slots, done, cut)[f] = root[f]
             \/ /\ Linked(b, slots, done, cut)[f] \in Links \cup {None}
                /\ f \in LinkPaths(slots, done) \cup cut
  <2>1. CASE IsDirectory(f)
    BY <2>1 DEF Linked
  <2>2. CASE ~IsDirectory(f) /\ f \in cut
    BY <2>2 DEF Linked
  <2>3. CASE ~IsDirectory(f) /\ f \notin cut /\ \E a \in slots : f = Slot[a]
    <3>1. Linked(b, slots, done, cut)[f] = <<CHOOSE a \in slots : f = Slot[a], b>>
      BY <2>3 DEF Linked
    <3>2. (CHOOSE a \in slots : f = Slot[a]) \in Alts
      BY <2>3
    <3> QED BY <2>3, <3>1, <3>2 DEF Links, LinkPaths
  <2>4. CASE /\ ~IsDirectory(f) /\ f \notin cut /\ ~\E a \in slots : f = Slot[a]
             /\ \E a \in done : f = Link[a]
    <3>1. Linked(b, slots, done, cut)[f] = CHOOSE a \in done : f = Link[a]
      BY <2>4 DEF Linked
    <3>2. (CHOOSE a \in done : f = Link[a]) \in Alts
      BY <2>4
    <3> QED BY <2>4, <3>1, <3>2 DEF Links, LinkPaths
  <2>5. CASE /\ f \notin cut /\ ~\E a \in slots : f = Slot[a]
             /\ ~\E a \in done : f = Link[a]
    BY <2>5 DEF Linked
  <2> QED BY <2>1, <2>2, <2>3, <2>4, <2>5
<1>3. \A f \in Paths : root[f] \in Builds \cup Links \cup {None}
  BY DEF TypeOK
<1>4. Builds \cap (Links \cup {None}) = {}
  BY AbsentAssumption DEF Links
<1>5. Linked(b, slots, done, cut) \in [Paths -> Builds \cup Links \cup {None}]
  BY <1>2, <1>3 DEF Linked
<1>6. ASSUME NEW f \in Paths
      PROVE  \/ Linked(b, slots, done, cut)[f] = root[f]
             \/ /\ Linked(b, slots, done, cut)[f] \notin Builds
                /\ f \in LinkPaths(slots, done) \cup cut
  BY <1>2, <1>4
<1> QED BY <1>1, <1>5, <1>6

LEMMA PlaceType ==
  ASSUME TypeOK, NEW p \in Procs, NEW f \in Paths, Place(p, f), pkg[p] \in Builds
  PROVE  /\ root' \in [Paths -> Builds \cup Links \cup {None}]
         /\ trampled' \in SUBSET Paths
         /\ root'[f] = pkg[p]
         /\ \A g \in Paths : g # f /\ g \notin trampled' => root'[g] = root[g]
         /\ \A g \in Paths : g # f /\ g \notin Below[f] => root'[g] = root[g]
         /\ \A g \in Paths : g # f => root'[g] \in {root[g], None}
BY ShapeAssumption DEF Place, TypeOK, Removed

\* Making links changes what trampled names and brings no package's file.
LEMMA AppliedType ==
  ASSUME TypeOK, NEW p \in Procs, ApplyAlternatives(p), pkg[p] \in Builds
  PROVE  /\ root' \in [Paths -> Builds \cup Links \cup {None}] /\ trampled' \in SUBSET Paths
         /\ trampled \subseteq trampled'
         /\ \A f \in Paths : f \notin trampled' => root'[f] = root[f]
         /\ \A f \in Paths : root'[f] \in Builds => root'[f] = root[f]
<1> DEFINE W == Wins(pkg[p])
<1>1. W \in SUBSET Alts
  BY WinsType
<1>2. root' = Linked(pkg[p], W, W, {}) /\ trampled' = trampled \cup LinkPaths(W, W)
  BY DEF ApplyAlternatives
<1> HIDE DEF W
<1>3. /\ root' \in [Paths -> Builds \cup Links \cup {None}]
      /\ LinkPaths(W, W) \in SUBSET Paths
      /\ \A f \in Paths : \/ root'[f] = root[f]
                          \/ root'[f] \notin Builds /\ f \in LinkPaths(W, W) \cup {}
  BY <1>1, <1>2, LinkedType
<1> QED BY <1>2, <1>3 DEF TypeOK

\* What a process that has exited looks like.
LEMMA ExitType ==
  ASSUME TypeOK, NEW p \in Procs, Exit(p)
  PROVE  /\ pc' \in [Procs -> {"idle", "check"} \cup InstallSteps \cup RemoveSteps]
         /\ todo' \in [Procs -> SUBSET Builds] /\ names' \in [Procs -> SUBSET Names]
         /\ force' \in [Procs -> BOOLEAN]
         /\ pkg' \in [Procs -> Builds \cup {None}] /\ cur' \in [Procs -> Names \cup {None}]
         /\ left' \in [Procs -> SUBSET Paths] /\ stale' \in [Procs -> SUBSET Paths]
         /\ owners' \in [Procs -> [Paths -> Names \cup {None}] \cup {Unbuilt}]
         /\ pc'[p] = "idle" /\ owners'[p] = Unbuilt
<1> USE DEF TypeOK, Exit
<1>1. force' \in [Procs -> BOOLEAN]
  OBVIOUS
<1>2. pc' \in [Procs -> {"idle", "check"} \cup InstallSteps \cup RemoveSteps]
  OBVIOUS
<1>3. /\ todo' \in [Procs -> SUBSET Builds] /\ names' \in [Procs -> SUBSET Names]
      /\ left' \in [Procs -> SUBSET Paths] /\ stale' \in [Procs -> SUBSET Paths]
  OBVIOUS
<1>4. pkg' \in [Procs -> Builds \cup {None}] /\ cur' \in [Procs -> Names \cup {None}]
  OBVIOUS
<1>5. owners' \in [Procs -> [Paths -> Names \cup {None}] \cup {Unbuilt}]
  OBVIOUS
<1>6. pc'[p] = "idle" /\ owners'[p] = Unbuilt
  OBVIOUS
<1> QED BY <1>1, <1>2, <1>3, <1>4, <1>5, <1>6

LEMMA InstallingType ==
  ASSUME TypeOK, Process, NEW p \in Procs, Installing(p) PROVE TypeOK'
<1> USE DEF database, disk, work, history, InstallSteps
<1>1. ASSUME NEW batch \in SUBSET Builds, InstallFiles(p, batch) PROVE TypeOK'
  <2>1. ops' \in 0..MaxOps
    BY <1>1, BoundsAssumption DEF InstallFiles, TypeOK
  <2> QED BY <1>1, <2>1 DEF InstallFiles, Step, TypeOK
<1>2. ASSUME NEW b \in Builds, Accept(p, b) PROVE TypeOK'
  <2>1. owners' \in [Procs -> [Paths -> Names \cup {None}] \cup {Unbuilt}]
    BY <1>2, OwnersType DEF Accept, TypeOK
  <2>2. stale' \in [Procs -> SUBSET Paths] /\ left' \in [Procs -> SUBSET Paths]
        /\ cur' \in [Procs -> Names \cup {None}] /\ pkg' \in [Procs -> Builds \cup {None}]
    BY <1>2, PlacedType DEF Accept, TypeOK
  <2> QED BY <1>2, <2>1, <2>2 DEF Accept, Step, TypeOK
<1>3. ASSUME NEW b \in Builds, Reject(p, b) PROVE TypeOK'
  BY <1>3, ExitType DEF Reject, TypeOK
<1>4. ASSUME NEW f \in Paths, Place(p, f) PROVE TypeOK'
  <2>1. pkg[p] \in Builds
    BY <1>4 DEF Place, Process
  <2>2. root' \in [Paths -> Builds \cup Links \cup {None}] /\ trampled' \in SUBSET Paths
    BY <1>4, <2>1, PlaceType
  <2> QED BY <1>4, <2>2 DEF Place, TypeOK
<1>5. ASSUME NEW f \in Paths, Prune(p, f) PROVE TypeOK'
  <2>1. root' \in [Paths -> Builds \cup Links \cup {None}]
    BY <1>5 DEF Prune, TypeOK
  <2> QED BY <1>5, <2>1 DEF Prune, TypeOK
<1>6. CASE AllPlaced(p)
  BY <1>6 DEF AllPlaced, Step, TypeOK
<1>7. CASE AllPruned(p)
  BY <1>7 DEF AllPruned, Step, TypeOK
<1>8. CASE RecordManifest(p)
  BY <1>8 DEF RecordManifest, Step, TypeOK
<1>9. CASE RecordFiles(p)
  <2>1. pkg[p] \in Builds
    BY <1>9 DEF RecordFiles, Step, Process
  <2> QED BY <1>9, <2>1, PlacedType DEF RecordFiles, Step, TypeOK
<1>10. CASE IndexCapabilities(p)
  <2>1. pkg[p] \in Builds /\ cur[p] \in Names /\ owners[p] # Unbuilt
    BY <1>10, PlacedType DEF IndexCapabilities, Step, Process
  <2>2. owners[p] \in [Paths -> Names \cup {None}]
    BY <2>1 DEF TypeOK
  <2>3. owners' \in [Procs -> [Paths -> Names \cup {None}] \cup {Unbuilt}]
    BY <1>10, <2>1, <2>2 DEF IndexCapabilities, TypeOK
  <2>4. caps' \in [Caps -> Names \cup {None}]
    BY <1>10, <2>1 DEF IndexCapabilities, TypeOK
  <2> QED BY <1>10, <2>3, <2>4 DEF IndexCapabilities, Step, TypeOK
<1>11. CASE ApplyAlternatives(p)
  <2>1. pkg[p] \in Builds
    BY <1>11 DEF ApplyAlternatives, Process
  <2>2. state' \in [Alts -> Builds \cup {None}]
    BY <1>11, <2>1 DEF ApplyAlternatives, TypeOK
  <2>5. root' \in [Paths -> Builds \cup Links \cup {None}] /\ trampled' \in SUBSET Paths
    BY <1>11, <2>1, AppliedType
  <2>3. CASE todo[p] = {}
    BY <1>11, <2>2, <2>3, <2>5, ExitType DEF ApplyAlternatives, TypeOK
  <2>4. CASE todo[p] # {}
    BY <1>11, <2>2, <2>4, <2>5 DEF ApplyAlternatives, TypeOK
  <2> QED BY <2>3, <2>4
<1>12. ASSUME NEW b \in Builds, Skip(p, b) PROVE TypeOK'
  BY <1>12, OwnersType DEF Skip, TypeOK
<1>13. CASE Fail(p)
  <2>1. broken' \in SUBSET Names
    BY <1>13, PlacedType DEF Fail, Process, TypeOK
  <2> QED BY <1>13, <2>1, ExitType DEF Fail, TypeOK
<1> QED BY <1>1, <1>2, <1>3, <1>4, <1>5, <1>6, <1>7, <1>8, <1>9, <1>10, <1>11, <1>12,
           <1>13 DEF Installing

LEMMA RemovingType ==
  ASSUME TypeOK, Process, NEW p \in Procs, Removing(p) PROVE TypeOK'
<1> USE DEF database, disk, work, history, InstallSteps, RemoveSteps
<1>1. ASSUME NEW batch \in SUBSET Names, NEW forced \in BOOLEAN, Remove(p, batch, forced)
      PROVE TypeOK'
  <2>1. ops' \in 0..MaxOps
    BY <1>1, BoundsAssumption DEF Remove, TypeOK
  <2>2. force' \in [Procs -> BOOLEAN]
    BY <1>1 DEF Remove, TypeOK
  <2> QED BY <1>1, <2>1, <2>2 DEF Remove, Step, TypeOK
<1>2. ASSUME NEW n \in Names, NextName(p, n) PROVE TypeOK'
  BY <1>2 DEF NextName, Step, TypeOK
<1>3. ASSUME NEW f \in Paths, Delete(p, f) PROVE TypeOK'
  BY <1>3 DEF Delete, TypeOK
<1>4. CASE AllDeleted(p)
  BY <1>4 DEF AllDeleted, Step, TypeOK
<1>5. CASE Forget(p)
  <2>1. manifest' \in [Names -> Builds \cup {None, Torn}]
    BY <1>5 DEF Forget, TypeOK
  <2>2. filelist' \in [Names -> SUBSET Paths]
    BY <1>5 DEF Forget, TypeOK
  <2> QED BY <1>5, <2>1, <2>2 DEF Forget, Step, TypeOK
<1>6. CASE Forgotten(p)
  BY <1>6 DEF Forgotten, Step, TypeOK
<1>7. CASE ForgetCapabilities(p)
  <2>1. caps' \in [Caps -> Names \cup {None}] /\ broken' \in SUBSET Names
    BY <1>7 DEF ForgetCapabilities, TypeOK
  <2>2. CASE names[p] = {}
    BY <1>7, <2>1, <2>2, ExitType DEF ForgetCapabilities, TypeOK
  <2>3. CASE names[p] # {}
    BY <1>7, <2>1, <2>3 DEF ForgetCapabilities, TypeOK
  <2> QED BY <2>2, <2>3
<1> QED BY <1>1, <1>2, <1>3, <1>4, <1>5, <1>6, <1>7 DEF Removing

\* What an interruption leaves in the root: files go while one is placed, and
\* links replace files while links are made; the rest stays.
LEMMA InterruptRoot ==
  ASSUME TypeOK, Process, NEW p \in Procs, Interrupt(p)
  PROVE  /\ root' \in [Paths -> Builds \cup Links \cup {None}]
         /\ trampled' \in SUBSET Paths /\ trampled \subseteq trampled'
         /\ \/ root' = root
            \/ pc[p] = "place" /\ \E f \in left[p] :
                 \A g \in Paths : g # f /\ g \notin trampled' => root'[g] = root[g]
            \/ pc[p] = "alternatives" /\
                 \A g \in Paths : g \notin trampled' => root'[g] = root[g]
<1> DEFINE Good ==
      /\ root' \in [Paths -> Builds \cup Links \cup {None}]
      /\ trampled' \in SUBSET Paths /\ trampled \subseteq trampled'
      /\ \/ root' = root
         \/ pc[p] = "place" /\ \E f \in left[p] :
              \A g \in Paths : g # f /\ g \notin trampled' => root'[g] = root[g]
         \/ pc[p] = "alternatives" /\
              \A g \in Paths : g \notin trampled' => root'[g] = root[g]
<1>1. CASE UNCHANGED <<root, trampled>>
  BY <1>1 DEF TypeOK
<1>2. ASSUME pc[p] = "place", NEW f \in left[p], NEW part \in SUBSET Removed(f),
             root' = Without({f} \cup part), trampled' = trampled \cup part
      PROVE  Good
  <2>1. f \in Paths /\ part \in SUBSET Paths
    BY <1>2, ShapeAssumption DEF Removed, TypeOK
  <2>2. \A g \in Paths : root'[g] = IF g \in {f} \cup part THEN None ELSE root[g]
    BY <1>2 DEF Without
  <2>3. root' \in [Paths -> Builds \cup Links \cup {None}]
    BY <1>2 DEF Without, TypeOK
  <2> QED BY <1>2, <2>1, <2>2, <2>3 DEF TypeOK
<1>3. ASSUME pc[p] = "alternatives", NEW slots \in SUBSET Wins(pkg[p]), NEW done \in SUBSET Wins(pkg[p]),
             NEW cut \in SUBSET LinkPaths(Alts, Alts), root' = Linked(pkg[p], slots, done, cut),
             trampled' = trampled \cup LinkPaths(slots, done) \cup cut
      PROVE  Good
  <2>1. pkg[p] \in Builds /\ Wins(pkg[p]) \in SUBSET Alts
    BY <1>3, WinsType DEF Process, InstallSteps
  <2>2. slots \in SUBSET Alts /\ done \in SUBSET Alts /\ cut \in SUBSET Paths
    BY <2>1, LinkAssumption DEF LinkPaths
  <2>3. /\ root' \in [Paths -> Builds \cup Links \cup {None}]
        /\ LinkPaths(slots, done) \in SUBSET Paths
        /\ \A g \in Paths : g \notin LinkPaths(slots, done) \cup cut => root'[g] = root[g]
    BY <1>3, <2>1, <2>2, LinkedType
  <2> QED BY <1>3, <2>2, <2>3 DEF TypeOK
<1>4. CASE pc[p] = "place" /\ \E f \in left[p] : \E part \in SUBSET Removed(f) :
             root' = Without({f} \cup part) /\ trampled' = trampled \cup part
  BY <1>2, <1>4
<1>5. CASE pc[p] = "alternatives" /\
           \E slots, done \in SUBSET Wins(pkg[p]), cut \in SUBSET LinkPaths(Alts, Alts) :
             /\ root' = Linked(pkg[p], slots, done, cut)
             /\ trampled' = trampled \cup LinkPaths(slots, done) \cup cut
  BY <1>3, <1>5
<1> QED BY <1>1, <1>4, <1>5 DEF Interrupt

LEMMA InterruptType ==
  ASSUME TypeOK, Process, NEW p \in Procs, Interrupt(p) PROVE TypeOK'
<1>1. interrupts' \in 0..MaxInterrupts /\ ops' = ops
  BY BoundsAssumption DEF Interrupt, TypeOK
<1>0. state' \in [Alts -> Builds \cup {None}]
  BY DEF Interrupt, TypeOK
<1>2. cur[p] \in Names
  BY PlacedType DEF Interrupt, Process, Working, InstallSteps, RemoveSteps
<1>3. broken' \in SUBSET Names
  BY <1>2 DEF Interrupt, TypeOK
<1>4. manifest' \in [Names -> Builds \cup {None, Torn}]
  BY DEF Interrupt, TypeOK
<1>5. filelist' \in [Names -> SUBSET Paths]
  BY DEF Interrupt, TypeOK
<1>6. caps' \in [Caps -> Names \cup {None}]
  BY DEF Interrupt, TypeOK
<1>7. root' \in [Paths -> Builds \cup Links \cup {None}] /\ trampled' \in SUBSET Paths
  BY InterruptRoot DEF TypeOK
<1>9. torn' \in BOOLEAN
  BY DEF Interrupt, TypeOK
<1>10. Exit(p)
  BY DEF Interrupt
<1> QED BY <1>0, <1>1, <1>3, <1>4, <1>5, <1>6, <1>7, <1>9, <1>10, ExitType
        DEF TypeOK

LEMMA InitType == Init => TypeOK /\ Process
<1> SUFFICES ASSUME Init PROVE TypeOK /\ Process
  OBVIOUS
<1>1. ops \in 0..MaxOps /\ interrupts \in 0..MaxInterrupts
  BY BoundsAssumption DEF Init
<1>2. force \in [Procs -> BOOLEAN]
  BY DEF Init
<1>3. torn \in BOOLEAN
  BY Zenon DEF Init
<1>4. TypeOK
  BY <1>1, <1>2, <1>3 DEF Init, TypeOK
<1>5. Process
  BY DEF Init, Process, InstallSteps, RemoveSteps
<1> QED BY <1>4, <1>5

LEMMA ProcessKept ==
  ASSUME TypeOK, Process, NEW p \in Procs, Installing(p) \/ Removing(p) \/ Interrupt(p)
  PROVE  Process'
<1> USE DEF database, disk, work, history, InstallSteps, RemoveSteps
<1> SUFFICES ASSUME NEW q \in Procs
             PROVE  /\ pc'[q] \in {"idle"} \cup RemoveSteps => owners'[q] = Unbuilt
                    /\ pc'[q] \in InstallSteps =>
                         pkg'[q] \in Builds /\ cur'[q] = Name[pkg'[q]] /\ owners'[q] # Unbuilt
                    /\ pc'[q] \in RemoveSteps \ {"next"} => cur'[q] \in Names
  BY DEF Process
<1> DEFINE Good == /\ pc'[q] \in {"idle"} \cup RemoveSteps => owners'[q] = Unbuilt
                   /\ pc'[q] \in InstallSteps =>
                        pkg'[q] \in Builds /\ cur'[q] = Name[pkg'[q]] /\ owners'[q] # Unbuilt
                   /\ pc'[q] \in RemoveSteps \ {"next"} => cur'[q] \in Names
<1>0. ASSUME Exit(p) PROVE Good
  BY <1>0, AbsentAssumption DEF Exit, Process, TypeOK
<1>1. ASSUME NEW batch \in SUBSET Builds, InstallFiles(p, batch) PROVE Good
  BY <1>1 DEF InstallFiles, Step, Process, TypeOK
<1>2. ASSUME NEW b \in Builds, Accept(p, b) PROVE Good
  BY <1>2, OwnersType, PlacedType DEF Accept, Step, Process, TypeOK
<1>3. ASSUME NEW b \in Builds, Reject(p, b) PROVE Good
  BY <1>3, <1>0 DEF Reject
<1>4. ASSUME NEW f \in Paths, Place(p, f) \/ Prune(p, f) \/ Delete(p, f) PROVE Good
  BY <1>4 DEF Place, Prune, Delete, Process
<1>5. CASE AllPlaced(p) \/ AllPruned(p) \/ RecordManifest(p) \/ RecordFiles(p)
           \/ AllDeleted(p) \/ Forget(p) \/ Forgotten(p)
  BY <1>5 DEF AllPlaced, AllPruned, RecordManifest, RecordFiles, AllDeleted, Forget,
     Forgotten, Step, Process, TypeOK
<1>6. CASE IndexCapabilities(p)
  <2>1. owners[p] \in [Paths -> Names \cup {None}] /\ cur[p] \in Names
    BY <1>6, PlacedType DEF IndexCapabilities, Step, Process, TypeOK
  <2>2. owners'[p] \in [Paths -> Names \cup {None}]
    BY <1>6, <2>1 DEF IndexCapabilities, TypeOK
  <2> QED BY <1>6, <2>2, AbsentAssumption DEF IndexCapabilities, Step, Process, TypeOK
<1>7. CASE ApplyAlternatives(p)
  <2>1. CASE todo[p] = {}
    BY <1>7, <2>1, <1>0 DEF ApplyAlternatives
  <2>2. CASE todo[p] # {}
    BY <1>7, <2>2 DEF ApplyAlternatives, Process, TypeOK
  <2> QED BY <2>1, <2>2
<1>8. ASSUME NEW batch \in SUBSET Names, NEW forced \in BOOLEAN, Remove(p, batch, forced)
      PROVE Good
  BY <1>8 DEF Remove, Step, Process, TypeOK
<1>9. ASSUME NEW n \in Names, NextName(p, n) PROVE Good
  BY <1>9 DEF NextName, Step, Process, TypeOK
<1>10. CASE ForgetCapabilities(p)
  <2>1. CASE names[p] = {}
    BY <1>10, <2>1, <1>0 DEF ForgetCapabilities
  <2>2. CASE names[p] # {}
    BY <1>10, <2>2 DEF ForgetCapabilities, Process, TypeOK
  <2> QED BY <2>1, <2>2
<1>11. CASE Interrupt(p)
  BY <1>11, <1>0 DEF Interrupt
<1>12. ASSUME NEW b \in Builds, Skip(p, b) PROVE Good
  BY <1>12, OwnersType DEF Skip, Process, TypeOK
<1>13. CASE Fail(p)
  BY <1>13, <1>0 DEF Fail
<1> QED BY <1>1, <1>2, <1>3, <1>4, <1>5, <1>6, <1>7, <1>8, <1>9, <1>10, <1>11, <1>12,
           <1>13 DEF Installing, Removing

\* Database, file system and processes of npkg stay in the states the code
\* can put them in, whatever runs concurrently.
THEOREM TypeCorrect == Spec => []TypeOK
<1>1. TypeOK /\ Process /\ [Next]_vars => TypeOK' /\ Process'
  <2> SUFFICES ASSUME TypeOK, Process, [Next]_vars PROVE TypeOK' /\ Process'
    OBVIOUS
  <2>1. CASE UNCHANGED vars
    BY <2>1 DEF vars, database, disk, work, history, TypeOK, Process
  <2>2. CASE Next
    BY <2>2, InstallingType, RemovingType, InterruptType, ProcessKept DEF Next
  <2> QED BY <2>1, <2>2
<1> QED BY <1>1, InitType, PTL DEF Spec

-----------------------------------------------------------------------------
(* Ownership, as long as no database entry was left half written.          *)

Db == Entries /\ Disjoint /\ Reserved /\ OwnersRight

\* A process without an owner map that is not installing rests on nothing.
LEMMA OutsideDb ==
  ASSUME OneProcess, Db, NEW p \in Procs, UNCHANGED <<manifest, filelist>>,
         pc[p] # "forgotten", pc'[p] \notin InstallSteps, owners'[p] = Unbuilt
  PROVE  Db'
<1>1. \A q \in Procs : q = p
  BY DEF OneProcess
<1>2. Entries' /\ Disjoint'
  BY <1>1 DEF Db, Entries, Disjoint
<1>3. Reserved' /\ OwnersRight'
  BY <1>1 DEF Reserved, OwnersRight, InstallSteps
<1> QED BY <1>2, <1>3 DEF Db

\* Nor does it for a step that only moves on, or works on files and indices.
LEMMA MovesOnDb ==
  ASSUME OneProcess, Db, NEW p \in Procs,
         UNCHANGED <<manifest, filelist, pkg, cur, stale, owners>>,
         (pc[p] # "forgotten" /\ pc[p] # "alternatives") \/ pc'[p] = pc[p],
         pc'[p] \in InstallSteps => pc[p] \in InstallSteps,
         pc'[p] = "alternatives" => pc[p] = "alternatives",
         pc'[p] = "check" => pc[p] = "check" \/ owners[p] = Unbuilt
  PROVE  Db'
<1>1. \A q \in Procs : q = p
  BY DEF OneProcess
<1>2. Entries' /\ Disjoint'
  BY <1>1 DEF Db, Entries, Disjoint
<1>3. Reserved'
  BY <1>1 DEF Db, Reserved, InstallSteps
<1>4. OwnersRight'
  BY <1>1 DEF Db, OwnersRight, Mirrors, InstallSteps
<1> QED BY <1>2, <1>3, <1>4 DEF Db

\* With every manifest readable and no half-gone entry the owner map names
\* exactly the package that lists a path.
LEMMA OwnersAreRight ==
  ASSUME OneProcess, TypeOK, Db, NEW p \in Procs, pc[p] = "check", NEW m \in Names,
         NEW f \in Paths
  PROVE  Owners(p)[f] = m <=> f \in filelist[m]
<1>1. CASE owners[p] # Unbuilt
  BY <1>1 DEF Db, OwnersRight, Mirrors, Owners
<1>2. CASE owners[p] = Unbuilt
  <2>1. \A n \in Names : filelist[n] # {} => n \in installed
    BY DEF Db, Entries, OneProcess, installed, TypeOK
  <2>2. Owners(p)[f] = IF \E n \in installed : f \in filelist[n]
                       THEN CHOOSE n \in installed : f \in filelist[n] ELSE None
    BY <1>2 DEF Owners, OwnerMap
  <2>3. CASE \E n \in installed : f \in filelist[n]
    <3>1. Owners(p)[f] \in installed /\ f \in filelist[Owners(p)[f]]
      BY <2>2, <2>3
    <3>2. Owners(p)[f] \in Names
      BY <3>1 DEF installed
    <3> QED BY <3>1, <3>2 DEF Db, Disjoint
  <2>4. CASE ~\E n \in installed : f \in filelist[n]
    <3>1. Owners(p)[f] = None
      BY <2>2, <2>4
    <3> QED BY <3>1, <2>1, <2>4, AbsentAssumption
  <2> QED BY <2>3, <2>4
<1> QED BY <1>1, <1>2

LEMMA AcceptDb ==
  ASSUME OneProcess, TypeOK, Db, NEW p \in Procs, NEW b \in Builds, Accept(p, b)
  PROVE  Db'
<1>1. \A q \in Procs : q = p
  BY DEF OneProcess
<1>2. /\ pc[p] = "check" /\ pc'[p] = "place" /\ owners'[p] = Owners(p)
      /\ pkg'[p] = b /\ cur'[p] = Name[b] /\ ~Clash(Owners(p), b)
      /\ UNCHANGED <<manifest, filelist>>
      /\ stale'[p] = IF is_installed(Name[b]) THEN filelist[Name[b]] ELSE {}
  BY DEF Accept, Step, TypeOK, database
<1>3. Entries' /\ Disjoint'
  BY <1>1, <1>2 DEF Db, Entries, Disjoint
<1>4. Name[b] \in Names /\ Files[b] \subseteq Paths
  BY PlacedType
<1>5. stale'[p] = filelist[Name[b]]
  BY <1>1, <1>2, <1>4 DEF Db, Entries, is_installed
<1>6. Reserved'
  <2> SUFFICES ASSUME NEW m \in Names \ {Name[b]}
               PROVE  Files[b] \cap filelist[m] = {} /\ filelist[Name[b]] \cap filelist[m] = {}
    BY <1>1, <1>2, <1>5 DEF Reserved
  <2>1. \A f \in Files[b] : f \notin filelist[m]
    BY <1>2, <1>4, OwnersAreRight, AbsentAssumption DEF Clash
  <2> QED BY <2>1, <1>4 DEF Db, Disjoint
<1>7. OwnersRight'
  BY <1>1, <1>2, <1>4, <1>5, OwnersAreRight DEF OwnersRight, Mirrors, InstallSteps
<1> QED BY <1>3, <1>6, <1>7 DEF Db

\* A refused package leaves the owner map behind that it was refused with.
LEMMA SkipDb ==
  ASSUME OneProcess, TypeOK, Db, NEW p \in Procs, NEW b \in Builds, Skip(p, b)
  PROVE  Db'
<1>1. \A q \in Procs : q = p
  BY DEF OneProcess
<1>2. /\ pc[p] = "check" /\ pc' = pc /\ owners'[p] = Owners(p)
      /\ UNCHANGED <<manifest, filelist, cur>>
  BY DEF Skip, TypeOK, database
<1>3. Entries' /\ Disjoint' /\ Reserved'
  BY <1>1, <1>2 DEF Db, Entries, Disjoint, Reserved, InstallSteps
<1>4. OwnersRight'
  BY <1>1, <1>2, OwnersAreRight DEF OwnersRight, Mirrors, InstallSteps
<1> QED BY <1>3, <1>4 DEF Db

LEMMA RecordManifestDb ==
  ASSUME OneProcess, TypeOK, Process, Db, NEW p \in Procs, RecordManifest(p)
  PROVE  Db'
<1>1. \A q \in Procs : q = p
  BY DEF OneProcess
<1>2. pc[p] = "manifest" /\ pc'[p] = "files" /\ UNCHANGED <<filelist, work>>
      /\ manifest' = [manifest EXCEPT ![cur[p]] = pkg[p]] /\ pkg[p] \in Builds
  BY DEF RecordManifest, Step, TypeOK, Process, InstallSteps
<1>3. Entries' /\ Disjoint'
  BY <1>1, <1>2, AbsentAssumption DEF Db, Entries, Disjoint, TypeOK
<1>4. Reserved' /\ OwnersRight'
  BY <1>1, <1>2 DEF Db, Reserved, OwnersRight, Mirrors, InstallSteps, work
<1> QED BY <1>3, <1>4 DEF Db

LEMMA RecordFilesDb ==
  ASSUME OneProcess, TypeOK, Process, Db, NEW p \in Procs, RecordFiles(p),
         manifest[cur[p]] # None
  PROVE  Db'
<1>1. \A q \in Procs : q = p
  BY DEF OneProcess
<1>2. pc[p] = "files" /\ pc'[p] = "caps" /\ UNCHANGED <<manifest, work>>
      /\ filelist' = [filelist EXCEPT ![cur[p]] = Placed(pkg[p])]
      /\ pkg[p] \in Builds /\ cur[p] = Name[pkg[p]]
  BY DEF RecordFiles, Step, TypeOK, Process, InstallSteps
<1>3. cur[p] \in Names /\ Placed(pkg[p]) \subseteq Files[pkg[p]]
  BY <1>2, PlacedType
<1>4. /\ filelist'[cur[p]] = Placed(pkg[p])
      /\ \A m \in Names \ {cur[p]} : filelist'[m] = filelist[m]
  BY <1>2, <1>3 DEF TypeOK
<1>5. \A m \in Names \ {cur[p]} : Placed(pkg[p]) \cap filelist[m] = {}
  BY <1>2, <1>3 DEF Db, Reserved, InstallSteps
<1>6. Entries'
  BY <1>1, <1>2, <1>4 DEF Db, Entries
<1>7. Disjoint'
  BY <1>4, <1>5 DEF Db, Disjoint
<1>8. Reserved'
  BY <1>1, <1>2, <1>4 DEF Db, Reserved, InstallSteps, work
<1>9. OwnersRight'
  BY <1>1, <1>2, <1>4 DEF Db, OwnersRight, Mirrors, InstallSteps, work
<1> QED BY <1>6, <1>7, <1>8, <1>9 DEF Db

LEMMA IndexCapabilitiesDb ==
  ASSUME OneProcess, TypeOK, Process, Db, NEW p \in Procs, IndexCapabilities(p),
         filelist[cur[p]] = Placed(pkg[p])
  PROVE  Db'
<1>1. \A q \in Procs : q = p
  BY DEF OneProcess
<1>2. /\ pc[p] = "caps" /\ pc'[p] = "alternatives"
      /\ UNCHANGED <<manifest, filelist, pkg, cur, stale>>
      /\ pkg[p] \in Builds /\ cur[p] = Name[pkg[p]] /\ owners[p] # Unbuilt
  BY DEF IndexCapabilities, Step, TypeOK, Process, InstallSteps
<1>3. cur[p] \in Names /\ Placed(pkg[p]) \subseteq Files[pkg[p]]
  BY <1>2, PlacedType
<1>4. Entries' /\ Disjoint'
  BY <1>1, <1>2 DEF Db, Entries, Disjoint
<1>5. Reserved'
  BY <1>1, <1>2 DEF Db, Reserved, InstallSteps
<1>6. ASSUME NEW m \in Names, NEW f \in Paths
      PROVE  owners'[p][f] = m <=> f \in filelist[m]
  <2>1. owners'[p][f] = IF f \in Placed(pkg[p]) THEN cur[p]
                        ELSE IF f \in stale[p] THEN None ELSE owners[p][f]
    BY DEF IndexCapabilities, TypeOK
  <2>2. m # cur[p] => Placed(pkg[p]) \cap filelist[m] = {} /\ stale[p] \cap filelist[m] = {}
    BY <1>2, <1>3 DEF Db, Reserved, InstallSteps
  <2>3. /\ m # cur[p] => (owners[p][f] = m <=> f \in filelist[m])
        /\ owners[p][f] = cur[p] => f \in stale[p]
    BY <1>2 DEF Db, OwnersRight, Mirrors, InstallSteps
  <2>4. CASE m = cur[p]
    BY <2>1, <2>3, <2>4, AbsentAssumption
  <2>5. CASE m # cur[p]
    BY <2>1, <2>2, <2>3, <2>5, AbsentAssumption
  <2> QED BY <2>4, <2>5
<1>7. OwnersRight'
  BY <1>1, <1>2, <1>6 DEF OwnersRight, Mirrors, InstallSteps
<1> QED BY <1>4, <1>5, <1>7 DEF Db

LEMMA ForgettingDb ==
  ASSUME OneProcess, TypeOK, Process, Db, NEW p \in Procs, Forget(p) \/ Forgotten(p)
  PROVE  Db'
<1>1. \A q \in Procs : q = p
  BY DEF OneProcess
<1>2. /\ pc[p] \in RemoveSteps /\ pc'[p] \in RemoveSteps /\ UNCHANGED work
      /\ cur[p] \in Names /\ owners[p] = Unbuilt /\ pc[p] # "next"
  BY DEF Forget, Forgotten, Step, TypeOK, Process, RemoveSteps
<1>3. \A n \in Names : filelist'[n] \subseteq filelist[n]
  BY DEF Forget, Forgotten, TypeOK
<1>4. Disjoint'
  BY <1>3 DEF Db, Disjoint
<1>5. Reserved' /\ OwnersRight'
  BY <1>1, <1>2 DEF Reserved, OwnersRight, InstallSteps, RemoveSteps, work
<1>6. Entries'
  <2>1. CASE Forget(p)
    BY <1>1, <1>2, <2>1, AbsentAssumption DEF Db, Entries, Forget, Step, TypeOK, work
  <2>2. CASE Forgotten(p)
    BY <1>1, <1>2, <2>2, AbsentAssumption DEF Db, Entries, Forgotten, Step, TypeOK, work
  <2> QED BY <2>1, <2>2
<1> QED BY <1>4, <1>5, <1>6 DEF Db

LEMMA StepDb ==
  ASSUME OneProcess, TypeOK, Process, Db, Progress, NEW p \in Procs, ~torn',
         Installing(p) \/ Removing(p) \/ Interrupt(p)
  PROVE  Db'
<1> USE DEF database, work
<1>1. ASSUME NEW batch \in SUBSET Builds, InstallFiles(p, batch) PROVE Db'
  BY <1>1, MovesOnDb DEF InstallFiles, Step, Process, TypeOK, InstallSteps
<1>2. ASSUME NEW b \in Builds, Accept(p, b) PROVE Db'
  BY <1>2, AcceptDb
<1>3. ASSUME NEW b \in Builds, Reject(p, b) PROVE Db'
  BY <1>3, OutsideDb, ExitType DEF Reject, InstallSteps
<1>4. ASSUME NEW f \in Paths, Place(p, f) \/ Prune(p, f) \/ Delete(p, f) PROVE Db'
  BY <1>4, MovesOnDb DEF Place, Prune, Delete
<1>5. CASE AllPlaced(p) \/ AllPruned(p)
  BY <1>5, MovesOnDb DEF AllPlaced, AllPruned, Step, TypeOK, InstallSteps
<1>6. CASE RecordManifest(p)
  BY <1>6, RecordManifestDb
<1>7. CASE RecordFiles(p)
  <2>1. manifest[cur[p]] = pkg[p] /\ pkg[p] \in Builds
    BY <1>7 DEF RecordFiles, Step, Progress, Process, InstallSteps
  <2> QED BY <1>7, <2>1, RecordFilesDb, AbsentAssumption
<1>8. CASE IndexCapabilities(p)
  <2>1. filelist[cur[p]] = Placed(pkg[p])
    BY <1>8 DEF IndexCapabilities, Step, Progress
  <2> QED BY <1>8, <2>1, IndexCapabilitiesDb
<1>9. CASE ApplyAlternatives(p)
  <2>1. CASE todo[p] = {}
    BY <1>9, <2>1, OutsideDb, ExitType DEF ApplyAlternatives, InstallSteps
  <2>2. CASE todo[p] # {}
    <3>1. /\ pc[p] = "alternatives" /\ pc'[p] = "check"
          /\ UNCHANGED <<manifest, filelist, work>>
      BY <1>9, <2>2 DEF ApplyAlternatives, TypeOK
    <3>2. \A q \in Procs : q = p
      BY DEF OneProcess
    <3>3. Entries' /\ Disjoint' /\ Reserved'
      BY <3>1, <3>2 DEF Db, Entries, Disjoint, Reserved, InstallSteps
    <3>4. OwnersRight'
      BY <3>1, <3>2 DEF Db, OwnersRight, Mirrors, InstallSteps
    <3> QED BY <3>3, <3>4 DEF Db
  <2> QED BY <2>1, <2>2
<1>10. ASSUME NEW batch \in SUBSET Names, NEW forced \in BOOLEAN, Remove(p, batch, forced)
       PROVE Db'
  BY <1>10, OutsideDb DEF Remove, Step, Process, TypeOK, InstallSteps
<1>11. ASSUME NEW n \in Names, NextName(p, n) PROVE Db'
  BY <1>11, OutsideDb DEF NextName, Step, Process, TypeOK, InstallSteps, RemoveSteps
<1>12. CASE AllDeleted(p)
  BY <1>12, OutsideDb DEF AllDeleted, Step, Process, TypeOK, InstallSteps, RemoveSteps
<1>13. CASE Forget(p) \/ Forgotten(p)
  BY <1>13, ForgettingDb
<1>14. CASE ForgetCapabilities(p)
  <2>1. pc[p] = "uncaps" /\ UNCHANGED <<manifest, filelist>>
    BY <1>14 DEF ForgetCapabilities
  <2>2. pc'[p] \in {"idle", "next"} /\ owners'[p] = Unbuilt
    BY <1>14, ExitType DEF ForgetCapabilities, TypeOK, Process, RemoveSteps
  <2> QED BY <2>1, <2>2, OutsideDb DEF InstallSteps
<1>15. CASE Interrupt(p)
  <2>1. UNCHANGED <<manifest, filelist>> /\ pc[p] # "forgotten" /\ Exit(p)
    BY <1>15 DEF Interrupt
  <2> QED BY <2>1, OutsideDb, ExitType DEF InstallSteps
<1>16. ASSUME NEW b \in Builds, Skip(p, b) PROVE Db'
  BY <1>16, SkipDb
<1>17. CASE Fail(p)
  BY <1>17, OutsideDb, ExitType DEF Fail, InstallSteps
<1> QED BY <1>1, <1>2, <1>3, <1>4, <1>5, <1>6, <1>7, <1>8, <1>9, <1>10, <1>11,
           <1>12, <1>13, <1>14, <1>15, <1>16, <1>17 DEF Installing, Removing

-----------------------------------------------------------------------------
(* The files.                                                              *)

LEMMA StepProgress ==
  ASSUME OneProcess, TypeOK, Process, Db, Progress, NEW p \in Procs, ~torn',
         Installing(p) \/ Removing(p) \/ Interrupt(p)
  PROVE  Progress'
<1> USE DEF database, disk, work, InstallSteps
<1>a. \A q \in Procs : q = p
  BY DEF OneProcess
<1>b. ASSUME pc'[p] \in {"idle", "check", "next", "forget", "forgotten"} PROVE Progress'
  BY <1>a, <1>b DEF Progress
<1>1. ASSUME NEW batch \in SUBSET Builds, InstallFiles(p, batch) PROVE Progress'
  BY <1>1, <1>b DEF InstallFiles, Step, TypeOK
<1>2. ASSUME NEW b \in Builds, Accept(p, b) PROVE Progress'
  <2>1. pc'[p] = "place" /\ left'[p] = Placed(b) /\ pkg'[p] = b
    BY <1>2 DEF Accept, Step, TypeOK
  <2> QED BY <1>a, <2>1 DEF Progress
<1>3. ASSUME NEW b \in Builds, Reject(p, b) \/ Skip(p, b) PROVE Progress'
  BY <1>3, <1>b, ExitType DEF Reject, Skip
<1>4. ASSUME NEW f \in Paths, Place(p, f) PROVE Progress'
  <2>1. /\ pc[p] = "place" /\ pc'[p] = "place" /\ f \in left[p] /\ UNCHANGED pkg
        /\ left'[p] = left[p] \ {f} /\ pkg[p] \in Builds
    BY <1>4 DEF Place, Process, TypeOK
  <2>2. f \in Placed(pkg[p]) /\ Placed(pkg[p]) \subseteq Files[pkg[p]] /\ Files[pkg[p]] \subseteq Paths
    BY <2>1, PlacedType DEF Progress
  <2>3. \A g \in Placed(pkg[p]) : g \notin Below[f]
    BY <2>1, <2>2, ShapeAssumption
  <2>4. \A g \in Placed(pkg[p]) \ left'[p] : root'[g] = pkg[p]
    BY <1>4, <2>1, <2>2, <2>3, PlaceType DEF Progress
  <2> QED BY <1>a, <2>1, <2>4 DEF Progress
<1>5. CASE AllPlaced(p)
  <2>1. /\ pc[p] = "place" /\ pc'[p] = "prune" /\ left[p] = {} /\ UNCHANGED <<root, pkg, stale>>
        /\ left'[p] = stale[p] \ Placed(pkg[p])
    BY <1>5 DEF AllPlaced, Step, TypeOK
  <2> QED BY <1>a, <2>1 DEF Progress
<1>6. ASSUME NEW f \in Paths, Prune(p, f) PROVE Progress'
  <2>1. /\ pc[p] = "prune" /\ pc'[p] = "prune" /\ f \in left[p] /\ UNCHANGED <<pkg, stale>>
        /\ left'[p] \subseteq left[p] /\ \A g \in Paths \ {f} : root'[g] = root[g]
    BY <1>6 DEF Prune, TypeOK
  <2>2. f \notin Placed(pkg[p])
    BY <2>1 DEF Progress
  <2>3. Placed(pkg[p]) \subseteq Paths
    BY <2>1, PlacedType DEF Process
  <2> QED BY <1>a, <2>1, <2>2, <2>3 DEF Progress
<1>7. CASE AllPruned(p)
  BY <1>a, <1>7 DEF AllPruned, Step, TypeOK, Progress
<1>8. CASE RecordManifest(p)
  <2>1. /\ pc[p] = "manifest" /\ pc'[p] = "files" /\ UNCHANGED <<root, pkg, cur>>
        /\ manifest' = [manifest EXCEPT ![cur[p]] = pkg[p]]
        /\ pkg[p] \in Builds /\ cur[p] = Name[pkg[p]]
    BY <1>8 DEF RecordManifest, Step, TypeOK, Process
  <2>2. manifest'[cur[p]] = pkg[p]
    BY <2>1, PlacedType DEF TypeOK
  <2> QED BY <1>a, <2>1, <2>2 DEF Progress
<1>9. CASE RecordFiles(p)
  <2>1. /\ pc[p] = "files" /\ pc'[p] = "caps" /\ UNCHANGED <<root, pkg, cur, manifest>>
        /\ filelist' = [filelist EXCEPT ![cur[p]] = Placed(pkg[p])]
        /\ pkg[p] \in Builds /\ cur[p] = Name[pkg[p]]
    BY <1>9 DEF RecordFiles, Step, TypeOK, Process
  <2>2. filelist'[cur[p]] = Placed(pkg[p])
    BY <2>1, PlacedType DEF TypeOK
  <2> QED BY <1>a, <2>1, <2>2 DEF Progress
<1>10. CASE IndexCapabilities(p)
  <2>1. pc[p] = "caps" /\ pc'[p] = "alternatives" /\ UNCHANGED <<root, pkg, cur, manifest, filelist>>
    BY <1>10 DEF IndexCapabilities, Step, TypeOK
  <2> QED BY <1>a, <2>1 DEF Progress
<1>11. CASE ApplyAlternatives(p)
  BY <1>11, <1>b, ExitType DEF ApplyAlternatives, TypeOK
<1>12. ASSUME NEW batch \in SUBSET Names, NEW forced \in BOOLEAN, Remove(p, batch, forced)
       PROVE Progress'
  BY <1>12, <1>b DEF Remove, Step, TypeOK
<1>13. ASSUME NEW n \in Names, NextName(p, n) PROVE Progress'
  <2>1. pc'[p] = "delete" /\ left'[p] = filelist'[cur'[p]]
    BY <1>13 DEF NextName, Step, TypeOK
  <2> QED BY <1>a, <2>1 DEF Progress
<1>14. ASSUME NEW f \in Paths, Delete(p, f) PROVE Progress'
  BY <1>a, <1>14 DEF Delete, Progress, TypeOK
<1>15. CASE AllDeleted(p) \/ Forget(p)
  BY <1>15, <1>b DEF AllDeleted, Forget, Step, TypeOK
<1>16. CASE Forgotten(p)
  <2>1. pc'[p] = "uncaps" /\ cur' = cur /\ cur[p] \in Names /\ manifest'[cur[p]] = None
    BY <1>16 DEF Forgotten, Step, TypeOK, Process, RemoveSteps
  <2> QED BY <1>a, <2>1 DEF Progress
<1>17. CASE ForgetCapabilities(p)
  BY <1>17, <1>b, ExitType DEF ForgetCapabilities, TypeOK
<1>18. CASE Interrupt(p) \/ Fail(p)
  BY <1>18, <1>b, ExitType DEF Interrupt, Fail
<1> QED BY <1>1, <1>2, <1>3, <1>4, <1>5, <1>6, <1>7, <1>8, <1>9, <1>10, <1>11,
           <1>12, <1>13, <1>14, <1>15, <1>16, <1>17, <1>18 DEF Installing, Removing

\* A command does nothing to a package it is not working on, but for what
\* it tramples on.
LEMMA OthersKept ==
  ASSUME TypeOK, Process, Db, Progress, NEW p \in Procs,
         Installing(p) \/ Removing(p) \/ Interrupt(p),
         NEW n \in Names, pc[p] \in Working => cur[p] # n
  PROVE  /\ manifest'[n] = manifest[n] /\ filelist'[n] = filelist[n]
         /\ n \in broken => n \in broken'
         /\ \A f \in filelist[n] \ trampled' : root'[f] = root[f] /\ f \notin trampled
<1> DEFINE Kept == /\ manifest'[n] = manifest[n] /\ filelist'[n] = filelist[n]
                   /\ n \in broken => n \in broken'
                   /\ \A f \in filelist[n] \ trampled' : root'[f] = root[f] /\ f \notin trampled
<1> USE DEF database, disk, history, InstallSteps, RemoveSteps, Working
<1>0. ASSUME UNCHANGED <<database, root, broken, trampled>> PROVE Kept
  BY <1>0
<1>1. \A f \in filelist[n] : f \in Paths
  BY DEF TypeOK
<1>2. ASSUME NEW batch \in SUBSET Builds, InstallFiles(p, batch) PROVE Kept
  BY <1>2, <1>0 DEF InstallFiles
<1>3. ASSUME NEW b \in Builds, Accept(p, b) \/ Reject(p, b) \/ Skip(p, b) PROVE Kept
  BY <1>3, <1>0 DEF Accept, Reject, Skip
<1>4. ASSUME NEW f \in Paths, Place(p, f) PROVE Kept
  <2>1. f \in Placed(pkg[p]) /\ pkg[p] \in Builds /\ cur[p] # n
    BY <1>4 DEF Place, Progress, Process
  <2>2. f \notin filelist[n]
    BY <1>4, <2>1, PlacedType DEF Place, Db, Reserved
  <2>3. UNCHANGED <<manifest, filelist, broken>> /\ trampled \subseteq trampled' \cup {f}
    BY <1>4 DEF Place
  <2>4. \A g \in Paths : g # f /\ g \notin trampled' => root'[g] = root[g]
    BY <1>4, <2>1, PlaceType
  <2> QED BY <1>1, <2>2, <2>3, <2>4
<1>5. ASSUME NEW f \in Paths, Prune(p, f) PROVE Kept
  <2>1. f \in stale[p] /\ cur[p] # n
    BY <1>5 DEF Prune, Progress
  <2>2. f \notin filelist[n]
    BY <1>5, <2>1 DEF Prune, Db, Reserved
  <2> QED BY <1>1, <1>5, <2>2 DEF Prune, TypeOK
<1>6. CASE AllPlaced(p) \/ AllPruned(p) \/ AllDeleted(p)
  BY <1>6, <1>0 DEF AllPlaced, AllPruned, AllDeleted
<1>7. CASE RecordManifest(p) \/ RecordFiles(p)
  BY <1>7 DEF RecordManifest, RecordFiles, Step, TypeOK
<1>8. CASE IndexCapabilities(p)
  BY <1>8 DEF IndexCapabilities, Step
<1>9. CASE ApplyAlternatives(p)
  <2>1. pkg[p] \in Builds /\ Wins(pkg[p]) \in SUBSET Alts
    BY <1>9, WinsType DEF ApplyAlternatives, Process
  <2>2. \A g \in Paths : g \notin trampled' => root'[g] = root[g] /\ g \notin trampled
    BY <1>9, <2>1, AppliedType
  <2> QED BY <1>1, <1>9, <2>2 DEF ApplyAlternatives
<1>10. ASSUME NEW batch \in SUBSET Names, NEW forced \in BOOLEAN, Remove(p, batch, forced)
       PROVE Kept
  BY <1>10, <1>0 DEF Remove
<1>11. ASSUME NEW m \in Names, NextName(p, m) PROVE Kept
  BY <1>11, <1>0 DEF NextName
<1>12. ASSUME NEW f \in Paths, Delete(p, f) PROVE Kept
  <2>1. f \in filelist[cur[p]] /\ cur[p] \in Names /\ cur[p] # n
    BY <1>12 DEF Delete, Progress, Process
  <2>2. f \notin filelist[n]
    BY <2>1 DEF Db, Disjoint
  <2> QED BY <1>1, <1>12, <2>2 DEF Delete, TypeOK
<1>13. CASE Forget(p) \/ Forgotten(p)
  BY <1>13 DEF Forget, Forgotten, Step, TypeOK
<1>14. CASE ForgetCapabilities(p)
  BY <1>14 DEF ForgetCapabilities
<1>15. CASE Interrupt(p)
  <2>1. cur[p] # n /\ (n \in broken => n \in broken')
    BY <1>15 DEF Interrupt
  <2>2. manifest'[n] = manifest[n] /\ filelist'[n] = filelist[n]
    BY <1>15, <2>1 DEF Interrupt, TypeOK
  <2>3. trampled \subseteq trampled'
    BY <1>15, InterruptRoot
  <2>4. CASE root' = root
    BY <2>1, <2>2, <2>3, <2>4
  <2>5. ASSUME pc[p] = "place", NEW f \in left[p],
               \A g \in Paths : g # f /\ g \notin trampled' => root'[g] = root[g]
        PROVE  Kept
    <3>1. f \in Placed(pkg[p]) /\ pkg[p] \in Builds
      BY <2>5 DEF Progress, Process
    <3>2. f \notin filelist[n]
      BY <2>1, <2>5, <3>1, PlacedType DEF Db, Reserved
    <3> QED BY <1>1, <2>1, <2>2, <2>3, <2>5, <3>2
  <2>6. CASE \A g \in Paths : g \notin trampled' => root'[g] = root[g]
    BY <1>1, <2>1, <2>2, <2>3, <2>6
  <2> QED BY <1>15, <2>4, <2>5, <2>6, InterruptRoot
<1>16. CASE Fail(p)
  BY <1>16 DEF Fail
<1> QED BY <1>2, <1>3, <1>4, <1>5, <1>6, <1>7, <1>8, <1>9, <1>10, <1>11, <1>12,
           <1>13, <1>14, <1>15, <1>16 DEF Installing, Removing

\* A package about to be replaced is still all there.
Poised ==
  \A p \in Procs : pc[p] = "place" /\ left[p] = Placed(pkg[p]) /\ cur[p] \in installed \ broken =>
    \A f \in filelist[cur[p]] \ trampled : root[f] = manifest[cur[p]]

\* A package a process is through with, uninterrupted, is all there or gone;
\* a package it failed on before it placed a file is as it was.
LEMMA DoneWith ==
  ASSUME OneProcess, TypeOK, Process, Db, Progress, NEW p \in Procs,
         Installing(p) \/ Removing(p) \/ Interrupt(p),
         NEW n \in Names, pc[p] \in Working, cur[p] = n, Poised,
         n \in installed', n \notin broken', ~Busy(n)'
  PROVE  \A f \in filelist'[n] \ trampled' : root'[f] = manifest'[n]
<1> USE DEF database, disk, history, InstallSteps, RemoveSteps, Working
<1>1. ~(pc'[p] \in Working /\ cur'[p] = n)
  BY DEF Busy
<1>2. CASE ApplyAlternatives(p)
  <2>1. pkg[p] \in Builds /\ Wins(pkg[p]) \in SUBSET Alts /\ Placed(pkg[p]) \subseteq Paths
    BY <1>2, WinsType, PlacedType DEF ApplyAlternatives, Process
  <2>2. \A g \in Paths : g \notin trampled' => root'[g] = root[g]
    BY <1>2, <2>1, AppliedType
  <2>3. /\ UNCHANGED <<manifest, filelist>> /\ manifest[n] = pkg[p] /\ filelist[n] = Placed(pkg[p])
        /\ \A f \in Placed(pkg[p]) : root[f] = pkg[p]
    BY <1>2 DEF ApplyAlternatives, Progress
  <2> QED BY <2>1, <2>2, <2>3
<1>3. CASE ForgetCapabilities(p)
  <2>1. manifest'[n] = None
    BY <1>3 DEF ForgetCapabilities, Progress
  <2> QED BY <2>1, AbsentAssumption DEF installed
<1>4. CASE Interrupt(p)
  BY <1>4 DEF Interrupt
<1>5. CASE AllPlaced(p) \/ AllPruned(p) \/ RecordManifest(p) \/ RecordFiles(p)
           \/ IndexCapabilities(p) \/ AllDeleted(p) \/ Forget(p) \/ Forgotten(p)
  BY <1>1, <1>5 DEF AllPlaced, AllPruned, RecordManifest, RecordFiles, IndexCapabilities,
     AllDeleted, Forget, Forgotten, Step, TypeOK, work
<1>6. ASSUME NEW f \in Paths, Place(p, f) \/ Prune(p, f) \/ Delete(p, f) PROVE FALSE
  BY <1>1, <1>6 DEF Place, Prune, Delete
<1>7. ASSUME NEW b \in Builds, Accept(p, b) \/ Reject(p, b) \/ Skip(p, b) PROVE FALSE
  BY <1>7 DEF Accept, Reject, Skip, Step
<1>8. ASSUME NEW batch, InstallFiles(p, batch) PROVE FALSE
  BY <1>8 DEF InstallFiles, Step
<1>9. ASSUME NEW batch, NEW forced, Remove(p, batch, forced) PROVE FALSE
  BY <1>9 DEF Remove, Step
<1>10. ASSUME NEW m, NextName(p, m) PROVE FALSE
  BY <1>10 DEF NextName, Step
<1>11. CASE Fail(p)
  <2>1. pc[p] = "place" /\ UNCHANGED <<manifest, filelist, root, trampled>>
    BY <1>11 DEF Fail
  <2>2. left[p] = Placed(pkg[p]) /\ n \notin broken
    BY <1>11 DEF Fail
  <2>3. n \in installed
    BY <2>1 DEF installed
  <2> QED BY <2>1, <2>2, <2>3 DEF Poised
<1> QED BY <1>2, <1>3, <1>4, <1>5, <1>6, <1>7, <1>8, <1>9, <1>10, <1>11 DEF Installing, Removing

LEMMA StepPoised ==
  ASSUME OneProcess, TypeOK, Process, Db, Progress, InstalledIntact, Poised, ~torn, NEW p \in Procs,
         Installing(p) \/ Removing(p) \/ Interrupt(p)
  PROVE  Poised'
<1> USE DEF database, disk, work, history, InstallSteps, RemoveSteps
<1>a. \A q \in Procs : q = p
  BY DEF OneProcess
<1>b. ASSUME pc'[p] # "place" PROVE Poised'
  BY <1>a, <1>b DEF Poised
<1>1. ASSUME NEW batch \in SUBSET Builds, InstallFiles(p, batch) PROVE Poised'
  BY <1>1, <1>b DEF InstallFiles, Step, TypeOK
<1>2. ASSUME NEW b \in Builds, Accept(p, b) PROVE Poised'
  <2>1. /\ pc[p] = "check" /\ cur'[p] = Name[b] /\ Name[b] \in Names
        /\ UNCHANGED <<manifest, filelist, root, broken, trampled, torn>>
    BY <1>2, PlacedType DEF Accept, Step, TypeOK
  <2>2. ~Busy(Name[b])
    BY <1>a, <2>1 DEF Busy, Working
  <2> QED BY <1>a, <2>1, <2>2 DEF Poised, InstalledIntact, installed
<1>3. ASSUME NEW b \in Builds, Reject(p, b) \/ Skip(p, b) PROVE Poised'
  BY <1>3, <1>b, ExitType DEF Reject, Skip
<1>4. ASSUME NEW f \in Paths, Place(p, f) PROVE Poised'
  <2>1. f \notin left'[p] /\ UNCHANGED pkg /\ f \in Placed(pkg[p])
    BY <1>4 DEF Place, Progress, TypeOK
  <2> QED BY <1>a, <2>1 DEF Poised
<1>5. CASE AllPlaced(p) \/ AllPruned(p) \/ RecordManifest(p) \/ RecordFiles(p)
           \/ IndexCapabilities(p) \/ AllDeleted(p) \/ Forget(p) \/ Forgotten(p)
  BY <1>5, <1>b DEF AllPlaced, AllPruned, RecordManifest, RecordFiles, IndexCapabilities,
     AllDeleted, Forget, Forgotten, Step, TypeOK
<1>6. ASSUME NEW f \in Paths, Prune(p, f) \/ Delete(p, f) PROVE Poised'
  BY <1>6, <1>b DEF Prune, Delete
<1>7. CASE ApplyAlternatives(p) \/ ForgetCapabilities(p)
  BY <1>7, <1>b, ExitType DEF ApplyAlternatives, ForgetCapabilities, TypeOK
<1>8. ASSUME NEW batch \in SUBSET Names, NEW forced \in BOOLEAN, Remove(p, batch, forced)
      PROVE  Poised'
  BY <1>8, <1>b DEF Remove, Step, TypeOK
<1>9. ASSUME NEW n \in Names, NextName(p, n) PROVE Poised'
  BY <1>9, <1>b DEF NextName, Step, TypeOK
<1>10. CASE Interrupt(p) \/ Fail(p)
  BY <1>10, <1>b, ExitType DEF Interrupt, Fail
<1> QED BY <1>1, <1>2, <1>3, <1>4, <1>5, <1>6, <1>7, <1>8, <1>9, <1>10
        DEF Installing, Removing

LEMMA StepIntact ==
  ASSUME OneProcess, TypeOK, Process, Db, Progress, InstalledIntact, Poised, ~torn, NEW p \in Procs,
         Installing(p) \/ Removing(p) \/ Interrupt(p)
  PROVE  InstalledIntact'
<1> SUFFICES ASSUME NEW n \in installed', n \notin broken', ~Busy(n)'
             PROVE  \A f \in filelist'[n] \ trampled' : root'[f] = manifest'[n]
  BY DEF InstalledIntact
<1>1. n \in Names
  BY DEF installed
<1>2. CASE pc[p] \in Working /\ cur[p] = n
  BY <1>1, <1>2, DoneWith
<1>3. CASE ~(pc[p] \in Working /\ cur[p] = n)
  <2>1. /\ manifest'[n] = manifest[n] /\ filelist'[n] = filelist[n] /\ n \notin broken
        /\ \A f \in filelist[n] \ trampled' : root'[f] = root[f] /\ f \notin trampled
    BY <1>1, <1>3, OthersKept
  <2>2. n \in installed /\ ~Busy(n)
    BY <1>1, <1>3, <2>1 DEF installed, Busy, OneProcess
  <2> QED BY <2>1, <2>2 DEF InstalledIntact
<1> QED BY <1>2, <1>3

IInv == /\ TypeOK /\ Process
        /\ ~torn => Db /\ Progress /\ Poised
        /\ InstalledIntact

LEMMA Inductive == ASSUME OneProcess PROVE Spec => []IInv
<1>1. Init => IInv
  <2> SUFFICES ASSUME Init PROVE IInv
    OBVIOUS
  <2>1. Entries /\ Disjoint
    BY AbsentAssumption DEF Init, Entries, Disjoint
  <2>2. Reserved /\ OwnersRight /\ Progress /\ Poised
    BY DEF Init, Reserved, OwnersRight, Progress, Poised, InstallSteps
  <2>3. InstalledIntact
    BY DEF Init, InstalledIntact, installed
  <2> QED BY <2>1, <2>2, <2>3, InitType DEF IInv, Db
<1>2. IInv /\ [Next]_vars => IInv'
  <2> SUFFICES ASSUME IInv, [Next]_vars PROVE IInv'
    OBVIOUS
  <2>1. CASE UNCHANGED vars
    <3>1. TypeOK' /\ Process' /\ InstalledIntact'
      BY <2>1 DEF IInv, vars, database, disk, work, history, TypeOK, Process,
         InstalledIntact, installed, Busy
    <3>2. ~torn' => Db' /\ Progress' /\ Poised'
      <4>1. ~torn' => Db' /\ Progress'
        BY <2>1 DEF IInv, Db, vars, database, disk, work, history, Entries, Disjoint,
           Reserved, OwnersRight, Mirrors, Progress
      <4>2. ~torn' => Poised'
        BY <2>1 DEF IInv, vars, database, disk, work, history, Poised, installed
      <4> QED BY <4>1, <4>2
    <3> QED BY <3>1, <3>2 DEF IInv
  <2>2. ASSUME NEW p \in Procs, Installing(p) \/ Removing(p) \/ Interrupt(p)
        PROVE  IInv'
    <3>1. TypeOK' /\ Process'
      BY <2>2, InstallingType, RemovingType, InterruptType, ProcessKept DEF IInv
    <3>2. torn => torn'
      BY <2>2 DEF Installing, Removing, Interrupt, InstallFiles, Accept, Reject, Skip,
         Place, Fail, Prune, AllPlaced, AllPruned, RecordManifest, RecordFiles, IndexCapabilities,
         ApplyAlternatives, Remove, NextName, Delete, AllDeleted, Forget, Forgotten,
         ForgetCapabilities, history
    <3>3. ~torn' => Db' /\ Progress' /\ Poised'
      BY <2>2, <3>2, StepDb, StepProgress, StepPoised DEF IInv
    <3>4. InstalledIntact'
      <4>1. CASE torn
        BY <4>1, <3>2 DEF InstalledIntact
      <4>2. CASE ~torn
        BY <2>2, <4>2, StepIntact DEF IInv
      <4> QED BY <4>1, <4>2
    <3> QED BY <3>1, <3>3, <3>4 DEF IInv
  <2> QED BY <2>1, <2>2 DEF Next
<1> QED BY <1>1, <1>2, PTL DEF Spec

-----------------------------------------------------------------------------
\* No path is ever listed by two packages, while no interruption cuts a
\* database entry in two and one npkg runs at a time.
THEOREM OwnersSafe == ASSUME OneProcess PROVE Spec => []OwnersDisjoint
<1>1. IInv => OwnersDisjoint
  BY DEF IInv, Db, Disjoint, OwnersDisjoint, installed
<1> QED BY <1>1, Inductive, PTL

\* An installed package is all there whatever was done to the others.
THEOREM IntactSafe == ASSUME OneProcess PROVE Spec => []InstalledIntact
<1>1. IInv => InstalledIntact
  BY DEF IInv
<1> QED BY <1>1, Inductive, PTL

-----------------------------------------------------------------------------
(* Removals.  What the guards of remove saw of a whole batch must still    *)
(* hold name by name, after the entries of the earlier names have gone.    *)

\* The names a removal has yet to drop.
Batch(p) == names[p] \cup (IF pc[p] \in {"delete", "forget", "forgotten"} THEN {cur[p]} ELSE {})

Guarded ==
  \A p \in Procs : pc[p] \in RemoveSteps /\ ~force[p] =>
    \A n \in Batch(p) : n \notin Critical /\ dependents(n) \subseteq Batch(p)

\* Entries that go, or stay as they are, bring no new dependents.
LEMMA FewerDependents ==
  ASSUME NEW n, \A m \in Names : manifest'[m] \in {manifest[m], None}
  PROVE  dependents(n)' \subseteq dependents(n)
BY AbsentAssumption DEF dependents, installed

LEMMA StepGuarded ==
  ASSUME OneProcess, TypeOK, Process, Guarded, NEW p \in Procs,
         Installing(p) \/ Removing(p) \/ Interrupt(p)
  PROVE  Guarded'
<1> USE DEF database, disk, work, history, InstallSteps, RemoveSteps
<1>a. \A q \in Procs : q = p
  BY DEF OneProcess
<1>b. ASSUME pc'[p] \notin RemoveSteps PROVE Guarded'
  BY <1>a, <1>b DEF Guarded
\* The batch only loses names, and the dependents it loses are gone.
<1>c. ASSUME pc[p] \in RemoveSteps, force'[p] = force[p],
             \A m \in Names : manifest'[m] \in {manifest[m], None},
             Batch(p)' \subseteq Batch(p),
             \A m \in Batch(p) \ Batch(p)' : m \notin installed'
      PROVE  Guarded'
  <2> SUFFICES ASSUME ~force'[p], NEW n \in Batch(p)'
               PROVE  n \notin Critical /\ dependents(n)' \subseteq Batch(p)'
    BY <1>a DEF Guarded
  <2>1. n \notin Critical /\ dependents(n) \subseteq Batch(p)
    BY <1>c DEF Guarded
  <2>2. dependents(n)' \subseteq dependents(n) /\ dependents(n)' \subseteq installed'
    BY <1>c, FewerDependents DEF dependents
  <2> QED BY <1>c, <2>1, <2>2
<1>1. ASSUME NEW batch \in SUBSET Builds, InstallFiles(p, batch) PROVE Guarded'
  BY <1>1, <1>b DEF InstallFiles, Step, TypeOK
<1>2. ASSUME NEW b \in Builds, Accept(p, b) \/ Reject(p, b) \/ Skip(p, b) PROVE Guarded'
  BY <1>2, <1>b, ExitType DEF Accept, Reject, Skip, Step, TypeOK
<1>3. ASSUME NEW f \in Paths, Place(p, f) \/ Prune(p, f) PROVE Guarded'
  BY <1>3, <1>b DEF Place, Prune
<1>4. CASE AllPlaced(p) \/ AllPruned(p) \/ RecordManifest(p) \/ RecordFiles(p)
           \/ IndexCapabilities(p)
  BY <1>4, <1>b DEF AllPlaced, AllPruned, RecordManifest, RecordFiles, IndexCapabilities,
     Step, TypeOK
<1>5. CASE ApplyAlternatives(p)
  BY <1>5, <1>b, ExitType DEF ApplyAlternatives, TypeOK
<1>6. ASSUME NEW batch \in SUBSET Names, NEW forced \in BOOLEAN, Remove(p, batch, forced)
      PROVE  Guarded'
  <2>1. /\ pc'[p] = "next" /\ names'[p] = batch /\ force'[p] = forced /\ UNCHANGED manifest
        /\ ~forced => MayRemove(batch)
    BY <1>6 DEF Remove, Step, TypeOK
  <2>2. Batch(p)' = batch /\ \A n \in batch : dependents(n)' = dependents(n)
    BY <2>1 DEF Batch, dependents, installed
  <2> QED BY <1>a, <2>1, <2>2 DEF Guarded, MayRemove
<1>7. ASSUME NEW n \in Names, NextName(p, n) PROVE Guarded'
  <2>1. /\ pc[p] = "next" /\ pc'[p] = "delete" /\ n \in names[p] /\ cur'[p] = n
        /\ names'[p] = names[p] \ {n} /\ UNCHANGED <<manifest, force>>
    BY <1>7 DEF NextName, Step, TypeOK
  <2>2. Batch(p)' = Batch(p)
    BY <2>1 DEF Batch
  <2> QED BY <1>c, <2>1, <2>2
<1>8. ASSUME NEW f \in Paths, Delete(p, f) PROVE Guarded'
  BY <1>8, <1>c DEF Delete, Batch
<1>9. CASE AllDeleted(p)
  <2>1. /\ pc[p] = "delete" /\ pc'[p] = "forget" /\ UNCHANGED <<names, cur, force, manifest>>
    BY <1>9 DEF AllDeleted, Step, TypeOK
  <2> QED BY <1>c, <2>1 DEF Batch
<1>10. CASE Forget(p)
  <2>1. /\ pc[p] = "forget" /\ pc'[p] = "forgotten" /\ UNCHANGED <<names, cur, force>>
        /\ \A m \in Names : manifest'[m] \in {manifest[m], None}
    BY <1>10 DEF Forget, Step, TypeOK
  <2> QED BY <1>c, <2>1 DEF Batch
<1>11. CASE Forgotten(p)
  <2>1. /\ pc[p] = "forgotten" /\ pc'[p] = "uncaps" /\ UNCHANGED <<names, cur, force>>
        /\ \A m \in Names : manifest'[m] = IF m = cur[p] THEN None ELSE manifest[m]
    BY <1>11 DEF Forgotten, Step, TypeOK
  <2>2. cur[p] \notin installed'
    BY <2>1, AbsentAssumption DEF installed
  <2> QED BY <1>c, <2>1, <2>2 DEF Batch
<1>12. CASE ForgetCapabilities(p)
  <2>1. CASE names[p] = {}
    BY <1>12, <2>1, <1>b, ExitType DEF ForgetCapabilities
  <2>2. CASE names[p] # {}
    <3>1. /\ pc[p] = "uncaps" /\ pc'[p] = "next" /\ UNCHANGED <<names, force, manifest>>
      BY <1>12, <2>2 DEF ForgetCapabilities, TypeOK
    <3> QED BY <1>c, <3>1 DEF Batch
  <2> QED BY <2>1, <2>2
<1>13. CASE Interrupt(p) \/ Fail(p)
  BY <1>13, <1>b, ExitType DEF Interrupt, Fail
<1> QED BY <1>1, <1>2, <1>3, <1>4, <1>5, <1>6, <1>7, <1>8, <1>9, <1>10, <1>11,
           <1>12, <1>13 DEF Installing, Removing

LEMMA GuardedInductive == ASSUME OneProcess PROVE Spec => [](TypeOK /\ Process /\ Guarded)
<1>1. Init => TypeOK /\ Process /\ Guarded
  BY InitType DEF Init, Guarded, RemoveSteps
<1>2. TypeOK /\ Process /\ Guarded /\ [Next]_vars => (TypeOK /\ Process /\ Guarded)'
  <2> SUFFICES ASSUME TypeOK, Process, Guarded, [Next]_vars
               PROVE  TypeOK' /\ Process' /\ Guarded'
    OBVIOUS
  <2>1. CASE UNCHANGED vars
    BY <2>1 DEF vars, database, disk, work, history, TypeOK, Process, Guarded, Batch,
       dependents, installed
  <2>2. CASE Next
    BY <2>2, InstallingType, RemovingType, InterruptType, ProcessKept, StepGuarded DEF Next
  <2> QED BY <2>1, <2>2
<1> QED BY <1>1, <1>2, PTL DEF Spec

\* No unforced removal, of however many names in whatever order, drops a
\* package while one it leaves installed names it as a dependency, nor a
\* package of the desktop's own runtime.
THEOREM RemovalSafe == ASSUME OneProcess PROVE Spec => RemovalGuarded
<1>1. TypeOK /\ Process /\ Guarded =>
        \A p \in Procs : Forgotten(p) /\ ~force[p] =>
          cur[p] \notin Critical /\ dependents(cur[p]) \subseteq names[p]
  BY DEF Guarded, Batch, Forgotten, Step, RemoveSteps, dependents
<1> QED BY <1>1, GuardedInductive, PTL DEF RemovalGuarded

-----------------------------------------------------------------------------
(* The index of capabilities, through every interruption.                  *)

\* The entry a process has just written, or just dropped.
ManifestKnown ==
  \A p \in Procs :
    /\ pc[p] \in {"files", "caps", "alternatives"} => manifest[cur[p]] = pkg[p]
    /\ pc[p] = "uncaps" => manifest[cur[p]] = None

LEMMA StepManifestKnown ==
  ASSUME OneProcess, TypeOK, Process, ManifestKnown, NEW p \in Procs,
         Installing(p) \/ Removing(p) \/ Interrupt(p)
  PROVE  ManifestKnown'
<1> USE DEF database, disk, work, history, InstallSteps, RemoveSteps
<1>a. \A q \in Procs : q = p
  BY DEF OneProcess
<1>b. ASSUME pc'[p] \notin {"files", "caps", "alternatives", "uncaps"} PROVE ManifestKnown'
  BY <1>a, <1>b DEF ManifestKnown
<1>1. ASSUME NEW batch \in SUBSET Builds, InstallFiles(p, batch) PROVE ManifestKnown'
  BY <1>1, <1>b DEF InstallFiles, Step, TypeOK
<1>2. ASSUME NEW b \in Builds, Accept(p, b) \/ Reject(p, b) \/ Skip(p, b) PROVE ManifestKnown'
  BY <1>2, <1>b, ExitType DEF Accept, Reject, Skip, Step, TypeOK
<1>3. ASSUME NEW f \in Paths, Place(p, f) \/ Prune(p, f) \/ Delete(p, f) PROVE ManifestKnown'
  BY <1>3, <1>b DEF Place, Prune, Delete
<1>4. CASE AllPlaced(p) \/ AllPruned(p) \/ AllDeleted(p) \/ Forget(p)
  BY <1>4, <1>b DEF AllPlaced, AllPruned, AllDeleted, Forget, Step, TypeOK
<1>5. CASE RecordManifest(p)
  <2>1. /\ pc[p] = "manifest" /\ pc'[p] = "files" /\ UNCHANGED <<pkg, cur>> /\ cur[p] \in Names
        /\ manifest' = [manifest EXCEPT ![cur[p]] = pkg[p]]
    BY <1>5, PlacedType DEF RecordManifest, Step, TypeOK, Process
  <2> QED BY <1>a, <2>1 DEF ManifestKnown, TypeOK
<1>6. CASE RecordFiles(p)
  <2>1. pc[p] = "files" /\ pc'[p] = "caps" /\ UNCHANGED <<pkg, cur, manifest>>
    BY <1>6 DEF RecordFiles, Step, TypeOK
  <2> QED BY <1>a, <2>1 DEF ManifestKnown
<1>7. CASE IndexCapabilities(p)
  <2>1. pc[p] = "caps" /\ pc'[p] = "alternatives" /\ UNCHANGED <<pkg, cur, manifest>>
    BY <1>7 DEF IndexCapabilities, Step, TypeOK
  <2> QED BY <1>a, <2>1 DEF ManifestKnown
<1>8. CASE ApplyAlternatives(p)
  BY <1>8, <1>b, ExitType DEF ApplyAlternatives, TypeOK
<1>9. ASSUME NEW batch \in SUBSET Names, NEW forced \in BOOLEAN, Remove(p, batch, forced)
      PROVE  ManifestKnown'
  BY <1>9, <1>b DEF Remove, Step, TypeOK
<1>10. ASSUME NEW n \in Names, NextName(p, n) PROVE ManifestKnown'
  BY <1>10, <1>b DEF NextName, Step, TypeOK
<1>11. CASE Forgotten(p)
  <2>1. /\ pc'[p] = "uncaps" /\ UNCHANGED cur /\ cur[p] \in Names
        /\ manifest' = [manifest EXCEPT ![cur[p]] = None]
    BY <1>11 DEF Forgotten, Step, TypeOK, Process
  <2> QED BY <1>a, <2>1 DEF ManifestKnown, TypeOK
<1>12. CASE ForgetCapabilities(p)
  BY <1>12, <1>b, ExitType DEF ForgetCapabilities, TypeOK
<1>13. CASE Interrupt(p) \/ Fail(p)
  BY <1>13, <1>b, ExitType DEF Interrupt, Fail
<1> QED BY <1>1, <1>2, <1>3, <1>4, <1>5, <1>6, <1>7, <1>8, <1>9, <1>10, <1>11,
           <1>12, <1>13 DEF Installing, Removing

\* A step changes nothing about a package its process is not working on, and
\* credits no capability to it.
LEMMA OthersCredited ==
  ASSUME TypeOK, Process, NEW p \in Procs, Installing(p) \/ Removing(p) \/ Interrupt(p),
         NEW c \in Caps, caps'[c] # None, pc[p] \in Working => cur[p] # caps'[c]
  PROVE  /\ caps[c] = caps'[c] /\ manifest'[caps[c]] = manifest[caps[c]]
         /\ caps[c] \in broken => caps[c] \in broken'
<1> DEFINE Same == /\ caps[c] = caps'[c] /\ manifest'[caps[c]] = manifest[caps[c]]
                   /\ caps[c] \in broken => caps[c] \in broken'
<1> USE DEF database, disk, work, history, InstallSteps, RemoveSteps, Working
<1>1. ASSUME UNCHANGED <<caps, manifest, broken>> PROVE Same
  BY <1>1
<1>2. ASSUME NEW batch, InstallFiles(p, batch) PROVE Same
  BY <1>1, <1>2 DEF InstallFiles
<1>3. ASSUME NEW b, Accept(p, b) \/ Reject(p, b) \/ Skip(p, b) PROVE Same
  BY <1>1, <1>3 DEF Accept, Reject, Skip
<1>4. ASSUME NEW f, Place(p, f) \/ Prune(p, f) \/ Delete(p, f) PROVE Same
  BY <1>1, <1>4 DEF Place, Prune, Delete
<1>5. CASE AllPlaced(p) \/ AllPruned(p) \/ AllDeleted(p) \/ RecordFiles(p) \/ ApplyAlternatives(p)
  BY <1>1, <1>5 DEF AllPlaced, AllPruned, AllDeleted, RecordFiles, ApplyAlternatives
<1>6. CASE RecordManifest(p) \/ Forget(p) \/ Forgotten(p)
  BY <1>6 DEF RecordManifest, Forget, Forgotten, Step, TypeOK
<1>7. CASE IndexCapabilities(p) \/ ForgetCapabilities(p)
  BY <1>7 DEF IndexCapabilities, ForgetCapabilities, Step, TypeOK
<1>8. ASSUME NEW batch, NEW forced, Remove(p, batch, forced) PROVE Same
  BY <1>1, <1>8 DEF Remove
<1>9. ASSUME NEW n, NextName(p, n) PROVE Same
  BY <1>1, <1>9 DEF NextName
<1>10. CASE Interrupt(p)
  <2>1. caps'[c] = caps[c]
    BY <1>10 DEF Interrupt
  <2>2. caps[c] \in broken => caps[c] \in broken'
    BY <1>10 DEF Interrupt
  <2>3. manifest'[caps[c]] = manifest[caps[c]]
    BY <1>10, <2>1 DEF Interrupt, TypeOK
  <2> QED BY <2>1, <2>2, <2>3
<1>11. CASE Fail(p)
  BY <1>11 DEF Fail
<1> QED BY <1>2, <1>3, <1>4, <1>5, <1>6, <1>7, <1>8, <1>9, <1>10, <1>11 DEF Installing, Removing

\* A package about to be replaced that a capability is credited to is installed.
HeldPoised ==
  \A p \in Procs : pc[p] = "place" /\ cur[p] \notin broken =>
    \A c \in Caps : caps[c] = cur[p] => cur[p] \in installed

LEMMA StepHeldPoised ==
  ASSUME OneProcess, TypeOK, Process, CapabilitiesHeld, HeldPoised, NEW p \in Procs,
         Installing(p) \/ Removing(p) \/ Interrupt(p)
  PROVE  HeldPoised'
<1> USE DEF database, disk, work, history, InstallSteps, RemoveSteps
<1>a. \A q \in Procs : q = p
  BY DEF OneProcess
<1>b. ASSUME pc'[p] # "place" PROVE HeldPoised'
  BY <1>a, <1>b DEF HeldPoised
<1>1. ASSUME NEW batch \in SUBSET Builds, InstallFiles(p, batch) PROVE HeldPoised'
  BY <1>1, <1>b DEF InstallFiles, Step, TypeOK
<1>2. ASSUME NEW b \in Builds, Accept(p, b) PROVE HeldPoised'
  <2>1. /\ pc[p] = "check" /\ cur'[p] = Name[b] /\ Name[b] \in Names
        /\ UNCHANGED <<manifest, caps, broken>>
    BY <1>2, PlacedType DEF Accept, Step, TypeOK
  <2>2. ~Busy(Name[b]) /\ Name[b] # None
    BY <1>a, <2>1, AbsentAssumption DEF Busy, Working
  <2> QED BY <1>a, <2>1, <2>2 DEF HeldPoised, CapabilitiesHeld, installed
<1>3. ASSUME NEW b \in Builds, Reject(p, b) \/ Skip(p, b) PROVE HeldPoised'
  BY <1>3, <1>b, ExitType DEF Reject, Skip
<1>4. ASSUME NEW f \in Paths, Place(p, f) PROVE HeldPoised'
  BY <1>a, <1>4 DEF Place, HeldPoised, installed
<1>5. CASE AllPlaced(p) \/ AllPruned(p) \/ RecordManifest(p) \/ RecordFiles(p)
           \/ IndexCapabilities(p) \/ AllDeleted(p) \/ Forget(p) \/ Forgotten(p)
  BY <1>5, <1>b DEF AllPlaced, AllPruned, RecordManifest, RecordFiles, IndexCapabilities,
     AllDeleted, Forget, Forgotten, Step, TypeOK
<1>6. ASSUME NEW f \in Paths, Prune(p, f) \/ Delete(p, f) PROVE HeldPoised'
  BY <1>6, <1>b DEF Prune, Delete
<1>7. CASE ApplyAlternatives(p) \/ ForgetCapabilities(p)
  BY <1>7, <1>b, ExitType DEF ApplyAlternatives, ForgetCapabilities, TypeOK
<1>8. ASSUME NEW batch \in SUBSET Names, NEW forced \in BOOLEAN, Remove(p, batch, forced)
      PROVE  HeldPoised'
  BY <1>8, <1>b DEF Remove, Step, TypeOK
<1>9. ASSUME NEW n \in Names, NextName(p, n) PROVE HeldPoised'
  BY <1>9, <1>b DEF NextName, Step, TypeOK
<1>10. CASE Interrupt(p) \/ Fail(p)
  BY <1>10, <1>b, ExitType DEF Interrupt, Fail
<1> QED BY <1>1, <1>2, <1>3, <1>4, <1>5, <1>6, <1>7, <1>8, <1>9, <1>10
        DEF Installing, Removing

LEMMA StepCredited ==
  ASSUME OneProcess, TypeOK, Process, ManifestKnown, CapabilitiesHeld, HeldPoised, NEW p \in Procs,
         Installing(p) \/ Removing(p) \/ Interrupt(p)
  PROVE  CapabilitiesHeld'
<1> SUFFICES ASSUME NEW c \in Caps, caps'[c] # None, caps'[c] \notin broken', ~Busy(caps[c])',
                    TypeOK'
             PROVE  caps'[c] \in installed'
  BY InstallingType, RemovingType, InterruptType DEF CapabilitiesHeld, Busy
<1>0. caps'[c] \in Names
  BY DEF TypeOK
<1> USE DEF database, disk, work, history, InstallSteps, RemoveSteps, Working
<1>1. CASE ~(pc[p] \in Working /\ cur[p] = caps'[c])
  <2>1. /\ caps[c] = caps'[c] /\ manifest'[caps[c]] = manifest[caps[c]]
        /\ caps[c] \notin broken
    BY <1>1, OthersCredited
  <2>2. ~Busy(caps[c])
    BY <1>1, <2>1 DEF Busy, OneProcess
  <2> QED BY <1>0, <2>1, <2>2 DEF CapabilitiesHeld, installed
<1>2. CASE pc[p] \in Working /\ cur[p] = caps'[c]
  <2>1. ~(pc'[p] \in Working /\ cur'[p] = cur[p])
    BY <1>2 DEF Busy
  <2>2. CASE ApplyAlternatives(p)
    BY <1>0, <1>2, <2>2 DEF ApplyAlternatives, ManifestKnown, Process, installed
  <2>3. CASE ForgetCapabilities(p)
    BY <1>2, <2>3 DEF ForgetCapabilities
  <2>4. CASE Interrupt(p)
    BY <1>2, <2>4 DEF Interrupt
  <2>11. CASE Fail(p)
    <3>1. UNCHANGED <<caps, manifest>> /\ pc[p] = "place" /\ cur[p] \notin broken
      BY <1>2, <2>11 DEF Fail
    <3> QED BY <1>2, <3>1 DEF HeldPoised, installed
  <2>5. CASE AllPlaced(p) \/ AllPruned(p) \/ RecordManifest(p) \/ RecordFiles(p)
             \/ IndexCapabilities(p) \/ AllDeleted(p) \/ Forget(p) \/ Forgotten(p)
    BY <2>1, <2>5 DEF AllPlaced, AllPruned, RecordManifest, RecordFiles, IndexCapabilities,
       AllDeleted, Forget, Forgotten, Step, TypeOK
  <2>6. ASSUME NEW f, Place(p, f) \/ Prune(p, f) \/ Delete(p, f) PROVE FALSE
    BY <1>2, <2>1, <2>6 DEF Place, Prune, Delete
  <2>7. ASSUME NEW b, Accept(p, b) \/ Reject(p, b) \/ Skip(p, b) PROVE FALSE
    BY <1>2, <2>7 DEF Accept, Reject, Skip, Step
  <2>8. ASSUME NEW batch, InstallFiles(p, batch) PROVE FALSE
    BY <1>2, <2>8 DEF InstallFiles, Step
  <2>9. ASSUME NEW batch, NEW forced, Remove(p, batch, forced) PROVE FALSE
    BY <1>2, <2>9 DEF Remove, Step
  <2>10. ASSUME NEW m, NextName(p, m) PROVE FALSE
    BY <1>2, <2>10 DEF NextName, Step
  <2> QED BY <2>2, <2>3, <2>4, <2>5, <2>6, <2>7, <2>8, <2>9, <2>10, <2>11
          DEF Installing, Removing
<1> QED BY <1>1, <1>2

\* A capability is credited to an installed package only, however often
\* commands are interrupted and wherever: those on other packages do no harm.
THEOREM CapabilitiesSafe == ASSUME OneProcess PROVE Spec => []CapabilitiesHeld
<1> DEFINE Inv == TypeOK /\ Process /\ ManifestKnown /\ CapabilitiesHeld /\ HeldPoised
<1>1. Init => Inv
  BY InitType DEF Init, ManifestKnown, CapabilitiesHeld, HeldPoised
<1>2. Inv /\ [Next]_vars => Inv'
  <2> SUFFICES ASSUME Inv, [Next]_vars PROVE Inv'
    OBVIOUS
  <2>1. CASE UNCHANGED vars
    BY <2>1 DEF vars, database, disk, work, history, TypeOK, Process, ManifestKnown,
       CapabilitiesHeld, HeldPoised, Busy, installed
  <2>2. CASE Next
    BY <2>2, InstallingType, RemovingType, InterruptType, ProcessKept, StepManifestKnown,
       StepCredited, StepHeldPoised DEF Next
  <2> QED BY <2>1, <2>2
<1> QED BY <1>1, <1>2, PTL DEF Spec

-----------------------------------------------------------------------------
(* What no package lists, when no command is interrupted.                  *)

\* Where a file that is neither listed nor being placed is already gone.
Cleared ==
  \A p \in Procs :
    /\ pc[p] \in {"place", "prune", "manifest", "files"} => stale[p] = filelist[cur[p]]
    /\ pc[p] = "prune" =>
         \A f \in stale[p] \ (Placed(pkg[p]) \cup left[p] \cup DeadLinks) : root[f] \notin Builds
    /\ pc[p] \in {"manifest", "files"} =>
         \A f \in stale[p] \ (Placed(pkg[p]) \cup DeadLinks) : root[f] \notin Builds
    /\ pc[p] = "delete" => \A f \in filelist[cur[p]] \ left[p] : root[f] \notin Builds
    /\ pc[p] \in {"forget", "forgotten"} => \A f \in filelist[cur[p]] : root[f] \notin Builds

\* A file is listed, or about to be, or gone.
Listed(f)    == \E n \in installed : f \in filelist[n]
Arriving(f)  == \E p \in Procs : pc[p] \in InstallSteps /\ f \in Placed(pkg[p])
Accounted    == \A f \in Paths \ DeadLinks : root[f] \in Builds => Listed(f) \/ Arriving(f)

\* An installation that has placed nothing has made nothing its own, and one
\* that has placed a file can place the others.
Unstarted ==
  \A p \in Procs : pc[p] = "place" =>
    \/ \A f \in Paths \ DeadLinks : root[f] \in Builds => Listed(f)
    \/ left[p] # Placed(pkg[p]) /\ \A g \in left[p] : ~Obstructed(g)

LEMMA StepUnstarted ==
  ASSUME OneProcess, TypeOK, Process, Progress, Accounted, Unstarted, NEW p \in Procs,
         Installing(p) \/ Removing(p)
  PROVE  Unstarted'
<1> USE DEF database, disk, work, history, InstallSteps, RemoveSteps
<1>a. \A q \in Procs : q = p
  BY DEF OneProcess
<1>b. ASSUME pc'[p] # "place" PROVE Unstarted'
  BY <1>a, <1>b DEF Unstarted
<1>1. ASSUME NEW batch \in SUBSET Builds, InstallFiles(p, batch) PROVE Unstarted'
  BY <1>1, <1>b DEF InstallFiles, Step, TypeOK
<1>2. ASSUME NEW b \in Builds, Accept(p, b) PROVE Unstarted'
  <2>1. pc[p] = "check" /\ UNCHANGED <<manifest, filelist, root>>
    BY <1>2 DEF Accept, Step
  <2>2. \A f : ~Arriving(f)
    BY <1>a, <2>1 DEF Arriving
  <2>3. \A f \in Paths \ DeadLinks : root[f] \in Builds => Listed(f)
    BY <2>2 DEF Accounted
  <2> QED BY <1>a, <2>1, <2>3 DEF Unstarted, Listed, installed
<1>3. ASSUME NEW b \in Builds, Reject(p, b) \/ Skip(p, b) PROVE Unstarted'
  BY <1>3, <1>b, ExitType DEF Reject, Skip
<1>4. ASSUME NEW f \in Paths, Place(p, f) PROVE Unstarted'
  <2>1. /\ pc[p] = "place" /\ f \in left[p] /\ left'[p] = left[p] \ {f} /\ pkg' = pkg
        /\ pkg[p] \in Builds /\ left[p] \subseteq Placed(pkg[p])
        /\ \A g \in left[p] : ~Obstructed(g)
    BY <1>4 DEF Place, Process, Progress, TypeOK
  <2>2. Placed(pkg[p]) \subseteq Files[pkg[p]] /\ Files[pkg[p]] \subseteq Paths
    BY <2>1, PlacedType
  <2>3. \A g \in left[p] : g \notin Below[f]
    BY <2>1, <2>2, ShapeAssumption
  <2>4. \A h \in Paths : h # f => root'[h] \in {root[h], None}
    BY <1>4, <2>1, PlaceType
  <2>5. \A g \in left[p] : ~Obstructed(g)'
    BY <2>1, <2>3, <2>4 DEF Obstructed
  <2> QED BY <1>a, <2>1, <2>5 DEF Unstarted
<1>5. CASE AllPlaced(p) \/ AllPruned(p) \/ RecordManifest(p) \/ RecordFiles(p)
           \/ IndexCapabilities(p) \/ AllDeleted(p) \/ Forget(p) \/ Forgotten(p)
  BY <1>5, <1>b DEF AllPlaced, AllPruned, RecordManifest, RecordFiles, IndexCapabilities,
     AllDeleted, Forget, Forgotten, Step, TypeOK
<1>6. ASSUME NEW f \in Paths, Prune(p, f) \/ Delete(p, f) PROVE Unstarted'
  BY <1>6, <1>b DEF Prune, Delete
<1>7. CASE ApplyAlternatives(p) \/ ForgetCapabilities(p) \/ Fail(p)
  BY <1>7, <1>b, ExitType DEF ApplyAlternatives, ForgetCapabilities, Fail, TypeOK
<1>8. ASSUME NEW batch \in SUBSET Names, NEW forced \in BOOLEAN, Remove(p, batch, forced)
      PROVE  Unstarted'
  BY <1>8, <1>b DEF Remove, Step, TypeOK
<1>9. ASSUME NEW n \in Names, NextName(p, n) PROVE Unstarted'
  BY <1>9, <1>b DEF NextName, Step, TypeOK
<1> QED BY <1>1, <1>2, <1>3, <1>4, <1>5, <1>6, <1>7, <1>8, <1>9 DEF Installing, Removing

\* A step that leaves lists and root alone leaves everything accounted for
\* unless it ends an installation.
LEMMA SameAccounts ==
  ASSUME OneProcess, Accounted, NEW p \in Procs, UNCHANGED <<manifest, filelist, root>>,
         pc[p] \in InstallSteps => pc'[p] \in InstallSteps /\ pkg'[p] = pkg[p]
  PROVE  Accounted'
BY DEF OneProcess, Accounted, Listed, Arriving, installed

LEMMA StepCleared ==
  ASSUME OneProcess, TypeOK, Process, Db, Progress, Cleared, NEW p \in Procs,
         Installing(p) \/ Removing(p)
  PROVE  Cleared'
<1> USE DEF database, disk, work, history, InstallSteps, RemoveSteps
<1>a. \A q \in Procs : q = p
  BY DEF OneProcess
<1>b. ASSUME pc'[p] \in {"idle", "check", "next", "caps", "alternatives", "uncaps"}
      PROVE  Cleared'
  BY <1>a, <1>b DEF Cleared
<1>1. ASSUME NEW batch \in SUBSET Builds, InstallFiles(p, batch) PROVE Cleared'
  BY <1>1, <1>b DEF InstallFiles, Step, TypeOK
<1>2. ASSUME NEW b \in Builds, Accept(p, b) PROVE Cleared'
  <2>1. /\ pc[p] = "check" /\ pc'[p] = "place" /\ cur'[p] = Name[b] /\ UNCHANGED filelist
        /\ stale'[p] = IF manifest[Name[b]] # None THEN filelist[Name[b]] ELSE {}
    BY <1>2 DEF Accept, Step, TypeOK, is_installed
  <2>2. manifest[Name[b]] = None => filelist[Name[b]] = {}
    BY <1>a, <2>1, PlacedType DEF Db, Entries
  <2> QED BY <1>a, <2>1, <2>2 DEF Cleared
<1>3. ASSUME NEW b \in Builds, Reject(p, b) \/ Skip(p, b) PROVE Cleared'
  BY <1>3, <1>b, ExitType DEF Reject, Skip
<1>4. ASSUME NEW f \in Paths, Place(p, f) PROVE Cleared'
  <2>1. pc[p] = "place" /\ pc'[p] = "place" /\ UNCHANGED <<stale, filelist, cur>>
    BY <1>4 DEF Place
  <2> QED BY <1>a, <2>1 DEF Cleared
<1>5. CASE AllPlaced(p)
  <2>1. /\ pc[p] = "place" /\ pc'[p] = "prune" /\ UNCHANGED <<root, pkg, cur, stale, filelist>>
        /\ left'[p] = stale[p] \ Placed(pkg[p])
    BY <1>5 DEF AllPlaced, Step, TypeOK
  <2> QED BY <1>a, <2>1 DEF Cleared
<1>6. ASSUME NEW f \in Paths, Prune(p, f) PROVE Cleared'
  <2>1. /\ pc[p] = "prune" /\ pc'[p] = "prune" /\ UNCHANGED <<pkg, cur, stale, filelist>>
        /\ left'[p] = left[p] \ {f}
        /\ \A g \in Paths : root'[g] = IF g = f /\ Leads(f) THEN None ELSE root[g]
    BY <1>6 DEF Prune, TypeOK
  <2>2. stale[p] \subseteq Paths
    BY DEF TypeOK
  <2>3. f \notin DeadLinks => root'[f] \notin Builds
    BY <2>1, AbsentAssumption DEF Leads, Regular
  <2>4. \A g \in Paths : root'[g] \in Builds => root[g] \in Builds
    BY <2>1, AbsentAssumption
  <2> QED BY <1>a, <2>1, <2>2, <2>3, <2>4 DEF Cleared
<1>7. CASE AllPruned(p)
  <2>1. /\ pc[p] = "prune" /\ pc'[p] = "manifest" /\ left[p] = {}
        /\ UNCHANGED <<root, pkg, cur, stale, filelist>>
    BY <1>7 DEF AllPruned, Step, TypeOK
  <2> QED BY <1>a, <2>1 DEF Cleared
<1>8. CASE RecordManifest(p)
  <2>1. /\ pc[p] = "manifest" /\ pc'[p] = "files" /\ UNCHANGED <<root, pkg, cur, stale, filelist>>
    BY <1>8 DEF RecordManifest, Step, TypeOK
  <2> QED BY <1>a, <2>1 DEF Cleared
<1>9. CASE RecordFiles(p) \/ IndexCapabilities(p) \/ Forgotten(p)
  BY <1>9, <1>b DEF RecordFiles, IndexCapabilities, Forgotten, Step, TypeOK
<1>10. CASE ApplyAlternatives(p) \/ ForgetCapabilities(p)
  BY <1>10, <1>b, ExitType DEF ApplyAlternatives, ForgetCapabilities, TypeOK
<1>11. ASSUME NEW batch \in SUBSET Names, NEW forced \in BOOLEAN, Remove(p, batch, forced)
       PROVE  Cleared'
  BY <1>11, <1>b DEF Remove, Step, TypeOK
<1>12. ASSUME NEW n \in Names, NextName(p, n) PROVE Cleared'
  <2>1. pc'[p] = "delete" /\ left'[p] = filelist'[cur'[p]]
    BY <1>12 DEF NextName, Step, TypeOK
  <2> QED BY <1>a, <2>1 DEF Cleared
<1>13. ASSUME NEW f \in Paths, Delete(p, f) PROVE Cleared'
  <2>1. /\ pc[p] = "delete" /\ pc'[p] = "delete" /\ UNCHANGED <<cur, filelist>>
        /\ left'[p] = left[p] \ {f}
        /\ \A g \in Paths : root'[g] = IF g = f THEN None ELSE root[g]
    BY <1>13 DEF Delete, TypeOK
  <2>2. cur[p] \in Names /\ filelist[cur[p]] \subseteq Paths
    BY <2>1 DEF TypeOK, Process
  <2> QED BY <1>a, <2>1, <2>2, AbsentAssumption DEF Cleared
<1>14. CASE AllDeleted(p)
  <2>1. /\ pc[p] = "delete" /\ pc'[p] = "forget" /\ left[p] = {} /\ UNCHANGED <<root, cur, filelist>>
    BY <1>14 DEF AllDeleted, Step, TypeOK
  <2> QED BY <1>a, <2>1 DEF Cleared
<1>15. CASE Forget(p)
  <2>1. /\ pc[p] = "forget" /\ pc'[p] = "forgotten" /\ UNCHANGED <<root, cur>>
        /\ filelist' \in {filelist, [filelist EXCEPT ![cur[p]] = {}]} /\ cur[p] \in Names
    BY <1>15 DEF Forget, Step, TypeOK, Process
  <2>2. filelist'[cur[p]] \subseteq filelist[cur[p]]
    BY <2>1 DEF TypeOK
  <2> QED BY <1>a, <2>1, <2>2 DEF Cleared
<1>16. CASE Fail(p)
  BY <1>16, <1>b, ExitType DEF Fail
<1> QED BY <1>1, <1>2, <1>3, <1>4, <1>5, <1>6, <1>7, <1>8, <1>9, <1>10, <1>11,
           <1>12, <1>13, <1>14, <1>15, <1>16 DEF Installing, Removing

LEMMA StepAccounted ==
  ASSUME OneProcess, TypeOK, Process, Db, Progress, Cleared, Accounted, Unstarted, NEW p \in Procs,
         Installing(p) \/ Removing(p)
  PROVE  Accounted'
<1> USE DEF database, disk, work, history, InstallSteps, RemoveSteps
<1>a. \A q \in Procs : q = p
  BY DEF OneProcess
<1>1. ASSUME NEW batch \in SUBSET Builds, InstallFiles(p, batch) PROVE Accounted'
  BY <1>1, SameAccounts DEF InstallFiles, Step
<1>2. ASSUME NEW b \in Builds, Accept(p, b) \/ Reject(p, b) \/ Skip(p, b) PROVE Accounted'
  BY <1>2, SameAccounts DEF Accept, Reject, Skip, Step
<1>3. ASSUME NEW f \in Paths, Place(p, f) PROVE Accounted'
  <2>1. /\ pc[p] = "place" /\ f \in Placed(pkg[p]) /\ UNCHANGED <<manifest, filelist, pc, pkg>>
        /\ pkg[p] \in Builds
    BY <1>3 DEF Place, Progress, Process, TypeOK
  <2>2. \A g \in Paths : g # f => root'[g] \in {root[g], None}
    BY <1>3, <2>1, PlaceType
  <2> QED BY <2>1, <2>2, AbsentAssumption DEF Accounted, Listed, Arriving, installed
<1>4. ASSUME NEW f \in Paths, Prune(p, f) \/ Delete(p, f) PROVE Accounted'
  <2>1. /\ UNCHANGED <<manifest, filelist, pc, pkg>>
        /\ \A g \in Paths : root'[g] \in {root[g], None}
    BY <1>4 DEF Prune, Delete, TypeOK
  <2> QED BY <2>1, AbsentAssumption DEF Accounted, Listed, Arriving, installed
<1>5. CASE AllPlaced(p) \/ AllPruned(p) \/ IndexCapabilities(p) \/ AllDeleted(p)
  BY <1>5, SameAccounts DEF AllPlaced, AllPruned, IndexCapabilities, AllDeleted, Step, TypeOK
<1>6. CASE RecordManifest(p)
  <2>1. /\ pc[p] = "manifest" /\ pc'[p] = "files" /\ UNCHANGED <<root, filelist, pkg>>
        /\ pkg[p] \in Builds /\ manifest' = [manifest EXCEPT ![cur[p]] = pkg[p]]
    BY <1>6 DEF RecordManifest, Step, TypeOK, Process
  <2>2. installed \subseteq installed'
    BY <2>1 DEF installed, TypeOK
  <2> QED BY <1>a, <2>1, <2>2 DEF Accounted, Listed, Arriving
<1>7. CASE RecordFiles(p)
  <2>1. /\ pc[p] = "files" /\ pc'[p] = "caps" /\ UNCHANGED <<root, manifest, pkg>>
        /\ \A n \in Names \ {cur[p]} : filelist'[n] = filelist[n]
        /\ stale[p] = filelist[cur[p]]
        /\ \A f \in stale[p] \ (Placed(pkg[p]) \cup DeadLinks) : root[f] \notin Builds
    BY <1>7 DEF RecordFiles, Step, TypeOK, Cleared
  <2> SUFFICES ASSUME NEW f \in Paths \ DeadLinks, root'[f] \in Builds, ~Arriving(f)'
               PROVE  Listed(f)'
    BY DEF Accounted
  <2>2. f \notin Placed(pkg[p])
    BY <2>1 DEF Arriving
  <2>3. ~Arriving(f)
    BY <1>a, <2>2 DEF Arriving
  <2>4. PICK n \in installed : f \in filelist[n]
    BY <2>1, <2>3 DEF Accounted, Listed
  <2>5. n # cur[p]
    BY <2>1, <2>2, <2>4
  <2> QED BY <2>1, <2>4, <2>5 DEF Listed, installed
<1>8. CASE ApplyAlternatives(p)
  <2>1. /\ pc[p] = "alternatives" /\ UNCHANGED <<manifest, filelist>> /\ pkg[p] \in Builds
        /\ cur[p] \in installed /\ filelist[cur[p]] = Placed(pkg[p])
    BY <1>8, PlacedType DEF ApplyAlternatives, Progress, Process, installed
  <2>3. \A f \in Paths : root'[f] \in Builds => root'[f] = root[f]
    BY <1>8, <2>1, AppliedType
  <2>2. \A f : Arriving(f) => f \in Placed(pkg[p])
    BY <1>a DEF Arriving
  <2> QED BY <2>1, <2>2, <2>3 DEF Accounted, Listed, installed
<1>9. ASSUME NEW batch \in SUBSET Names, NEW forced \in BOOLEAN, Remove(p, batch, forced)
      PROVE  Accounted'
  BY <1>9, SameAccounts DEF Remove, Step
<1>10. ASSUME NEW n \in Names, NextName(p, n) PROVE Accounted'
  BY <1>10, SameAccounts DEF NextName, Step
<1>11. CASE Forget(p) \/ Forgotten(p)
  <2>1. /\ pc[p] \in {"forget", "forgotten"} /\ UNCHANGED root
        /\ \A n \in Names \ {cur[p]} : manifest'[n] = manifest[n] /\ filelist'[n] = filelist[n]
        /\ \A f \in filelist[cur[p]] : root[f] \notin Builds
    BY <1>11 DEF Forget, Forgotten, Step, TypeOK, Cleared
  <2> SUFFICES ASSUME NEW f \in Paths \ DeadLinks, root'[f] \in Builds
               PROVE  Listed(f)'
    BY DEF Accounted
  <2>2. ~Arriving(f)
    BY <1>a, <2>1 DEF Arriving
  <2>3. PICK n \in installed : f \in filelist[n]
    BY <2>1, <2>2 DEF Accounted, Listed
  <2> QED BY <2>1, <2>3 DEF Listed, installed
<1>12. CASE ForgetCapabilities(p)
  BY <1>12, SameAccounts DEF ForgetCapabilities
<1>13. CASE Fail(p)
  <2>1. /\ pc[p] = "place" /\ UNCHANGED <<root, manifest, filelist>>
        /\ \E g \in left[p] : Obstructed(g)
    BY <1>13 DEF Fail
  <2>2. \A f \in Paths \ DeadLinks : root[f] \in Builds => Listed(f)
    BY <2>1 DEF Unstarted
  <2> QED BY <2>1, <2>2 DEF Accounted, Listed, installed
<1> QED BY <1>1, <1>2, <1>3, <1>4, <1>5, <1>6, <1>7, <1>8, <1>9, <1>10, <1>11,
           <1>12, <1>13 DEF Installing, Removing

\* Between commands every file is one an installed package lists, through
\* every batch, upgrade and removal that runs to its end.
THEOREM NoOrphansSafe == ASSUME OneProcess PROVE Spec => []NoOrphans
<1> DEFINE Inv == interrupts = 0 => ~torn /\ Cleared /\ Accounted /\ Unstarted
<1>1. Init => Inv
  <2> SUFFICES ASSUME Init PROVE ~torn /\ Cleared /\ Accounted /\ Unstarted
    OBVIOUS
  <2>1. ~torn /\ Cleared /\ Unstarted
    BY Zenon DEF Init, Cleared, Unstarted
  <2>2. \A f \in Paths : root[f] \notin Builds
    BY AbsentAssumption DEF Init
  <2> QED BY <2>1, <2>2 DEF Accounted
<1>2. IInv /\ Inv /\ [Next]_vars => Inv'
  <2> SUFFICES ASSUME IInv, Inv, [Next]_vars, interrupts' = 0
               PROVE  (~torn /\ Cleared /\ Accounted /\ Unstarted)'
    OBVIOUS
  <2>1. CASE UNCHANGED vars
    BY <2>1 DEF vars, database, disk, work, history, Cleared, Accounted, Unstarted, Listed,
       Arriving, Obstructed, installed
  <2>2. ASSUME NEW p \in Procs, Interrupt(p) PROVE FALSE
    BY <2>2, BoundsAssumption DEF Interrupt, IInv, TypeOK
  <2>3. ASSUME NEW p \in Procs, Installing(p) \/ Removing(p)
        PROVE  (~torn /\ Cleared /\ Accounted /\ Unstarted)'
    <3>1. UNCHANGED <<interrupts, torn>>
      BY <2>3 DEF Installing, Removing, InstallFiles, Accept, Reject, Skip,
         Place, Fail, Prune, AllPlaced, AllPruned, RecordManifest, RecordFiles, IndexCapabilities,
         ApplyAlternatives, Remove, NextName, Delete, AllDeleted, Forget, Forgotten,
         ForgetCapabilities, history
    <3> QED BY <2>3, <3>1, StepCleared, StepAccounted, StepUnstarted DEF IInv
  <2> QED BY <2>1, <2>2, <2>3 DEF Next
<1>3. IInv /\ Inv => NoOrphans
  BY DEF NoOrphans, Accounted, Listed, Arriving, Working, InstallSteps, RemoveSteps
<1> QED BY <1>1, <1>2, <1>3, Inductive, PTL DEF Spec
=============================================================================

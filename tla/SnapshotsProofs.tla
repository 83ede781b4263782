--------------------------- MODULE SnapshotsProofs ---------------------------
(***************************************************************************)
(* What nethos-snapshot promises, for any files and any number of commands *)
(* that may be cut off anywhere.                                           *)
(***************************************************************************)
EXTENDS Snapshots, FiniteSetTheorems, TLAPS

-----------------------------------------------------------------------------
(* The invariant.  A snapshot is listed once it has been taken.  What a    *)
(* command may remove was given up or has enough newer ones, and the one   *)
(* a restore has just taken is never among it: it is the newest.  Until    *)
(* the restore unpacks, that one holds what is live.                       *)

Archives == [whole : BOOLEAN, of : [Files -> Nat]]
Steps == {"idle", "tar", "meta", "prune", "extract"}

SnapTypes ==
  /\ live \in [Files -> Nat] /\ edits \in Nat /\ now \in Ids /\ id \in Ids
  /\ archive \in [Ids -> Archives \cup {NoArchive}]
  /\ taken \in [Ids -> Archives \cup {NoArchive}]
  /\ meta \subseteq Ids /\ snapStep \in Steps
  /\ snapStep = "prune" => todo \subseteq Ids
  /\ wanted # 0 => wanted \in Ids /\ sought \in Archives

Newer(i) == {j \in Ids : j > i /\ taken[j] # NoArchive}

Listed == \A i \in meta : taken[i] # NoArchive /\ i <= now
Newest == snapStep \in {"tar", "meta"} => id <= now /\ \A i \in meta : i <= id

Excused ==
  snapStep = "prune" => \A i \in todo : i \in given \/ Cardinality(Newer(i)) >= Keep

\* What a command takes, to the time it begins to unpack another.
Taking ==
  snapStep \in {"tar", "meta"} \/ (snapStep = "prune" /\ wanted # 0) =>
    /\ archive[id] \in Archives /\ archive[id].of = live
    /\ snapStep # "tar" => taken[id] = archive[id]
    /\ snapStep = "prune" => id \notin todo

Restoring ==
  snapStep = "extract" =>
    /\ wanted # 0 /\ archive[id] \in Archives /\ taken[id] = archive[id]
    /\ archive[wanted] = sought =>
         \A f \in Files : live[f] = IF f \in todo \/ sought.of[f] = 0 THEN archive[id].of[f]
                                    ELSE sought.of[f]

SnapInv ==
  SnapTypes /\ Listed /\ Newest /\ Excused /\ SnapshotsKept /\ Taking /\ Restoring

LEMMA SnapStarts == SnapInit => SnapInv
<1>1. 1 \in Ids
  BY KeepAssumption DEF Ids
<1> QED BY <1>1, ArchiveAssumption
        DEF SnapInit, SnapInv, SnapTypes, Listed, Newest, Excused, SnapshotsKept, Taking,
            Restoring, Steps

LEMMA IdsFinite ==
  /\ IsFiniteSet(Ids) /\ Ids \subseteq Nat /\ 0 \notin Ids
  /\ \A S \in SUBSET Ids : IsFiniteSet(S) /\ Cardinality(S) \in Nat
<1>1. IsFiniteSet(Ids) /\ Ids \subseteq Nat /\ 0 \notin Ids
  <2>1. IsFiniteSet(1 .. MaxTime)
    BY KeepAssumption, FS_Interval
  <2> QED BY <2>1, KeepAssumption DEF Ids
<1>2. ASSUME NEW S \in SUBSET Ids
      PROVE  IsFiniteSet(S) /\ Cardinality(S) \in Nat
  <2>1. IsFiniteSet(S)
    BY <1>1, FS_Subset
  <2> QED BY <2>1, FS_CardinalityType
<1> QED BY <1>1, <1>2

\* A snapshot with more than k from it on has k newer ones.
LEMMA BeyondNewer ==
  ASSUME NEW S \in SUBSET Ids, NEW k \in Nat, NEW i \in Beyond(S, k)
  PROVE  Cardinality({j \in S : j > i}) >= k
<1> DEFINE from == {j \in S : j >= i}
           after == {j \in S : j > i}
<1>1. i \in S /\ i \in Nat /\ Cardinality(from) > k
  BY IdsFinite DEF Beyond
<1>2. from = after \cup {i} /\ i \notin after
  <2>1. ASSUME NEW j \in S
        PROVE  (j >= i <=> j > i \/ j = i) /\ ~(i > i)
    <3>1. j \in Nat /\ i \in Nat
      BY <1>1, IdsFinite
    <3> QED BY <3>1
  <2> QED BY <1>1, <2>1
<1>3. /\ from \in SUBSET Ids /\ after \in SUBSET Ids
  OBVIOUS
<1> HIDE DEF from, after
<1>4. /\ Cardinality(from) = Cardinality(after) + 1 /\ Cardinality(after) \in Nat
  BY <1>2, <1>3, IdsFinite, FS_AddElement
<1>5. Cardinality(after) >= k
  BY <1>1, <1>4
<1> QED BY <1>5 DEF after

\* Fewer are newer than are taken in the end.
LEMMA NewerGrows ==
  ASSUME NEW S \in SUBSET Ids, NEW T \in SUBSET Ids, S \subseteq T
  PROVE  Cardinality(S) <= Cardinality(T)
BY IdsFinite, FS_Subset

-----------------------------------------------------------------------------
(* The steps.                                                              *)

\* What is given up or has enough newer ones stays so.
LEMMA SnapCreate ==
  ASSUME NEW then \in Ids \cup {0}, SnapInv, Create(then),
         then # 0 => archive[then] # NoArchive
  PROVE  SnapInv'
<1> USE DEF Create, Call
<1>1. /\ now \in Ids /\ now \in Nat /\ [whole |-> FALSE, of |-> live] \in Archives
  BY IdsFinite DEF SnapInv, SnapTypes, Archives
<1>2. SnapTypes'
  BY <1>1, IdsFinite DEF SnapInv, SnapTypes, Steps, boundVars
<1>3. Listed' /\ Newest'
  BY <1>1, IdsFinite DEF SnapInv, SnapTypes, Listed, Newest
<1>4. Excused' /\ Restoring'
  BY DEF Excused, Restoring
<1>5. SnapshotsKept'
  BY <1>1 DEF SnapInv, SnapTypes, SnapshotsKept
<1>6. Taking'
  BY <1>1, IdsFinite DEF SnapInv, SnapTypes, Taking
<1> QED BY <1>2, <1>3, <1>4, <1>5, <1>6 DEF SnapInv

LEMMA SnapTar == ASSUME SnapInv, Tar PROVE SnapInv'
<1> USE DEF Tar, boundVars
<1>1. /\ id \in Ids /\ archive[id] \in Archives /\ archive[id].of = live
      /\ archive'[id] \in Archives /\ archive'[id].of = live
  BY DEF SnapInv, SnapTypes, Taking, Archives
<1>2. taken'[id] # NoArchive /\ taken'[id] = archive'[id]
  BY <1>1, ArchiveAssumption DEF SnapInv, SnapTypes, Archives
<1>3. SnapTypes'
  BY <1>1 DEF SnapInv, SnapTypes, Steps
<1>4. Listed' /\ Newest'
  BY <1>2, <1>3 DEF SnapInv, SnapTypes, Listed, Newest
<1>5. Excused' /\ Restoring'
  BY DEF Excused, Restoring
<1>6. SnapshotsKept'
  <2> SUFFICES ASSUME NEW i \in Ids, taken'[i] # NoArchive, i \notin given', i # id,
                      Cardinality({j \in Ids : j > i /\ taken'[j] # NoArchive}) < Keep
               PROVE  archive'[i] = taken'[i]
    BY <1>2 DEF SnapshotsKept
  <2> DEFINE before == {j \in Ids : j > i /\ taken[j] # NoArchive}
             later == {j \in Ids : j > i /\ taken'[j] # NoArchive}
  <2>1. before \in SUBSET Ids /\ later \in SUBSET Ids /\ before \subseteq later
    BY <1>2 DEF SnapInv, SnapTypes
  <2>2. Cardinality(before) <= Cardinality(later)
    BY <2>1, NewerGrows
  <2>3. Cardinality(before) \in Nat /\ Cardinality(later) \in Nat
    BY <2>1, IdsFinite
  <2> HIDE DEF before
  <2>4. Cardinality(before) < Keep
    BY <2>2, <2>3, KeepAssumption
  <2>5. taken[i] = taken'[i] /\ archive[i] = archive'[i] /\ i \notin given
    BY DEF SnapInv, SnapTypes
  <2> QED BY <2>4, <2>5 DEF SnapInv, SnapshotsKept, before
<1>7. Taking'
  BY <1>1, <1>2 DEF SnapInv, SnapTypes, Taking
<1> QED BY <1>3, <1>4, <1>5, <1>6, <1>7 DEF SnapInv

\* The one just taken is the newest there is, so it is never beyond the limit.
LEMMA SnapWriteMeta == ASSUME SnapInv, WriteMeta PROVE SnapInv'
<1> USE DEF WriteMeta, boundVars, historyVars
<1>1. /\ id \in Ids /\ id \in Nat /\ id <= now /\ taken[id] # NoArchive
      /\ taken[id] = archive[id] /\ \A i \in meta : i <= id
  BY IdsFinite, ArchiveAssumption DEF SnapInv, SnapTypes, Taking, Newest, Archives
<1>2. meta' \in SUBSET Ids /\ todo' \in SUBSET Ids
  BY <1>1 DEF SnapInv, SnapTypes, Beyond
<1>3. SnapTypes'
  BY <1>2 DEF SnapInv, SnapTypes, Steps
<1>4. Listed' /\ Newest'
  BY <1>1 DEF SnapInv, Listed, Newest
<1>5. Excused'
  <2> SUFFICES ASSUME NEW i \in todo'
               PROVE  Cardinality(Newer(i)) >= Keep
    BY DEF Excused, Newer
  <2> DEFINE after == {j \in meta' : j > i}
  <2>1. Cardinality(after) >= Keep
    BY <1>2, BeyondNewer, KeepAssumption
  <2>2. after \in SUBSET Ids /\ Newer(i) \in SUBSET Ids /\ after \subseteq Newer(i)
    BY <1>2, <1>4 DEF Listed, Newer
  <2>3. /\ Cardinality(after) \in Nat /\ Cardinality(Newer(i)) \in Nat
        /\ Cardinality(after) <= Cardinality(Newer(i))
    BY <2>2, IdsFinite, NewerGrows
  <2> HIDE DEF after
  <2> QED BY <2>1, <2>3, KeepAssumption
<1>6. SnapshotsKept' /\ Restoring'
  BY DEF SnapInv, SnapshotsKept, Restoring
<1>7. id \notin todo'
  <2>1. {j \in meta' : j >= id} = {id}
    <3>1. ASSUME NEW j \in meta'
          PROVE  j >= id <=> j = id
      <4>1. j \in Nat /\ j <= id
        BY <1>1, <1>2, IdsFinite
      <4> QED BY <1>1, <4>1
    <3> QED BY <3>1
  <2>2. Cardinality({id}) = 1
    BY FS_Singleton
  <2> QED BY <2>1, <2>2, KeepAssumption DEF Beyond
<1>8. Taking'
  BY <1>1, <1>7 DEF SnapInv, Taking
<1> QED BY <1>3, <1>4, <1>5, <1>6, <1>8 DEF SnapInv

LEMMA SnapPrune == ASSUME SnapInv, NEW k \in 0 .. Keep, Prune(k) PROVE SnapInv'
<1> USE DEF Prune, Call, storeVars
<1>1. /\ k \in Nat /\ meta \in SUBSET Ids /\ todo' \in SUBSET meta
  BY KeepAssumption DEF SnapInv, SnapTypes, Beyond
<1>2. todo' \subseteq given'
  BY <1>1, BeyondNewer DEF Beyond
<1>3. SnapTypes'
  BY <1>1 DEF SnapInv, SnapTypes, Steps
<1>4. Excused'
  BY <1>2 DEF Excused
<1>5. SnapshotsKept'
  BY DEF SnapInv, SnapshotsKept
<1>6. Listed' /\ Newest' /\ Taking' /\ Restoring'
  BY DEF SnapInv, Listed, Newest, Taking, Restoring
<1> QED BY <1>3, <1>4, <1>5, <1>6 DEF SnapInv

LEMMA SnapRemove == ASSUME SnapInv, NEW i \in Ids, RemoveSnapshot(i) PROVE SnapInv'
BY DEF RemoveSnapshot, Call, storeVars, SnapInv, SnapTypes, Steps, Listed, Newest, Excused,
       SnapshotsKept, Taking, Restoring

LEMMA SnapRemoveArchive == ASSUME SnapInv, NEW i \in Ids, RemoveArchive(i) PROVE SnapInv'
<1> USE DEF RemoveArchive, NextOut, boundVars, historyVars
<1>1. SnapTypes'
  BY DEF SnapInv, SnapTypes
<1>2. Listed' /\ Newest' /\ Excused' /\ Restoring'
  BY DEF SnapInv, Listed, Newest, Excused, Newer, Restoring
<1>3. SnapshotsKept'
  <2>1. i \in given \/ ~(Cardinality({j \in Ids : j > i /\ taken[j] # NoArchive}) < Keep)
    <3>1. i \in given \/ Cardinality(Newer(i)) >= Keep
      BY DEF SnapInv, Excused
    <3>2. Newer(i) \in SUBSET Ids
      BY DEF Newer
    <3>3. Cardinality(Newer(i)) \in Nat
      BY <3>2, IdsFinite
    <3>4. i \in given \/ ~(Cardinality(Newer(i)) < Keep)
      BY <3>1, <3>3, KeepAssumption
    <3> QED BY <3>4 DEF Newer
  <2>2. \A h \in Ids : h # i => archive'[h] = archive[h]
    BY DEF SnapInv, SnapTypes
  <2> QED BY <2>1, <2>2 DEF SnapInv, SnapshotsKept
<1>4. Taking'
  BY DEF SnapInv, SnapTypes, Taking
<1> QED BY <1>1, <1>2, <1>3, <1>4 DEF SnapInv

LEMMA SnapRemoveMeta == ASSUME SnapInv, NEW i \in Ids, RemoveMeta(i) PROVE SnapInv'
BY DEF RemoveMeta, NextOut, boundVars, historyVars, SnapInv, SnapTypes, Listed, Newest,
       Excused, Newer, SnapshotsKept, Taking, Restoring

\* A restore begins to unpack: nothing of it is live yet.
LEMMA SnapPruned == ASSUME SnapInv, Pruned PROVE SnapInv'
<1> USE DEF Pruned, Ends, storeVars, boundVars
<1>1. 1 \in Ids
  BY KeepAssumption DEF Ids
<1>2. SnapTypes'
  BY <1>1 DEF SnapInv, SnapTypes, Steps
<1>3. Listed' /\ Newest' /\ Excused' /\ SnapshotsKept' /\ Taking'
  BY DEF SnapInv, Listed, Newest, Excused, SnapshotsKept, Taking
<1>4. Restoring'
  BY DEF SnapInv, Taking, Restoring
<1> QED BY <1>2, <1>3, <1>4 DEF SnapInv

LEMMA SnapExtract == ASSUME SnapInv, NEW f \in Files, Extract(f) PROVE SnapInv'
<1> USE DEF Extract, storeVars, boundVars, historyVars
<1>1. wanted \in Ids /\ archive[wanted] \in Archives
  BY DEF SnapInv, SnapTypes, Restoring
<1>2. Extracted(f) \in Nat
  BY <1>1 DEF SnapInv, SnapTypes, Archives, Extracted
<1>3. SnapTypes'
  BY <1>2 DEF SnapInv, SnapTypes
<1>4. Listed' /\ Newest' /\ Excused' /\ SnapshotsKept' /\ Taking'
  BY DEF SnapInv, Listed, Newest, Excused, SnapshotsKept, Taking
<1>5. Restoring'
  BY DEF SnapInv, SnapTypes, Restoring, Extracted
<1> QED BY <1>3, <1>4, <1>5 DEF SnapInv

\* A command that is over, or cut off, leaves what is stored.
LEMMA SnapEnds ==
  ASSUME SnapInv, ExtractFails \/ Restored \/ Interrupt
  PROVE  SnapInv'
<1>1. /\ Ends /\ edits' = edits
      /\ UNCHANGED <<live, storeVars, now, taken, given>>
  BY DEF ExtractFails, Restored, Interrupt, boundVars
<1>2. 1 \in Ids
  BY KeepAssumption DEF Ids
<1> QED BY <1>1, <1>2 DEF Ends, storeVars, SnapInv, SnapTypes, Steps, Listed, Newest, Excused,
        SnapshotsKept, Taking, Restoring

\* Time passes, and files change while no command runs.
LEMMA SnapOutside ==
  ASSUME SnapInv, Second \/ (\E f \in Files : Edit(f))
  PROVE  SnapInv'
<1>1. CASE Second
  <2> USE <1>1 DEF Second, storeVars, historyVars, boundVars
  <2>1. now \in Nat /\ now' \in Ids
    BY KeepAssumption DEF SnapInv, SnapTypes, Ids
  <2>2. /\ SnapTypes' /\ Excused' /\ SnapshotsKept' /\ Taking' /\ Restoring'
    BY <2>1 DEF SnapInv, SnapTypes, Excused, Newer, SnapshotsKept, Taking, Restoring
  <2>3. Listed'
    BY <2>1, IdsFinite DEF SnapInv, SnapTypes, Listed
  <2>4. Newest'
    BY <2>1, IdsFinite DEF SnapInv, SnapTypes, Newest
  <2> QED BY <2>2, <2>3, <2>4 DEF SnapInv
<1>2. ASSUME NEW f \in Files, Edit(f)
      PROVE  SnapInv'
  <2> USE <1>2 DEF Edit, storeVars, historyVars
  <2>1. SnapTypes'
    <3>1. edits \in Nat /\ edits' \in Nat
      BY DEF SnapInv, SnapTypes
    <3>2. live' \in [Files -> Nat]
      BY <3>1 DEF SnapInv, SnapTypes
    <3> QED BY <3>1, <3>2 DEF SnapInv, SnapTypes
  <2> QED BY <2>1 DEF SnapInv, Listed, Newest, Excused, Newer, SnapshotsKept, Taking, Restoring
<1> QED BY <1>1, <1>2

LEMMA SnapStutters == ASSUME SnapInv, UNCHANGED snapVars PROVE SnapInv'
BY DEF snapVars, storeVars, historyVars, boundVars, SnapInv, SnapTypes, Listed, Newest, Excused,
       Newer, SnapshotsKept, Taking, Restoring

-----------------------------------------------------------------------------
LEMMA SnapSteps == SnapInv /\ [SnapNext]_snapVars => SnapInv'
<1> SUFFICES ASSUME SnapInv, [SnapNext]_snapVars
             PROVE  SnapInv'
  OBVIOUS
<1>1. CASE Create(0)
  BY <1>1, SnapCreate
<1>2. ASSUME NEW i \in Ids, Restore(i)
      PROVE  SnapInv'
  BY <1>2, SnapCreate DEF Restore
<1>3. ASSUME NEW i \in Ids, RemoveSnapshot(i) \/ RemoveArchive(i) \/ RemoveMeta(i)
      PROVE  SnapInv'
  BY <1>3, SnapRemove, SnapRemoveArchive, SnapRemoveMeta
<1>4. ASSUME NEW k \in 0 .. Keep, Prune(k)
      PROVE  SnapInv'
  BY <1>4, SnapPrune
<1>5. ASSUME NEW f \in Files, Edit(f) \/ Extract(f)
      PROVE  SnapInv'
  BY <1>5, SnapOutside, SnapExtract
<1>6. CASE Second \/ Tar \/ WriteMeta \/ Pruned \/ ExtractFails \/ Restored \/ Interrupt
  BY <1>6, SnapOutside, SnapTar, SnapWriteMeta, SnapPruned, SnapEnds
<1>7. CASE UNCHANGED snapVars
  BY <1>7, SnapStutters
<1> QED BY <1>1, <1>2, <1>3, <1>4, <1>5, <1>6, <1>7 DEF SnapNext

\* A snapshot taken in full is there as it was taken until Keep newer ones are
\* or somebody asked it away, and a restore, wherever it is cut off, leaves what
\* was live before it in a whole archive and every file as that one or the
\* restored one has it (cmd_prune, cmd_restore of nethos-snapshot).
THEOREM SnapshotsAreSafe == SnapSpec => []SnapshotsSafe
<1>1. SnapInv => SnapshotsSafe
  BY DEF SnapInv, SnapshotsSafe, Restoring, RestoreKeepsBefore
<1> QED BY SnapStarts, SnapSteps, <1>1, PTL DEF SnapSpec
==============================================================================

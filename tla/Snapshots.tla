----------------------------- MODULE Snapshots -----------------------------
(***************************************************************************)
(* nethos-snapshot: archives of the files an update writes, each with a    *)
(* sidecar that lists it, named by the second they were taken in, and the  *)
(* newest KEEP of them kept.  One command runs at a time and may be cut    *)
(* off anywhere; nobody writes the files while it runs.                    *)
(***************************************************************************)
EXTENDS Naturals, FiniteSets

CONSTANTS Files,      \* what an update can touch (PATHS and the user's)
          Keep,       \* KEEP_DEFAULT, 5 in the code
          MaxTime, MaxEdits, MaxCalls, MaxInterrupts,
          NoArchive

\* A snapshot that is taken is not given up at once.
ASSUME KeepAssumption == Keep \in Nat \ {0} /\ MaxTime \in Nat \ {0}
ASSUME ArchiveAssumption == NoArchive \notin [whole : BOOLEAN, of : [Files -> Nat]]

Ids == 1 .. MaxTime      \* date +%Y%m%d-%H%M%S

VARIABLES live,       \* file -> its version, 0 where there is none
          archive,    \* id -> NoArchive or what was live, all of it or the start
          meta,       \* ids with a sidecar
          now,
          snapStep, id, wanted,   \* of the command under way
          todo,       \* ids to prune, or files to extract
          taken,      \* history: what was live when an archive was made of it
          given,      \* history: ids given up, by a command or for a second of that name
          sought,     \* history: the archive that restore found
          edits, calls, interrupts

snapVars == <<live, archive, meta, now, snapStep, id, wanted, todo, taken, given, sought,
              edits, calls, interrupts>>
storeVars == <<archive, meta>>
historyVars == <<taken, given, sought>>
boundVars == <<edits, calls, interrupts>>

SnapInit ==
  /\ live = [f \in Files |-> 0] /\ archive = [i \in Ids |-> NoArchive] /\ meta = {} /\ now = 1
  /\ snapStep = "idle" /\ id = 1 /\ wanted = 0 /\ todo = {}
  /\ taken = [i \in Ids |-> NoArchive] /\ given = {} /\ sought = NoArchive
  /\ edits = 0 /\ calls = 0 /\ interrupts = 0

Present == {f \in Files : live[f] # 0}

Call == snapStep = "idle" /\ calls < MaxCalls /\ calls' = calls + 1

\* The command is over.
Ends == snapStep' = "idle" /\ id' = 1 /\ wanted' = 0 /\ todo' = {} /\ sought' = NoArchive

-----------------------------------------------------------------------------
(* The machine.                                                            *)

Second ==
  /\ now < MaxTime /\ now' = now + 1
  /\ UNCHANGED <<live, storeVars, snapStep, id, wanted, todo, historyVars, boundVars>>

\* An update, or anything else, writes a file or takes it away.
Edit(f) ==
  /\ snapStep = "idle" /\ edits < MaxEdits /\ edits' = edits + 1
  /\ \E v \in {0, edits'} : live' = [live EXCEPT ![f] = v]
  /\ UNCHANGED <<storeVars, now, snapStep, id, wanted, todo, historyVars, calls, interrupts>>

-----------------------------------------------------------------------------
(* create, with the prune that ends it.                                    *)

\* Nothing to archive is an error.
Create(then) ==
  /\ Call /\ snapStep' = "tar" /\ Present # {}
  /\ id' = now /\ wanted' = then /\ sought' = IF then = 0 THEN NoArchive ELSE archive[then]
  /\ archive' = [archive EXCEPT ![now] = [whole |-> FALSE, of |-> live]] /\ todo' = {}
  /\ given' = given \cup {i \in {now} : taken[i] # NoArchive}
  /\ UNCHANGED <<live, meta, now, taken, edits, interrupts>>

Tar ==
  /\ snapStep = "tar" /\ snapStep' = "meta"
  /\ archive' = [archive EXCEPT ![id].whole = TRUE]
  /\ taken' = [taken EXCEPT ![id] = archive'[id]]
  /\ UNCHANGED <<live, meta, now, id, wanted, todo, given, sought, boundVars>>

MutBeyond(S, k) == {i \in S : Cardinality({j \in S : j >= i}) >= k}
Beyond(S, k) == {i \in S : Cardinality({j \in S : j >= i}) > k}
WriteMeta ==
  /\ snapStep = "meta" /\ snapStep' = "prune"
  /\ meta' = meta \cup {id} /\ todo' = Beyond(meta', Keep)
  /\ UNCHANGED <<live, archive, now, id, wanted, historyVars, boundVars>>

Prune(k) ==
  /\ Call /\ snapStep' = "prune" /\ wanted' = 0 /\ todo' = Beyond(meta, k)
  /\ given' = given \cup {i \in meta : Cardinality({j \in meta : j > i}) >= k}
  /\ UNCHANGED <<live, storeVars, now, id, taken, sought, edits, interrupts>>

RemoveSnapshot(i) ==
  /\ Call /\ snapStep' = "prune" /\ wanted' = 0 /\ todo' = {i}
  /\ given' = given \cup {i}
  /\ UNCHANGED <<live, storeVars, now, id, taken, sought, edits, interrupts>>

\* The newest of those beyond the limit goes first; its archive before its
\* sidecar.
NextOut(i) == i \in todo /\ \A j \in todo : j <= i
RemoveArchive(i) ==
  /\ snapStep = "prune" /\ NextOut(i) /\ archive[i] # NoArchive
  /\ archive' = [archive EXCEPT ![i] = NoArchive]
  /\ UNCHANGED <<live, meta, now, snapStep, id, wanted, todo, historyVars, boundVars>>

RemoveMeta(i) ==
  /\ snapStep = "prune" /\ NextOut(i) /\ archive[i] = NoArchive
  /\ meta' = meta \ {i} /\ todo' = todo \ {i}
  /\ UNCHANGED <<live, archive, now, snapStep, id, wanted, historyVars, boundVars>>

Pruned ==
  /\ snapStep = "prune" /\ todo = {}
  /\ \/ wanted = 0 /\ Ends
     \/ /\ wanted # 0 /\ snapStep' = "extract" /\ todo' = Files
        /\ UNCHANGED <<id, wanted, sought>>
  /\ UNCHANGED <<live, storeVars, now, taken, given, boundVars>>

-----------------------------------------------------------------------------
(* restore.                                                                *)

\* The archive is looked for first, listed or not; then what is there now is
\* archived.
Restore(i) == archive[i] # NoArchive /\ Create(i)

\* Files the archive does not have stay as they are.
MutExtracted(f) == IF live[f] # 0 THEN archive[wanted].of[f] ELSE live[f]
Extracted(f) == IF archive[wanted].of[f] # 0 THEN archive[wanted].of[f] ELSE live[f]
Extract(f) ==
  /\ snapStep = "extract" /\ f \in todo /\ archive[wanted] # NoArchive
  /\ live' = [live EXCEPT ![f] = Extracted(f)] /\ todo' = todo \ {f}
  /\ UNCHANGED <<storeVars, now, snapStep, id, wanted, historyVars, boundVars>>

\* tar finds no archive, or its end before its time.
ExtractFails ==
  /\ snapStep = "extract" /\ Ends
  /\ IF archive[wanted] = NoArchive THEN TRUE ELSE ~archive[wanted].whole
  /\ UNCHANGED <<live, storeVars, now, taken, given, boundVars>>

Restored ==
  /\ snapStep = "extract" /\ todo = {} /\ archive[wanted].whole /\ Ends
  /\ UNCHANGED <<live, storeVars, now, taken, given, boundVars>>

Interrupt ==
  /\ snapStep # "idle" /\ Ends /\ interrupts < MaxInterrupts
  /\ interrupts' = interrupts + 1
  /\ UNCHANGED <<live, storeVars, now, taken, given, edits, calls>>

SnapNext ==
  \/ Second \/ Create(0) \/ Tar \/ WriteMeta \/ Pruned \/ ExtractFails \/ Restored \/ Interrupt
  \/ \E f \in Files : Edit(f) \/ Extract(f)
  \/ \E i \in Ids : Restore(i) \/ RemoveSnapshot(i) \/ RemoveArchive(i) \/ RemoveMeta(i)
  \/ \E k \in 0 .. Keep : Prune(k)

SnapSpec == SnapInit /\ [][SnapNext]_snapVars

-----------------------------------------------------------------------------
SnapTypeOK ==
  /\ snapStep \in {"idle", "tar", "meta", "prune", "extract"} /\ meta \subseteq Ids
  /\ live \in [Files -> Nat] /\ now \in Ids /\ wanted \in Ids \cup {0}
  /\ \A i \in Ids : archive[i] = NoArchive \/ archive[i].of \in [Files -> Nat]

\* A snapshot that was taken in full is there as it was taken, until Keep
\* newer ones have been or somebody asked it away: whatever was restored
\* since, was cut off, or was removed in between (cmd_prune).
SnapshotsKept ==
  \A i \in Ids : /\ taken[i] # NoArchive /\ i \notin given
                 /\ Cardinality({j \in Ids : j > i /\ taken[j] # NoArchive}) < Keep
                => archive[i] = taken[i]

\* A restore first archives what it will write over.  While it extracts, and so
\* wherever it is cut off, that archive holds in full what was live before it,
\* and every file is as one of the two archives has it: restoring the first one
\* puts back every file that was there ("someone who restores the wrong one
\* should not be stuck with it", nethos-snapshot:126-127).  It does not take
\* away the files that only the wrong one had, for tar only adds
\* (nethos-snapshot:131-136).
RestoreKeepsBefore ==
  snapStep = "extract" /\ archive[wanted] = sought =>
    /\ archive[id] = taken[id]
    /\ \A f \in Files : live[f] = IF f \in todo \/ sought.of[f] = 0 THEN archive[id].of[f]
                                  ELSE sought.of[f]

\* A snapshot stays until newer ones take its place, and a restore, cut off or
\* not, leaves what was live before it in a whole archive (cmd_prune,
\* cmd_restore of nethos-snapshot).
SnapshotsSafe == SnapshotsKept /\ RestoreKeepsBefore

\* The archive restore found is there when it comes to put it back, if the one
\* it takes first has a name of its own: "restore ID   put one back"
\* (nethos-snapshot:6).
RestoreFinds == snapStep = "extract" /\ id # wanted => archive[wanted] = sought
=============================================================================

--------------------------- MODULE NethosdExtract ---------------------------
(***************************************************************************)
(* nethosd unpacks archives in threads (nethosd.py extract_archive).  The  *)
(* request is refused while one is at work, but a thread says so only once *)
(* it runs, so two clicks may start two: both may choose the same folder.  *)
(***************************************************************************)
EXTENDS Naturals, FiniteSets

CONSTANTS Extracts,      \* the requests a behaviour may make, all of one archive
          NoExtract, NoFolder

\* NoFolder is not what an archive leaves in one.
ASSUME FoldersAssumption == IsFiniteSet(Extracts) /\ \A S \in SUBSET Extracts : S # NoFolder

VARIABLES extraction,    \* per request: phase, the folder it chose, its verdict
          EXTRACT_JOB,   \* what /api/files tells: who is at work, the last verdict
          folders        \* per candidate name, in order: NoFolder or who unpacked into it

extractVars == <<extraction, EXTRACT_JOB, folders>>

IdleExtract == [phase |-> "idle", target |-> 0, rc |-> "none"]
ExtractInit ==
  /\ extraction = [e \in Extracts |-> IdleExtract]
  /\ EXTRACT_JOB = [active |-> NoExtract, ok |-> "none"]
  /\ folders = [n \in 1..Cardinality(Extracts) |-> NoFolder]

\* POST /api/files/extract.
RequestExtract(e) ==
  /\ extraction[e].phase = "idle" /\ EXTRACT_JOB.active = NoExtract
  /\ extraction' = [extraction EXCEPT ![e].phase = "started"]
  /\ UNCHANGED <<EXTRACT_JOB, folders>>

BeginExtract(e) ==
  /\ extraction[e].phase = "started"
  /\ EXTRACT_JOB' = [active |-> e, ok |-> "none"]
  /\ extraction' = [extraction EXCEPT ![e].phase = "naming"]
  /\ UNCHANGED folders

\* The first name nobody has, asked some time before it is made.
ChooseFolder(e) ==
  /\ extraction[e].phase = "naming"
  /\ \E n \in DOMAIN folders :
       /\ folders[n] = NoFolder /\ \A k \in 1..(n - 1) : folders[k] # NoFolder
       /\ extraction' = [extraction EXCEPT
            ![e] = [extraction[e] EXCEPT !.phase = "making", !.target = n]]
  /\ UNCHANGED <<EXTRACT_JOB, folders>>

MakeFolder(e) ==
  /\ extraction[e].phase = "making"
  /\ folders' = [folders EXCEPT ![extraction[e].target] = IF @ = NoFolder THEN {} ELSE @]
  /\ extraction' = [extraction EXCEPT ![e].phase = "unpacking"]
  /\ UNCHANGED EXTRACT_JOB

\* One of the tools unpacks it, or all fail; a failure may leave files.
Unpack(e) ==
  LET n == extraction[e].target
  IN /\ extraction[e].phase = "unpacking"
     /\ \E rc \in {"ok", "failed"}, left \in BOOLEAN :
          /\ rc = "ok" => left
          /\ left => folders[n] # NoFolder
          /\ folders' = IF left THEN [folders EXCEPT ![n] = @ \cup {e}] ELSE folders
          /\ extraction' = [extraction EXCEPT
               ![e] = [extraction[e] EXCEPT !.phase = "ended", !.rc = rc]]
     /\ UNCHANGED EXTRACT_JOB

EndExtract(e) ==
  LET x == extraction[e]
      empty == x.rc = "failed" /\ folders[x.target] = {}
  IN /\ x.phase = "ended"
     /\ folders' = IF empty THEN [folders EXCEPT ![x.target] = NoFolder] ELSE folders
     /\ EXTRACT_JOB' = [active |-> NoExtract, ok |-> x.rc]
     /\ extraction' = [extraction EXCEPT ![e].phase = "done"]

\* nethosd ends: its threads and the tools they started end with it.
StopExtracts ==
  /\ \E e \in Extracts : extraction[e].phase \notin {"idle", "done", "lost"}
  /\ extraction' = [e \in Extracts |->
       IF extraction[e].phase \in {"idle", "done"} THEN extraction[e]
       ELSE [IdleExtract EXCEPT !.phase = "lost"]]
  /\ EXTRACT_JOB' = [active |-> NoExtract, ok |-> "none"] /\ UNCHANGED folders

ExtractSteps(e) ==
  BeginExtract(e) \/ ChooseFolder(e) \/ MakeFolder(e) \/ Unpack(e) \/ EndExtract(e)
ExtractNext ==
  \/ \E e \in Extracts : RequestExtract(e) \/ ExtractSteps(e)
  \/ StopExtracts
ExtractSpec == ExtractInit /\ [][ExtractNext]_extractVars

-----------------------------------------------------------------------------
ExtractTypeOK ==
  /\ extraction \in [Extracts -> [phase : {"idle", "started", "naming", "making", "unpacking",
                                          "ended", "done", "lost"},
                                 target : {0} \cup DOMAIN folders,
                                 rc : {"none", "ok", "failed"}]]
  /\ EXTRACT_JOB \in [active : Extracts \cup {NoExtract}, ok : {"none", "ok", "failed"}]
  /\ \A n \in DOMAIN folders : folders[n] = NoFolder \/ folders[n] \subseteq Extracts

\* An extraction reported as done is in the folder it chose, whatever another
\* extraction of the archive did to that folder meanwhile, and one that failed
\* leaves no empty folder behind it once nobody unpacks (extract_archive).
ExtractTruthful ==
  /\ \A e \in Extracts : extraction[e].phase = "done" /\ extraction[e].rc = "ok" =>
       e \in folders[extraction[e].target]
  /\ (\A e \in Extracts : extraction[e].phase \in {"idle", "done"}) =>
       \A n \in DOMAIN folders : folders[n] # {}
=============================================================================

----------------------------- MODULE NethosdWork -----------------------------
(***************************************************************************)
(* The two kinds of background work of nethosd: package jobs and           *)
(* extractions.  They share no lock and no status, and end with the one    *)
(* process, so a step may be one of each.                                  *)
(***************************************************************************)
EXTENDS NethosdJobs, NethosdExtract

WorkSpec == JobsSpec /\ ExtractSpec

\* What the background work tells is so: one npkg at work at most, named by
\* the status without a verdict, and an archive reported as extracted is in
\* its folder (pkg_job, extract_archive).
WorkTruthful == JobsTruthful /\ ExtractTruthful
=============================================================================

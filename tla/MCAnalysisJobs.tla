--------------------------- MODULE MCAnalysisJobs ---------------------------
(* Model values for the runs of AnalysisJobs: two submitting sessions, two *)
(* schema-valid model responses and one that does not parse.               *)
EXTENDS AnalysisJobs, TLC

CONSTANTS s1, s2, p1, p2, x

SubmitterSymmetry == Permutations(Submitter)

=============================================================================

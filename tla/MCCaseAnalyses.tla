---------------------------- MODULE MCCaseAnalyses ----------------------------
(* The features each run of CaseAnalyses explores.                         *)
EXTENDS CaseAnalyses

AllFeatures == AnalysisFeatures
=============================================================================

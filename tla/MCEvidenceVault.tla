-------------------------- MODULE MCEvidenceVault ---------------------------
(* Model values for the runs of EvidenceVault: two file contents and up to *)
(* two requests of each kind.                                              *)
EXTENDS EvidenceVault, TLC

CONSTANTS a, b, u1, u2, i1, i2, k1, k2

RequestSymmetry ==
  Permutations(Uploader) \cup Permutations(Importer) \cup Permutations(Keeper)

=============================================================================

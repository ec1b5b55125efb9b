---------------------------- MODULE MCCaseReview ----------------------------
(* Model values for the runs of CaseReview.                                *)
EXTENDS CaseReview, TLC

CONSTANTS a, b, c, text1, text2, link1, m1, m2, r1, r2, s1, s2

OnePair == {<<a, b>>}
ReviewSymmetry ==
  {p @@ q : p \in Permutations(Reviewer), q \in Permutations(Extraction)}

=============================================================================

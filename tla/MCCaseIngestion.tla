--------------------------- MODULE MCCaseIngestion ---------------------------
(* Model values for the runs of CaseIngestion: two files whose records     *)
(* mention the same values in opposite orders.                             *)
EXTENDS CaseIngestion

CONSTANTS file1, file2, value1, value2, q1, q2

TwoFiles == file1 :> << <<value1>>, <<value2, value1>> >> @@ file2 :> << <<value2, value1>> >>

=============================================================================

------------------------------ MODULE MCCasework ------------------------------
(***************************************************************************)
(* One run over the submissions of feature runs and over the records of a  *)
(* case, which share no state: a behaviour starts in one and stays there.  *)
(***************************************************************************)
EXTENDS Casework, Submissions

CONSTANTS s1, s2, s3, c1, c2

VARIABLE part

vars == <<part, caseworkVars, subVars>>

\* Two submissions for one scope or draft, and one for another.
AskIs == [s \in Submitter |-> IF s = s3 THEN "other" ELSE "same"]

\* A signal that changes its value from one computation to the next.
OutputsAre == {{[title |-> "loop", value |-> 1]},
               {[title |-> "loop", value |-> 2], [title |-> "hub", value |-> 1]}}

Init ==
  \/ /\ part = "records" /\ CaseworkInit
     /\ feature = "none" /\ sub = NoSubmissions /\ rows = <<>> /\ restarts = 0
  \/ /\ part = "submissions" /\ SubmissionsInit
     /\ topic = "none" /\ req = [c \in Client |-> Idle] /\ asked = 0 /\ db = NoRecords

Next ==
  \/ part = "records" /\ CaseworkNext /\ UNCHANGED <<part, subVars>>
  \/ part = "submissions" /\ SubmissionsNext /\ UNCHANGED <<part, caseworkVars>>

Spec == Init /\ [][Next]_vars
=============================================================================

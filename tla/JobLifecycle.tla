---------------------------- MODULE JobLifecycle ----------------------------
(***************************************************************************)
(* What the module docstring of services/analysis_jobs.py promises of the  *)
(* job rows: attempts are numbered one after the other, a row moves only   *)
(* along the transition table, and a terminal status is final.             *)
(***************************************************************************)
EXTENDS Integers

CONSTANT MaxAttempts
VARIABLE status

Attempt == 1..MaxAttempts
TERMINAL_STATUSES == {"succeeded", "partial", "failed", "canceled"}

Init == status = [k \in Attempt |-> "absent"]

(* The moves of one row, the creation of it included.                      *)
Step(from) ==
  CASE from = "absent"  -> {"absent", "pending"}
    [] from = "pending" -> {"pending", "running", "failed", "canceled"}
    [] from = "running" -> {"running"} \cup TERMINAL_STATUSES
    [] OTHER            -> {from}

(* One commit may move several rows: a submission clears a stale row and   *)
(* opens the next attempt.                                                 *)
Next ==
  /\ \E new \in [Attempt -> {"absent", "pending", "running"} \cup TERMINAL_STATUSES] :
       status' = new
  /\ \A k \in Attempt : status'[k] \in Step(status[k])
  /\ \A j, k \in Attempt : j < k /\ status'[k] # "absent" => status'[j] # "absent"

Spec == Init /\ [][Next]_status

=============================================================================

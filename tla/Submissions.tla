----------------------------- MODULE Submissions -----------------------------
(***************************************************************************)
(* How a feature run is submitted.  Every submit route does the same four  *)
(* things in one transaction: look for an active row of the target and     *)
(* clear it when it is stale, count the rows to number the attempt, look   *)
(* up the idempotency key, insert.  Each statement reads its own snapshot. *)
(* The features differ in what they look for and in what the key says:     *)
(*                                                                         *)
(*   the CaseFeatures   the newest active row of the feature; the key is   *)
(*                 the number of the attempt                               *)
(*   custody       the same; an audit may ask for one evidence file        *)
(*   cross_case    the same, and the key also names the scope              *)
(*   report_audit  only rows of the same draft; the key names it           *)
(*   triage, multilingual   the active row of the evidence, asked for as   *)
(*                 the single one there is                                 *)
(***************************************************************************)
EXTENDS Integers, Sequences, FiniteSets

CONSTANTS
  Submitter,
  Ask,          \* what each submitter asks for: scope, draft or option
  Features,     \* which features to consider
  MaxRestarts   \* bound on the number of restarts

CaseFeature == {"entity_resolution", "timeline", "contradiction", "financial_flow"}

ASSUME SubmissionConstants ==
  /\ Features \subseteq CaseFeature \cup
       {"custody", "cross_case", "report_audit", "triage", "multilingual"}
  /\ MaxRestarts \in Nat /\ IsFiniteSet(Submitter) /\ DOMAIN Ask = Submitter

VARIABLES
  feature,   \* the feature submitted to in this behaviour
  sub,       \* the submissions
  rows,      \* committed rows of analysis_jobs for this target
  restarts

subVars == <<feature, sub, rows, restarts>>

-----------------------------------------------------------------------------

Open == {"flush", "count", "select", "insert", "commit"}
(* A row: its key, what its run is for, when its transaction began, its    *)
(* status, whether it has outlived its budget, and whether a live task     *)
(* will still run it.                                                      *)
Row(key, ask, born) ==
  [key |-> key, ask |-> ask, born |-> born, status |-> "pending",
   late |-> FALSE, task |-> TRUE]

NoSubmissions ==
  [s \in Submitter |-> [pc |-> "idle", born |-> 0, clear |-> 0,
                        attempt |-> 0, created |-> FALSE, job |-> 0]]

SubmissionsInit ==
  /\ feature \in Features
  /\ sub = NoSubmissions
  /\ rows = <<>> /\ restarts = 0

Begun == Cardinality({s \in Submitter : sub[s].pc # "idle"})
Active == {j \in DOMAIN rows : rows[j].status \in {"pending", "running"}}

Newest(js) == {j \in js : \A i \in js : rows[i].born <= rows[j].born}

Named == feature \in {"cross_case", "report_audit"}

Key_bare(s, n) == <<"any", n>>
Key(s, n) == <<IF Named THEN Ask[s] ELSE "any", n>>

(* Pending for longer than twice the budget, or running past it.           *)
Stale_runningOnly(j) == rows[j].late /\ rows[j].status = "running"
Stale(j) == rows[j].late

Held(s, j) == \E t \in Submitter \ {s} : /\ sub[t].pc \in Open \ {"flush"}
                                          /\ sub[t].clear = j

-----------------------------------------------------------------------------

Goes(s, to, j) ==
  /\ sub[s].pc = "idle"
  /\ sub' = [sub EXCEPT ![s].pc = to, ![s].born = Begun + 1, ![s].clear = j]
  /\ UNCHANGED <<feature, rows, restarts>>

LookForActive(s, found) ==
  \/ found = {} /\ Goes(s, "count", 0)
  \/ \E j \in Newest(found) : ~Stale(j) /\ Goes(s, "refused", 0)
  \/ \E j \in Newest(found) : Stale(j) /\ Goes(s, "flush", j)

submit_case_feature_job(s) == feature \in CaseFeature /\ LookForActive(s, Active)
submit_custody_audit(s) == feature = "custody" /\ LookForActive(s, Active)
submit_cross_case_job(s) == feature = "cross_case" /\ LookForActive(s, Active)
submit_report_audit(s) ==
  /\ feature = "report_audit"
  /\ LookForActive(s, {j \in Active : rows[j].ask = Ask[s]})

(* scalar_one_or_none() refuses to choose between two active rows.         *)
TheActiveJob(s) ==
  IF Cardinality(Active) > 1 THEN Goes(s, "crashed", 0)
                             ELSE LookForActive(s, Active)
submit_triage(s) == feature = "triage" /\ TheActiveJob(s)
submit_multilingual(s) == feature = "multilingual" /\ TheActiveJob(s)

(* The UPDATE of the stale row waits for whoever holds it.                 *)
Flush(s) ==
  /\ sub[s].pc = "flush" /\ ~Held(s, sub[s].clear)
  /\ sub' = [sub EXCEPT ![s].pc = "count"]
  /\ UNCHANGED <<feature, rows, restarts>>

Count(s) ==
  /\ sub[s].pc = "count"
  /\ sub' = [sub EXCEPT ![s].pc = "select", ![s].attempt = Len(rows) + 1]
  /\ UNCHANGED <<feature, rows, restarts>>

MyKey(s) == Key(s, sub[s].attempt)
WithKey(s) == {j \in DOMAIN rows : rows[j].key = MyKey(s)}

create_job(s) ==
  /\ sub[s].pc = "select"
  /\ \/ WithKey(s) = {} /\ sub' = [sub EXCEPT ![s].pc = "insert"]
     \/ \E j \in WithKey(s) : sub' = [sub EXCEPT ![s].pc = "commit", ![s].job = j]
  /\ UNCHANGED <<feature, rows, restarts>>

(* The unique key makes a concurrent insert wait for the transaction that  *)
(* came first, and fail when that one commits.  The rollback that follows  *)
(* drops the cleared row and expires the user the route needs next.        *)
Insert(s) ==
  /\ sub[s].pc = "insert"
  /\ ~\E t \in Submitter \ {s} :
        sub[t].pc = "commit" /\ sub[t].created /\ MyKey(t) = MyKey(s)
  /\ sub' = IF WithKey(s) = {}
            THEN [sub EXCEPT ![s].pc = "commit", ![s].created = TRUE]
            ELSE [sub EXCEPT ![s].pc = "crashed", ![s].clear = 0]
  /\ UNCHANGED <<feature, rows, restarts>>

(* The route commits, and starts a task for a row it created.              *)
CommitAnswer(s, ask) ==
  /\ sub[s].pc = "commit"
  /\ LET cleared == [j \in DOMAIN rows |->
           [rows[j] EXCEPT !.status = IF j = sub[s].clear THEN "cleared" ELSE @,
                           !.ask = IF j = sub[s].job THEN ask[j] ELSE @]]
     IN rows' = IF sub[s].created
                THEN Append(cleared, Row(MyKey(s), Ask[s], sub[s].born))
                ELSE cleared
  /\ sub' = [sub EXCEPT ![s].pc = "answered",
                        ![s].job = IF sub[s].created THEN Len(rows) + 1 ELSE @]
  /\ UNCHANGED <<feature, restarts>>

AsFound == [j \in DOMAIN rows |-> rows[j].ask]

_submit_case_job(s) == feature \in CaseFeature /\ CommitAnswer(s, AsFound)
CommitCustody(s) == feature = "custody" /\ CommitAnswer(s, AsFound)
CommitCrossCase(s) == feature = "cross_case" /\ CommitAnswer(s, AsFound)
CommitReportAudit(s) == feature = "report_audit" /\ CommitAnswer(s, AsFound)
submit_triage_analysis(s) == feature = "triage" /\ CommitAnswer(s, AsFound)

(* The multilingual option is written on the row, its own or joined.       *)
submit_multilingual_analysis(s) ==
  feature = "multilingual" /\ CommitAnswer(s, [j \in DOMAIN rows |-> Ask[s]])

-----------------------------------------------------------------------------
(* What happens to the rows meanwhile.                                     *)

Unlocked(j) == ~\E s \in Submitter : sub[s].pc \in Open \ {"flush"} /\ sub[s].clear = j
Becomes(j, status) == rows' = [rows EXCEPT ![j].status = status,
                                           ![j].late = @ /\ status # "running",
                                           ![j].task = status = "running"]

TaskStarts(j) ==
  /\ rows[j].task /\ rows[j].status = "pending" /\ Unlocked(j)
  /\ Becomes(j, "running")
  /\ UNCHANGED <<feature, sub, restarts>>

(* A task that outlived its row finds it cleared, or reports over it.      *)
TaskEnds(j) ==
  /\ rows[j].task /\ rows[j].status \in {"running", "cleared"} /\ Unlocked(j)
  /\ \E status \in {rows[j].status, "ended"} \ {"running"} : Becomes(j, status)
  /\ UNCHANGED <<feature, sub, restarts>>

GrowsOld(j) ==
  /\ j \in Active /\ ~rows[j].late
  /\ rows' = [rows EXCEPT ![j].late = TRUE]
  /\ UNCHANGED <<feature, sub, restarts>>

Restart ==
  /\ restarts < MaxRestarts /\ restarts' = restarts + 1
  /\ rows' = [j \in DOMAIN rows |-> [rows[j] EXCEPT !.task = FALSE]]
  /\ sub' = [s \in Submitter |->
               IF sub[s].pc \in Open
               THEN [sub[s] EXCEPT !.pc = "crashed", !.clear = 0, !.created = FALSE]
               ELSE sub[s]]
  /\ UNCHANGED feature

SubmissionsNext ==
  \/ \E s \in Submitter :
       \/ submit_case_feature_job(s) \/ submit_custody_audit(s)
       \/ submit_cross_case_job(s) \/ submit_report_audit(s)
       \/ submit_triage(s) \/ submit_multilingual(s)
       \/ Flush(s) \/ Count(s) \/ create_job(s) \/ Insert(s)
       \/ _submit_case_job(s) \/ CommitCustody(s) \/ CommitCrossCase(s)
       \/ CommitReportAudit(s) \/ submit_triage_analysis(s)
       \/ submit_multilingual_analysis(s)
  \/ \E j \in DOMAIN rows : TaskStarts(j) \/ TaskEnds(j) \/ GrowsOld(j)
  \/ Restart

SubmissionsSpec == SubmissionsInit /\ [][SubmissionsNext]_subVars

-----------------------------------------------------------------------------

(* A submission that names a scope or a draft is answered with a run over  *)
(* that scope or draft, however submissions interleave between the count   *)
(* and the key (analysis_jobs.py:259, report_audit.py:745): it never       *)
(* collapses onto a run over another one.                                  *)
AnswersMatchRequest ==
  \A s \in Submitter :
    Named /\ sub[s].pc = "answered"
      => rows[sub[s].job].ask = Ask[s]

(* Clearing a stale row exists because an orphan "would lock its evidence  *)
(* forever" (forensic_triage.py:839, analysis_jobs.py:223): a submission   *)
(* that finds nothing but stale rows is neither refused nor fails there.   *)
GetsThrough(s) ==
  sub[s].pc = "idle" /\ sub'[s].pc # "idle" /\ (\A j \in Active : rows[j].late)
    => sub'[s].pc \in Open

(* Triage and multilingual break that promise as soon as there are two     *)
(* such rows, which the gap between check and count lets happen (their     *)
(* scalar_one_or_none raises); the other features keep it, however many    *)
(* rows a restart orphaned (analysis_jobs.py:201, evidence_integrity.py:151,*)
(* report_audit.py:717).                                                   *)
StaleGivesWay ==
  [][feature \notin {"triage", "multilingual"}
       => \A s \in Submitter : GetsThrough(s)]_subVars
=============================================================================

----------------------------- MODULE CaseAnalyses -----------------------------
(***************************************************************************)
(* What the background runners of the nine analysis features do with one   *)
(* job: custody audit, entity matching, timeline reconstruction,           *)
(* contradiction detection, financial flow, cross-case discovery,          *)
(* multilingual analysis, forensic triage and report audit.  They share    *)
(* the job table and the artifact table but each orders its polls, access  *)
(* checks, writes and commits differently; `Program` keeps that order, one *)
(* entry per call that can await, and one action per kind of entry.        *)
(*                                                                         *)
(* Between two entries the rest of the process may run: a cancel request,  *)
(* the deadline, a submission that clears the job as stale, a change of    *)
(* access, another run recording the same content, a restart.  The races   *)
(* between those routes themselves are in AnalysisJobs.                    *)
(***************************************************************************)
EXTENDS Integers, Sequences

CONSTANTS
  Feature,          \* the features whose runs are explored
  NumItems,         \* items (files, pairs, drafts, cases, texts) of one run
  MaxDisturbances   \* bound: events from outside the run

AnalysisFeatures == { "custody", "matching", "timeline", "contradiction", "financial",
                      "cross_case", "multilingual", "triage", "report_audit" }

ASSUME AnalysisConstants ==
  /\ Feature \subseteq AnalysisFeatures
  /\ NumItems \in Nat \ {0}
  /\ MaxDisturbances \in Nat

VARIABLES
  analysis,     \* the feature of the job
  status,       \* committed columns of the job: status,
  cancel,       \*   cancel_requested,
  summary,      \*   the contents that result_summary counts as created
  late,         \* the job has exceeded its time budget
  artifacts,    \* committed derived_artifacts row of each content
  authorized,   \* the actor may read the case (every case of the scope)
  available,    \* the evidence row is not soft-deleted
  run,          \* the background task
  afterRevoke,  \* rows recorded since the actor lost access
  disturbances

job == <<status, cancel, summary, late>>
world == <<authorized, available, afterRevoke, disturbances>>
vars == <<analysis, job, artifacts, run, world>>

-----------------------------------------------------------------------------
ActiveStatuses == {"pending", "running"}
TERMINAL_STATUSES == {"succeeded", "partial", "failed", "canceled"}

(* Content 1..NumItems is what the items yield; the rest is what a run may *)
(* record beside it: a translation, a semantic verdict, the orphan issue.  *)
Item == 1..NumItems
Content == 1..(2 * NumItems)
Beside(i) == NumItems + i

(* The body of a loop, once per item.                                      *)
Step(op, i) == [op |-> op, item |-> i]
Loop(body) ==
  [ j \in 1..(NumItems * Len(body)) |->
      Step(body[((j - 1) % Len(body)) + 1], ((j - 1) \div Len(body)) + 1) ]
Once(ops) == [ j \in 1..Len(ops) |-> Step(ops[j], 1) ]

Begin == Once(<<"read", "access", "cancel">>)
PerItem == <<"poll", "access", "record", "commit">>

(* Each program in two parts: up to the first item, and the items.         *)
custody_start == Begin \o Once(<<"evidence", "start", "beside", "commit">>)
custody == custody_start \o Loop(PerItem)

matching_start == Begin \o Once(<<"start", "commit">>)
matching == matching_start \o Loop(PerItem)

timeline_start == Begin \o Once(<<"start", "poll", "commit">>)
timeline == timeline_start \o Loop(PerItem)

(* The rules compare pairs of records; a model then compares statements.   *)
contradiction_rules ==
  Begin \o Once(<<"start", "poll", "commit">>)
  \o Loop(PerItem)
contradiction == contradiction_rules \o Loop(<<"peek", "beside", "commit">>)

financial_start == Begin \o Once(<<"start">>)
financial ==
  financial_start
  \o Once(<<"poll", "access", "poll", "access", "poll", "access", "record">>)

(* One loop over the cases of the scope, one over the candidates.          *)
cross_case_start == Begin \o Once(<<"start">>) \o Loop(<<"poll", "access">>)
cross_case == cross_case_start \o Loop(<<"poll", "access", "record">>)

multilingual_start == Begin \o Once(<<"evidence", "start", "commit">>)
multilingual ==
  multilingual_start
  \o Loop(<<"poll", "access", "reuse", "ask", "record", "translate", "commit">>)

triage_start == Begin \o Once(<<"evidence", "start", "commit">>)
triage == triage_start \o Once(<<"glance", "poll", "access", "explain", "record">>)

report_audit_start == Begin \o Once(<<"start", "commit", "glance", "explain", "poll">>)
report_audit ==
  report_audit_start \o Once(<<"poll", "access", "explain", "poll", "record">>)

Program ==
  [ custody |-> custody, matching |-> matching, timeline |-> timeline,
    contradiction |-> contradiction, financial |-> financial,
    cross_case |-> cross_case, multilingual |-> multilingual,
    triage |-> triage, report_audit |-> report_audit ]

(* Features whose run yields one artifact, written by its last commit.     *)
OneArtifact == {"financial", "triage", "report_audit"}

-----------------------------------------------------------------------------
(* The task: where it is, its copy of the row, the rows its session has    *)
(* flushed but not committed, and its tallies.                             *)
Mode == {"work", "close", "recover", "done", "lost"}
RunState ==
  [ mode : Mode, at : Nat \ {0}, mem : ActiveStatuses \cup TERMINAL_STATUSES,
    flagged : BOOLEAN, saw : {"nothing", "poll", "semantic"}, to : {"failed", "canceled"},
    buffer : SUBSET Content, made : SUBSET Content, reused : BOOLEAN, bad : BOOLEAN ]

TypeOK ==
  /\ analysis \in Feature
  /\ status \in ActiveStatuses \cup TERMINAL_STATUSES
  /\ cancel \in BOOLEAN /\ late \in BOOLEAN
  /\ summary \in SUBSET Content
  /\ artifacts \in [Content -> {"none", "earlier", "own"}]
  /\ authorized \in BOOLEAN /\ available \in BOOLEAN
  /\ run \in RunState
  /\ afterRevoke \in Nat
  /\ disturbances \in 0..MaxDisturbances

(* The submit route has committed the row and handed the task over; an     *)
(* earlier run may have recorded the first content already.                *)
Init ==
  /\ analysis \in Feature
  /\ status = "pending" /\ cancel = FALSE /\ summary = {} /\ late = FALSE
  /\ \E first \in {"none", "earlier"} :
       artifacts = [ c \in Content |-> IF c = 1 THEN first ELSE "none" ]
  /\ authorized = TRUE /\ available = TRUE
  /\ run = [ mode |-> "work", at |-> 1, mem |-> "pending", flagged |-> FALSE,
             saw |-> "nothing", to |-> "failed",
             buffer |-> {}, made |-> {}, reused |-> FALSE, bad |-> FALSE ]
  /\ afterRevoke = 0 /\ disturbances = 0

Own == {c \in Content : artifacts[c] = "own"}

-----------------------------------------------------------------------------
(* Control.                                                                *)
AtEnd == run.at > Len(Program[analysis])
Here(op) == run.mode = "work" /\ ~AtEnd /\ Program[analysis][run.at].op = op
Its == Program[analysis][run.at].item
SemanticPass == ~AtEnd /\ analysis = "contradiction" /\ run.at > Len(contradiction_rules)

TaskIs(r) == run' = r
Onward(r) == TaskIs([r EXCEPT !.at = @ + 1])
Done(r) == TaskIs([r EXCEPT !.mode = "done", !.buffer = {}])

(* _stop_job: a status the copy does not allow raises.                     *)
stop_job(r, to) ==
  IF r.mem \in TERMINAL_STATUSES THEN TaskIs([r EXCEPT !.mode = "recover"])
  ELSE TaskIs([r EXCEPT !.mode = "close", !.to = to])

(* _fail_job: nothing to do on a copy that is terminal.                    *)
fail_job(r) ==
  IF r.mem \in TERMINAL_STATUSES THEN Done(r)
  ELSE TaskIs([r EXCEPT !.mode = "close", !.to = "failed"])

(* Cancellation wins over timeout; only a running copy times out.          *)
should_stop(r) ==
  IF r.flagged THEN "cancel"
  ELSE IF r.mem = "running" /\ late THEN "timeout" ELSE "no"
StopStatus(r) == IF should_stop(r) = "cancel" THEN "canceled" ELSE "failed"

(* session.refresh; `saw` keeps for the properties whether the row it read *)
(* told the run to stop, and in which loop.                                *)
Refreshed ==
  [run EXCEPT !.mem = status, !.flagged = cancel,
              !.saw = IF ~cancel /\ ~(status = "running" /\ late) THEN @
                      ELSE IF SemanticPass THEN "semantic" ELSE "poll"]

-----------------------------------------------------------------------------
(* The entries of the programs.                                            *)

(* Six runners leave a row alone that is not pending; the others find out  *)
(* at their first transition.                                              *)
ReadsAnyStatus == {"multilingual", "triage", "report_audit"}
Read ==
  /\ Here("read")
  /\ IF status = "pending" \/ analysis \in ReadsAnyStatus THEN Onward(Refreshed)
     ELSE Done(Refreshed)
  /\ UNCHANGED <<analysis, job, artifacts, world>>

Access_once ==
  /\ Here("access")
  /\ IF authorized \/ run.mem = "running" THEN Onward(run) ELSE fail_job(run)
  /\ UNCHANGED <<analysis, job, artifacts, world>>
Access ==
  /\ Here("access")
  /\ IF authorized THEN Onward(run) ELSE fail_job(run)
  /\ UNCHANGED <<analysis, job, artifacts, world>>

CancelCheck ==
  /\ Here("cancel")
  /\ IF run.flagged THEN stop_job(run, "canceled") ELSE Onward(run)
  /\ UNCHANGED <<analysis, job, artifacts, world>>

(* An audit of the whole case passes over deleted evidence.                *)
EvidenceCheck ==
  /\ Here("evidence")
  /\ \/ available /\ Onward(run)
     \/ ~available /\ fail_job(run)
     \/ ~available /\ analysis = "custody" /\ Onward(run)
  /\ UNCHANGED <<analysis, job, artifacts, world>>

Start ==
  /\ Here("start")
  /\ IF run.mem = "pending"
     THEN /\ status' = "running" /\ late' = FALSE
          /\ Onward([run EXCEPT !.mem = "running"])
     ELSE /\ TaskIs([run EXCEPT !.mode = "recover"])
          /\ UNCHANGED <<status, late>>
  /\ UNCHANGED <<analysis, cancel, summary, artifacts, world>>

(* Refresh the row, then ask it whether to stop.                           *)
Poll ==
  /\ Here("poll")
  /\ IF should_stop(Refreshed) # "no" THEN stop_job(Refreshed, StopStatus(Refreshed))
     ELSE Onward(Refreshed)
  /\ UNCHANGED <<analysis, job, artifacts, world>>

(* The same question put to the copy, which is not refreshed first.        *)
Glance ==
  /\ Here("glance")
  /\ IF should_stop(run) # "no" THEN stop_job(run, StopStatus(run)) ELSE Onward(run)
  /\ UNCHANGED <<analysis, job, artifacts, world>>

(* The semantic pass only breaks out of its loop.                          *)
Peek ==
  /\ Here("peek")
  /\ IF should_stop(Refreshed) # "no"
     THEN TaskIs([Refreshed EXCEPT !.at = Len(Program[analysis]) + 1])
     ELSE Onward(Refreshed)
  /\ UNCHANGED <<analysis, job, artifacts, world>>

(* record_artifact: an equal row is returned, a new one flushed.           *)
Noted(r, c) ==
  IF artifacts[c] = "none" THEN [r EXCEPT !.buffer = @ \cup {c}, !.made = @ \cup {c}]
  ELSE r
CountLate ==
  afterRevoke' = IF authorized \/ SemanticPass THEN afterRevoke ELSE afterRevoke + 1

Record ==
  /\ Here("record")
  /\ Onward(Noted(run, Its))
  /\ CountLate
  /\ UNCHANGED <<analysis, job, artifacts, authorized, available, disturbances>>

(* What a run records beside its items: the orphan issue of an audit, a    *)
(* semantic verdict; or nothing, when there is no issue, the model fails   *)
(* or sees no contradiction.                                               *)
RecordBeside ==
  /\ Here("beside")
  /\ \/ /\ Onward(Noted(run, Beside(Its)))
        /\ CountLate
     \/ /\ Onward(run)
        /\ UNCHANGED afterRevoke
  /\ UNCHANGED <<analysis, job, artifacts, authorized, available, disturbances>>

(* Multilingual: a text that has a reviewable artifact is skipped to its   *)
(* commit.                                                                 *)
Reuse ==
  /\ Here("reuse")
  /\ \/ artifacts[Its] # "none" /\ TaskIs([run EXCEPT !.reused = TRUE, !.at = @ + 4])
     \/ Onward(run)
  /\ UNCHANGED <<analysis, job, artifacts, world>>

(* ... a failed model call leaves the loop.                                *)
AskModel ==
  /\ Here("ask")
  /\ \/ Onward(run)
     \/ TaskIs([run EXCEPT !.bad = TRUE, !.at = Len(Program[analysis]) + 1])
  /\ UNCHANGED <<analysis, job, artifacts, world>>

(* ... a translation is not needed, not given, not readable, or recorded.  *)
Translate ==
  /\ Here("translate")
  /\ \/ \E unreadable \in BOOLEAN : Onward([run EXCEPT !.bad = @ \/ unreadable])
        /\ UNCHANGED afterRevoke
     \/ /\ Onward(Noted(run, Beside(Its)))
        /\ CountLate
  /\ UNCHANGED <<analysis, job, artifacts, authorized, available, disturbances>>

(* Triage and report audit carry on without a usable answer.               *)
Explain ==
  /\ Here("explain")
  /\ \E unusable \in BOOLEAN : Onward([run EXCEPT !.bad = @ \/ unusable])
  /\ UNCHANGED <<analysis, job, artifacts, world>>

Stored == artifacts' = [c \in Content |-> IF c \in run.buffer THEN "own" ELSE artifacts[c]]

Commit ==
  /\ Here("commit")
  /\ Stored
  /\ Onward([run EXCEPT !.buffer = {}])
  /\ UNCHANGED <<analysis, job, world>>

(* Nothing to show for the calls that failed.                              *)
Fruitless ==
  \/ analysis = "multilingual" /\ run.made \cap Item = {} /\ ~run.reused
  \/ analysis = "triage" /\ run.made = {}

(* The end of the program.                                                 *)
FinalStatus == IF run.bad THEN "partial" ELSE "succeeded"

Finish ==
  /\ run.mode = "work" /\ AtEnd
  /\ IF run.bad /\ Fruitless
     THEN fail_job(run) /\ UNCHANGED <<job, artifacts>>
     ELSE IF run.mem # "running"
     THEN TaskIs([run EXCEPT !.mode = "recover"]) /\ UNCHANGED <<job, artifacts>>
     ELSE /\ status' = FinalStatus
          /\ summary' = run.made
          /\ Stored
          /\ Done(run)
          /\ UNCHANGED <<cancel, late>>
  /\ UNCHANGED <<analysis, world>>

(* The terminal write of _stop_job and _fail_job; its commit also commits  *)
(* what the session had flushed.                                           *)
Close ==
  /\ run.mode = "close"
  /\ status' = run.to
  /\ summary' = run.made
  /\ Stored
  /\ Done(run)
  /\ UNCHANGED <<analysis, cancel, late, world>>

(* Any exception: roll back, read the row again, fail it unless terminal.  *)
(* The counts of the summary are not rolled back.                          *)
Crash ==
  /\ run.mode = "work"
  /\ TaskIs([run EXCEPT !.mode = "recover"])
  /\ UNCHANGED <<analysis, job, artifacts, world>>

Recover_keepsSession ==
  /\ run.mode = "recover"
  /\ fail_job([run EXCEPT !.mem = status])
  /\ UNCHANGED <<analysis, job, artifacts, world>>
Recover_neverFails ==
  /\ run.mode = "recover"
  /\ Done(run)
  /\ UNCHANGED <<analysis, job, artifacts, world>>
Recover ==
  /\ run.mode = "recover"
  /\ fail_job([run EXCEPT !.mem = status, !.buffer = {}])
  /\ UNCHANGED <<analysis, job, artifacts, world>>

Runner ==
  \/ Read \/ Access \/ CancelCheck \/ EvidenceCheck \/ Start \/ Poll \/ Glance
  \/ Peek \/ Record \/ RecordBeside \/ Reuse \/ AskModel \/ Translate \/ Explain
  \/ Commit \/ Finish \/ Close \/ Crash \/ Recover

-----------------------------------------------------------------------------
(* The rest of the process.                                                *)
Disturb ==
  /\ disturbances < MaxDisturbances
  /\ disturbances' = disturbances + 1

RequestCancel ==
  /\ status \in ActiveStatuses /\ ~cancel
  /\ cancel' = TRUE
  /\ Disturb
  /\ UNCHANGED <<analysis, status, summary, late, artifacts, run>>
  /\ UNCHANGED <<authorized, available, afterRevoke>>

Expire ==
  /\ status \in ActiveStatuses /\ ~late
  /\ late' = TRUE
  /\ Disturb
  /\ UNCHANGED <<analysis, status, cancel, summary, artifacts, run>>
  /\ UNCHANGED <<authorized, available, afterRevoke>>

(* A submission finds the job stale.                                       *)
ClearStale ==
  /\ status \in ActiveStatuses /\ late
  /\ status' =
       IF status = "running" \/ analysis = "report_audit" THEN "failed" ELSE "canceled"
  /\ Disturb
  /\ UNCHANGED <<analysis, cancel, summary, late, artifacts, run>>
  /\ UNCHANGED <<authorized, available, afterRevoke>>

ChangeAccess ==
  /\ authorized' = ~authorized
  /\ afterRevoke' = 0
  /\ Disturb
  /\ UNCHANGED <<analysis, job, artifacts, run, available>>

ChangeEvidence ==
  /\ available' = ~available
  /\ Disturb
  /\ UNCHANGED <<analysis, job, artifacts, run, authorized, afterRevoke>>

(* Another session records the same content; it waits for the unique key   *)
(* of a row this session has flushed.                                      *)
OtherRecords(c) ==
  /\ artifacts[c] = "none" /\ c \notin run.buffer
  /\ artifacts' = [artifacts EXCEPT ![c] = "earlier"]
  /\ Disturb
  /\ UNCHANGED <<analysis, job, run, authorized, available, afterRevoke>>

LoseTask ==
  /\ run.mode \notin {"done", "lost"}
  /\ TaskIs([run EXCEPT !.mode = "lost", !.buffer = {}])
  /\ Disturb
  /\ UNCHANGED <<analysis, job, artifacts, authorized, available, afterRevoke>>

Environment ==
  \/ RequestCancel \/ Expire \/ ClearStale \/ ChangeAccess \/ ChangeEvidence
  \/ LoseTask
  \/ \E c \in Content : OtherRecords(c)

Next == Runner \/ Environment

Spec == Init /\ [][Next]_vars /\ WF_vars(Runner)

-----------------------------------------------------------------------------
Succeeded == {"succeeded", "partial"}

(* A run that was told to stop - canceled or out of time - at any refresh  *)
(* of its main loop never reports success.                                 *)
StoppedNeverSucceeds ==
  run.mode = "done" /\ run.saw = "poll" => status \notin Succeeded

(* Once the actor has lost access a run writes at most what it was working *)
(* on: one record, or an analysis with its translation.  (The semantic     *)
(* pass of contradiction detection never looks at access and is not        *)
(* counted.)                                                               *)
RevocationBites == afterRevoke <= IF analysis = "multilingual" THEN 2 ELSE 1

(* "succeeded" says that everything the run was to derive is stored, by    *)
(* this run or an earlier one.                                             *)
Derived == IF analysis \in OneArtifact THEN {1} ELSE Item
SucceededIsComplete ==
  status = "succeeded" => \A c \in Derived : artifacts[c] # "none"

(* A feature that yields one artifact leaves none behind when its run      *)
(* fails or is canceled, whatever the order of its flushes and commits.    *)
NothingHalfDone ==
  run.mode = "done" /\ analysis \in OneArtifact /\ status \in {"failed", "canceled"}
    => Own = {}

(* Unless the run failed, the summary counts as created exactly the rows   *)
(* it stored.                                                              *)
SummaryIsTrue ==
  run.mode = "done" /\ status # "failed" => summary = Own

(* What a job reports is what its run did: it was not told to stop, and    *)
(* its rows are there, all of them or none, and counted.                   *)
OutcomeIsTrue == StoppedNeverSucceeds /\ SucceededIsComplete /\ NothingHalfDone /\ SummaryIsTrue

(* Every run that the process survives brings its job to an end.           *)
JobSettles == <>(status \in TERMINAL_STATUSES \/ run.mode = "lost")

=============================================================================

---------------------------- MODULE AnalysisJobs ----------------------------
(***************************************************************************)
(* The analysis-job machinery of the evidence-intelligence features: the   *)
(* rows of table analysis_jobs for ONE evidence file (or one case feature),*)
(* the submit and cancel routes that write them, and the in-process        *)
(* background runner that carries a job to a terminal status.              *)
(*                                                                         *)
(* Every action is the code between two awaits at which another coroutine  *)
(* of the process may run.  A database session sees committed rows only    *)
(* (READ COMMITTED), keeps the copy it read (expire_on_commit=False) and   *)
(* writes back the columns it changed without looking at the row again; a  *)
(* flushed UPDATE holds the row lock until its session commits, a flushed  *)
(* INSERT holds its unique key.                                            *)
(*                                                                         *)
(* A job is named by the attempt number in its idempotency key, which the  *)
(* unique constraint makes an identity.  Time is the set `late` of active  *)
(* rows whose budget has run out.                                          *)
(***************************************************************************)
EXTENDS Integers, FiniteSets

CONSTANTS
  MaxAttempts,      \* bound: rows of the table
  Submitter,        \* concurrent sessions of the submit route
  NumUnits,         \* source records one run works through
  Payload,          \* model responses, told apart by their content hash
  Valid,            \* the responses that parse against the schema
  NoPayload,        \* "no response yet"
  MaxDisturbances,  \* bound: restarts, cancel requests, reviews, access changes
  RunsMayOverrun    \* may a live task outlast the time budget of its job?

ASSUME JobConstants ==
  /\ MaxAttempts \in Nat \ {0}
  /\ NumUnits \in Nat \ {0}
  /\ MaxDisturbances \in Nat
  /\ Valid \subseteq Payload
  /\ NoPayload \notin Payload
  /\ RunsMayOverrun \in BOOLEAN

VARIABLES
  status,       \* committed status column of each attempt ("absent": no row)
  cancel,       \* attempts whose committed cancel_requested is true
  late,         \* active attempts past their budget
  artifacts,    \* committed derived_artifacts row of each unit and response
  authorized,   \* the actor may still read the case
  available,    \* the evidence row is not soft-deleted
  sub,          \* the sessions of the submit route
  canceling,    \* attempts a cancel request read as active, not yet flagged
  run,          \* the background task of each attempt
  disturbances  \* how many of the bounded events have happened

rows == <<status, cancel, late>>
world == <<authorized, available>>
vars == <<rows, artifacts, world, sub, canceling, run, disturbances>>

-----------------------------------------------------------------------------

Attempt == 1..MaxAttempts
Unit == 1..NumUnits

Active == {"pending", "running"}
TERMINAL_STATUSES == {"succeeded", "partial", "failed", "canceled"}
Status == Active \cup TERMINAL_STATUSES

ALLOWED_TRANSITIONS ==
  [ s \in Status |->
      CASE s = "pending" -> {"running", "failed", "canceled"}
        [] s = "running" -> TERMINAL_STATUSES
        [] OTHER         -> {} ]

ArtifactStatus == {"none", "reviewable", "rejected", "failed"}

(* A session of the submit route: the stale row it is clearing (0: none)   *)
(* and the status it writes there, its attempt number, and whether its     *)
(* INSERT went through.                                                    *)
SubState == [ pc : {"idle", "flush", "count", "select", "insert", "commit"},
              seen : 0..MaxAttempts, to : {"failed", "canceled"},
              attempt : 0..MaxAttempts, created : BOOLEAN ]
Idle == [ pc |-> "idle", seen |-> 0, to |-> "failed",
          attempt |-> 0, created |-> FALSE ]

(* A background task: its copy of the row (mem, flagged), the unit it is   *)
(* at, the response in hand and whether record_artifact found no equal one,*)
(* the tallies its final status depends on, and the status it is writing.  *)
RunState == [ pc : {"none", "queued", "authorize", "start", "fetch", "poll",
                    "work", "call", "save", "finish", "close", "recover",
                    "done", "lost"},
              mem : Status, flagged : BOOLEAN,
              unit : 1..NumUnits, out : Payload \cup {NoPayload}, fresh : BOOLEAN,
              good : BOOLEAN, bad : BOOLEAN, err : BOOLEAN,
              to : {"failed", "canceled"} ]
Task(pc) == [ pc |-> pc, mem |-> "pending", flagged |-> FALSE,
              unit |-> 1, out |-> NoPayload, fresh |-> FALSE,
              good |-> FALSE, bad |-> FALSE, err |-> FALSE, to |-> "failed" ]

Ended == {"none", "done", "lost"}
TaskAlive(k) == run[k].pc \notin Ended

TypeOK ==
  /\ status \in [Attempt -> Status \cup {"absent"}]
  /\ cancel \in SUBSET Attempt
  /\ late \in SUBSET Attempt
  /\ artifacts \in [Unit -> [Payload -> ArtifactStatus]]
  /\ authorized \in BOOLEAN
  /\ available \in BOOLEAN
  /\ sub \in [Submitter -> SubState]
  /\ canceling \in SUBSET Attempt
  /\ run \in [Attempt -> RunState]
  /\ disturbances \in 0..MaxDisturbances

Init ==
  /\ status = [k \in Attempt |-> "absent"]
  /\ cancel = {}
  /\ late = {}
  /\ artifacts = [u \in Unit |-> [p \in Payload |-> "none"]]
  /\ authorized = TRUE
  /\ available = TRUE
  /\ sub = [s \in Submitter |-> Idle]
  /\ canceling = {}
  /\ run = [k \in Attempt |-> Task("none")]
  /\ disturbances = 0

-----------------------------------------------------------------------------
(* What a session reads.                                                   *)

Present == {k \in Attempt : status[k] # "absent"}
ActiveJobs_onlyRunning == {k \in Attempt : status[k] = "running"}
ActiveJobs == {k \in Attempt : status[k] \in Active}
IsNewest(k, S) == k \in S /\ \A j \in S : j <= k

(* is_timed_out for a running row, twice the budget for a pending one.     *)
is_timed_out_runningOnly(k) == k \in late /\ status[k] = "running"
is_timed_out(k) == k \in late

(* The status _clear_stale gives to a stale row.                           *)
ClearedTo_requeued(k) == IF status[k] = "running" THEN "pending" ELSE "canceled"
ClearedTo(k) == IF status[k] = "running" THEN "failed" ELSE "canceled"

attempt_count == Cardinality(Present)

(* A flushed, uncommitted UPDATE of the row of k blocks its other writers. *)
RowLocked(k) ==
  \E s \in Submitter :
    sub[s].seen = k /\ sub[s].pc \in {"count", "select", "insert", "commit"}

(* Another session has inserted the key of attempt n and not committed.    *)
KeyPending(s, n) ==
  \E t \in Submitter \ {s} :
    sub[t].pc = "commit" /\ sub[t].created /\ sub[t].attempt = n

reviewable_artifact_for_never(u) == FALSE
reviewable_artifact_for(u) == \E p \in Payload : artifacts[u][p] = "reviewable"

(* Bound MaxDisturbances on the events that come from outside a job.       *)
Disturb ==
  /\ disturbances < MaxDisturbances
  /\ disturbances' = disturbances + 1

-----------------------------------------------------------------------------
(* The submit route.                                                       *)

SetSub(s, r) == sub' = [sub EXCEPT ![s] = r]

(* The newest active row decides: none, go on; a stale one, clear it; a    *)
(* fresh one, refuse (no state changes, so no action).                     *)
SubmitRead(s) ==
  /\ sub[s].pc = "idle"
  /\ authorized /\ available
  /\ \/ /\ ActiveJobs = {}
        /\ SetSub(s, [Idle EXCEPT !.pc = "count"])
     \/ \E k \in ActiveJobs :
          /\ IsNewest(k, ActiveJobs)
          /\ is_timed_out(k)
          /\ SetSub(s, [Idle EXCEPT !.pc = "flush", !.seen = k, !.to = ClearedTo(k)])
  /\ UNCHANGED <<rows, artifacts, world, canceling, run, disturbances>>

SubmitFlush(s) ==
  /\ sub[s].pc = "flush"
  /\ ~RowLocked(sub[s].seen)
  /\ SetSub(s, [sub[s] EXCEPT !.pc = "count"])
  /\ UNCHANGED <<rows, artifacts, world, canceling, run, disturbances>>

(* The row count plus one is the attempt number.  A full table ends the    *)
(* session (bound MaxAttempts).                                            *)
SubmitCount(s) ==
  /\ sub[s].pc = "count"
  /\ LET n == attempt_count + 1 IN
     \/ /\ n \in Attempt
        /\ SetSub(s, [sub[s] EXCEPT !.pc = "select", !.attempt = n])
     \/ /\ n \notin Attempt
        /\ SetSub(s, Idle)
  /\ UNCHANGED <<rows, artifacts, world, canceling, run, disturbances>>

(* create_job looks the key up before it inserts.                          *)
SubmitSelect(s) ==
  /\ sub[s].pc = "select"
  /\ SetSub(s, [sub[s] EXCEPT
                  !.pc = IF sub[s].attempt \in Present THEN "commit" ELSE "insert"])
  /\ UNCHANGED <<rows, artifacts, world, canceling, run, disturbances>>

(* The INSERT waits for a concurrent one of the same key; once that one    *)
(* has committed it raises IntegrityError, and the rollback also drops the *)
(* clearing of the stale row.                                              *)
SubmitInsert(s) ==
  /\ sub[s].pc = "insert"
  /\ ~KeyPending(s, sub[s].attempt)
  /\ \/ /\ sub[s].attempt \notin Present
        /\ SetSub(s, [sub[s] EXCEPT !.pc = "commit", !.created = TRUE])
     \/ /\ sub[s].attempt \in Present
        /\ SetSub(s, Idle)
  /\ UNCHANGED <<rows, artifacts, world, canceling, run, disturbances>>

(* The commit publishes the cleared row and the new one; the background    *)
(* task is handed over only when this session created the row.             *)
SubmitCommit(s) ==
  /\ sub[s].pc = "commit"
  /\ LET me == sub[s] IN
     /\ status' = [k \in Attempt |->
                     IF me.created /\ k = me.attempt THEN "pending"
                     ELSE IF k = me.seen THEN me.to ELSE status[k]]
     /\ late' = late \ {me.seen}
     /\ run' = IF me.created THEN [run EXCEPT ![me.attempt] = Task("queued")]
                             ELSE run
  /\ SetSub(s, Idle)
  /\ UNCHANGED <<cancel, artifacts, world, canceling, disturbances>>

(* A rejection after the flush (unsupported format), a database error or a *)
(* dropped connection closes the session uncommitted.                      *)
SubmitAbort(s) ==
  /\ sub[s].pc # "idle"
  /\ SetSub(s, Idle)
  /\ UNCHANGED <<rows, artifacts, world, canceling, run, disturbances>>

-----------------------------------------------------------------------------
(* The cancel route: the status is checked, the flag is written later.     *)

CancelRead(k) ==
  /\ status[k] \in Active
  /\ k \notin canceling \cup cancel
  /\ canceling' = canceling \cup {k}
  /\ Disturb
  /\ UNCHANGED <<rows, artifacts, world, sub, run>>

CancelCommit(k) ==
  /\ k \in canceling
  /\ ~RowLocked(k)
  /\ cancel' = cancel \cup {k}
  /\ canceling' = canceling \ {k}
  /\ UNCHANGED <<status, late, artifacts, world, sub, run, disturbances>>

-----------------------------------------------------------------------------
(* The background task of attempt k.                                       *)

SetRun(k, r) == run' = [run EXCEPT ![k] = r]
Goto(k, pc) == SetRun(k, [run[k] EXCEPT !.pc = pc])
Close(k, to) == SetRun(k, [run[k] EXCEPT !.pc = "close", !.to = to])
Exit(k) == SetRun(k, Task("done"))

(* _fail_job: nothing to do on a copy that is already terminal.            *)
fail_job_notFromPending(k, mem) ==
  IF mem # "running"
  THEN Exit(k)
  ELSE SetRun(k, [run[k] EXCEPT !.pc = "close", !.mem = mem, !.to = "failed"])
fail_job(k, mem) ==
  IF mem \in TERMINAL_STATUSES
  THEN Exit(k)
  ELSE SetRun(k, [run[k] EXCEPT !.pc = "close", !.mem = mem, !.to = "failed"])

(* transition: a move the table forbids raises InvalidJobTransition, which *)
(* the runner's catch-all turns into rollback and recovery.                *)
transition(k, mem, to) ==
  IF to \in ALLOWED_TRANSITIONS[mem]
  THEN SetRun(k, [run[k] EXCEPT !.pc = "close", !.mem = mem, !.to = to])
  ELSE Goto(k, "recover")

(* The write of a status that the task's own copy allowed.                 *)
Write(k, to) ==
  /\ ~RowLocked(k)
  /\ status' = [status EXCEPT ![k] = to]
  /\ late' = late \ {k}
  /\ UNCHANGED cancel

RunnerRead(k) ==
  /\ run[k].pc = "queued"
  /\ IF status[k] = "pending"
     THEN SetRun(k, [run[k] EXCEPT !.pc = "authorize", !.flagged = (k \in cancel)])
     ELSE Exit(k)
  /\ UNCHANGED <<rows, artifacts, world, sub, canceling, disturbances>>

(* Stages 1 and 2, in the code's order: access, cancellation, evidence.    *)
RunnerAuthorize(k) ==
  /\ run[k].pc = "authorize"
  /\ IF ~authorized THEN fail_job(k, run[k].mem)
     ELSE IF run[k].flagged THEN transition(k, run[k].mem, "canceled")
     ELSE IF ~available THEN fail_job(k, run[k].mem)
     ELSE Goto(k, "start")
  /\ UNCHANGED <<rows, artifacts, world, sub, canceling, disturbances>>

RunnerStart(k) ==
  /\ run[k].pc = "start"
  /\ Write(k, "running")
  /\ SetRun(k, [run[k] EXCEPT !.pc = "fetch", !.mem = "running"])
  /\ UNCHANGED <<artifacts, world, sub, canceling, disturbances>>

(* Stages 3 and 4: the source is missing, altered, unparsable or empty, or *)
(* its units are known and the progress is committed.                      *)
RunnerFetch(k) ==
  /\ run[k].pc = "fetch"
  /\ \/ Goto(k, "recover")
     \/ ~RowLocked(k) /\ Goto(k, "poll")
  /\ UNCHANGED <<rows, artifacts, world, sub, canceling, disturbances>>

(* session.refresh(job): the row as it is committed now.                   *)
Refreshed(k) == [mem |-> status[k], flagged |-> k \in cancel]

(* The head of the unit loop: refresh the copy, should_stop (cancel wins   *)
(* over timeout, and only a row still "running" times out), recheck access.*)
RunnerPoll(k) ==
  /\ run[k].pc = "poll"
  /\ LET row == Refreshed(k) IN
     IF row.flagged THEN transition(k, row.mem, "canceled")
     ELSE IF row.mem = "running" /\ is_timed_out(k) THEN transition(k, row.mem, "failed")
     ELSE IF ~authorized THEN fail_job(k, row.mem)
     ELSE SetRun(k, [run[k] EXCEPT !.pc = "work", !.mem = row.mem])
  /\ UNCHANGED <<rows, artifacts, world, sub, canceling, disturbances>>

(* Output of an earlier attempt still under review is reused: no call.     *)
RunnerWork(k) ==
  /\ run[k].pc = "work"
  /\ IF reviewable_artifact_for(run[k].unit)
     THEN SetRun(k, [run[k] EXCEPT !.pc = "save", !.good = TRUE])
     ELSE Goto(k, "call")
  /\ UNCHANGED <<rows, artifacts, world, sub, canceling, disturbances>>

(* The model answers or fails; record_artifact then looks for an equal row.*)
RunnerCall(k) ==
  /\ run[k].pc = "call"
  /\ \/ SetRun(k, [run[k] EXCEPT !.pc = "finish", !.err = TRUE])
     \/ \E p \in Payload :
          SetRun(k, [run[k] EXCEPT
                       !.pc = "save", !.out = p,
                       !.fresh = (artifacts[run[k].unit][p] = "none"),
                       !.good = @ \/ p \in Valid,
                       !.bad = @ \/ p \notin Valid])
  /\ UNCHANGED <<rows, artifacts, world, sub, canceling, disturbances>>

(* On to the next unit, or out of the loop.                                *)
AfterUnit(r) ==
  IF r.unit < NumUnits
  THEN [r EXCEPT !.pc = "poll", !.unit = r.unit + 1, !.out = NoPayload, !.fresh = FALSE]
  ELSE [r EXCEPT !.pc = "finish", !.out = NoPayload, !.fresh = FALSE]

(* Insert the response unless an equal one was found; an equal one that    *)
(* arrived since violates the unique constraint.  Progress is committed    *)
(* with it.                                                                *)
RunnerSave(k) ==
  /\ run[k].pc = "save"
  /\ ~RowLocked(k)
  /\ LET u == run[k].unit
         p == run[k].out
     IN \/ /\ ~run[k].fresh
           /\ SetRun(k, AfterUnit(run[k]))
           /\ UNCHANGED artifacts
        \/ /\ run[k].fresh
           /\ artifacts[u][p] = "none"
           /\ artifacts' = [artifacts EXCEPT ![u][p] =
                              IF p \in Valid THEN "reviewable" ELSE "failed"]
           /\ SetRun(k, AfterUnit(run[k]))
        \/ /\ run[k].fresh
           /\ artifacts[u][p] # "none"
           /\ Goto(k, "recover")
           /\ UNCHANGED artifacts
  /\ UNCHANGED <<rows, world, sub, canceling, disturbances>>

FinalStatus_ignoresErrors(r) ==
  IF ~r.bad THEN "succeeded" ELSE IF r.good THEN "partial" ELSE "failed"
FinalStatus(r) ==
  IF ~r.bad /\ ~r.err THEN "succeeded" ELSE IF r.good THEN "partial" ELSE "failed"

(* Stage 6 decides from the tallies and from the copy of the last poll.    *)
RunnerFinish(k) ==
  /\ run[k].pc = "finish"
  /\ \/ /\ FinalStatus(run[k]) \in ALLOWED_TRANSITIONS[run[k].mem]
        /\ Write(k, FinalStatus(run[k]))
        /\ Exit(k)
     \/ /\ FinalStatus(run[k]) \notin ALLOWED_TRANSITIONS[run[k].mem]
        /\ IF run[k].err /\ ~run[k].good THEN Exit(k) ELSE Goto(k, "recover")
        /\ UNCHANGED rows
  /\ UNCHANGED <<artifacts, world, sub, canceling, disturbances>>

(* _stop_job and _fail_job write the status chosen from the copy.          *)
RunnerClose(k) ==
  /\ run[k].pc = "close"
  /\ Write(k, run[k].to)
  /\ Exit(k)
  /\ UNCHANGED <<artifacts, world, sub, canceling, disturbances>>

(* Any other exception: the catch-all of the runner or of its wrapper.     *)
RunnerError(k) ==
  /\ run[k].pc \in {"authorize", "start", "fetch", "poll", "work", "call", "save", "finish"}
  /\ Goto(k, "recover")
  /\ UNCHANGED <<rows, artifacts, world, sub, canceling, disturbances>>

RunnerRecover(k) ==
  /\ run[k].pc = "recover"
  /\ fail_job(k, status[k])
  /\ UNCHANGED <<rows, artifacts, world, sub, canceling, disturbances>>

Runner(k) ==
  \/ RunnerRead(k) \/ RunnerAuthorize(k) \/ RunnerStart(k) \/ RunnerFetch(k)
  \/ RunnerPoll(k) \/ RunnerWork(k) \/ RunnerCall(k) \/ RunnerSave(k)
  \/ RunnerFinish(k) \/ RunnerClose(k) \/ RunnerRecover(k)

-----------------------------------------------------------------------------
(* The world around the jobs.                                              *)

(* The budget of an active row runs out.  Unless RunsMayOverrun, that      *)
(* happens only to rows whose task is gone.                                *)
Expire(k) ==
  /\ status[k] \in Active
  /\ k \notin late
  /\ RunsMayOverrun \/ ~TaskAlive(k)
  /\ late' = late \cup {k}
  /\ UNCHANGED <<status, cancel, artifacts, world, sub, canceling, run, disturbances>>

(* A reviewer rejects an artifact; an approved one stays reviewable here.  *)
Reject(u, p) ==
  /\ artifacts[u][p] = "reviewable"
  /\ artifacts' = [artifacts EXCEPT ![u][p] = "rejected"]
  /\ Disturb
  /\ UNCHANGED <<rows, world, sub, canceling, run>>

ChangeAccess ==
  /\ authorized' = ~authorized
  /\ Disturb
  /\ UNCHANGED <<rows, artifacts, available, sub, canceling, run>>

ChangeEvidence ==
  /\ available' = ~available
  /\ Disturb
  /\ UNCHANGED <<rows, artifacts, authorized, sub, canceling, run>>

(* A restart loses every session and every background task; only committed *)
(* rows survive.                                                           *)
Restart ==
  /\ Disturb
  /\ sub' = [s \in Submitter |-> Idle]
  /\ canceling' = {}
  /\ run' = [k \in Attempt |-> IF TaskAlive(k) THEN Task("lost") ELSE run[k]]
  /\ UNCHANGED <<rows, artifacts, authorized, available>>

Submit(s) ==
  \/ SubmitRead(s) \/ SubmitFlush(s) \/ SubmitCount(s)
  \/ SubmitSelect(s) \/ SubmitInsert(s) \/ SubmitCommit(s)

Next ==
  \/ \E s \in Submitter : Submit(s) \/ SubmitAbort(s)
  \/ \E k \in Attempt : Runner(k) \/ RunnerError(k)
  \/ \E k \in Attempt : CancelRead(k) \/ CancelCommit(k) \/ Expire(k)
  \/ \E u \in Unit, p \in Payload : Reject(u, p)
  \/ ChangeAccess \/ ChangeEvidence \/ Restart

Spec == Init /\ [][Next]_vars

(* Fairness.  asyncio runs every ready task, a model call returns or times *)
(* out, and Postgres grants a row lock in the order of the requests, so a  *)
(* task that can move again and again does move.  That somebody submits    *)
(* again, not failing every time, and that time passes is asked of the     *)
(* users and the clock only for the recovery of orphans.                   *)
TaskFairness == \A k \in Attempt : SF_vars(Runner(k))
SessionFairness ==
  \A s \in Submitter :
    /\ SF_vars(SubmitRead(s)) /\ SF_vars(SubmitFlush(s)) /\ SF_vars(SubmitCount(s))
    /\ SF_vars(SubmitSelect(s)) /\ SF_vars(SubmitInsert(s)) /\ SF_vars(SubmitCommit(s))
ClockFairness == \A k \in Attempt : WF_vars(Expire(k))

FairSpec == Spec /\ TaskFairness /\ SessionFairness /\ ClockFairness

-----------------------------------------------------------------------------
(* Properties that hold of the code as it is.                              *)

(* Attempt numbers have no gap: a retry is attempt N+1 and a duplicate     *)
(* submission lands on a row that exists, whichever sessions raced (the    *)
(* count, the key lookup and the insert of submit_extraction).             *)
AttemptsContiguous ==
  \A k \in Present : \A j \in 1..k : j \in Present

(* A job that reports success has recorded schema-valid output for every   *)
(* unit, although a run may break off, fail on a unit, or reuse the output *)
(* of an earlier attempt (stages 5 and 6 of execute_extraction).           *)
SucceededIsComplete ==
  \A k \in Attempt : status[k] = "succeeded" =>
    \A u \in Unit : \E p \in Valid : artifacts[u][p] # "none"

(* A background task that ends without a restart leaves a terminal row,    *)
(* whatever was cleared, canceled or raised meanwhile: no evidence stays   *)
(* locked behind a job nobody works on (run_extraction_job never returns   *)
(* with a job left active).                                                *)
EndedTaskLeavesTerminalRow ==
  \A k \in Attempt : run[k].pc = "done" => status[k] \in TERMINAL_STATUSES

(* A job is handed to a background task once: a duplicate submission, the  *)
(* loser of the insert race included, starts no second run of it           *)
(* (created=False in the submit routes).                                   *)
StartedOnce ==
  [][\A k \in Attempt : run'[k].pc = "queued" => run[k].pc \in {"none", "queued"}]_vars

(* Every active job reaches a terminal status (run_extraction_job: "to a   *)
(* terminal state"); one whose task a restart has lost is cleared by a     *)
(* later submission (_clear_stale) while the case and the evidence stay    *)
(* accessible.  The last row of the bounded table has no successor.        *)
JobsFinish ==
  \A k \in Attempt :
    status[k] \in Active
      ~> \/ status[k] \in TERMINAL_STATUSES
         \/ run[k].pc = "lost" /\ (k = MaxAttempts \/ ~authorized \/ ~available)

-----------------------------------------------------------------------------
(* Promises of the documentation that depend on an assumption: they hold   *)
(* when no task outlasts its budget, or when submissions do not overlap,   *)
(* and the code breaks them otherwise.                                     *)

(* The whole contract of the docstring, as a refinement.  Holds when no    *)
(* live task overruns.                                                     *)
Contract == INSTANCE JobLifecycle WITH MaxAttempts <- MaxAttempts, status <- status
RefinesLifecycle == Contract!Spec

(* "One active job per (case, feature)" (submit_case_feature_job): holds   *)
(* when submissions do not overlap and no live task overruns.              *)
OneActiveJob ==
  \A j, k \in Attempt : status[j] \in Active /\ status[k] \in Active => j = k

(* "no second model call, no duplicates": a source record has at most one  *)
(* extraction awaiting or past review.  Holds under the same assumptions.  *)
NoDuplicateOutput ==
  \A u \in Unit : \A p, q \in Payload :
    artifacts[u][p] = "reviewable" /\ artifacts[u][q] = "reviewable" => p = q

=============================================================================

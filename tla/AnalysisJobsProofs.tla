------------------------- MODULE AnalysisJobsProofs -------------------------
(***************************************************************************)
(* Proofs about AnalysisJobs for every number of attempts, sessions, units *)
(* and responses: first the types, then one inductive invariant per        *)
(* concern (sessions, tasks, output), then the action properties.          *)
(***************************************************************************)
EXTENDS AnalysisJobs, FiniteSetTheorems, TLAPS

-----------------------------------------------------------------------------
(* Records: every update the actions make stays within its type.           *)

LEMMA AttemptRange == Attempt \subseteq 0..MaxAttempts /\ Attempt \subseteq Nat \ {0}
BY JobConstants DEF Attempt

LEMMA BlankRecords ==
  /\ Idle \in SubState
  /\ \A pc \in {"none", "queued", "done", "lost"} : Task(pc) \in RunState
BY JobConstants DEF Idle, SubState, Task, RunState, Status, Active, TERMINAL_STATUSES

LEMMA SubRecords ==
  ASSUME NEW r \in SubState
  PROVE  /\ [Idle EXCEPT !.pc = "count"] \in SubState
         /\ \A k \in Attempt, to \in {"failed", "canceled"} :
              [Idle EXCEPT !.pc = "flush", !.seen = k, !.to = to] \in SubState
         /\ [r EXCEPT !.pc = "count"] \in SubState
         /\ \A k \in Attempt : [r EXCEPT !.pc = "select", !.attempt = k] \in SubState
         /\ \A pc \in {"insert", "commit"} : [r EXCEPT !.pc = pc] \in SubState
         /\ [r EXCEPT !.pc = "commit", !.created = TRUE] \in SubState
<1>. Attempt \subseteq 0..MaxAttempts /\ 0 \in 0..MaxAttempts
  BY AttemptRange, JobConstants
<1>1. [Idle EXCEPT !.pc = "count"] \in SubState
  BY DEF SubState, Idle
<1>2. ASSUME NEW k \in Attempt, NEW to \in {"failed", "canceled"}
      PROVE  [Idle EXCEPT !.pc = "flush", !.seen = k, !.to = to] \in SubState
  BY DEF SubState, Idle
<1>3. [r EXCEPT !.pc = "count"] \in SubState
  BY DEF SubState
<1>4. ASSUME NEW k \in Attempt
      PROVE  [r EXCEPT !.pc = "select", !.attempt = k] \in SubState
  BY DEF SubState
<1>5. ASSUME NEW pc \in {"insert", "commit"}
      PROVE  [r EXCEPT !.pc = pc] \in SubState
  BY DEF SubState
<1>6. [r EXCEPT !.pc = "commit", !.created = TRUE] \in SubState
  BY DEF SubState
<1>. QED
  BY <1>1, <1>2, <1>3, <1>4, <1>5, <1>6

LEMMA RunRecords ==
  ASSUME NEW r \in RunState
  PROVE  /\ \A pc \in {"start", "poll", "call", "recover"} : [r EXCEPT !.pc = pc] \in RunState
         /\ \A b \in BOOLEAN : [r EXCEPT !.pc = "authorize", !.flagged = b] \in RunState
         /\ \A m \in Status, to \in {"failed", "canceled"} :
              [r EXCEPT !.pc = "close", !.mem = m, !.to = to] \in RunState
         /\ [r EXCEPT !.pc = "fetch", !.mem = "running"] \in RunState
         /\ \A m \in Status : [r EXCEPT !.pc = "work", !.mem = m] \in RunState
         /\ [r EXCEPT !.pc = "save", !.good = TRUE] \in RunState
         /\ [r EXCEPT !.pc = "finish", !.err = TRUE] \in RunState
         /\ \A p \in Payload, f, g, b \in BOOLEAN :
              [r EXCEPT !.pc = "save", !.out = p, !.fresh = f, !.good = g, !.bad = b]
                \in RunState
         /\ AfterUnit(r) \in RunState
<1>. "running" \in Status
  BY DEF Status, Active
<1>1. ASSUME NEW pc \in {"start", "poll", "call", "recover"}
      PROVE  [r EXCEPT !.pc = pc] \in RunState
  BY DEF RunState
<1>2. ASSUME NEW b \in BOOLEAN
      PROVE  [r EXCEPT !.pc = "authorize", !.flagged = b] \in RunState
  BY DEF RunState
<1>3. ASSUME NEW m \in Status, NEW to \in {"failed", "canceled"}
      PROVE  [r EXCEPT !.pc = "close", !.mem = m, !.to = to] \in RunState
  BY DEF RunState
<1>4. [r EXCEPT !.pc = "fetch", !.mem = "running"] \in RunState
  BY DEF RunState
<1>5. ASSUME NEW m \in Status
      PROVE  [r EXCEPT !.pc = "work", !.mem = m] \in RunState
  BY DEF RunState
<1>6. [r EXCEPT !.pc = "save", !.good = TRUE] \in RunState
  BY DEF RunState
<1>7. [r EXCEPT !.pc = "finish", !.err = TRUE] \in RunState
  BY DEF RunState
<1>8. ASSUME NEW p \in Payload, NEW f \in BOOLEAN, NEW g \in BOOLEAN, NEW b \in BOOLEAN
      PROVE  [r EXCEPT !.pc = "save", !.out = p, !.fresh = f, !.good = g, !.bad = b]
               \in RunState
  BY DEF RunState
<1>9. AfterUnit(r) \in RunState
  <2>1. CASE r.unit < NumUnits
    <3>1. r.unit + 1 \in 1..NumUnits
      BY <2>1, JobConstants DEF RunState
    <3>. QED
      BY <2>1, <3>1 DEF AfterUnit, RunState
  <2>2. CASE ~(r.unit < NumUnits)
    BY <2>2 DEF AfterUnit, RunState
  <2>. QED
    BY <2>1, <2>2
<1>. QED
  BY <1>1, <1>2, <1>3, <1>4, <1>5, <1>6, <1>7, <1>8, <1>9

-----------------------------------------------------------------------------
(* Type correctness.  TypeOK alone is not inductive: a poll copies the     *)
(* status of the row into the task, so the row has to exist.               *)

TasksHaveRows == \A k \in Attempt : status[k] = "absent" => run[k].pc = "none"

LEMMA InitTypeOK == Init => TypeOK /\ TasksHaveRows
BY BlankRecords, JobConstants DEF Init, TypeOK, TasksHaveRows, Task, ArtifactStatus, Status

(* A step that only replaces the record of one session.                    *)
LEMMA SessionStep ==
  ASSUME TypeOK, NEW s \in Submitter, NEW r \in SubState, SetSub(s, r),
         UNCHANGED <<rows, artifacts, world, canceling, run, disturbances>>
  PROVE  TypeOK'
BY DEF TypeOK, SetSub, rows, world

LEMMA SubmitTypeOK ==
  ASSUME TypeOK, NEW s \in Submitter, Submit(s) \/ SubmitAbort(s)
  PROVE  TypeOK'
<1>. sub[s] \in SubState
  BY DEF TypeOK
<1>1. CASE SubmitRead(s)
  <2>1. ASSUME SetSub(s, [Idle EXCEPT !.pc = "count"])
        PROVE  TypeOK'
    BY <1>1, <2>1, SubRecords, SessionStep DEF SubmitRead
  <2>2. ASSUME NEW k \in ActiveJobs,
               SetSub(s, [Idle EXCEPT !.pc = "flush", !.seen = k, !.to = ClearedTo(k)])
        PROVE  TypeOK'
    <3>1. k \in Attempt /\ ClearedTo(k) \in {"failed", "canceled"}
      BY DEF ActiveJobs, ClearedTo
    <3>. QED
      BY <1>1, <2>2, <3>1, SubRecords, SessionStep DEF SubmitRead
  <2>. QED
    BY <1>1, <2>1, <2>2 DEF SubmitRead
<1>2. CASE SubmitFlush(s)
  BY <1>2, SubRecords, SessionStep DEF SubmitFlush
<1>3. CASE SubmitCount(s)
  BY <1>3, SubRecords, BlankRecords, SessionStep DEF SubmitCount
<1>4. CASE SubmitSelect(s)
  BY <1>4, SubRecords, SessionStep DEF SubmitSelect
<1>5. CASE SubmitInsert(s)
  BY <1>5, SubRecords, BlankRecords, SessionStep DEF SubmitInsert
<1>6. CASE SubmitCommit(s)
  <2>1. status' \in [Attempt -> Status \cup {"absent"}]
    BY <1>6 DEF SubmitCommit, SubState, Status, Active, TERMINAL_STATUSES, TypeOK
  <2>2. run' \in [Attempt -> RunState]
    BY <1>6, BlankRecords DEF SubmitCommit, TypeOK
  <2>3. sub' \in [Submitter -> SubState]
    BY <1>6, BlankRecords DEF SubmitCommit, SetSub, TypeOK
  <2>. QED
    BY <1>6, <2>1, <2>2, <2>3 DEF SubmitCommit, TypeOK, world
<1>7. CASE SubmitAbort(s)
  BY <1>7, BlankRecords, SessionStep DEF SubmitAbort
<1>. QED
  BY <1>1, <1>2, <1>3, <1>4, <1>5, <1>6, <1>7 DEF Submit

(* A step that replaces the record of one task and keeps the tables typed. *)
LEMMA TaskStep ==
  ASSUME TypeOK, NEW k \in Attempt, NEW r \in RunState, SetRun(k, r),
         status' \in [Attempt -> Status \cup {"absent"}],
         late' \in SUBSET Attempt,
         artifacts' \in [Unit -> [Payload -> ArtifactStatus]],
         UNCHANGED <<cancel, world, sub, canceling, disturbances>>
  PROVE  TypeOK'
BY DEF TypeOK, SetRun, world

LEMMA WriteTypeOK ==
  ASSUME TypeOK, NEW k \in Attempt, NEW to \in Status, Write(k, to)
  PROVE  /\ status' \in [Attempt -> Status \cup {"absent"}]
         /\ late' \in SUBSET Attempt
         /\ UNCHANGED cancel
BY DEF TypeOK, Write

LEMMA RunnerTypeOK ==
  ASSUME TypeOK, TasksHaveRows, NEW k \in Attempt, Runner(k) \/ RunnerError(k)
  PROVE  TypeOK'
<1>. /\ run[k] \in RunState
     /\ run[k].mem \in Status
     /\ run[k].to \in {"failed", "canceled"}
     /\ status[k] \in Status \cup {"absent"}
  BY DEF TypeOK, RunState
<1>. /\ TERMINAL_STATUSES \subseteq Status
     /\ {"running", "failed", "canceled"} \subseteq Status
  BY DEF Status, Active, TERMINAL_STATUSES
<1>. Task("done") \in RunState
  BY BlankRecords
<1>kept. ASSUME UNCHANGED rows
         PROVE  /\ status' \in [Attempt -> Status \cup {"absent"}]
                /\ late' \in SUBSET Attempt
                /\ UNCHANGED cancel
  BY <1>kept DEF TypeOK, rows
<1>same. ASSUME UNCHANGED artifacts
         PROVE  artifacts' \in [Unit -> [Payload -> ArtifactStatus]]
  BY <1>same DEF TypeOK
<1>move. ASSUME NEW r \in RunState, SetRun(k, r),
                UNCHANGED <<rows, artifacts, world, sub, canceling, disturbances>>
         PROVE  TypeOK'
  BY <1>kept, <1>same, <1>move, TaskStep DEF rows
<1>goto. ASSUME NEW pc \in {"start", "poll", "call", "recover"}, Goto(k, pc),
                UNCHANGED <<rows, artifacts, world, sub, canceling, disturbances>>
         PROVE  TypeOK'
  BY <1>goto, <1>move, RunRecords DEF Goto
<1>fail. ASSUME NEW mem \in Status, fail_job(k, mem),
                UNCHANGED <<rows, artifacts, world, sub, canceling, disturbances>>
         PROVE  TypeOK'
  BY <1>fail, <1>move, RunRecords DEF fail_job, Exit
<1>trans. ASSUME NEW mem \in Status, NEW to \in {"failed", "canceled"},
                 transition(k, mem, to),
                 UNCHANGED <<rows, artifacts, world, sub, canceling, disturbances>>
          PROVE  TypeOK'
  BY <1>trans, <1>move, <1>goto, RunRecords DEF transition
<1>1. CASE RunnerRead(k)
  <2>1. [run[k] EXCEPT !.pc = "authorize", !.flagged = (k \in cancel)] \in RunState
    <3>1. CASE k \in cancel
      <4>1. (k \in cancel) = TRUE
        BY <3>1
      <4>. QED
        BY <4>1, RunRecords, Zenon
    <3>2. CASE k \notin cancel
      <4>1. (k \in cancel) = FALSE
        BY <3>2
      <4>. QED
        BY <4>1, RunRecords, Zenon
    <3>. QED
      BY <3>1, <3>2
  <2>. QED
    BY <1>1, <2>1, <1>move DEF RunnerRead, Exit
<1>2. CASE RunnerAuthorize(k)
  BY <1>2, <1>goto, <1>fail, <1>trans DEF RunnerAuthorize
<1>3. CASE RunnerStart(k)
  BY <1>3, <1>same, WriteTypeOK, TaskStep, RunRecords DEF RunnerStart
<1>4. CASE RunnerFetch(k)
  BY <1>4, <1>goto DEF RunnerFetch
<1>5. CASE RunnerPoll(k)
  <2>2. status[k] \in Status
    BY <1>5 DEF RunnerPoll, TasksHaveRows
  <2>. QED
    BY <1>5, <2>2, <1>move, <1>fail, <1>trans, RunRecords DEF RunnerPoll, Refreshed
<1>6. CASE RunnerWork(k)
  BY <1>6, <1>move, <1>goto, RunRecords DEF RunnerWork
<1>7. CASE RunnerCall(k)
  <2>1. run[k].good \in BOOLEAN /\ run[k].bad \in BOOLEAN
    BY DEF RunState
  <2>. QED
    BY <1>7, <2>1, <1>move, RunRecords DEF RunnerCall
<1>8. CASE RunnerSave(k)
  <2>1. AfterUnit(run[k]) \in RunState /\ [run[k] EXCEPT !.pc = "recover"] \in RunState
    BY RunRecords
  <2>2. artifacts' \in [Unit -> [Payload -> ArtifactStatus]]
    BY <1>8 DEF RunnerSave, TypeOK, ArtifactStatus
  <2>. QED
    BY <1>8, <2>1, <2>2, <1>kept, TaskStep DEF RunnerSave, Goto, rows
<1>9. CASE RunnerFinish(k)
  <2>1. FinalStatus(run[k]) \in TERMINAL_STATUSES
    BY DEF FinalStatus, TERMINAL_STATUSES
  <2>2. CASE Write(k, FinalStatus(run[k])) /\ Exit(k)
    BY <1>9, <2>1, <2>2, <1>same, WriteTypeOK, TaskStep DEF RunnerFinish, Exit
  <2>3. CASE UNCHANGED rows /\ (Exit(k) \/ Goto(k, "recover"))
    BY <1>9, <2>3, <1>move, <1>goto DEF RunnerFinish, Exit
  <2>. QED
    BY <1>9, <2>2, <2>3 DEF RunnerFinish
<1>10. CASE RunnerClose(k)
  BY <1>10, <1>same, WriteTypeOK, TaskStep DEF RunnerClose, Exit
<1>11. CASE RunnerRecover(k)
  <2>1. status[k] \in Status
    BY <1>11 DEF RunnerRecover, TasksHaveRows
  <2>. QED
    BY <1>11, <2>1, <1>fail DEF RunnerRecover
<1>12. CASE RunnerError(k)
  BY <1>12, <1>goto DEF RunnerError
<1>. QED
  BY <1>1, <1>2, <1>3, <1>4, <1>5, <1>6, <1>7, <1>8, <1>9, <1>10, <1>11, <1>12 DEF Runner

(* The events from outside a job.                                          *)
World ==
  \/ \E k \in Attempt : CancelRead(k) \/ CancelCommit(k) \/ Expire(k)
  \/ \E u \in Unit, p \in Payload : Reject(u, p)
  \/ ChangeAccess \/ ChangeEvidence \/ Restart

LEMMA DisturbTypeOK == TypeOK /\ Disturb => disturbances' \in 0..MaxDisturbances
BY JobConstants DEF TypeOK, Disturb

LEMMA WorldTypeOK ==
  ASSUME TypeOK, World
  PROVE  TypeOK'
<1>1. ASSUME NEW k \in Attempt, CancelRead(k) \/ CancelCommit(k) \/ Expire(k)
      PROVE  TypeOK'
  BY <1>1, DisturbTypeOK DEF TypeOK, CancelRead, CancelCommit, Expire, rows, world
<1>2. ASSUME NEW u \in Unit, NEW p \in Payload, Reject(u, p)
      PROVE  TypeOK'
  <2>1. artifacts' \in [Unit -> [Payload -> ArtifactStatus]]
    BY <1>2 DEF Reject, TypeOK, ArtifactStatus
  <2>. QED
    BY <1>2, <2>1, DisturbTypeOK DEF TypeOK, Reject, rows, world
<1>3. CASE ChangeAccess \/ ChangeEvidence
  BY <1>3, DisturbTypeOK DEF TypeOK, ChangeAccess, ChangeEvidence, rows
<1>4. CASE Restart
  BY <1>4, BlankRecords, DisturbTypeOK DEF TypeOK, Restart, rows
<1>. QED
  BY <1>1, <1>2, <1>3, <1>4 DEF World

-----------------------------------------------------------------------------
(* What a step may do to a row and to a task, action by action.            *)

(* The moves of the row of attempt k, its task being the only one to move. *)
OwnMove(k) ==
  /\ \A j \in Attempt \ {k} : status'[j] = status[j] /\ run'[j] = run[j]
  /\ run'[k].pc # "queued"
  /\ \/ UNCHANGED status
     \/ status'[k] = "running" /\ run[k].pc = "start" /\ run'[k].pc = "fetch"
     \/ /\ status'[k] \in TERMINAL_STATUSES
        /\ run[k].pc \in {"finish", "close"}
        /\ run'[k] = Task("done")
        /\ status'[k] = "succeeded" => run[k].pc = "finish" /\ ~run[k].bad /\ ~run[k].err

LEMMA RunnerEffect ==
  ASSUME TypeOK, NEW k \in Attempt, Runner(k) \/ RunnerError(k)
  PROVE  /\ OwnMove(k)
         /\ UNCHANGED <<sub, cancel>>
<1>. /\ status \in [Attempt -> Status \cup {"absent"}]
     /\ run \in [Attempt -> RunState]
     /\ run[k].to \in {"failed", "canceled"}
     /\ Task("done").pc # "queued"
  BY DEF TypeOK, RunState, Task
<1>set. ASSUME NEW r, SetRun(k, r), r.pc # "queued", UNCHANGED rows
        PROVE  OwnMove(k)
  BY <1>set DEF SetRun, OwnMove, rows
<1>fail. ASSUME NEW m, fail_job(k, m), UNCHANGED rows
         PROVE  OwnMove(k)
  BY <1>fail, <1>set DEF fail_job, Exit, RunState
<1>goto. ASSUME NEW pc \in {"start", "poll", "call", "recover"}, Goto(k, pc), UNCHANGED rows
         PROVE  OwnMove(k)
  BY <1>goto, <1>set DEF Goto, RunState
<1>trans. ASSUME NEW m, NEW to, transition(k, m, to), UNCHANGED rows
          PROVE  OwnMove(k)
  BY <1>trans, <1>set, <1>goto DEF transition, RunState
<1>1. CASE RunnerRead(k)
  BY <1>1, <1>set DEF RunnerRead, Exit, rows, RunState
<1>2. CASE RunnerAuthorize(k)
  BY <1>2, <1>fail, <1>trans, <1>goto DEF RunnerAuthorize, rows
<1>3. CASE RunnerStart(k)
  BY <1>3 DEF RunnerStart, Write, SetRun, OwnMove, RunState
<1>4. CASE RunnerFetch(k)
  BY <1>4, <1>goto DEF RunnerFetch, rows
<1>5. CASE RunnerPoll(k)
  BY <1>5, <1>fail, <1>trans, <1>set DEF RunnerPoll, rows, RunState
<1>6. CASE RunnerWork(k)
  BY <1>6, <1>set, <1>goto DEF RunnerWork, rows, RunState
<1>7. CASE RunnerCall(k)
  BY <1>7, <1>set DEF RunnerCall, rows, RunState
<1>8. CASE RunnerSave(k)
  BY <1>8, <1>set, <1>goto DEF RunnerSave, rows, RunState, AfterUnit
<1>9. CASE RunnerFinish(k)
  <2>1. CASE Write(k, FinalStatus(run[k])) /\ Exit(k)
    <3>1. /\ FinalStatus(run[k]) \in TERMINAL_STATUSES
          /\ FinalStatus(run[k]) = "succeeded" => ~run[k].bad /\ ~run[k].err
      BY DEF FinalStatus, TERMINAL_STATUSES
    <3>. QED
      BY <1>9, <2>1, <3>1 DEF RunnerFinish, Write, Exit, SetRun, OwnMove
  <2>2. UNCHANGED <<sub, cancel>>
    BY <1>9 DEF RunnerFinish, Write, rows
  <2>3. CASE UNCHANGED rows /\ (Exit(k) \/ Goto(k, "recover"))
    BY <2>2, <2>3, <1>set, <1>goto DEF Exit
  <2>. QED
    BY <1>9, <2>1, <2>2, <2>3 DEF RunnerFinish
<1>10. CASE RunnerClose(k)
  BY <1>10 DEF RunnerClose, Write, Exit, SetRun, OwnMove, TERMINAL_STATUSES
<1>11. CASE RunnerRecover(k)
  BY <1>11, <1>fail DEF RunnerRecover, rows
<1>12. CASE RunnerError(k)
  BY <1>12, <1>goto DEF RunnerError, rows
<1>. QED
  BY <1>1, <1>2, <1>3, <1>4, <1>5, <1>6, <1>7, <1>8, <1>9, <1>10, <1>11, <1>12 DEF Runner

LEMMA SubmitEffect ==
  ASSUME TypeOK, NEW s \in Submitter, Submit(s) \/ SubmitAbort(s)
  PROVE  /\ UNCHANGED <<artifacts, world, canceling, cancel, disturbances>>
         /\ \A t \in Submitter \ {s} : sub'[t] = sub[t]
         /\ SubmitCommit(s) \/ UNCHANGED <<rows, run>>
BY DEF TypeOK, Submit, SubmitRead, SubmitFlush, SubmitCount, SubmitSelect, SubmitInsert,
   SubmitCommit, SubmitAbort, SetSub, rows

LEMMA WorldEffect ==
  ASSUME TypeOK, World
  PROVE  /\ UNCHANGED status
         /\ \A k \in Attempt : run'[k] = run[k] \/ (TaskAlive(k) /\ run'[k] = Task("lost"))
         /\ UNCHANGED sub \/ sub' = [s \in Submitter |-> Idle]
<1>1. CASE Restart
  <2>1. ASSUME NEW k \in Attempt
        PROVE  run'[k] = run[k] \/ (TaskAlive(k) /\ run'[k] = Task("lost"))
    <3>1. run'[k] = IF TaskAlive(k) THEN Task("lost") ELSE run[k]
      BY <1>1 DEF Restart
    <3>2. CASE TaskAlive(k)
      BY <3>1, <3>2
    <3>3. CASE ~TaskAlive(k)
      BY <3>1, <3>3
    <3>. QED
      BY <3>2, <3>3
  <2>2. UNCHANGED status /\ sub' = [s \in Submitter |-> Idle]
    BY <1>1 DEF Restart, rows
  <2>. QED
    BY <2>1, <2>2
<1>2. CASE UNCHANGED <<status, run, sub>>
  BY <1>2
<1>3. ASSUME NEW k \in Attempt, CancelRead(k) \/ CancelCommit(k) \/ Expire(k)
      PROVE  UNCHANGED <<status, run, sub>>
  BY <1>3 DEF CancelRead, CancelCommit, Expire, rows
<1>4. ASSUME NEW u \in Unit, NEW p \in Payload, Reject(u, p)
      PROVE  UNCHANGED <<status, run, sub>>
  BY <1>4 DEF Reject, rows
<1>5. ASSUME ChangeAccess \/ ChangeEvidence
      PROVE  UNCHANGED <<status, run, sub>>
  BY <1>5 DEF ChangeAccess, ChangeEvidence, rows
<1>. QED
  BY <1>1, <1>2, <1>3, <1>4, <1>5 DEF World

(* Every step belongs to a session, a task or the world.                   *)
LEMMA StepCases ==
  ASSUME [Next]_vars
  PROVE  \/ \E s \in Submitter : Submit(s) \/ SubmitAbort(s)
         \/ \E k \in Attempt : Runner(k) \/ RunnerError(k)
         \/ World
         \/ UNCHANGED vars
BY DEF Next, World

LEMMA StepTypeOK ==
  ASSUME TypeOK, TasksHaveRows, [Next]_vars
  PROVE  TypeOK' /\ TasksHaveRows'
<1>1. ASSUME NEW s \in Submitter, Submit(s) \/ SubmitAbort(s)
      PROVE  TypeOK' /\ TasksHaveRows'
  <2>1. CASE SubmitCommit(s)
    BY <1>1, <2>1, SubmitTypeOK DEF SubmitCommit, SubState, TasksHaveRows, TypeOK
  <2>2. CASE UNCHANGED <<rows, run>>
    BY <1>1, <2>2, SubmitTypeOK DEF rows, TasksHaveRows
  <2>. QED
    BY <1>1, <2>1, <2>2, SubmitEffect
<1>2. ASSUME NEW k \in Attempt, Runner(k) \/ RunnerError(k)
      PROVE  TypeOK' /\ TasksHaveRows'
  <2>1. run[k].pc # "none"
    BY <1>2 DEF Runner, RunnerError, RunnerRead, RunnerAuthorize, RunnerStart, RunnerFetch,
       RunnerPoll, RunnerWork, RunnerCall, RunnerSave, RunnerFinish, RunnerClose, RunnerRecover
  <2>2. OwnMove(k)
    BY <1>2, RunnerEffect
  <2>3. TasksHaveRows'
    BY <2>1, <2>2 DEF OwnMove, TasksHaveRows, TERMINAL_STATUSES
  <2>. QED
    BY <1>2, <2>3, RunnerTypeOK
<1>3. CASE World
  <2>1. TasksHaveRows'
    BY <1>3, WorldEffect DEF TasksHaveRows, TaskAlive, Ended
  <2>. QED
    BY <1>3, <2>1, WorldTypeOK
<1>4. CASE UNCHANGED vars
  BY <1>4 DEF vars, rows, world, TypeOK, TasksHaveRows
<1>. QED
  BY <1>1, <1>2, <1>3, <1>4, StepCases

(* Every variable keeps its type, in every reachable state.                *)
THEOREM TypeCorrect == Spec => []TypeOK
<1>1. Init => TypeOK /\ TasksHaveRows
  BY InitTypeOK
<1>2. TypeOK /\ TasksHaveRows /\ [Next]_vars => (TypeOK /\ TasksHaveRows)'
  BY StepTypeOK
<1>. QED
  BY <1>1, <1>2, PTL DEF Spec

-----------------------------------------------------------------------------
(* The submit sessions.  Attempt numbers stay contiguous because a number  *)
(* is a row count, which names the attempt after the last one, and because *)
(* between the count and the commit rows are only added.                   *)

(* The number in hand follows rows that exist.                             *)
Claimed(s) ==
  sub[s].pc \in {"select", "insert", "commit"} =>
    /\ sub[s].attempt \in Attempt
    /\ \A j \in 1..(sub[s].attempt - 1) : j \in Present

(* A flushed INSERT is not visible yet.                                    *)
Inserted(s) == sub[s].created => sub[s].pc = "commit" /\ sub[s].attempt \notin Present

SeenExists(s) == sub[s].seen # 0 => sub[s].seen \in Present

(* The unique key: one uncommitted INSERT of an attempt.                   *)
UniqueKey ==
  \A s, t \in Submitter :
    sub[s].created /\ sub[t].created /\ sub[s].attempt = sub[t].attempt => s = t

SessionInv ==
  /\ \A s \in Submitter : Claimed(s) /\ Inserted(s) /\ SeenExists(s)
  /\ UniqueKey
  /\ AttemptsContiguous

(* A row count of contiguous rows is the number of the newest row.         *)
LEMMA CountNamesNewest ==
  ASSUME AttemptsContiguous
  PROVE  /\ Cardinality(Present) \in Nat
         /\ \A j \in 1..Cardinality(Present) : j \in Present
<1>1. Present \subseteq 1..MaxAttempts /\ IsFiniteSet(1..MaxAttempts)
  BY FS_Interval, JobConstants DEF Present, Attempt
<1>2. IsFiniteSet(Present)
  BY <1>1, FS_Subset
<1>3. Cardinality(Present) \in Nat
  BY <1>2, FS_CardinalityType
<1>4. ASSUME NEW j \in 1..Cardinality(Present), j \notin Present
      PROVE  FALSE
  <2>1. j \in Nat \ {0} /\ j <= Cardinality(Present)
    BY <1>3, <1>4
  <2>2. ASSUME NEW k \in Present
        PROVE  k \in 1..(j - 1)
    <3>1. k \in Nat \ {0}
      BY <1>1, JobConstants
    <3>2. ~(j <= k)
      BY <1>4, <2>1, <3>1 DEF AttemptsContiguous
    <3>. QED
      BY <2>1, <3>1, <3>2
  <2>3. Cardinality(1..(j - 1)) = j - 1 /\ IsFiniteSet(1..(j - 1))
    BY <2>1, FS_Interval
  <2>4. Cardinality(Present) <= Cardinality(1..(j - 1))
    BY <2>2, <2>3, FS_Subset
  <2>. QED
    BY <1>3, <2>1, <2>3, <2>4
<1>. QED
  BY <1>3, <1>4

LEMMA InitSessionInv == Init => SessionInv
BY DEF Init, SessionInv, Claimed, Inserted, SeenExists, UniqueKey, AttemptsContiguous, Idle,
   Present

(* A session that moves without committing leaves the rows alone: what     *)
(* remains to check is its own record and the key it inserts.              *)
LEMMA SessionMove ==
  ASSUME TypeOK, SessionInv, NEW s \in Submitter, NEW r \in SubState, SetSub(s, r),
         UNCHANGED status,
         r.pc \in {"select", "insert", "commit"} =>
           /\ r.attempt \in Attempt
           /\ \A j \in 1..(r.attempt - 1) : j \in Present,
         r.created => r.pc = "commit" /\ r.attempt \notin Present,
         r.seen # 0 => r.seen \in Present,
         r.created => \A t \in Submitter \ {s} : ~(sub[t].created /\ sub[t].attempt = r.attempt)
  PROVE  SessionInv'
<1>1. Present' = Present
  BY DEF Present
<1>2. sub'[s] = r /\ \A t \in Submitter \ {s} : sub'[t] = sub[t]
  BY DEF SetSub, TypeOK
<1>3. ASSUME NEW t \in Submitter
      PROVE  (Claimed(t) /\ Inserted(t) /\ SeenExists(t))'
  BY <1>1, <1>2 DEF SessionInv, Claimed, Inserted, SeenExists
<1>4. UniqueKey'
  BY <1>2 DEF SessionInv, UniqueKey
<1>5. AttemptsContiguous'
  BY <1>1 DEF SessionInv, AttemptsContiguous
<1>. QED
  BY <1>3, <1>4, <1>5 DEF SessionInv

LEMMA SubmitSessionInv ==
  ASSUME TypeOK, SessionInv, NEW s \in Submitter, Submit(s) \/ SubmitAbort(s)
  PROVE  SessionInv'
<1>. sub[s] \in SubState /\ Idle \in SubState
  BY BlankRecords DEF TypeOK
<1>inv. Claimed(s) /\ Inserted(s) /\ SeenExists(s)
  BY DEF SessionInv
<1>idle. ASSUME SetSub(s, Idle), UNCHANGED status
         PROVE  SessionInv'
  BY <1>idle, SessionMove DEF Idle
<1>1. CASE SubmitRead(s)
  <2>1. ASSUME SetSub(s, [Idle EXCEPT !.pc = "count"])
        PROVE  SessionInv'
    BY <1>1, <2>1, SubRecords, SessionMove DEF SubmitRead, Idle, rows
  <2>2. ASSUME NEW k \in ActiveJobs,
               SetSub(s, [Idle EXCEPT !.pc = "flush", !.seen = k, !.to = ClearedTo(k)])
        PROVE  SessionInv'
    <3>1. k \in Attempt /\ k \in Present /\ ClearedTo(k) \in {"failed", "canceled"}
      BY DEF ActiveJobs, ClearedTo, Active, Present
    <3>2. [Idle EXCEPT !.pc = "flush", !.seen = k, !.to = ClearedTo(k)] \in SubState
      BY <3>1, SubRecords
    <3>. QED
      BY <1>1, <2>2, <3>1, <3>2, SessionMove DEF SubmitRead, Idle, rows
  <2>. QED
    BY <1>1, <2>1, <2>2 DEF SubmitRead
<1>2. CASE SubmitFlush(s)
  <2>1. [sub[s] EXCEPT !.pc = "count"] \in SubState
    BY SubRecords
  <2>. QED
    BY <1>2, <1>inv, <2>1, SessionMove
       DEF SubmitFlush, SubState, rows, Inserted, SeenExists
<1>3. CASE SubmitCount(s)
  <2> DEFINE n == attempt_count + 1
  <2>1. CASE n \in Attempt /\ SetSub(s, [sub[s] EXCEPT !.pc = "select", !.attempt = n])
    <3>1. n - 1 = Cardinality(Present) /\ \A j \in 1..(n - 1) : j \in Present
      BY CountNamesNewest DEF SessionInv, attempt_count
    <3>2. [sub[s] EXCEPT !.pc = "select", !.attempt = n] \in SubState
      BY <2>1, SubRecords
    <3>3. sub[s].pc # "commit" /\ UNCHANGED status
      BY <1>3 DEF SubmitCount, rows
    <3>. HIDE DEF n
    <3>. QED
      BY <1>inv, <2>1, <3>1, <3>2, <3>3, SessionMove DEF SubState, Inserted, SeenExists
  <2>. QED
    BY <1>3, <2>1, <1>idle DEF SubmitCount, rows
<1>4. CASE SubmitSelect(s)
  <2> DEFINE pc == IF sub[s].attempt \in Present THEN "commit" ELSE "insert"
  <2>1. SetSub(s, [sub[s] EXCEPT !.pc = pc]) /\ pc \in {"insert", "commit"}
    BY <1>4 DEF SubmitSelect
  <2>. HIDE DEF pc
  <2>2. [sub[s] EXCEPT !.pc = pc] \in SubState
    BY <2>1, SubRecords
  <2>. QED
    BY <1>4, <1>inv, <2>1, <2>2, SessionMove
       DEF SubmitSelect, SubState, rows, Claimed, Inserted, SeenExists
<1>5. CASE SubmitInsert(s)
  <2>1. CASE sub[s].attempt \notin Present
    <3>1. [sub[s] EXCEPT !.pc = "commit", !.created = TRUE] \in SubState
      BY SubRecords
    <3>2. \A t \in Submitter \ {s} : ~(sub[t].created /\ sub[t].attempt = sub[s].attempt)
      BY <1>5 DEF SubmitInsert, KeyPending, SessionInv, Inserted
    <3>. QED
      BY <1>5, <1>inv, <2>1, <3>1, <3>2, SessionMove
         DEF SubmitInsert, SubState, rows, Claimed, Inserted, SeenExists
  <2>. QED
    BY <1>5, <2>1, <1>idle DEF SubmitInsert, rows
<1>6. CASE SubmitCommit(s)
  <2> DEFINE me == sub[s]
  <2>1. Present \subseteq Present'
    BY <1>6 DEF SubmitCommit, Present, SubState
  <2>2. \A k \in Present' : k \in Present \/ (me.created /\ k = me.attempt)
    BY <1>6, <1>inv DEF SubmitCommit, Present, SeenExists, TypeOK, SubState, Attempt
  <2>3. sub'[s] = Idle /\ \A t \in Submitter \ {s} : sub'[t] = sub[t]
    BY <1>6 DEF SubmitCommit, SetSub, TypeOK
  <2>4. ASSUME NEW t \in Submitter
        PROVE  (Claimed(t) /\ Inserted(t) /\ SeenExists(t))'
    <3>1. CASE t = s
      BY <2>3, <3>1 DEF Claimed, Inserted, SeenExists, Idle
    <3>2. CASE t # s
      <4>1. sub'[t] = sub[t] /\ Claimed(t) /\ Inserted(t) /\ SeenExists(t)
        BY <2>3, <3>2 DEF SessionInv
      <4>2. sub[t].created => ~(me.created /\ sub[t].attempt = me.attempt)
        BY <3>2 DEF SessionInv, UniqueKey
      <4>. QED
        BY <2>1, <2>2, <4>1, <4>2 DEF Claimed, Inserted, SeenExists
    <3>. QED
      BY <3>1, <3>2
  <2>5. UniqueKey'
    BY <2>3 DEF SessionInv, UniqueKey, Idle
  <2>6. ASSUME NEW k \in Present', NEW j \in 1..k
        PROVE  j \in Present'
    <3>1. CASE k \in Present
      BY <2>1, <2>6, <3>1 DEF SessionInv, AttemptsContiguous
    <3>2. CASE me.created /\ k = me.attempt
      <4>1. k \in Attempt /\ \A i \in 1..(k - 1) : i \in Present
        BY <1>6, <1>inv, <3>2 DEF SubmitCommit, Claimed
      <4>2. j = k \/ j \in 1..(k - 1)
        BY <4>1, AttemptRange
      <4>. QED
        BY <2>1, <2>6, <4>1, <4>2
    <3>. QED
      BY <2>2, <3>1, <3>2
  <2>. QED
    BY <2>4, <2>5, <2>6 DEF SessionInv, AttemptsContiguous
<1>7. CASE SubmitAbort(s)
  BY <1>7, <1>idle DEF SubmitAbort, rows
<1>. QED
  BY <1>1, <1>2, <1>3, <1>4, <1>5, <1>6, <1>7 DEF Submit

LEMMA StepSessionInv ==
  ASSUME TypeOK, TasksHaveRows, SessionInv, [Next]_vars
  PROVE  SessionInv'
<1>rows. ASSUME UNCHANGED sub, Present' = Present
         PROVE  SessionInv'
  BY <1>rows DEF SessionInv, Claimed, Inserted, SeenExists, UniqueKey, AttemptsContiguous
<1>1. ASSUME NEW k \in Attempt, Runner(k) \/ RunnerError(k)
      PROVE  SessionInv'
  <2>1. run[k].pc # "none"
    BY <1>1 DEF Runner, RunnerError, RunnerRead, RunnerAuthorize, RunnerStart, RunnerFetch,
       RunnerPoll, RunnerWork, RunnerCall, RunnerSave, RunnerFinish, RunnerClose, RunnerRecover
  <2>2. OwnMove(k) /\ UNCHANGED sub
    BY <1>1, RunnerEffect
  <2>3. Present' = Present
    BY <2>1, <2>2 DEF OwnMove, TasksHaveRows, Present, TERMINAL_STATUSES
  <2>. QED
    BY <2>2, <2>3, <1>rows
<1>2. CASE World
  <2>1. UNCHANGED status /\ (UNCHANGED sub \/ sub' = [s \in Submitter |-> Idle])
    BY <1>2, WorldEffect
  <2>2. CASE UNCHANGED sub
    BY <2>1, <2>2, <1>rows DEF Present
  <2>3. CASE sub' = [s \in Submitter |-> Idle]
    BY <2>1, <2>3 DEF Idle, SessionInv, Claimed, Inserted, SeenExists, UniqueKey,
       AttemptsContiguous, Present
  <2>. QED
    BY <2>1, <2>2, <2>3
<1>3. CASE UNCHANGED vars
  BY <1>3, <1>rows DEF vars, rows, Present
<1>. QED
  BY <1>1, <1>2, <1>3, SubmitSessionInv, StepCases

(* Attempt numbers have no gap, whichever sessions raced (submit_extraction). *)
THEOREM AttemptsAreContiguous == Spec => []AttemptsContiguous
<1>1. Init => TypeOK /\ TasksHaveRows /\ SessionInv
  BY InitTypeOK, InitSessionInv
<1>2. TypeOK /\ TasksHaveRows /\ SessionInv /\ [Next]_vars
        => (TypeOK /\ TasksHaveRows /\ SessionInv)'
  BY StepTypeOK, StepSessionInv
<1>3. SessionInv => AttemptsContiguous
  BY DEF SessionInv
<1>. QED
  BY <1>1, <1>2, <1>3, PTL DEF Spec

LEMMA StepStartsOnce ==
  ASSUME TypeOK, TasksHaveRows, SessionInv, [Next]_vars
  PROVE  [\A k \in Attempt : run'[k].pc = "queued" => run[k].pc \in {"none", "queued"}]_vars
<1>1. ASSUME NEW s \in Submitter, Submit(s) \/ SubmitAbort(s), NEW k \in Attempt,
             run'[k].pc = "queued"
      PROVE  run[k].pc \in {"none", "queued"}
  <2>1. CASE UNCHANGED run
    BY <1>1, <2>1
  <2>2. CASE SubmitCommit(s) /\ sub[s].created /\ sub[s].attempt = k
    BY <2>2 DEF SessionInv, Inserted, Present, TasksHaveRows
  <2>3. CASE SubmitCommit(s) /\ ~(sub[s].created /\ sub[s].attempt = k)
    BY <1>1, <2>3 DEF SubmitCommit, TypeOK
  <2>. QED
    BY <1>1, <2>1, <2>2, <2>3, SubmitEffect
<1>2. ASSUME NEW j \in Attempt, Runner(j) \/ RunnerError(j), NEW k \in Attempt,
             run'[k].pc = "queued"
      PROVE  run[k].pc \in {"none", "queued"}
  BY <1>2, RunnerEffect DEF OwnMove
<1>3. ASSUME World, NEW k \in Attempt, run'[k].pc = "queued"
      PROVE  run[k].pc \in {"none", "queued"}
  BY <1>3, WorldEffect DEF Task
<1>. QED
  BY <1>1, <1>2, <1>3, StepCases

(* No attempt is handed to a background task twice: the inserting session  *)
(* holds the only claim on its number (created=False for every other one). *)
THEOREM StartsOnce == Spec => StartedOnce
<1>1. Init => TypeOK /\ TasksHaveRows /\ SessionInv
  BY InitTypeOK, InitSessionInv
<1>2. TypeOK /\ TasksHaveRows /\ SessionInv /\ [Next]_vars
        => (TypeOK /\ TasksHaveRows /\ SessionInv)'
  BY StepTypeOK, StepSessionInv
<1>3. TypeOK /\ TasksHaveRows /\ SessionInv /\ [Next]_vars
        => [\A k \in Attempt : run'[k].pc = "queued" => run[k].pc \in {"none", "queued"}]_vars
  BY StepStartsOnce
<1>. QED
  BY <1>1, <1>2, <1>3, PTL DEF Spec, StartedOnce

-----------------------------------------------------------------------------
(* The background tasks.  A task ends only on a terminal row because its   *)
(* copy of the row, stale as it may be, is never terminal before the row.  *)

(* What a task with record r knows of its row, whose status is st.         *)
TaskAgrees(st, r) ==
  /\ r.pc = "done" => st \in TERMINAL_STATUSES
  /\ r.pc \in {"queued", "authorize", "start"} => st # "running" /\ r.mem = "pending"
  /\ r.pc \in {"fetch", "poll", "work", "call", "save", "finish"} => st # "pending"
  /\ r.pc \in {"work", "call", "save", "finish"} =>
       /\ r.mem # "pending"
       /\ r.mem \in TERMINAL_STATUSES => st \in TERMINAL_STATUSES

TaskInv == \A k \in Attempt : TaskAgrees(status[k], run[k])

JobInv == TypeOK /\ TasksHaveRows /\ SessionInv /\ TaskInv

LEMMA TerminalAgrees ==
  ASSUME NEW st \in TERMINAL_STATUSES, NEW r \in RunState,
         r.pc \in {"queued", "authorize", "start"} => r.mem = "pending",
         r.pc \in {"work", "call", "save", "finish"} => r.mem # "pending"
  PROVE  TaskAgrees(st, r)
BY DEF TaskAgrees, TERMINAL_STATUSES

LEMMA StatusKinds ==
  /\ Status = {"pending", "running"} \cup TERMINAL_STATUSES
  /\ TERMINAL_STATUSES = {"succeeded", "partial", "failed", "canceled"}
BY DEF Status, Active, TERMINAL_STATUSES

LEMMA RunnerTaskInv ==
  ASSUME JobInv, NEW k \in Attempt, Runner(k) \/ RunnerError(k)
  PROVE  TaskAgrees(status'[k], run'[k])
<1>. /\ run[k] \in RunState /\ run \in [Attempt -> RunState]
     /\ status[k] \in Status \cup {"absent"} /\ status \in [Attempt -> Status \cup {"absent"}]
     /\ TaskAgrees(status[k], run[k])
     /\ status[k] = "absent" => run[k].pc = "none"
  BY DEF JobInv, TypeOK, TaskInv, TasksHaveRows
<1>. DEFINE st == status[k]
            me == run[k]
<1>set. ASSUME NEW r, SetRun(k, r), UNCHANGED rows, TaskAgrees(st, r)
        PROVE  TaskAgrees(status'[k], run'[k])
  BY <1>set DEF SetRun, rows
<1>done. ASSUME Exit(k), UNCHANGED rows, st \in TERMINAL_STATUSES
         PROVE  TaskAgrees(status'[k], run'[k])
  <2>1. TaskAgrees(st, Task("done"))
    BY <1>done DEF Task, TaskAgrees
  <2>. QED
    BY <1>done, <1>set, <2>1 DEF Exit
<1>recover. ASSUME Goto(k, "recover"), UNCHANGED rows
            PROVE  TaskAgrees(status'[k], run'[k])
  <2>1. TaskAgrees(st, [me EXCEPT !.pc = "recover"])
    BY DEF TaskAgrees, RunState
  <2>. QED
    BY <1>recover, <1>set, <2>1 DEF Goto
<1>close. ASSUME NEW m, NEW to, SetRun(k, [me EXCEPT !.pc = "close", !.mem = m, !.to = to]),
                 UNCHANGED rows
          PROVE  TaskAgrees(status'[k], run'[k])
  <2>1. TaskAgrees(st, [me EXCEPT !.pc = "close", !.mem = m, !.to = to])
    BY DEF TaskAgrees, RunState
  <2>. QED
    BY <1>close, <1>set, <2>1
<1>fail. ASSUME NEW m, fail_job(k, m), UNCHANGED rows,
                m \in TERMINAL_STATUSES => st \in TERMINAL_STATUSES
         PROVE  TaskAgrees(status'[k], run'[k])
  BY <1>fail, <1>close, <1>done DEF fail_job
<1>trans. ASSUME NEW m, NEW to, transition(k, m, to), UNCHANGED rows
          PROVE  TaskAgrees(status'[k], run'[k])
  BY <1>trans, <1>close, <1>recover DEF transition
<1>1. CASE RunnerRead(k)
  <2>1. CASE st = "pending"
    <3>1. ASSUME NEW b
          PROVE  TaskAgrees(st, [me EXCEPT !.pc = "authorize", !.flagged = b])
      BY <1>1, <2>1 DEF RunnerRead, TaskAgrees, RunState
    <3>. QED
      BY <1>1, <2>1, <3>1, <1>set DEF RunnerRead, rows
  <2>2. CASE st # "pending"
    <3>1. st \in TERMINAL_STATUSES
      BY <1>1, <2>2, StatusKinds DEF RunnerRead, TaskAgrees
    <3>. QED
      BY <1>1, <2>2, <3>1, <1>done DEF RunnerRead, rows
  <2>. QED
    BY <2>1, <2>2
<1>2. CASE RunnerAuthorize(k)
  <2>1. me.pc = "authorize" /\ me.mem = "pending" /\ UNCHANGED rows
    BY <1>2 DEF RunnerAuthorize, TaskAgrees
  <2>2. TaskAgrees(st, [me EXCEPT !.pc = "start"])
    BY <2>1 DEF TaskAgrees, RunState
  <2>. QED
    BY <1>2, <2>1, <2>2, <1>fail, <1>trans, <1>set DEF RunnerAuthorize, Goto, TERMINAL_STATUSES
<1>3. CASE RunnerStart(k)
  BY <1>3 DEF RunnerStart, Write, SetRun, TaskAgrees, RunState
<1>4. CASE RunnerFetch(k)
  <2>1. TaskAgrees(st, [me EXCEPT !.pc = "poll"])
    BY <1>4 DEF RunnerFetch, TaskAgrees, RunState
  <2>. QED
    BY <1>4, <2>1, <1>set, <1>recover DEF RunnerFetch, Goto, rows
<1>5. CASE RunnerPoll(k)
  <2>1. UNCHANGED rows /\ Refreshed(k).mem = st /\ me.pc = "poll"
    BY <1>5 DEF RunnerPoll, Refreshed
  <2>2. TaskAgrees(st, [me EXCEPT !.pc = "work", !.mem = st])
    BY <2>1 DEF TaskAgrees, RunState
  <2>. QED
    BY <1>5, <2>1, <2>2, <1>fail, <1>trans, <1>set DEF RunnerPoll
<1>6. CASE RunnerWork(k)
  <2>1. TaskAgrees(st, [me EXCEPT !.pc = "save", !.good = TRUE])
    BY <1>6 DEF RunnerWork, TaskAgrees, RunState
  <2>2. TaskAgrees(st, [me EXCEPT !.pc = "call"])
    BY <1>6 DEF RunnerWork, TaskAgrees, RunState
  <2>. QED
    BY <1>6, <2>1, <2>2, <1>set DEF RunnerWork, Goto, rows
<1>7. CASE RunnerCall(k)
  <2>1. TaskAgrees(st, [me EXCEPT !.pc = "finish", !.err = TRUE])
    BY <1>7 DEF RunnerCall, TaskAgrees, RunState
  <2>2. ASSUME NEW p, NEW f, NEW g, NEW b
        PROVE  TaskAgrees(st, [me EXCEPT !.pc = "save", !.out = p, !.fresh = f,
                                         !.good = g, !.bad = b])
    BY <1>7 DEF RunnerCall, TaskAgrees, RunState
  <2>. QED
    BY <1>7, <2>1, <2>2, <1>set DEF RunnerCall, rows
<1>8. CASE RunnerSave(k)
  <2>1. TaskAgrees(st, AfterUnit(me))
    BY <1>8 DEF RunnerSave, AfterUnit, TaskAgrees, RunState
  <2>. QED
    BY <1>8, <2>1, <1>set, <1>recover DEF RunnerSave, rows
<1>9. CASE RunnerFinish(k)
  <2>1. CASE Write(k, FinalStatus(me)) /\ Exit(k)
    BY <2>1 DEF Write, Exit, SetRun, Task, TaskAgrees, FinalStatus, TERMINAL_STATUSES
  <2>2. CASE UNCHANGED rows /\ FinalStatus(me) \notin ALLOWED_TRANSITIONS[me.mem]
    <3>1. me.mem \in Status /\ FinalStatus(me) \in TERMINAL_STATUSES
      BY DEF RunState, FinalStatus, TERMINAL_STATUSES
    <3>2. me.mem \in TERMINAL_STATUSES
      BY <1>9, <2>2, <3>1, StatusKinds DEF RunnerFinish, ALLOWED_TRANSITIONS, TaskAgrees
    <3>3. st \in TERMINAL_STATUSES
      BY <1>9, <3>2 DEF RunnerFinish, TaskAgrees
    <3>. QED
      BY <1>9, <2>2, <3>3, <1>done, <1>recover DEF RunnerFinish
  <2>. QED
    BY <1>9, <2>1, <2>2 DEF RunnerFinish
<1>10. CASE RunnerClose(k)
  BY <1>10 DEF RunnerClose, Write, Exit, SetRun, Task, TaskAgrees, RunState, TERMINAL_STATUSES
<1>11. CASE RunnerRecover(k)
  BY <1>11, <1>fail DEF RunnerRecover, rows
<1>12. CASE RunnerError(k)
  BY <1>12, <1>recover DEF RunnerError, rows
<1>. QED
  BY <1>1, <1>2, <1>3, <1>4, <1>5, <1>6, <1>7, <1>8, <1>9, <1>10, <1>11, <1>12 DEF Runner

(* A commit of the submit route opens a row with a queued task or gives a  *)
(* stale row a terminal status, which every task agrees with.              *)
LEMMA SubmitTaskInv ==
  ASSUME JobInv, NEW s \in Submitter, Submit(s) \/ SubmitAbort(s), NEW k \in Attempt
  PROVE  TaskAgrees(status'[k], run'[k])
<1>. /\ run[k] \in RunState
     /\ sub[s] \in SubState
     /\ TaskAgrees(status[k], run[k])
     /\ Inserted(s)
     /\ status[k] = "absent" => run[k].pc = "none"
  BY DEF JobInv, TypeOK, TaskInv, TasksHaveRows, SessionInv
<1>1. CASE UNCHANGED <<rows, run>>
  BY <1>1 DEF rows
<1>2. CASE SubmitCommit(s)
  <2>1. CASE sub[s].created /\ k = sub[s].attempt
    <3>1. status'[k] = "pending" /\ run'[k] = Task("queued")
      BY <1>2, <2>1 DEF SubmitCommit, JobInv, TypeOK
    <3>. QED
      BY <3>1 DEF TaskAgrees, Task
  <2>2. CASE ~(sub[s].created /\ k = sub[s].attempt)
    <3>1. run'[k] = run[k] /\ (status'[k] = status[k] \/ status'[k] = sub[s].to)
      BY <1>2, <2>2 DEF SubmitCommit, JobInv, TypeOK
    <3>2. sub[s].to \in TERMINAL_STATUSES
      BY DEF SubState, TERMINAL_STATUSES
    <3>. QED
      BY <3>1, <3>2, TerminalAgrees DEF TaskAgrees
  <2>. QED
    BY <2>1, <2>2
<1>. QED
  BY <1>1, <1>2, SubmitEffect DEF JobInv

LEMMA StepJobInv ==
  ASSUME JobInv, [Next]_vars
  PROVE  JobInv'
<1>1. (TypeOK /\ TasksHaveRows /\ SessionInv)'
  BY StepTypeOK, StepSessionInv DEF JobInv
<1>2. ASSUME NEW j \in Attempt, Runner(j) \/ RunnerError(j), NEW k \in Attempt
      PROVE  TaskAgrees(status'[k], run'[k])
  <2>1. CASE j = k
    BY <1>2, <2>1, RunnerTaskInv
  <2>2. CASE j # k
    BY <1>2, <2>2, RunnerEffect DEF JobInv, OwnMove, TaskInv
  <2>. QED
    BY <2>1, <2>2
<1>3. ASSUME World, NEW k \in Attempt
      PROVE  TaskAgrees(status'[k], run'[k])
  BY <1>3, WorldEffect DEF JobInv, TaskInv, TaskAgrees, Task
<1>4. ASSUME UNCHANGED vars, NEW k \in Attempt
      PROVE  TaskAgrees(status'[k], run'[k])
  BY <1>4 DEF vars, rows, JobInv, TaskInv
<1>5. TaskInv'
  BY <1>2, <1>3, <1>4, SubmitTaskInv, StepCases DEF TaskInv
<1>. QED
  BY <1>1, <1>5 DEF JobInv

LEMMA InitJobInv == Init => JobInv
<1>1. Init => TaskInv
  BY DEF Init, TaskInv, TaskAgrees, Task
<1>. QED
  BY <1>1, InitTypeOK, InitSessionInv DEF JobInv

(* No background task that ran to its end leaves its job active, whatever  *)
(* submissions, cancellations and failures came between                    *)
(* (run_extraction_job).                                                   *)
THEOREM EndedTasksLeaveTerminalRows == Spec => []EndedTaskLeavesTerminalRow
<1>1. JobInv => EndedTaskLeavesTerminalRow
  BY DEF JobInv, TaskInv, TaskAgrees, EndedTaskLeavesTerminalRow
<1>2. JobInv /\ [Next]_vars => JobInv'
  BY StepJobInv
<1>. QED
  BY <1>1, <1>2, InitJobInv, PTL DEF Spec

-----------------------------------------------------------------------------
(* The output.  Success is decided from the tallies of one run, so the     *)
(* tallies have to account for what is recorded of every unit passed.      *)

(* Schema-valid output of unit u is among the artifacts a.                 *)
Recorded(a, u) == \E p \in Valid : a[u][p] # "none"

(* What the record r of a task says about the artifacts a.                 *)
Accounted(a, r) ==
  /\ r.pc \in {"queued", "authorize", "start", "fetch", "poll", "work", "call"} => ~r.fresh
  /\ r.pc \in {"queued", "authorize", "start", "fetch", "poll", "work", "call", "save"} => ~r.err
  /\ ~r.bad /\ ~r.err =>
       /\ \A u \in 1..(r.unit - 1) : Recorded(a, u)
       /\ r.pc = "save" =>
            IF r.fresh THEN r.out \in Valid ELSE Recorded(a, r.unit)
       /\ r.pc = "finish" => \A u \in Unit : Recorded(a, u)

OutputInv ==
  /\ \A u \in Unit, p \in Payload : artifacts[u][p] = "reviewable" => p \in Valid
  /\ \A k \in Attempt : Accounted(artifacts, run[k])
  /\ SucceededIsComplete

(* Output is never withdrawn: a review changes its status only.            *)
LEMMA ArtifactsOnlyAdded ==
  ASSUME JobInv, OutputInv, [Next]_vars
  PROVE  /\ \A u \in Unit : Recorded(artifacts, u) => Recorded(artifacts', u)
         /\ \A u \in Unit, p \in Payload : artifacts'[u][p] = "reviewable" => p \in Valid
<1>. artifacts \in [Unit -> [Payload -> ArtifactStatus]] /\ Valid \subseteq Payload
  BY JobConstants DEF JobInv, TypeOK
<1>1. CASE UNCHANGED artifacts
  BY <1>1 DEF OutputInv
<1>2. ASSUME NEW k \in Attempt, RunnerSave(k)
      PROVE  /\ \A u \in Unit : Recorded(artifacts, u) => Recorded(artifacts', u)
             /\ \A u \in Unit, p \in Payload : artifacts'[u][p] = "reviewable" => p \in Valid
  BY <1>2, <1>1 DEF RunnerSave, Recorded, OutputInv
<1>3. ASSUME NEW u \in Unit, NEW p \in Payload, Reject(u, p)
      PROVE  /\ \A v \in Unit : Recorded(artifacts, v) => Recorded(artifacts', v)
             /\ \A v \in Unit, q \in Payload : artifacts'[v][q] = "reviewable" => q \in Valid
  BY <1>3 DEF Reject, Recorded, OutputInv
<1>4. ASSUME NEW k \in Attempt, Runner(k) \/ RunnerError(k), ~RunnerSave(k)
      PROVE  UNCHANGED artifacts
  BY <1>4 DEF Runner, RunnerError, RunnerRead, RunnerAuthorize, RunnerStart, RunnerFetch,
     RunnerPoll, RunnerWork, RunnerCall, RunnerFinish, RunnerClose, RunnerRecover
<1>5. ASSUME World, ~ \E u \in Unit, p \in Payload : Reject(u, p)
      PROVE  UNCHANGED artifacts
  BY <1>5 DEF World, CancelRead, CancelCommit, Expire, ChangeAccess, ChangeEvidence, Restart
<1>6. ASSUME NEW s \in Submitter, Submit(s) \/ SubmitAbort(s)
      PROVE  UNCHANGED artifacts
  BY <1>6, SubmitEffect DEF JobInv
<1>7. CASE UNCHANGED vars
  BY <1>1, <1>7 DEF vars
<1>. QED
  BY <1>1, <1>2, <1>3, <1>4, <1>5, <1>6, <1>7, StepCases

LEMMA AccountedGrows ==
  ASSUME NEW a, NEW b, NEW r \in RunState, Accounted(a, r),
         \A u \in Unit : Recorded(a, u) => Recorded(b, u)
  PROVE  Accounted(b, r)
<1>1. r.unit \in Unit /\ 1..(r.unit - 1) \subseteq Unit
  BY JobConstants DEF RunState, Unit
<1>. QED
  BY <1>1 DEF Accounted

LEMMA RunnerAccounted ==
  ASSUME JobInv, OutputInv, NEW k \in Attempt, Runner(k) \/ RunnerError(k)
  PROVE  Accounted(artifacts', run'[k])
<1>. DEFINE me == run[k]
<1>. /\ run[k] \in RunState
     /\ run \in [Attempt -> RunState]
     /\ artifacts \in [Unit -> [Payload -> ArtifactStatus]]
     /\ Accounted(artifacts, run[k])
     /\ Valid \subseteq Payload
  BY JobConstants DEF JobInv, TypeOK, OutputInv
<1>. me.unit \in Unit /\ me.unit \in Nat \ {0} /\ NumUnits \in Nat
  BY JobConstants DEF RunState, Unit
<1>set. ASSUME NEW r, SetRun(k, r), UNCHANGED artifacts, Accounted(artifacts, r)
        PROVE  Accounted(artifacts', run'[k])
  BY <1>set DEF SetRun
<1>done. ASSUME Exit(k), UNCHANGED artifacts
         PROVE  Accounted(artifacts', run'[k])
  <2>1. Accounted(artifacts, Task("done"))
    BY DEF Task, Accounted
  <2>. QED
    BY <1>done, <1>set, <2>1 DEF Exit
<1>recover. ASSUME Goto(k, "recover"), UNCHANGED artifacts
            PROVE  Accounted(artifacts', run'[k])
  <2>1. Accounted(artifacts, [me EXCEPT !.pc = "recover"])
    BY DEF Accounted, RunState
  <2>. QED
    BY <1>recover, <1>set, <2>1 DEF Goto
<1>close. ASSUME NEW m, NEW to, SetRun(k, [me EXCEPT !.pc = "close", !.mem = m, !.to = to]),
                 UNCHANGED artifacts
          PROVE  Accounted(artifacts', run'[k])
  <2>1. Accounted(artifacts, [me EXCEPT !.pc = "close", !.mem = m, !.to = to])
    BY DEF Accounted, RunState
  <2>. QED
    BY <1>close, <1>set, <2>1
<1>fail. ASSUME NEW m, fail_job(k, m), UNCHANGED artifacts
         PROVE  Accounted(artifacts', run'[k])
  BY <1>fail, <1>close, <1>done DEF fail_job
<1>trans. ASSUME NEW m, NEW to, transition(k, m, to), UNCHANGED artifacts
          PROVE  Accounted(artifacts', run'[k])
  BY <1>trans, <1>close, <1>recover DEF transition
<1>1. CASE RunnerRead(k)
  <2>1. ASSUME NEW b, me.pc = "queued"
        PROVE  Accounted(artifacts, [me EXCEPT !.pc = "authorize", !.flagged = b])
    BY <2>1 DEF Accounted, RunState
  <2>. QED
    BY <1>1, <2>1, <1>set, <1>done DEF RunnerRead
<1>2. CASE RunnerAuthorize(k)
  <2>1. Accounted(artifacts, [me EXCEPT !.pc = "start"])
    BY <1>2 DEF RunnerAuthorize, Accounted, RunState
  <2>. QED
    BY <1>2, <2>1, <1>fail, <1>trans, <1>set DEF RunnerAuthorize, Goto
<1>3. CASE RunnerStart(k)
  <2>1. Accounted(artifacts, [me EXCEPT !.pc = "fetch", !.mem = "running"])
    BY <1>3 DEF RunnerStart, Accounted, RunState
  <2>. QED
    BY <1>3, <2>1, <1>set DEF RunnerStart
<1>4. CASE RunnerFetch(k)
  <2>1. Accounted(artifacts, [me EXCEPT !.pc = "poll"])
    BY <1>4 DEF RunnerFetch, Accounted, RunState
  <2>. QED
    BY <1>4, <2>1, <1>set, <1>recover DEF RunnerFetch, Goto
<1>5. CASE RunnerPoll(k)
  <2>1. ASSUME NEW m
        PROVE  Accounted(artifacts, [me EXCEPT !.pc = "work", !.mem = m])
    BY <1>5 DEF RunnerPoll, Accounted, RunState
  <2>. QED
    BY <1>5, <2>1, <1>fail, <1>trans, <1>set DEF RunnerPoll
<1>6. CASE RunnerWork(k)
  <2>1. Accounted(artifacts, [me EXCEPT !.pc = "call"])
    BY <1>6 DEF RunnerWork, Accounted, RunState
  <2>2. ASSUME reviewable_artifact_for(me.unit)
        PROVE  Accounted(artifacts, [me EXCEPT !.pc = "save", !.good = TRUE])
    <3>1. Recorded(artifacts, me.unit)
      BY <2>2 DEF reviewable_artifact_for, Recorded, OutputInv
    <3>. QED
      BY <1>6, <3>1 DEF RunnerWork, Accounted, RunState
  <2>. QED
    BY <1>6, <2>1, <2>2, <1>set DEF RunnerWork, Goto
<1>7. CASE RunnerCall(k)
  <2>1. Accounted(artifacts, [me EXCEPT !.pc = "finish", !.err = TRUE])
    BY DEF Accounted, RunState
  <2>2. ASSUME NEW p \in Payload,
               SetRun(k, [me EXCEPT !.pc = "save", !.out = p,
                                    !.fresh = (artifacts[me.unit][p] = "none"),
                                    !.good = @ \/ p \in Valid,
                                    !.bad = @ \/ p \notin Valid])
        PROVE  Accounted(artifacts', run'[k])
    <3> DEFINE r == run'[k]
    <3>1. /\ r.pc = "save" /\ r.out = p /\ r.unit = me.unit /\ r.err = me.err
          /\ r.fresh <=> artifacts[me.unit][p] = "none"
          /\ r.bad <=> (me.bad \/ p \notin Valid)
      BY <2>2 DEF SetRun, RunState
    <3>2. UNCHANGED artifacts /\ ~me.err
      BY <1>7 DEF RunnerCall, Accounted
    <3>. HIDE DEF r
    <3>3. ASSUME ~r.bad
          PROVE  /\ ~me.bad /\ p \in Valid
                 /\ ~r.fresh => Recorded(artifacts, me.unit)
      BY <3>1, <3>3 DEF Recorded
    <3>4. Accounted(artifacts, r)
      BY <3>1, <3>2, <3>3 DEF Accounted
    <3>. QED
      BY <3>2, <3>4 DEF r
  <2>. QED
    BY <1>7, <2>1, <2>2, <1>set DEF RunnerCall
<1>8. CASE RunnerSave(k)
  <2>1. me.pc = "save" /\ ~me.err
    BY <1>8 DEF RunnerSave, Accounted
  <2>2. ASSUME NEW a, \A u \in Unit : Recorded(artifacts, u) => Recorded(a, u),
               ~me.bad => Recorded(a, me.unit)
        PROVE  Accounted(a, AfterUnit(me))
    <3> DEFINE r == AfterUnit(me)
    <3>1. /\ r.bad = me.bad /\ r.err = me.err /\ ~r.fresh
          /\ \/ me.unit < NumUnits /\ r.pc = "poll" /\ r.unit = me.unit + 1
             \/ me.unit = NumUnits /\ r.pc = "finish" /\ r.unit = me.unit
      <4>1. CASE me.unit < NumUnits
        BY <4>1 DEF AfterUnit, RunState
      <4>2. CASE ~(me.unit < NumUnits)
        <5>1. me.unit \in 1..NumUnits
          BY DEF RunState
        <5>2. me.unit = NumUnits
          BY <4>2, <5>1
        <5>. QED
          BY <4>2, <5>2 DEF AfterUnit, RunState
      <4>. QED
        BY <4>1, <4>2
    <3>. HIDE DEF r
    <3>2. ASSUME ~me.bad, NEW u \in 1..me.unit
          PROVE  Recorded(a, u)
      <4>1. u = me.unit \/ u \in 1..(me.unit - 1)
        OBVIOUS
      <4>2. u \in Unit
        BY DEF Unit
      <4>. QED
        BY <2>1, <2>2, <3>2, <4>1, <4>2 DEF Accounted
    <3>3. Accounted(a, r)
      BY <2>1, <3>1, <3>2 DEF Accounted, Unit
    <3>. QED
      BY <3>3 DEF r
  <2>3. ASSUME ~me.fresh, SetRun(k, AfterUnit(me)), UNCHANGED artifacts
        PROVE  Accounted(artifacts', run'[k])
    <3>1. ~me.bad => Recorded(artifacts, me.unit)
      BY <2>1, <2>3 DEF Accounted
    <3>. QED
      BY <2>2, <2>3, <3>1, <1>set
  <2>4. ASSUME me.fresh, SetRun(k, AfterUnit(me)),
               artifacts' = [artifacts EXCEPT ![me.unit][me.out] =
                               IF me.out \in Valid THEN "reviewable" ELSE "failed"]
        PROVE  Accounted(artifacts', run'[k])
    <3>1. \A u \in Unit : Recorded(artifacts, u) => Recorded(artifacts', u)
      BY <2>4 DEF Recorded
    <3>2. ~me.bad => me.out \in Valid
      BY <2>1, <2>4 DEF Accounted
    <3>3. ~me.bad => Recorded(artifacts', me.unit)
      BY <2>4, <3>2 DEF Recorded
    <3>4. Accounted(artifacts', AfterUnit(me))
      BY <2>2, <3>1, <3>3
    <3>5. run'[k] = AfterUnit(me)
      BY <2>4 DEF SetRun
    <3>. QED
      BY <3>4, <3>5
  <2>. QED
    BY <1>8, <2>3, <2>4, <1>recover DEF RunnerSave
<1>9. CASE RunnerFinish(k)
  BY <1>9, <1>done, <1>recover DEF RunnerFinish
<1>10. CASE RunnerClose(k)
  BY <1>10, <1>done DEF RunnerClose
<1>11. CASE RunnerRecover(k)
  BY <1>11, <1>fail DEF RunnerRecover
<1>12. CASE RunnerError(k)
  BY <1>12, <1>recover DEF RunnerError
<1>. QED
  BY <1>1, <1>2, <1>3, <1>4, <1>5, <1>6, <1>7, <1>8, <1>9, <1>10, <1>11, <1>12 DEF Runner

LEMMA StepOutputInv ==
  ASSUME JobInv, OutputInv, [Next]_vars
  PROVE  OutputInv'
<1>grow. \A u \in Unit : Recorded(artifacts, u) => Recorded(artifacts', u)
  BY ArtifactsOnlyAdded
<1>type. run \in [Attempt -> RunState] /\ status \in [Attempt -> Status \cup {"absent"}]
         /\ sub \in [Submitter -> SubState]
  BY DEF JobInv, TypeOK
<1> DEFINE Kept(k) == run'[k] = run[k] \/ run'[k] \in {Task("queued"), Task("lost")}
           Complete == \A u \in Unit : Recorded(artifacts', u)
<1>kept. ASSUME NEW k \in Attempt, Kept(k)
         PROVE  Accounted(artifacts', run'[k])
  <2>1. CASE run'[k] = run[k]
    BY <1>grow, <1>type, <2>1, AccountedGrows DEF OutputInv
  <2>2. CASE run'[k] \in {Task("queued"), Task("lost")}
    BY <2>2 DEF Accounted, Task
  <2>. QED
    BY <1>kept, <2>1, <2>2
<1>same. ASSUME NEW k \in Attempt, status[k] = "succeeded"
         PROVE  Complete
  BY <1>same, <1>grow DEF OutputInv, SucceededIsComplete, Recorded
<1>1. ASSUME NEW s \in Submitter, Submit(s) \/ SubmitAbort(s), NEW k \in Attempt
      PROVE  Kept(k) /\ (status'[k] = "succeeded" => Complete)
  <2>1. CASE UNCHANGED <<rows, run>>
    BY <2>1, <1>same DEF rows
  <2>2. CASE SubmitCommit(s)
    <3>1. Kept(k)
      BY <2>2, <1>type DEF SubmitCommit
    <3>2. status'[k] = "succeeded" => status[k] = "succeeded"
      BY <2>2, <1>type DEF SubmitCommit, SubState
    <3>. QED
      BY <3>1, <3>2, <1>same
  <2>. QED
    BY <1>1, <2>1, <2>2, SubmitEffect DEF JobInv
<1>2. ASSUME NEW j \in Attempt, Runner(j) \/ RunnerError(j), NEW k \in Attempt
      PROVE  Accounted(artifacts', run'[k]) /\ (status'[k] = "succeeded" => Complete)
  <2>1. OwnMove(j)
    BY <1>2, RunnerEffect DEF JobInv
  <2>2. CASE j # k
    BY <1>kept, <1>same, <2>1, <2>2 DEF OwnMove
  <2>3. CASE j = k
    <3>1. Accounted(artifacts', run'[k])
      BY <1>2, <2>3, RunnerAccounted
    <3>2. ASSUME status'[k] = "succeeded", status[k] # "succeeded"
          PROVE  Complete
      <4>1. run[k].pc = "finish" /\ ~run[k].bad /\ ~run[k].err
        BY <2>1, <2>3, <3>2 DEF OwnMove
      <4>. QED
        BY <4>1, <1>grow DEF OutputInv, Accounted
    <3>. QED
      BY <3>1, <3>2, <1>same
  <2>. QED
    BY <2>2, <2>3
<1>3. ASSUME World, NEW k \in Attempt
      PROVE  Kept(k) /\ (status'[k] = "succeeded" => Complete)
  BY <1>3, <1>same, WorldEffect DEF JobInv
<1>4. ASSUME UNCHANGED vars, NEW k \in Attempt
      PROVE  Kept(k) /\ (status'[k] = "succeeded" => Complete)
  BY <1>4, <1>same DEF vars, rows
<1>. HIDE DEF Kept, Complete
<1>5. ASSUME NEW k \in Attempt
      PROVE  Accounted(artifacts', run'[k]) /\ (status'[k] = "succeeded" => Complete)
  BY <1>1, <1>2, <1>3, <1>4, <1>kept, StepCases
<1>6. SucceededIsComplete'
  BY <1>5 DEF SucceededIsComplete, Complete, Recorded
<1>. QED
  BY <1>5, <1>6, ArtifactsOnlyAdded DEF OutputInv

(* A job that reports success has schema-valid output of every unit on     *)
(* record (execute_extraction).                                            *)
THEOREM SuccessIsComplete == Spec => []SucceededIsComplete
<1>1. Init => JobInv /\ OutputInv
  <2>1. Init => OutputInv
    BY DEF Init, OutputInv, Accounted, Task, SucceededIsComplete
  <2>. QED
    BY <2>1, InitJobInv
<1>2. JobInv /\ OutputInv /\ [Next]_vars => (JobInv /\ OutputInv)'
  BY StepJobInv, StepOutputInv
<1>3. OutputInv => SucceededIsComplete
  BY DEF OutputInv
<1>. QED
  BY <1>1, <1>2, <1>3, PTL DEF Spec

-----------------------------------------------------------------------------
(* The contract of the docstring, when no live task outlasts its budget.   *)
(* A row is cleared only once its task is gone, so a task is the only      *)
(* writer of its row and the row is where the task believes it to be.      *)

(* The statuses a row may have while its task is at pc.                    *)
Phase(pc) ==
  CASE pc \in {"queued", "authorize", "start"} -> {"pending"}
    [] pc \in {"fetch", "poll", "work", "call", "save", "finish"} -> {"running"}
    [] pc \in {"close", "recover"} -> Active
    [] OTHER -> Status \cup {"absent"}

InPhase == \A k \in Attempt : status[k] \in Phase(run[k].pc)

(* What is past its budget has no task any more.                           *)
LateAreOrphans == \A k \in late : status[k] \in Active /\ ~TaskAlive(k)

(* A row that a session is clearing has no task either, and is still as it *)
(* was read, or another session has cleared it the same way.               *)
ClearsOrphan(s) ==
  sub[s].seen # 0 =>
    /\ ~TaskAlive(sub[s].seen)
    /\ sub[s].to = IF status[sub[s].seen] \in Active THEN ClearedTo(sub[s].seen)
                   ELSE status[sub[s].seen]

OwnerInv ==
  /\ InPhase
  /\ LateAreOrphans
  /\ \A s \in Submitter : ClearsOrphan(s)

LEMMA PhaseKinds ==
  /\ Phase("queued") = {"pending"} /\ Phase("authorize") = {"pending"}
  /\ Phase("start") = {"pending"}
  /\ \A pc \in {"fetch", "poll", "work", "call", "save", "finish"} : Phase(pc) = {"running"}
  /\ Phase("close") = Active /\ Phase("recover") = Active
  /\ \A pc \in {"none", "done", "lost"} : Phase(pc) = Status \cup {"absent"}
BY DEF Phase

LEMMA InitOwnerInv == Init => OwnerInv
BY PhaseKinds DEF Init, OwnerInv, InPhase, LateAreOrphans, ClearsOrphan, Task, Idle

(* A task moves its own row only, along the transition table, and only     *)
(* while it is alive.                                                      *)
LEMMA RunnerPhase ==
  ASSUME JobInv, OwnerInv, NEW k \in Attempt, Runner(k) \/ RunnerError(k)
  PROVE  /\ TaskAlive(k)
         /\ status'[k] \in Phase(run'[k].pc)
         /\ late' \in {late, late \ {k}}
         /\ status'[k] # status[k] => k \notin late'
<1>. /\ run[k] \in RunState /\ run \in [Attempt -> RunState]
     /\ status[k] \in Status \cup {"absent"} /\ status \in [Attempt -> Status \cup {"absent"}]
     /\ status[k] \in Phase(run[k].pc)
  BY DEF JobInv, TypeOK, OwnerInv, InPhase
<1> DEFINE Goal == /\ TaskAlive(k)
                   /\ status'[k] \in Phase(run'[k].pc)
                   /\ late' \in {late, late \ {k}}
                   /\ status'[k] # status[k] => k \notin late'
<1>set. ASSUME NEW r, SetRun(k, r), UNCHANGED rows, TaskAlive(k), status[k] \in Phase(r.pc)
        PROVE  Goal
  BY <1>set DEF SetRun, rows
<1>exit. ASSUME Exit(k), UNCHANGED rows, TaskAlive(k)
         PROVE  Goal
  BY <1>exit, <1>set, PhaseKinds DEF Exit, Task
<1>goto. ASSUME NEW pc, Goto(k, pc), UNCHANGED rows, TaskAlive(k), status[k] \in Phase(pc)
         PROVE  Goal
  <2>1. [run[k] EXCEPT !.pc = pc].pc = pc
    BY DEF RunState
  <2>. QED
    BY <1>goto, <1>set, <2>1 DEF Goto
<1>fail. ASSUME NEW m, fail_job(k, m), UNCHANGED rows, TaskAlive(k), status[k] \in Active
         PROVE  Goal
  <2>1. [run[k] EXCEPT !.pc = "close", !.mem = m, !.to = "failed"].pc = "close"
    BY DEF RunState
  <2>. QED
    BY <1>fail, <1>set, <1>exit, <2>1, PhaseKinds DEF fail_job
<1>trans. ASSUME NEW m, NEW to, transition(k, m, to), UNCHANGED rows, TaskAlive(k),
                 status[k] \in Active
          PROVE  Goal
  <2>1. [run[k] EXCEPT !.pc = "close", !.mem = m, !.to = to].pc = "close"
    BY DEF RunState
  <2>. QED
    BY <1>trans, <1>set, <1>goto, <2>1, PhaseKinds DEF transition
<1>1. CASE RunnerRead(k)
  <2>1. [run[k] EXCEPT !.pc = "authorize", !.flagged = (k \in cancel)].pc = "authorize"
    BY DEF RunState
  <2>. QED
    BY <1>1, <2>1, <1>set, <1>exit, PhaseKinds DEF RunnerRead, TaskAlive, Ended, rows
<1>2. CASE RunnerAuthorize(k)
  <2>1. TaskAlive(k) /\ status[k] = "pending" /\ UNCHANGED rows
    BY <1>2, PhaseKinds DEF RunnerAuthorize, TaskAlive, Ended
  <2>. QED
    BY <1>2, <2>1, <1>fail, <1>trans, <1>goto, PhaseKinds DEF RunnerAuthorize, Active
<1>3. CASE RunnerStart(k)
  BY <1>3, PhaseKinds DEF RunnerStart, Write, SetRun, TaskAlive, Ended, RunState
<1>run. ASSUME run[k].pc \in {"fetch", "poll", "work", "call", "save", "finish"}
        PROVE  TaskAlive(k) /\ status[k] = "running" /\ status[k] \in Active
  BY <1>run, PhaseKinds DEF TaskAlive, Ended, Active
<1>4. CASE RunnerFetch(k)
  BY <1>4, <1>run, <1>goto, PhaseKinds DEF RunnerFetch, rows
<1>5. CASE RunnerPoll(k)
  <2>1. ASSUME NEW m
        PROVE  [run[k] EXCEPT !.pc = "work", !.mem = m].pc = "work"
    BY DEF RunState
  <2>. QED
    BY <1>5, <2>1, <1>run, <1>fail, <1>trans, <1>set, PhaseKinds DEF RunnerPoll
<1>6. CASE RunnerWork(k)
  <2>1. [run[k] EXCEPT !.pc = "save", !.good = TRUE].pc = "save"
    BY DEF RunState
  <2>. QED
    BY <1>6, <2>1, <1>run, <1>set, <1>goto, PhaseKinds DEF RunnerWork
<1>7. CASE RunnerCall(k)
  <2>1. [run[k] EXCEPT !.pc = "finish", !.err = TRUE].pc = "finish"
    BY DEF RunState
  <2>2. TaskAlive(k) /\ UNCHANGED rows
    BY <1>7, <1>run DEF RunnerCall
  <2>3. status[k] \in Phase("save") /\ status[k] \in Phase("finish")
    BY <1>7, <1>run, PhaseKinds DEF RunnerCall
  <2>. HIDE DEF Goal
  <2>4. ASSUME SetRun(k, [run[k] EXCEPT !.pc = "finish", !.err = TRUE])
        PROVE  Goal
    BY <2>1, <2>2, <2>3, <2>4, <1>set
  <2>5. ASSUME NEW p \in Payload,
               SetRun(k, [run[k] EXCEPT !.pc = "save", !.out = p,
                                        !.fresh = (artifacts[run[k].unit][p] = "none"),
                                        !.good = @ \/ p \in Valid,
                                        !.bad = @ \/ p \notin Valid])
        PROVE  Goal
    <3> DEFINE r == [run[k] EXCEPT !.pc = "save", !.out = p,
                                   !.fresh = (artifacts[run[k].unit][p] = "none"),
                                   !.good = @ \/ p \in Valid,
                                   !.bad = @ \/ p \notin Valid]
    <3>1. r.pc = "save"
      BY DEF RunState
    <3>2. SetRun(k, r)
      BY <2>5
    <3>. HIDE DEF r
    <3>. QED
      BY <2>2, <2>3, <3>1, <3>2, <1>set
  <2>. QED
    BY <1>7, <2>4, <2>5 DEF RunnerCall, Goal
<1>8. CASE RunnerSave(k)
  <2>1. AfterUnit(run[k]).pc \in {"poll", "finish"}
    BY DEF AfterUnit, RunState
  <2>. QED
    BY <1>8, <2>1, <1>run, <1>set, <1>goto, PhaseKinds DEF RunnerSave
<1>9. CASE RunnerFinish(k)
  <2>1. CASE Write(k, FinalStatus(run[k])) /\ Exit(k)
    <3>1. FinalStatus(run[k]) \in Status
      BY DEF FinalStatus, Status, TERMINAL_STATUSES
    <3>2. run[k].pc = "finish"
      BY <1>9 DEF RunnerFinish
    <3>. QED
      BY <2>1, <3>1, <3>2, <1>run, PhaseKinds DEF Write, Exit, SetRun, Task
  <2>2. CASE UNCHANGED rows /\ (Exit(k) \/ Goto(k, "recover"))
    BY <1>9, <2>2, <1>run, <1>exit, <1>goto, PhaseKinds DEF RunnerFinish
  <2>. QED
    BY <1>9, <2>1, <2>2 DEF RunnerFinish
<1>10. CASE RunnerClose(k)
  <2>1. run[k].to \in Status
    BY DEF RunState, Status, TERMINAL_STATUSES
  <2>. QED
    BY <1>10, <2>1, PhaseKinds
       DEF RunnerClose, Write, Exit, SetRun, Task, TaskAlive, Ended
<1>11. CASE RunnerRecover(k)
  BY <1>11, <1>fail, PhaseKinds DEF RunnerRecover, TaskAlive, Ended
<1>12. CASE RunnerError(k)
  <2>1. TaskAlive(k) /\ status[k] \in Active /\ UNCHANGED rows
    BY <1>12, PhaseKinds DEF RunnerError, TaskAlive, Ended, Active
  <2>. QED
    BY <1>12, <2>1, <1>goto, PhaseKinds DEF RunnerError
<1>. QED
  BY <1>1, <1>2, <1>3, <1>4, <1>5, <1>6, <1>7, <1>8, <1>9, <1>10, <1>11, <1>12 DEF Runner

LEMMA StepOwnerInv ==
  ASSUME ~RunsMayOverrun, JobInv, OwnerInv, [Next]_vars
  PROVE  OwnerInv'
<1>type. /\ run \in [Attempt -> RunState] /\ status \in [Attempt -> Status \cup {"absent"}]
         /\ sub \in [Submitter -> SubState] /\ late \subseteq Attempt
  BY DEF JobInv, TypeOK
<1>calm. ASSUME UNCHANGED <<status, late, run>>,
                \A s \in Submitter : sub'[s].seen # 0 => sub'[s].seen = sub[s].seen /\ sub'[s].to = sub[s].to
         PROVE  OwnerInv'
  BY <1>calm DEF OwnerInv, InPhase, LateAreOrphans, ClearsOrphan, TaskAlive, ClearedTo
<1>1. ASSUME NEW s \in Submitter, SubmitRead(s)
      PROVE  OwnerInv'
  <2>1. UNCHANGED <<status, late, run>> /\ \A t \in Submitter \ {s} : sub'[t] = sub[t]
    BY <1>1, <1>type DEF SubmitRead, SetSub, rows
  <2>2. CASE sub'[s] = [Idle EXCEPT !.pc = "count"]
    BY <2>1, <2>2, <1>calm DEF Idle
  <2>3. ASSUME NEW k \in ActiveJobs, is_timed_out(k),
               sub'[s] = [Idle EXCEPT !.pc = "flush", !.seen = k, !.to = ClearedTo(k)]
        PROVE  OwnerInv'
    <3>1. sub'[s].seen = k /\ sub'[s].to = ClearedTo(k)
      BY <2>3 DEF Idle
    <3>2. status[k] \in Active /\ ~TaskAlive(k)
      BY <2>3 DEF ActiveJobs, is_timed_out, OwnerInv, LateAreOrphans
    <3>3. ClearsOrphan(s)'
      BY <2>1, <3>1, <3>2 DEF ClearsOrphan, TaskAlive, ClearedTo
    <3>4. ASSUME NEW t \in Submitter \ {s}
          PROVE  ClearsOrphan(t)'
      BY <2>1 DEF OwnerInv, ClearsOrphan, TaskAlive, ClearedTo
    <3>5. InPhase' /\ LateAreOrphans'
      BY <2>1 DEF OwnerInv, InPhase, LateAreOrphans, TaskAlive
    <3>. QED
      BY <3>3, <3>4, <3>5 DEF OwnerInv
  <2>. QED
    BY <1>1, <1>type, <2>2, <2>3 DEF SubmitRead, SetSub
<1>2. ASSUME NEW s \in Submitter,
             SubmitFlush(s) \/ SubmitCount(s) \/ SubmitSelect(s) \/ SubmitInsert(s) \/ SubmitAbort(s)
      PROVE  OwnerInv'
  <2>1. UNCHANGED <<status, late, run>> /\ \A t \in Submitter \ {s} : sub'[t] = sub[t]
    BY <1>2, <1>type
       DEF SubmitFlush, SubmitCount, SubmitSelect, SubmitInsert, SubmitAbort, SetSub, rows
  <2>2. sub'[s].seen # 0 => sub'[s].seen = sub[s].seen /\ sub'[s].to = sub[s].to
    <3>1. ASSUME SetSub(s, Idle)
          PROVE  sub'[s].seen = 0
      BY <3>1, <1>type DEF SetSub, Idle
    <3>2. ASSUME NEW pc, SetSub(s, [sub[s] EXCEPT !.pc = pc])
          PROVE  sub'[s].seen = sub[s].seen /\ sub'[s].to = sub[s].to
      BY <3>2, <1>type DEF SetSub, SubState
    <3>3. ASSUME NEW pc, NEW n, SetSub(s, [sub[s] EXCEPT !.pc = pc, !.attempt = n])
          PROVE  sub'[s].seen = sub[s].seen /\ sub'[s].to = sub[s].to
      BY <3>3, <1>type DEF SetSub, SubState
    <3>4. ASSUME NEW pc, SetSub(s, [sub[s] EXCEPT !.pc = pc, !.created = TRUE])
          PROVE  sub'[s].seen = sub[s].seen /\ sub'[s].to = sub[s].to
      BY <3>4, <1>type DEF SetSub, SubState
    <3>. QED
      BY <1>2, <3>1, <3>2, <3>3, <3>4
         DEF SubmitFlush, SubmitCount, SubmitSelect, SubmitInsert, SubmitAbort
  <2>. QED
    BY <2>1, <2>2, <1>calm
<1>3. ASSUME NEW s \in Submitter, SubmitCommit(s)
      PROVE  OwnerInv'
  <2> DEFINE me == sub[s]
             new == {k \in Attempt : me.created /\ k = me.attempt}
  <2>new. ASSUME NEW k \in new
          PROVE  /\ status[k] = "absent" /\ run[k].pc = "none"
                 /\ status'[k] = "pending" /\ run'[k] = Task("queued")
    BY <1>3, <1>type, <2>new
       DEF SubmitCommit, JobInv, SessionInv, Inserted, Present, TasksHaveRows
  <2>old. ASSUME NEW k \in Attempt \ new
          PROVE  /\ run'[k] = run[k]
                 /\ status'[k] = IF k = me.seen THEN me.to ELSE status[k]
    BY <1>3, <1>type, <2>old DEF SubmitCommit
  <2>seen. /\ \A t \in Submitter : sub[t].seen # 0 => sub[t].seen \in Attempt \ new
           /\ \A t \in Submitter : sub[t].seen \in Attempt => sub[t].seen # 0
    BY <2>new, <1>type DEF JobInv, SessionInv, SeenExists, Present, Attempt, SubState
  <2>to. /\ me.to \in TERMINAL_STATUSES /\ me.to \in Status /\ me.to \notin Active
         /\ late' = late \ {me.seen}
         /\ sub'[s] = Idle /\ \A t \in Submitter \ {s} : sub'[t] = sub[t]
    BY <1>3, <1>type DEF SubmitCommit, SetSub, SubState, TERMINAL_STATUSES, Status, Active
  <2>. HIDE DEF new
  <2>own. me.seen \in Attempt => ~TaskAlive(me.seen)
    BY <2>seen DEF OwnerInv, ClearsOrphan
  <2>1. ASSUME NEW k \in Attempt
        PROVE  status'[k] \in Phase(run'[k].pc)
    <3>1. CASE k \in new
      BY <3>1, <2>new, PhaseKinds DEF Task
    <3>2. CASE k \notin new /\ k = me.seen
      <4>1. run'[k].pc \in {"none", "done", "lost"}
        BY <3>2, <2>old, <2>own DEF TaskAlive, Ended
      <4>. QED
        BY <3>2, <4>1, <2>old, <2>to, PhaseKinds
    <3>3. CASE k \notin new /\ k # me.seen
      BY <3>3, <2>old DEF OwnerInv, InPhase
    <3>. QED
      BY <3>1, <3>2, <3>3
  <2>2. ASSUME NEW k \in late'
        PROVE  status'[k] \in Active /\ run'[k].pc \in Ended
    <3>1. k \in late /\ k \in Attempt /\ k # me.seen /\ status[k] \in Active /\ ~TaskAlive(k)
      BY <2>2, <2>to, <1>type DEF OwnerInv, LateAreOrphans
    <3>2. k \notin new
      BY <3>1, <2>new DEF Active
    <3>. QED
      BY <3>1, <3>2, <2>old DEF TaskAlive
  <2>3. ASSUME NEW t \in Submitter
        PROVE  ClearsOrphan(t)'
    <3>1. CASE t = s
      BY <3>1, <2>to DEF ClearsOrphan, Idle
    <3>2. CASE t # s /\ sub[t].seen # 0
      <4> DEFINE k == sub[t].seen
      <4>1. /\ k \in Attempt \ new /\ sub'[t] = sub[t] /\ ~TaskAlive(k)
            /\ sub[t].to = IF status[k] \in Active THEN ClearedTo(k) ELSE status[k]
        BY <3>2, <2>seen, <2>to DEF OwnerInv, ClearsOrphan
      <4>2. CASE k = me.seen
        <5>1. me.to = sub[t].to /\ status'[k] = me.to
          BY <3>2, <4>1, <4>2, <2>old DEF OwnerInv, ClearsOrphan
        <5>. QED
          BY <4>1, <4>2, <5>1, <2>old, <2>to DEF ClearsOrphan, TaskAlive
      <4>3. CASE k # me.seen
        BY <4>1, <4>3, <2>old DEF ClearsOrphan, TaskAlive, ClearedTo
      <4>. QED
        BY <4>2, <4>3
    <3>3. CASE t # s /\ sub[t].seen = 0
      BY <3>3, <2>to DEF ClearsOrphan
    <3>. QED
      BY <3>1, <3>2, <3>3
  <2>. QED
    BY <2>1, <2>2, <2>3 DEF OwnerInv, InPhase, LateAreOrphans, TaskAlive
<1>4. ASSUME NEW j \in Attempt, Runner(j) \/ RunnerError(j)
      PROVE  OwnerInv'
  <2>1. /\ TaskAlive(j) /\ status'[j] \in Phase(run'[j].pc)
        /\ late' \in {late, late \ {j}}
        /\ OwnMove(j) /\ UNCHANGED sub
    BY <1>4, RunnerPhase, RunnerEffect DEF JobInv
  <2>2. ASSUME NEW k \in Attempt
        PROVE  status'[k] \in Phase(run'[k].pc)
    BY <2>1 DEF OwnMove, OwnerInv, InPhase
  <2>3. ASSUME NEW k \in late'
        PROVE  status'[k] \in Active /\ run'[k].pc \in Ended
    BY <2>1, <1>type DEF OwnMove, OwnerInv, LateAreOrphans, TaskAlive
  <2>4. ASSUME NEW t \in Submitter
        PROVE  ClearsOrphan(t)'
    <3>1. CASE sub[t].seen # 0
      <4>1. sub[t].seen \in Attempt \ {j}
        BY <3>1, <2>1, <1>type DEF OwnerInv, ClearsOrphan, SubState, Attempt
      <4>. QED
        BY <3>1, <4>1, <2>1 DEF OwnMove, OwnerInv, ClearsOrphan, TaskAlive, ClearedTo
    <3>2. CASE sub[t].seen = 0
      BY <3>2, <2>1 DEF ClearsOrphan
    <3>. QED
      BY <3>1, <3>2
  <2>. QED
    BY <2>2, <2>3, <2>4 DEF OwnerInv, InPhase, LateAreOrphans, TaskAlive
<1>5. CASE World
  <2>1. /\ UNCHANGED status
        /\ \A k \in Attempt : run'[k] = run[k] \/ (TaskAlive(k) /\ run'[k] = Task("lost"))
        /\ UNCHANGED sub \/ sub' = [s \in Submitter |-> Idle]
    BY <1>5, WorldEffect DEF JobInv
  <2>2. \A k \in late' : k \in Attempt /\ status[k] \in Active /\ ~TaskAlive(k)
    BY <1>5, <1>type DEF World, CancelRead, CancelCommit, Expire, Reject, ChangeAccess, ChangeEvidence, Restart, rows,
       OwnerInv, LateAreOrphans
  <2>3. ASSUME NEW k \in Attempt
        PROVE  /\ status'[k] \in Phase(run'[k].pc)
               /\ ~TaskAlive(k) => run'[k].pc \in Ended
    BY <2>1, <1>type, PhaseKinds DEF OwnerInv, InPhase, Task, TaskAlive, Ended
  <2>4. ASSUME NEW t \in Submitter
        PROVE  ClearsOrphan(t)'
    <3>1. CASE sub'[t].seen # 0
      <4>1. sub'[t] = sub[t] /\ sub[t].seen \in Attempt
        BY <3>1, <2>1, <1>type DEF Idle, SubState, Attempt
      <4>. QED
        BY <3>1, <4>1, <2>1, <2>3 DEF OwnerInv, ClearsOrphan, TaskAlive, ClearedTo
    <3>2. CASE sub'[t].seen = 0
      BY <3>2 DEF ClearsOrphan
    <3>. QED
      BY <3>1, <3>2
  <2>. QED
    BY <2>1, <2>2, <2>3, <2>4 DEF OwnerInv, InPhase, LateAreOrphans, TaskAlive
<1>6. CASE UNCHANGED vars
  BY <1>6, <1>calm DEF vars, rows
<1>. QED
  BY <1>1, <1>2, <1>3, <1>4, <1>5, <1>6, StepCases DEF Submit

(* Every step moves every row along the transition table.                  *)
LEMMA StepMovesRows ==
  ASSUME JobInv, OwnerInv, [Next]_vars, NEW k \in Attempt
  PROVE  status'[k] \in Contract!Step(status[k])
<1>type. /\ run \in [Attempt -> RunState] /\ status \in [Attempt -> Status \cup {"absent"}]
         /\ sub \in [Submitter -> SubState]
  BY DEF JobInv, TypeOK
<1>step. /\ \A st \in Status \cup {"absent"} : st \in Contract!Step(st)
         /\ "pending" \in Contract!Step("absent")
         /\ "running" \in Contract!Step("pending")
         /\ {"failed", "canceled"} \subseteq Contract!Step("pending")
         /\ TERMINAL_STATUSES \subseteq Contract!Step("running")
  BY StatusKinds DEF Contract!Step, Contract!TERMINAL_STATUSES
<1>same. status'[k] = status[k] => status'[k] \in Contract!Step(status[k])
  BY <1>type, <1>step
<1>1. ASSUME NEW s \in Submitter, SubmitCommit(s)
      PROVE  status'[k] \in Contract!Step(status[k])
  <2>1. CASE sub[s].created /\ k = sub[s].attempt
    BY <1>1, <2>1, <1>type, <1>step DEF SubmitCommit, JobInv, SessionInv, Inserted, Present
  <2>2. CASE ~(sub[s].created /\ k = sub[s].attempt) /\ k = sub[s].seen
    <3>1. status'[k] = sub[s].to /\ sub[s].to \in {"failed", "canceled"} /\ k # 0
      BY <1>1, <2>2, <1>type DEF SubmitCommit, SubState, Attempt
    <3>2. sub[s].to = status[k] \/ (status[k] \in Active)
      BY <2>2, <3>1 DEF OwnerInv, ClearsOrphan
    <3>. QED
      BY <3>1, <3>2, <1>same, <1>step, StatusKinds DEF Active
  <2>3. CASE ~(sub[s].created /\ k = sub[s].attempt) /\ k # sub[s].seen
    BY <1>1, <2>3, <1>type, <1>same DEF SubmitCommit
  <2>. QED
    BY <2>1, <2>2, <2>3
<1>2. ASSUME NEW j \in Attempt, Runner(j) \/ RunnerError(j)
      PROVE  status'[k] \in Contract!Step(status[k])
  <2>1. OwnMove(j)
    BY <1>2, RunnerEffect DEF JobInv
  <2>2. CASE j # k
    BY <2>1, <2>2, <1>same DEF OwnMove
  <2>3. CASE j = k /\ run[k].pc = "start"
    <3>1. status[k] = "pending"
      BY <2>3, PhaseKinds DEF OwnerInv, InPhase
    <3>. QED
      BY <2>1, <2>3, <3>1, <1>same, <1>step DEF OwnMove
  <2>4. CASE j = k /\ run[k].pc = "finish"
    <3>1. status[k] = "running"
      BY <2>4, PhaseKinds DEF OwnerInv, InPhase
    <3>. QED
      BY <2>1, <2>4, <3>1, <1>same, <1>step DEF OwnMove
  <2>5. CASE j = k /\ run[k].pc = "close"
    <3>1. status[k] \in Active
      BY <2>5, PhaseKinds DEF OwnerInv, InPhase
    <3>2. RunnerClose(k) \/ RunnerError(k)
      BY <1>2, <2>5 DEF Runner, RunnerRead, RunnerAuthorize, RunnerStart, RunnerFetch, RunnerPoll,
         RunnerWork, RunnerCall, RunnerSave, RunnerFinish, RunnerRecover
    <3>3. status'[k] \in {"failed", "canceled"} \/ status'[k] = status[k]
      BY <3>2, <1>type DEF RunnerClose, RunnerError, Write, RunState, rows
    <3>. QED
      BY <3>1, <3>3, <1>same, <1>step, StatusKinds DEF Active
  <2>6. CASE j = k /\ run[k].pc \notin {"start", "finish", "close"}
    BY <2>1, <2>6, <1>same DEF OwnMove
  <2>. QED
    BY <2>2, <2>3, <2>4, <2>5, <2>6
<1>3. CASE World
  BY <1>3, <1>same, WorldEffect DEF JobInv
<1>4. CASE UNCHANGED vars
  BY <1>4, <1>same DEF vars, rows
<1>5. ASSUME NEW s \in Submitter, UNCHANGED rows
      PROVE  status'[k] \in Contract!Step(status[k])
  BY <1>5, <1>same DEF rows
<1>. QED
  BY <1>1, <1>2, <1>3, <1>4, <1>5, StepCases, SubmitEffect DEF JobInv

LEMMA StepRefines ==
  ASSUME ~RunsMayOverrun, JobInv, OwnerInv, [Next]_vars
  PROVE  [Contract!Next]_status
<1>1. TypeOK' /\ AttemptsContiguous'
  BY StepJobInv DEF JobInv, SessionInv
<1>2. status' \in [Contract!Attempt -> {"absent", "pending", "running"} \cup Contract!TERMINAL_STATUSES]
  BY <1>1 DEF TypeOK, Status, Active, TERMINAL_STATUSES, Attempt, Contract!Attempt,
     Contract!TERMINAL_STATUSES
<1>3. \A k \in Contract!Attempt : status'[k] \in Contract!Step(status[k])
  BY StepMovesRows DEF Attempt, Contract!Attempt
<1>4. ASSUME NEW j \in Contract!Attempt, NEW k \in Contract!Attempt, j < k, status'[k] # "absent"
      PROVE  status'[j] # "absent"
  <2>1. k \in Present' /\ j \in 1..k
    BY <1>4, JobConstants DEF Present, Attempt, Contract!Attempt
  <2>. QED
    BY <1>1, <2>1 DEF AttemptsContiguous, Present
<1>. QED
  BY <1>2, <1>3, <1>4 DEF Contract!Next

(* While no task outlasts its budget, the machinery keeps every promise of *)
(* the docstring of analysis_jobs.py: no row moves against the table, no   *)
(* terminal row moves at all, however submissions, cancellations, access   *)
(* changes and restarts interleave.                                        *)
THEOREM ImplementsLifecycle ==
  ASSUME ~RunsMayOverrun
  PROVE  Spec => RefinesLifecycle
<1>1. Init => JobInv /\ OwnerInv
  BY InitJobInv, InitOwnerInv
<1>2. JobInv /\ OwnerInv /\ [Next]_vars => (JobInv /\ OwnerInv)'
  BY StepJobInv, StepOwnerInv
<1>3. Init => Contract!Init
  BY DEF Init, Contract!Init, Attempt, Contract!Attempt
<1>4. JobInv /\ OwnerInv /\ [Next]_vars => [Contract!Next]_status
  BY StepRefines
<1>. QED
  BY <1>1, <1>2, <1>3, <1>4, PTL DEF Spec, RefinesLifecycle, Contract!Spec

-----------------------------------------------------------------------------
(* What holds besides when submissions of one file do not overlap: there   *)
(* is one session, and what it found active is what it clears.             *)

OneSession == \A s, t \in Submitter : s = t

Exclusive(s) == sub[s].pc # "idle" => ActiveJobs \subseteq {sub[s].seen}

SingleInv ==
  /\ OneActiveJob
  /\ \A s \in Submitter : Exclusive(s)

LEMMA InitSingleInv == Init => SingleInv
BY DEF Init, SingleInv, OneActiveJob, Exclusive, Idle, Active

(* Rows become active by a commit of the submit route and in no other way. *)
LEMMA OnlyCommitsActivate ==
  ASSUME JobInv, OwnerInv, [Next]_vars, ~\E s \in Submitter : SubmitCommit(s)
  PROVE  ActiveJobs' \subseteq ActiveJobs
<1>type. status \in [Attempt -> Status \cup {"absent"}]
  BY DEF JobInv, TypeOK
<1>1. ASSUME NEW j \in Attempt, Runner(j) \/ RunnerError(j), NEW k \in Attempt,
             status'[k] \in Active
      PROVE  status[k] \in Active
  <2>1. status'[k] \in Contract!Step(status[k])
    BY StepMovesRows
  <2>2. OwnMove(j) /\ TaskAlive(j)
    BY <1>1, RunnerEffect, RunnerPhase DEF JobInv
  <2>3. status[k] = "absent" => status'[k] = status[k]
    BY <2>2 DEF OwnMove, JobInv, TasksHaveRows, TaskAlive, Ended
  <2>4. status[k] \in TERMINAL_STATUSES => status'[k] = status[k]
    BY <2>1, StatusKinds DEF Contract!Step
  <2>. QED
    BY <1>1, <1>type, <2>3, <2>4, StatusKinds DEF Active
<1>2. ASSUME UNCHANGED status
      PROVE  ActiveJobs' = ActiveJobs
  BY <1>2 DEF ActiveJobs
<1>3. World \/ UNCHANGED vars => UNCHANGED status
  BY WorldEffect DEF JobInv, vars, rows
<1>4. ASSUME NEW s \in Submitter, Submit(s) \/ SubmitAbort(s)
      PROVE  UNCHANGED status
  BY <1>4, SubmitEffect DEF JobInv, rows
<1>. QED
  BY <1>1, <1>2, <1>3, <1>4, StepCases DEF ActiveJobs

LEMMA StepSingleInv ==
  ASSUME OneSession, ~RunsMayOverrun, JobInv, OwnerInv, SingleInv, [Next]_vars
  PROVE  SingleInv'
<1>type. /\ status \in [Attempt -> Status \cup {"absent"}] /\ sub \in [Submitter -> SubState]
         /\ run \in [Attempt -> RunState]
  BY DEF JobInv, TypeOK
<1>1. ASSUME NEW s \in Submitter, SubmitCommit(s)
      PROVE  SingleInv'
  <2>1. ActiveJobs \subseteq {sub[s].seen}
    BY <1>1 DEF SubmitCommit, SingleInv, Exclusive
  <2>2. sub[s].to \notin Active
    BY <1>type DEF SubState, Active
  <2>3. ASSUME NEW k \in Attempt, status'[k] \in Active
        PROVE  sub[s].created /\ k = sub[s].attempt
    BY <1>1, <1>type, <2>1, <2>2, <2>3 DEF SubmitCommit, ActiveJobs
  <2>4. OneActiveJob'
    BY <2>3 DEF OneActiveJob
  <2>5. \A t \in Submitter : sub'[t].pc = "idle"
    BY <1>1, <1>type DEF SubmitCommit, SetSub, Idle, OneSession
  <2>. QED
    BY <2>4, <2>5 DEF SingleInv, Exclusive
<1>2. ASSUME ~\E s \in Submitter : SubmitCommit(s)
      PROVE  SingleInv'
  <2>1. ActiveJobs' \subseteq ActiveJobs
    BY <1>2, OnlyCommitsActivate
  <2>2. OneActiveJob'
    BY <2>1 DEF SingleInv, OneActiveJob, ActiveJobs
  <2>3. ASSUME NEW s \in Submitter, sub[s].pc # "idle", sub'[s].seen = sub[s].seen
        PROVE  Exclusive(s)'
    BY <2>1, <2>3 DEF SingleInv, Exclusive
  <2>4. ASSUME NEW s \in Submitter, sub'[s].pc = "idle"
        PROVE  Exclusive(s)'
    BY <2>4 DEF Exclusive
  <2>5. ASSUME NEW s \in Submitter, SubmitRead(s)
        PROVE  Exclusive(s)'
    <3>1. CASE ActiveJobs = {}
      BY <2>1, <3>1 DEF Exclusive
    <3>2. ASSUME NEW k \in ActiveJobs,
                 SetSub(s, [Idle EXCEPT !.pc = "flush", !.seen = k, !.to = ClearedTo(k)])
          PROVE  Exclusive(s)'
      <4>1. sub'[s].seen = k
        BY <3>2, <1>type DEF SetSub, Idle
      <4>2. ActiveJobs \subseteq {k}
        BY <3>2 DEF SingleInv, OneActiveJob, ActiveJobs
      <4>. QED
        BY <2>1, <4>1, <4>2 DEF Exclusive
    <3>. QED
      BY <2>5, <3>1, <3>2 DEF SubmitRead
  <2>6. ASSUME NEW s \in Submitter,
               SubmitFlush(s) \/ SubmitCount(s) \/ SubmitSelect(s) \/ SubmitInsert(s) \/ SubmitAbort(s)
        PROVE  Exclusive(s)'
    <3>1. ASSUME SetSub(s, Idle)
          PROVE  sub'[s].pc = "idle"
      BY <3>1, <1>type DEF SetSub, Idle
    <3>2. ASSUME NEW pc, SetSub(s, [sub[s] EXCEPT !.pc = pc])
          PROVE  sub'[s].seen = sub[s].seen
      BY <3>2, <1>type DEF SetSub, SubState
    <3>3. ASSUME NEW pc, NEW n, SetSub(s, [sub[s] EXCEPT !.pc = pc, !.attempt = n])
          PROVE  sub'[s].seen = sub[s].seen
      BY <3>3, <1>type DEF SetSub, SubState
    <3>4. ASSUME NEW pc, SetSub(s, [sub[s] EXCEPT !.pc = pc, !.created = TRUE])
          PROVE  sub'[s].seen = sub[s].seen
      BY <3>4, <1>type DEF SetSub, SubState
    <3>5. sub[s].pc # "idle"
      BY <2>6 DEF SubmitFlush, SubmitCount, SubmitSelect, SubmitInsert, SubmitAbort
    <3>6. sub'[s].pc = "idle" \/ sub'[s].seen = sub[s].seen
      BY <2>6, <3>1, <3>2, <3>3, <3>4
         DEF SubmitFlush, SubmitCount, SubmitSelect, SubmitInsert, SubmitAbort
    <3>. QED
      BY <2>3, <2>4, <3>5, <3>6
  <2>7. ASSUME NEW s \in Submitter, sub'[s] = sub[s]
        PROVE  Exclusive(s)'
    BY <2>3, <2>4, <2>7
  <2>8. ASSUME NEW s \in Submitter
        PROVE  Exclusive(s)'
    <3>1. ASSUME NEW j \in Attempt, Runner(j) \/ RunnerError(j)
          PROVE  sub'[s] = sub[s]
      BY <3>1, RunnerEffect DEF JobInv
    <3>2. ASSUME World
          PROVE  sub'[s] = sub[s] \/ sub'[s].pc = "idle"
      BY <3>2, WorldEffect DEF JobInv, Idle
    <3>3. ASSUME UNCHANGED vars
          PROVE  sub'[s] = sub[s]
      BY <3>3 DEF vars
    <3>4. ASSUME NEW t \in Submitter, Submit(t) \/ SubmitAbort(t)
          PROVE  Exclusive(s)'
      BY <3>4, <1>2, <2>5, <2>6 DEF Submit, OneSession
    <3>. QED
      BY <2>4, <2>7, <3>1, <3>2, <3>3, <3>4, StepCases
  <2>. QED
    BY <2>2, <2>8 DEF SingleInv
<1>. QED
  BY <1>1, <1>2

(* At most one job of a file is active while its submissions come one      *)
(* after the other and no task outlasts its budget: a stale row is closed  *)
(* by the same commit that opens its successor (submit_extraction).        *)
THEOREM OneJobAtATime ==
  ASSUME OneSession, ~RunsMayOverrun
  PROVE  Spec => []OneActiveJob
<1>1. Init => JobInv /\ OwnerInv /\ SingleInv
  BY InitJobInv, InitOwnerInv, InitSingleInv
<1>2. JobInv /\ OwnerInv /\ SingleInv /\ [Next]_vars => (JobInv /\ OwnerInv /\ SingleInv)'
  BY StepJobInv, StepOwnerInv, StepSingleInv
<1>3. SingleInv => OneActiveJob
  BY DEF SingleInv
<1>. QED
  BY <1>1, <1>2, <1>3, PTL DEF Spec

(* Where a task will record a response without looking for one again.      *)
Blind(r) == r.pc = "call" \/ (r.pc = "save" /\ r.fresh)

(* No output to reuse has come up since the task looked for some.          *)
NothingSince ==
  \A k \in Attempt : Blind(run[k]) => ~reviewable_artifact_for(run[k].unit)

(* Tasks at work have active rows, of which there is one.                  *)
LEMMA OneTask ==
  ASSUME JobInv, OwnerInv, SingleInv, NEW j \in Attempt, NEW k \in Attempt,
         TaskAlive(j), TaskAlive(k)
  PROVE  j = k
<1>1. ASSUME NEW i \in Attempt, TaskAlive(i)
      PROVE  status[i] \in Active
  <2>1. run[i] \in RunState /\ status[i] \in Phase(run[i].pc)
    BY DEF JobInv, TypeOK, OwnerInv, InPhase
  <2>. QED
    BY <1>1, <2>1, PhaseKinds DEF TaskAlive, Ended, RunState, Active
<1>. QED
  BY <1>1 DEF SingleInv, OneActiveJob

(* A task gets to record blindly only after it has found nothing.          *)
LEMMA RunnerLooks ==
  ASSUME JobInv, OutputInv, NothingSince, NEW k \in Attempt, Runner(k) \/ RunnerError(k),
         Blind(run'[k])
  PROVE  UNCHANGED artifacts /\ ~reviewable_artifact_for(run'[k].unit)
<1>. /\ run \in [Attempt -> RunState] /\ run[k] \in RunState
     /\ Accounted(artifacts, run[k])
  BY DEF JobInv, TypeOK, OutputInv
<1>1. CASE RunnerWork(k)
  <2>1. UNCHANGED artifacts /\ run[k].pc = "work"
    BY <1>1 DEF RunnerWork
  <2>2. ~run[k].fresh
    BY <2>1 DEF Accounted
  <2>3. ~reviewable_artifact_for(run[k].unit)
    BY <1>1, <2>2 DEF RunnerWork, SetRun, Blind, RunState
  <2>4. run'[k] = [run[k] EXCEPT !.pc = "call"]
    BY <1>1, <2>3 DEF RunnerWork, Goto, SetRun
  <2>. QED
    BY <2>1, <2>3, <2>4 DEF RunState
<1>2. CASE RunnerCall(k)
  <2>1. Blind(run[k]) /\ UNCHANGED artifacts
    BY <1>2 DEF RunnerCall, Blind
  <2>2. run'[k].unit = run[k].unit
    <3>1. ASSUME SetRun(k, [run[k] EXCEPT !.pc = "finish", !.err = TRUE])
          PROVE  run'[k].unit = run[k].unit
      BY <3>1 DEF SetRun, RunState
    <3>2. ASSUME NEW p, NEW f, NEW g, NEW b,
                 SetRun(k, [run[k] EXCEPT !.pc = "save", !.out = p, !.fresh = f,
                                          !.good = g, !.bad = b])
          PROVE  run'[k].unit = run[k].unit
      BY <3>2 DEF SetRun, RunState
    <3>. QED
      BY <1>2, <3>1, <3>2 DEF RunnerCall
  <2>. QED
    BY <2>1, <2>2 DEF NothingSince
<1>3. CASE RunnerSave(k)
  <2>1. run'[k] \in {AfterUnit(run[k]), [run[k] EXCEPT !.pc = "recover"]}
    BY <1>3 DEF RunnerSave, SetRun, Goto
  <2>2. run'[k].pc \in {"poll", "finish", "recover"}
    BY <2>1 DEF AfterUnit, RunState
  <2>. QED
    BY <2>2 DEF Blind
<1>to. ASSUME NEW r, SetRun(k, r), ~Blind(r)
       PROVE  FALSE
  BY <1>to DEF SetRun
<1>exit. ASSUME Exit(k)
         PROVE  FALSE
  BY <1>exit, <1>to DEF Exit, Task, Blind
<1>goto. ASSUME NEW pc \in {"start", "poll", "recover"}, Goto(k, pc)
         PROVE  FALSE
  BY <1>goto, <1>to DEF Goto, Blind, RunState
<1>fail. ASSUME NEW m, fail_job(k, m)
         PROVE  FALSE
  BY <1>fail, <1>exit, <1>to DEF fail_job, Blind, RunState
<1>trans. ASSUME NEW m, NEW to, transition(k, m, to)
          PROVE  FALSE
  BY <1>trans, <1>to, <1>goto DEF transition, Blind, RunState
<1>4. CASE RunnerRead(k)
  BY <1>4, <1>to, <1>exit DEF RunnerRead, Blind, RunState
<1>5. CASE RunnerAuthorize(k)
  BY <1>5, <1>fail, <1>trans, <1>goto DEF RunnerAuthorize
<1>6. CASE RunnerStart(k)
  BY <1>6, <1>to DEF RunnerStart, Blind, RunState
<1>7. CASE RunnerFetch(k)
  BY <1>7, <1>goto DEF RunnerFetch
<1>8. CASE RunnerPoll(k)
  BY <1>8, <1>fail, <1>trans, <1>to DEF RunnerPoll, Blind, RunState
<1>9. CASE RunnerFinish(k)
  BY <1>9, <1>exit, <1>goto DEF RunnerFinish
<1>10. CASE RunnerClose(k) \/ RunnerRecover(k) \/ RunnerError(k)
  BY <1>10, <1>exit, <1>fail, <1>goto DEF RunnerClose, RunnerRecover, RunnerError
<1>. QED
  BY <1>1, <1>2, <1>3, <1>4, <1>5, <1>6, <1>7, <1>8, <1>9, <1>10 DEF Runner

LEMMA StepNothingSince ==
  ASSUME JobInv, OwnerInv, SingleInv, OutputInv, NothingSince, NoDuplicateOutput, [Next]_vars
  PROVE  NothingSince' /\ NoDuplicateOutput'
<1>type. /\ run \in [Attempt -> RunState]
         /\ artifacts \in [Unit -> [Payload -> ArtifactStatus]]
  BY DEF JobInv, TypeOK
<1> DEFINE Fewer == \A u \in Unit, p \in Payload :
                      artifacts'[u][p] = "reviewable" => artifacts[u][p] = "reviewable"
<1>unit. ASSUME NEW k \in Attempt
         PROVE  run[k].unit \in Unit
  BY <1>type DEF RunState, Unit
<1>fewer. ASSUME Fewer, \A k \in Attempt : Blind(run'[k]) => run'[k] = run[k]
          PROVE  NothingSince' /\ NoDuplicateOutput'
  BY <1>fewer, <1>unit DEF NothingSince, NoDuplicateOutput, reviewable_artifact_for
<1>1. ASSUME NEW s \in Submitter, Submit(s) \/ SubmitAbort(s)
      PROVE  NothingSince' /\ NoDuplicateOutput'
  <2>1. UNCHANGED artifacts
    BY <1>1, SubmitEffect DEF JobInv
  <2>2. ASSUME NEW k \in Attempt, Blind(run'[k])
        PROVE  run'[k] = run[k]
    <3>1. CASE UNCHANGED run
      BY <3>1
    <3>2. CASE SubmitCommit(s)
      BY <2>2, <3>2, <1>type DEF SubmitCommit, Blind, Task
    <3>. QED
      BY <1>1, <3>1, <3>2, SubmitEffect DEF JobInv
  <2>. QED
    BY <2>1, <2>2, <1>fewer
<1>2. ASSUME NEW j \in Attempt, Runner(j) \/ RunnerError(j), ~RunnerSave(j)
      PROVE  NothingSince' /\ NoDuplicateOutput'
  <2>1. UNCHANGED artifacts
    BY <1>2 DEF Runner, RunnerError, RunnerRead, RunnerAuthorize, RunnerStart, RunnerFetch,
       RunnerPoll, RunnerWork, RunnerCall, RunnerFinish, RunnerClose, RunnerRecover
  <2>2. \A k \in Attempt \ {j} : run'[k] = run[k]
    BY <1>2, RunnerEffect DEF JobInv, OwnMove
  <2>3. Blind(run'[j]) => ~reviewable_artifact_for(run'[j].unit)
    BY <1>2, RunnerLooks
  <2>4. ASSUME NEW k \in Attempt, Blind(run'[k])
        PROVE  ~reviewable_artifact_for(run'[k].unit)
    BY <2>2, <2>3, <2>4 DEF NothingSince
  <2>. QED
    BY <2>1, <2>4 DEF NothingSince, NoDuplicateOutput, reviewable_artifact_for
<1>3. ASSUME NEW j \in Attempt, RunnerSave(j)
      PROVE  NothingSince' /\ NoDuplicateOutput'
  <2> DEFINE u == run[j].unit
             p == run[j].out
  <2>1. ASSUME NEW k \in Attempt, Blind(run'[k])
        PROVE  run'[k] = run[k] /\ k # j
    <3>1. Runner(j) /\ TaskAlive(j)
      BY <1>3 DEF Runner, RunnerSave, TaskAlive, Ended
    <3>2. OwnMove(j)
      BY <3>1, RunnerEffect DEF JobInv
    <3>3. CASE k = j
      <4>1. run'[j] \in {AfterUnit(run[j]), [run[j] EXCEPT !.pc = "recover"]}
        BY <1>3, <1>type DEF RunnerSave, SetRun, Goto
      <4>2. run'[j].pc \in {"poll", "finish", "recover"}
        BY <4>1, <1>type DEF AfterUnit, RunState
      <4>. QED
        BY <2>1, <3>3, <4>2 DEF Blind
    <3>4. CASE k # j
      BY <3>2, <3>4 DEF OwnMove
    <3>. QED
      BY <3>3, <3>4
  <2>2. ASSUME NEW k \in Attempt
        PROVE  ~Blind(run'[k])
    <3>1. ASSUME Blind(run'[k])
          PROVE  FALSE
      <4>1. run'[k] = run[k] /\ k # j
        BY <2>1, <3>1
      <4>2. TaskAlive(k) /\ TaskAlive(j)
        BY <1>3, <3>1, <4>1 DEF RunnerSave, Blind, TaskAlive, Ended
      <4>. QED
        BY <4>1, <4>2, OneTask
    <3>. QED
      BY <3>1
  <2>3. CASE UNCHANGED artifacts
    BY <2>2, <2>3 DEF NothingSince, NoDuplicateOutput
  <2>4. CASE run[j].fresh /\ artifacts' = [artifacts EXCEPT ![u][p] =
                                             IF p \in Valid THEN "reviewable" ELSE "failed"]
    <3>1. \A q \in Payload : artifacts[u][q] # "reviewable"
      BY <1>3, <2>4 DEF RunnerSave, Blind, NothingSince, reviewable_artifact_for
    <3>2. u \in Unit
      BY <1>unit
    <3>. HIDE DEF u, p
    <3>3. NoDuplicateOutput'
      BY <2>4, <3>1, <3>2, <1>type DEF NoDuplicateOutput
    <3>. QED
      BY <2>2, <3>3 DEF NothingSince
  <2>. QED
    BY <1>3, <2>3, <2>4 DEF RunnerSave
<1>4. CASE World
  <2>1. \A k \in Attempt : Blind(run'[k]) => run'[k] = run[k]
    BY <1>4, WorldEffect DEF JobInv, Blind, Task
  <2>2. Fewer
    <3>1. ASSUME NEW u \in Unit, NEW p \in Payload, Reject(u, p)
          PROVE  Fewer
      BY <3>1, <1>type DEF Reject
    <3>2. ASSUME ~ \E u \in Unit, p \in Payload : Reject(u, p)
          PROVE  UNCHANGED artifacts
      BY <1>4, <3>2 DEF World, CancelRead, CancelCommit, Expire, ChangeAccess, ChangeEvidence, Restart
    <3>. QED
      BY <3>1, <3>2
  <2>. QED
    BY <2>1, <2>2, <1>fewer
<1>5. CASE UNCHANGED vars
  BY <1>5, <1>fewer DEF vars
<1>. QED
  BY <1>1, <1>2, <1>3, <1>4, <1>5, StepCases

(* A source record has at most one extraction under or past review, under  *)
(* the same assumptions: a retry reuses what an earlier attempt left       *)
(* (_reviewable_extraction) and no other task records in between.          *)
THEOREM OutputIsSingle ==
  ASSUME OneSession, ~RunsMayOverrun
  PROVE  Spec => []NoDuplicateOutput
<1> DEFINE Inv == JobInv /\ OwnerInv /\ SingleInv /\ OutputInv
           Out == NothingSince /\ NoDuplicateOutput
<1>1. Init => Inv /\ Out
  <2>1. Init => OutputInv
    BY DEF Init, OutputInv, Accounted, Task, SucceededIsComplete
  <2>2. Init => Out
    BY DEF Init, NothingSince, NoDuplicateOutput, Blind, Task
  <2>. QED
    BY <2>1, <2>2, InitJobInv, InitOwnerInv, InitSingleInv
<1>2. Inv /\ Out /\ [Next]_vars => Inv' /\ Out'
  BY StepJobInv, StepOwnerInv, StepSingleInv, StepOutputInv, StepNothingSince
<1>3. Out => NoDuplicateOutput
  OBVIOUS
<1>. HIDE DEF Inv, Out
<1>. QED
  BY <1>1, <1>2, <1>3, PTL DEF Spec

=============================================================================

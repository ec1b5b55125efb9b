---------------------------- MODULE CaseIngestion ----------------------------
(***************************************************************************)
(* Ingestion of the evidence files of ONE case: IngestionService, the rows *)
(* it writes, and the projection of the case into Neo4j.                   *)
(*                                                                         *)
(* A run is one transaction.  What it inserts is invisible to others and   *)
(* holds unique keys and row locks until its COMMIT; the projection is     *)
(* written to Neo4j before that COMMIT.  A request keeps the job row it    *)
(* has loaded (copy): later checks look at this copy, not at the table.    *)
(* Resolution is exact here: a mention is the entity of its value, created *)
(* if there is none (CaseReview has the near matches).                     *)
(***************************************************************************)
EXTENDS Integers, Sequences, FiniteSets, TLC

CONSTANTS
  File,      \* evidence files of the case
  Text,      \* Text[f]: the records of f, each a sequence of mentioned values
  Value,     \* canonical values
  Request,   \* calls of the ingest route (synchronous or with async=true)
  Faults     \* what may go wrong

ASSUME IngestionConstants ==
  /\ Text \in [File -> Seq(Seq(Value))]
  /\ Faults \subseteq {"storage", "record", "graph", "database", "restart"}

VARIABLES
  job,       \* the ingestion job of each file
  status,    \* status of each evidence row
  rows,      \* committed records, candidates, entities, relationships, proofs
  graph,     \* Neo4j: nodes and edges
  req,       \* the requests
  tx         \* what each request has written and not committed

vars == <<job, status, rows, graph, req, tx>>

-----------------------------------------------------------------------------

TERMINAL_JOB_STATES == {"completed", "failed", "partial"}
Job == [ status : {"none", "pending", "running"} \cup TERMINAL_JOB_STATES,
         processed : Nat, graph : {"pending", "synced", "failed"} ]
NoJob == [status |-> "none", processed |-> 0, graph |-> "pending"]
NewJob == [NoJob EXCEPT !.status = "pending"]

(* An entity row is named by its value and the request that inserted it:   *)
(* a row inserted again after a rollback has another id.                   *)
Id == Value \X Request
Rows == [record : SUBSET (File \X Nat), link : SUBSET (File \X Nat \X Value),
         entity : SUBSET Id, rel : SUBSET (SUBSET Value),
         proof : SUBSET (File \X Nat \X SUBSET Value)]
NoRows == [record |-> {}, link |-> {}, entity |-> {}, rel |-> {}, proof |-> {}]
Plus(a, b) == [k \in DOMAIN a |-> a[k] \cup b[k]]
Visible(s) == Plus(rows, tx[s])

Pairs(mentions) ==
  {p \in SUBSET {mentions[k] : k \in DOMAIN mentions} : Cardinality(p) = 2}

Calm == [ pc |-> "new", file |-> CHOOSE f \in File : TRUE, copy |-> NoJob, at |-> 0, mention |-> 0 ]
Asking == {"queued", "ask", "create"}
Working == {"fetch", "begin", "record", "related", "project", "commit", "handler"}
Ended == {"done", "error", "lost"}

Init ==
  /\ job = [f \in File |-> NoJob]
  /\ status = [f \in File |-> "stored"]
  /\ rows = NoRows
  /\ graph = [nodes |-> {}, edges |-> {}]
  /\ req = [s \in Request |-> Calm]
  /\ tx = [s \in Request |-> NoRows]

Go(s, pc) == req' = [req EXCEPT ![s].pc = pc]
f_(s) == req[s].file

(* The row locks of a run: it has updated the rows of its file and its job.*)
Locks(s) == req[s].pc \in {"record", "related", "project", "commit"}
             \/ (req[s].pc = "handler" /\ req[s].copy.status = "running")
FileLocked(s) == \E t \in Request \ {s} : f_(t) = f_(s) /\ Locks(t)

-----------------------------------------------------------------------------
(* create_ingest_job.  With async=true the route commits a pending job and *)
(* a background task calls ingest; otherwise the route calls it itself.    *)

Ingest(s, f) ==
  /\ req[s].pc = "new"
  /\ req' = [req EXCEPT ![s].pc = "ask", ![s].file = f]
  /\ UNCHANGED <<job, status, rows, graph, tx>>

_submit_pending_job(s, f) ==
  /\ req[s].pc = "new"
  /\ req' = [req EXCEPT ![s].pc = "queued", ![s].file = f]
  /\ job' = IF job[f].status = "none" THEN [job EXCEPT ![f] = NewJob] ELSE job
  /\ UNCHANGED <<status, rows, graph, tx>>

(* ingest: a job that ended is returned unchanged.                         *)
ExistingJob(s) ==
  /\ req[s].pc \in {"queued", "ask"}
  /\ LET j == job[f_(s)] IN
     req' = [req EXCEPT ![s].copy = j,
               ![s].pc = IF j.status \in TERMINAL_JOB_STATES THEN "done" ELSE "create"]
  /\ UNCHANGED <<job, status, rows, graph, tx>>

(* create_job: the insert that conflicts loads the row, unless the request *)
(* has a copy of it already.                                               *)
create_job(s) ==
  /\ req[s].pc = "create"
  /\ LET f == f_(s)
         j == IF req[s].copy.status # "none" THEN req[s].copy
              ELSE IF job[f].status = "none" THEN NewJob ELSE job[f]
     IN /\ job' = IF job[f].status = "none" THEN [job EXCEPT ![f] = NewJob] ELSE job
        /\ req' = [req EXCEPT ![s].copy = j,
                     ![s].pc = IF j.status \in TERMINAL_JOB_STATES THEN "done" ELSE "fetch"]
  /\ UNCHANGED <<status, rows, graph, tx>>

-----------------------------------------------------------------------------
(* _run                                                                    *)

Fetch(s) ==
  /\ req[s].pc = "fetch" /\ Go(s, "begin")
  /\ UNCHANGED <<job, status, rows, graph, tx>>

(* What follows the last mention of record i: its relationships.           *)
Position(f, i) ==
  IF i > Len(Text[f]) THEN "project" ELSE IF Text[f][i] = <<>> THEN "related" ELSE "record"

(* update_evidence and mark_job_running: a run of the same file is waited  *)
(* for; the transition is checked on the copy.                             *)
mark_job_running_polite(s) ==
  /\ req[s].pc = "begin"
  /\ \A t \in Request \ {s} : f_(t) = f_(s) => req[t].pc \notin Working
  /\ req' = [req EXCEPT ![s].pc = Position(f_(s), 1), ![s].at = 1, ![s].mention = 1,
                        ![s].copy.status = "running"]
  /\ UNCHANGED <<job, status, rows, graph, tx>>
mark_job_running(s) ==
  /\ req[s].pc = "begin"
  /\ ~FileLocked(s)
  /\ req' = [req EXCEPT ![s].pc = Position(f_(s), 1), ![s].at = 1, ![s].mention = 1,
                        ![s].copy.status = "running"]
  /\ UNCHANGED <<job, status, rows, graph, tx>>

(* A unique key that another request has inserted and not committed.       *)
ValuePending(s, t, v) == \E id \in tx[t].entity : id[1] = v
PairsPending(s, t) ==
  \E p \in Pairs(Text[f_(s)][req[s].at]) : p \in tx[t].rel /\ p \notin Visible(s).rel
Waits(s, t) ==
  /\ s # t
  /\ \/ /\ req[s].pc = "record"
        /\ LET v == Text[f_(s)][req[s].at][req[s].mention] IN
           /\ ValuePending(s, t, v)
           /\ \A id \in Visible(s).entity : id[1] # v
     \/ req[s].pc = "related" /\ PairsPending(s, t)

(* One mention: the source record and the candidate (each inserted once),  *)
(* resolved to the entity of its value.  A candidate that is linked        *)
(* already keeps its entity.                                               *)
create_entity(vis, s, v) ==
  IF \E id \in vis.entity : id[1] = v THEN {} ELSE {<<v, s>>}
_resolve_mention(s) ==
  /\ req[s].pc = "record"
  /\ \A t \in Request : ~Waits(s, t)
  /\ LET f == f_(s)
         i == req[s].at
         k == req[s].mention
         v == Text[f][i][k]
     IN /\ tx' = [tx EXCEPT ![s].record = @ \cup {<<f, i>>}, ![s].link = @ \cup {<<f, i, v>>},
                            ![s].entity = @ \cup create_entity(Visible(s), s, v)]
        /\ req' = [req EXCEPT ![s].mention = k + 1,
                              ![s].pc = IF k = Len(Text[f][i]) THEN "related" ELSE "record"]
  /\ UNCHANGED <<job, status, rows, graph>>

(* The relationships of a record - a known one gets this record as further *)
(* evidence - and tick_job_progress.                                       *)
Relate(s) ==
  /\ req[s].pc = "related"
  /\ \A t \in Request : ~Waits(s, t)
  /\ LET f == f_(s)
         i == req[s].at
         ps == Pairs(Text[f][i])
     IN /\ tx' = [tx EXCEPT ![s].record = @ \cup {<<f, i>>}, ![s].rel = @ \cup ps,
                            ![s].proof = @ \cup {<<f, i, p>> : p \in ps}]
        /\ req' = [req EXCEPT ![s].pc = Position(f, i + 1), ![s].at = i + 1,
                              ![s].mention = 1, ![s].copy.processed = i]
  /\ UNCHANGED <<job, status, rows, graph>>

(* sync_case: every visible entity is merged by id; the uniqueness of case,*)
(* type and value refuses a second node of a value, and nothing is written.*)
(* Edges are merged between the nodes that are there.                      *)
KeyTaken(vis) == \E id \in vis.entity, n \in graph.nodes : n[1] = id[1] /\ n # id
sync_case(vis) ==
  LET nodes == graph.nodes \cup vis.entity
  IN [nodes |-> nodes,
      edges |-> graph.edges \cup
                {{CHOOSE id \in vis.entity : id[1] = v : v \in p} : p \in vis.rel}]

(* _sync_graph never raises: its failure is the job's graph status.        *)
_sync_graph(s) ==
  /\ req[s].pc = "project"
  /\ \/ /\ ~KeyTaken(Visible(s))
        /\ graph' = sync_case(Visible(s))
        /\ req' = [req EXCEPT ![s].pc = "commit", ![s].copy.graph = "synced"]
     \/ /\ KeyTaken(Visible(s)) \/ "graph" \in Faults
        /\ req' = [req EXCEPT ![s].pc = "commit", ![s].copy.graph = "failed"]
        /\ UNCHANGED graph
  /\ UNCHANGED <<job, status, rows, tx>>

Committed(s, j) ==
  /\ rows' = Visible(s)
  /\ tx' = [tx EXCEPT ![s] = NoRows]
  /\ job' = [job EXCEPT ![f_(s)] = j]
  /\ req' = [req EXCEPT ![s] = [Calm EXCEPT !.pc = "done", !.file = f_(s)]]

complete_job(s) ==
  /\ req[s].pc = "commit"
  /\ Committed(s, [req[s].copy EXCEPT !.status = "completed"])
  /\ status' = [status EXCEPT ![f_(s)] = "parsed"]
  /\ UNCHANGED graph

-----------------------------------------------------------------------------
(* Failures                                                                *)

(* The download, the parser or the extraction of a record raises.          *)
Raise(s) ==
  /\ \/ req[s].pc = "fetch" /\ "storage" \in Faults
     \/ req[s].pc \in {"record", "related"} /\ "record" \in Faults
  /\ Go(s, "handler")
  /\ UNCHANGED <<job, status, rows, graph, tx>>

(* The handler ends the job and commits what the run has written so far.   *)
(* Its UPDATE of the job row waits for a run that holds it.                *)
Handler(s) ==
  /\ req[s].pc = "handler"
  /\ ~FileLocked(s)
  /\ Committed(s, [req[s].copy EXCEPT
                     !.status = IF req[s].copy.processed > 0 THEN "partial" ELSE "failed"])
  /\ status' = IF req[s].copy.status = "running"
               THEN [status EXCEPT ![f_(s)] = "processing"] ELSE status
  /\ UNCHANGED graph

(* A database error - a lost connection, or the choice of this transaction *)
(* to break a deadlock - leaves the session unusable: the handler fails    *)
(* too, everything is rolled back, and the job row stays as it was.        *)
Deadlocked(s) == \E t \in Request : Waits(s, t) /\ Waits(t, s)
Rollback(s) ==
  /\ req[s].pc \in Working
  /\ tx' = [tx EXCEPT ![s] = NoRows]
  /\ req' = [req EXCEPT ![s] = [Calm EXCEPT !.pc = "error", !.file = f_(s)]]
  /\ UNCHANGED <<job, status, rows, graph>>
DeadlockVictim(s) == Deadlocked(s) /\ Rollback(s)
ConnectionLost(s) == "database" \in Faults /\ Rollback(s)

(* A restart of the API: queued and running requests are lost, and so is   *)
(* what they have not committed.  Neo4j keeps what it was sent.            *)
Restart ==
  /\ "restart" \in Faults
  /\ \E s \in Request : req[s].pc \in Asking \cup Working
  /\ req' = [s \in Request |-> IF req[s].pc \in Asking \cup Working
                               THEN [Calm EXCEPT !.pc = "lost", !.file = f_(s)] ELSE req[s]]
  /\ tx' = [s \in Request |-> NoRows]
  /\ UNCHANGED <<job, status, rows, graph>>

(* retry_graph_sync: the projection of the committed rows, for any job.    *)
(* The UPDATE of the job row waits for a run that holds it.                *)
RetryGraphSync_always(f) ==
  /\ job[f].status # "none"
  /\ \A s \in Request : ~(Locks(s) /\ f_(s) = f)
  /\ job' = [job EXCEPT ![f].graph = "synced"]
  /\ graph' = IF KeyTaken(rows) THEN graph ELSE sync_case(rows)
  /\ UNCHANGED <<status, rows, req, tx>>
RetryGraphSync(f) ==
  /\ job[f].status # "none"
  /\ \A s \in Request : ~(Locks(s) /\ f_(s) = f)
  /\ \/ /\ ~KeyTaken(rows)
        /\ graph' = sync_case(rows)
        /\ job' = [job EXCEPT ![f].graph = "synced"]
     \/ /\ KeyTaken(rows) \/ "graph" \in Faults
        /\ job' = [job EXCEPT ![f].graph = "failed"]
        /\ UNCHANGED graph
  /\ UNCHANGED <<status, rows, req, tx>>

-----------------------------------------------------------------------------

Step(s) ==
  \/ ExistingJob(s) \/ create_job(s) \/ Fetch(s) \/ mark_job_running(s)
  \/ _resolve_mention(s) \/ Relate(s) \/ _sync_graph(s) \/ complete_job(s)
  \/ Handler(s) \/ DeadlockVictim(s)

Next ==
  \/ \E s \in Request :
       \/ Step(s) \/ Raise(s) \/ ConnectionLost(s)
       \/ \E f \in File : Ingest(s, f) \/ _submit_pending_job(s, f)
  \/ \E f \in File : RetryGraphSync(f)
  \/ Restart

(* The event loop runs every task that is not waiting for PostgreSQL, and  *)
(* PostgreSQL breaks deadlocks.  No failure is fair.                       *)
Spec == Init /\ [][Next]_vars /\ \A s \in Request : WF_vars(Step(s))

-----------------------------------------------------------------------------

TypeOK ==
  /\ job \in [File -> Job]
  /\ status \in [File -> {"stored", "processing", "parsed"}]
  /\ graph.nodes \subseteq Id /\ graph.edges \subseteq SUBSET Id
  /\ \A s \in Request : req[s].pc \in {"new"} \cup Asking \cup Working \cup Ended
  /\ \A s \in Request : req[s].pc \notin Working => tx[s] = NoRows

Stored(f, i) ==
  /\ <<f, i>> \in rows.record
  /\ \A k \in DOMAIN Text[f][i] : /\ <<f, i, Text[f][i][k]>> \in rows.link
                                  /\ \E id \in rows.entity : id[1] = Text[f][i][k]
  /\ \A p \in Pairs(Text[f][i]) : p \in rows.rel /\ <<f, i, p>> \in rows.proof

(* A completed job has stored every record with its mentions, and every    *)
(* relationship names this record as evidence - whether an earlier run,    *)
(* another file or a run beside it had inserted the row.                   *)
CompletedIsComplete ==
  \A f \in File : job[f].status = "completed" =>
    status[f] # "stored" /\ \A i \in DOMAIN Text[f] : Stored(f, i)

(* The progress a job reports is committed work, also after an exception,  *)
(* a rollback or a restart of the run that made it.                        *)
ProgressIsCommitted ==
  \A f \in File : \A i \in 1..job[f].processed : i \in DOMAIN Text[f] /\ Stored(f, i)

(* A completed job that is marked synced has its entities and              *)
(* relationships in Neo4j, also when the projection ran before the COMMIT, *)
(* or again after another file's.                                          *)
SyncedJobIsProjected ==
  \A f \in File : job[f].status = "completed" /\ job[f].graph = "synced" =>
    \A i \in DOMAIN Text[f] :
      /\ \A k \in DOMAIN Text[f][i] :
           \E id \in rows.entity : id[1] = Text[f][i][k] /\ id \in graph.nodes
      /\ \A p \in Pairs(Text[f][i]) : \E e \in graph.edges : {id[1] : id \in e} = p

(* A request that is answered without an error finds its job ended: a      *)
(* pending job that a restart or a rollback left behind is run again, it   *)
(* is never taken for one that somebody else is working on.                *)
AnsweredJobHasEnded ==
  \A s \in Request : req[s].pc = "done" => job[f_(s)].status \in TERMINAL_JOB_STATES

(* Jobs, rows and Neo4j tell the same story.                               *)
JobsTellTheTruth ==
  CompletedIsComplete /\ ProgressIsCommitted /\ SyncedJobIsProjected /\ AnsweredJobHasEnded

(* Every request is answered: runs of one file wait for each other's row   *)
(* locks, runs of two files for each other's unique keys, and none of them *)
(* waits for ever.                                                         *)
RequestsEnd == \A s \in Request : req[s].pc \in Asking ~> req[s].pc \in Ended

=============================================================================

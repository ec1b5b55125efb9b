------------------------ MODULE CaseIngestionProofs ------------------------
(***************************************************************************)
(* Proofs about CaseIngestion for any number of files, records, values and *)
(* requests and any faults: what a run has written so far is all it has    *)
(* passed in its file, and what is written is never taken back.            *)
(***************************************************************************)
EXTENDS CaseIngestion, TLAPS

-----------------------------------------------------------------------------
(* The invariant.  v is what a request sees: the committed rows and its    *)
(* own uncommitted ones.                                                   *)

Field == {"record", "link", "entity", "rel", "proof"}
IsRows(r) == r = [k \in Field |-> r[k]]
Within(r, v) == \A k \in Field : r[k] \subseteq v[k]
Sees(v, x) == \E id \in v.entity : id[1] = x
Shows(e, p) == {id[1] : id \in e} = p

Linked(v, f, i, k) == <<f, i, Text[f][i][k]>> \in v.link /\ Sees(v, Text[f][i][k])
StoredIn(v, f, i) ==
  /\ i \in DOMAIN Text[f]
  /\ <<f, i>> \in v.record
  /\ \A k \in DOMAIN Text[f][i] : Linked(v, f, i, k)
  /\ \A p \in Pairs(Text[f][i]) : p \in v.rel /\ <<f, i, p>> \in v.proof
Projected(v, g, f) ==
  \A i \in DOMAIN Text[f] :
    /\ \A k \in DOMAIN Text[f][i] :
         \E id \in v.entity : id[1] = Text[f][i][k] /\ id \in g.nodes
    /\ \A p \in Pairs(Text[f][i]) : \E e \in g.edges : Shows(e, p)

Writing == {"record", "related", "project", "commit"}
RequestType ==
  [pc : {"new"} \cup Asking \cup Working \cup Ended, file : File \cup {Calm.file},
   copy : Job, at : Nat, mention : Nat]

(* Where a run is in its file, and that it has stored what lies behind it. *)
HasStored(q, v) ==
  q.pc \in Writing =>
    /\ \A i \in DOMAIN Text[q.file] : i < q.at => StoredIn(v, q.file, i)
    /\ q.pc \in {"record", "related"} => q.at \in DOMAIN Text[q.file]
    /\ q.pc = "record" =>
         /\ q.mention \in DOMAIN Text[q.file][q.at]
         /\ \A k \in DOMAIN Text[q.file][q.at] : k < q.mention => Linked(v, q.file, q.at, k)
    /\ q.pc = "related" => \A k \in DOMAIN Text[q.file][q.at] : Linked(v, q.file, q.at, k)
    /\ q.pc \in {"project", "commit"} => q.at > Len(Text[q.file])
Progress(n, v, f) == \A i \in 1..n : StoredIn(v, f, i)
RunOK(q, v, g) ==
  /\ q.pc # "new" => q.file \in File
  /\ q.pc = "new" => q.copy.processed = 0
  /\ q.pc = "create" => q.copy.status \notin TERMINAL_JOB_STATES
  /\ q.pc \notin Ended => Progress(q.copy.processed, v, q.file)
  /\ HasStored(q, v)
  /\ q.pc = "commit" /\ q.copy.graph = "synced" => Projected(v, g, q.file)
JobOK(j, st, r, g, f) ==
  /\ Progress(j.processed, r, f)
  /\ j.status = "completed" =>
       /\ st # "stored"
       /\ \A i \in DOMAIN Text[f] : StoredIn(r, f, i)
       /\ j.graph = "synced" => Projected(r, g, f)

Shapes ==
  /\ job \in [File -> Job]
  /\ status \in [File -> {"stored", "processing", "parsed"}]
  /\ req \in [Request -> RequestType]
  /\ IsRows(rows)
  /\ graph = [nodes |-> graph.nodes, edges |-> graph.edges]
  /\ tx = [s \in Request |-> tx[s]] /\ \A s \in Request : IsRows(tx[s])
Inv ==
  /\ Shapes
  /\ \A f \in File : JobOK(job[f], status[f], rows, graph, f)
  /\ \A s \in Request : RunOK(req[s], Visible(s), graph)
  /\ AnsweredJobHasEnded

-----------------------------------------------------------------------------
(* What is stored or projected stays so as rows and graph grow.            *)

LEMMA Fields ==
  /\ IsRows(NoRows)
  /\ \A r, v : IsRows(r) /\ IsRows(v) =>
       /\ IsRows(Plus(r, v)) /\ Within(r, Plus(r, v)) /\ Within(v, Plus(r, v))
       /\ \A k \in Field : Plus(r, v)[k] = r[k] \cup v[k]
<1>1. IsRows(NoRows)
  BY DEF IsRows, NoRows, Field
<1>2. ASSUME NEW r, NEW v, IsRows(r), IsRows(v)
      PROVE  /\ IsRows(Plus(r, v)) /\ Within(r, Plus(r, v)) /\ Within(v, Plus(r, v))
             /\ \A k \in Field : Plus(r, v)[k] = r[k] \cup v[k]
  <2>1. DOMAIN r = Field
    BY <1>2 DEF IsRows
  <2> QED BY <2>1 DEF IsRows, Within, Plus
<1> QED BY <1>1, <1>2

LEMMA GrowsWithin ==
  ASSUME NEW r, NEW v, Within(r, v), NEW f, NEW i
  PROVE  /\ StoredIn(r, f, i) => StoredIn(v, f, i)
         /\ \A k : Linked(r, f, i, k) => Linked(v, f, i, k)
<1>1. /\ r.record \subseteq v.record /\ r.link \subseteq v.link /\ r.entity \subseteq v.entity
      /\ r.rel \subseteq v.rel /\ r.proof \subseteq v.proof
  BY DEF Within, Field
<1>2. \A x : Sees(r, x) => Sees(v, x)
  BY <1>1 DEF Sees
<1>3. \A k : Linked(r, f, i, k) => Linked(v, f, i, k)
  BY <1>1, <1>2 DEF Linked
<1> QED BY <1>1, <1>3 DEF StoredIn

LEMMA ProjectionStays ==
  ASSUME NEW r, NEW v, r.entity \subseteq v.entity, NEW g, NEW h,
         g.nodes \subseteq h.nodes, g.edges \subseteq h.edges, NEW f, Projected(r, g, f)
  PROVE  Projected(v, h, f)
BY DEF Projected

LEMMA RunStays ==
  ASSUME NEW q, NEW r, NEW v, Within(r, v), NEW g, NEW h,
         g.nodes \subseteq h.nodes, g.edges \subseteq h.edges, RunOK(q, r, g)
  PROVE  RunOK(q, v, h)
<1>1. r.entity \subseteq v.entity
  BY DEF Within, Field
<1>2. q.pc \notin Ended => Progress(q.copy.processed, v, q.file)
  BY GrowsWithin DEF RunOK, Progress
<1>3. HasStored(q, v)
  BY GrowsWithin DEF RunOK, HasStored
<1>4. q.pc = "commit" /\ q.copy.graph = "synced" => Projected(v, h, q.file)
  BY <1>1, ProjectionStays DEF RunOK
<1> QED BY <1>2, <1>3, <1>4 DEF RunOK

(* A projection of rows that hold all of a file shows all of the file.     *)
LEMMA SyncShows ==
  ASSUME NEW v, NEW f, \A i \in DOMAIN Text[f] : StoredIn(v, f, i),
         \A i \in DOMAIN Text[f] : DOMAIN Text[f][i] = 1..Len(Text[f][i])
  PROVE  Projected(v, sync_case(v), f)
<1> DEFINE g == sync_case(v)
           Node(x) == CHOOSE id \in v.entity : id[1] = x
           Edge(p) == {Node(x) : x \in p}
<1>1. /\ g.nodes = graph.nodes \cup v.entity
      /\ g.edges = graph.edges \cup {Edge(p) : p \in v.rel}
  BY DEF sync_case
<1> HIDE DEF g
<1>2. ASSUME NEW i \in DOMAIN Text[f], NEW k \in DOMAIN Text[f][i]
      PROVE  \E id \in v.entity : id[1] = Text[f][i][k] /\ id \in g.nodes
  BY <1>1 DEF StoredIn, Linked, Sees
<1>3. ASSUME NEW i \in DOMAIN Text[f], NEW p \in Pairs(Text[f][i])
      PROVE  \E e \in g.edges : Shows(e, p)
  <2>1. p \subseteq {Text[f][i][k] : k \in DOMAIN Text[f][i]}
    BY DEF Pairs
  <2>2. \A x \in p : Sees(v, x)
    BY <2>1 DEF StoredIn, Linked
  <2>3. \A x \in p : Node(x) \in v.entity /\ Node(x)[1] = x
    BY <2>2 DEF Sees
  <2> HIDE DEF Node
  <2>4. {id[1] : id \in Edge(p)} = p
    BY <2>3
  <2>5. p \in v.rel
    BY DEF StoredIn
  <2>6. Edge(p) \in g.edges
    BY <1>1, <2>5
  <2> QED BY <2>4, <2>6 DEF Shows
<1>4. Projected(v, g, f)
  BY <1>2, <1>3 DEF Projected
<1> QED BY <1>4 DEF g

-----------------------------------------------------------------------------
(* Steps.  A row, a request or a job that a step does not touch stays in   *)
(* order, whatever other requests add.                                     *)

LEMMA Keeps ==
  ASSUME Inv, Shapes', Within(rows, rows'),
         graph.nodes \subseteq graph'.nodes, graph.edges \subseteq graph'.edges,
         \A t \in Request :
           \/ req'[t] = req[t] /\ tx'[t] = tx[t]
           \/ /\ RunOK(req[t], Visible(t), graph)'
              /\ req'[t].pc = "done" => job'[req'[t].file].status \in TERMINAL_JOB_STATES,
         \A f \in File :
           /\ \/ job'[f] = job[f] /\ status'[f] = status[f]
              \/ JobOK(job[f], status[f], rows, graph, f)'
           /\ job[f].status \in TERMINAL_JOB_STATES => job'[f].status \in TERMINAL_JOB_STATES
  PROVE  Inv'
<1>1. ASSUME NEW t \in Request
      PROVE  /\ RunOK(req[t], Visible(t), graph)'
             /\ req'[t].pc = "done" => job'[req'[t].file].status \in TERMINAL_JOB_STATES
  <2>1. CASE req'[t] = req[t] /\ tx'[t] = tx[t]
    <3>1. Within(Visible(t), Visible(t)')
      <4>1. IsRows(rows) /\ IsRows(rows') /\ IsRows(tx[t]) /\ IsRows(tx'[t])
        BY DEF Inv, Shapes
      <4> QED BY <2>1, <4>1, Fields DEF Within, Visible
    <3>2. RunOK(req[t], Visible(t), graph)
      BY DEF Inv
    <3>3. RunOK(req[t], Visible(t)', graph')
      BY <3>1, <3>2, RunStays
    <3>4. RunOK(req[t], Visible(t), graph)'
      BY <2>1, <3>3
    <3>5. req[t].pc = "done" => req[t].file \in File /\ job[req[t].file].status \in TERMINAL_JOB_STATES
      BY <3>2 DEF Inv, AnsweredJobHasEnded, RunOK, f_
    <3> QED BY <2>1, <3>4, <3>5
  <2> QED BY <2>1
<1>2. ASSUME NEW f \in File
      PROVE  JobOK(job[f], status[f], rows, graph, f)'
  <2>1. CASE job'[f] = job[f] /\ status'[f] = status[f]
    <3>1. JobOK(job[f], status[f], rows, graph, f)
      BY DEF Inv
    <3>2. Progress(job[f].processed, rows', f)
      BY <3>1, GrowsWithin DEF JobOK, Progress
    <3>3. \A i \in DOMAIN Text[f] : StoredIn(rows, f, i) => StoredIn(rows', f, i)
      BY GrowsWithin
    <3>4. rows.entity \subseteq rows'.entity
      BY DEF Within, Field
    <3>5. Projected(rows, graph, f) => Projected(rows', graph', f)
      BY <3>4, ProjectionStays
    <3> QED
      BY <2>1, <3>1, <3>2, <3>3, <3>5
         DEF JobOK, Progress, StoredIn, Linked, Sees, Projected, Shows
  <2> QED BY <2>1
<1>3. AnsweredJobHasEnded'
  BY <1>1 DEF AnsweredJobHasEnded, f_
<1> QED BY <1>1, <1>2, <1>3 DEF Inv

(* A request that ended holds no copy and writes no more.                  *)
LEMMA EndedIsOK ==
  ASSUME NEW pc \in Ended, NEW f \in File, NEW v, NEW g
  PROVE  /\ RunOK([Calm EXCEPT !.pc = pc, !.file = f], v, g)
         /\ [Calm EXCEPT !.pc = pc, !.file = f] \in RequestType
         /\ [Calm EXCEPT !.pc = pc, !.file = f].pc = pc
         /\ [Calm EXCEPT !.pc = pc, !.file = f].file = f
<1> DEFINE q == [Calm EXCEPT !.pc = pc, !.file = f]
<1>1. NoJob.processed = 0 /\ NoJob \in Job
  BY DEF NoJob, Job
<1>2. Calm.copy = NoJob /\ Calm \in RequestType
  BY <1>1 DEF Calm, RequestType
<1>3. q \in RequestType /\ q.pc = pc /\ q.file = f /\ q.copy = NoJob
  BY <1>2 DEF RequestType
<1>4. RunOK(q, v, g)
  <2> HIDE DEF q
  <2> QED BY <1>1, <1>3 DEF RunOK, HasStored, Progress, Ended, Writing
<1> QED BY <1>3, <1>4

LEMMA Start == Init => Inv
<1> SUFFICES ASSUME Init PROVE Inv
  OBVIOUS
<1>1. NoJob \in Job /\ NoJob.processed = 0 /\ NoJob.status = "none" /\ NewJob \in Job
  BY DEF NoJob, NewJob, Job
<1>2. Calm \in RequestType /\ Calm.pc = "new" /\ Calm.copy = NoJob
  BY <1>1 DEF Calm, RequestType
<1>3. Shapes
  BY <1>1, <1>2, Fields DEF Init, Shapes, f_
<1>4. \A f \in File : JobOK(job[f], status[f], rows, graph, f)
  BY <1>1 DEF Init, JobOK, Progress
<1>5. \A s \in Request : RunOK(req[s], Visible(s), graph)
  BY <1>1, <1>2 DEF Init, RunOK, Progress, HasStored, Writing
<1>6. AnsweredJobHasEnded
  BY <1>2 DEF Init, AnsweredJobHasEnded
<1> QED BY <1>3, <1>4, <1>5, <1>6 DEF Inv

(* A step of one request that writes x so far and goes on as q; a job that *)
(* was not there may be opened.                                            *)
LEMMA Advances ==
  ASSUME Inv, NEW s \in Request, NEW q \in RequestType, NEW x,
         req' = [req EXCEPT ![s] = q], tx' = [tx EXCEPT ![s] = x],
         IsRows(x), Within(tx[s], x), UNCHANGED <<status, rows>>,
         job' = job \/ \E f \in File : job[f].status = "none" /\ job' = [job EXCEPT ![f] = NewJob],
         graph' = [nodes |-> graph'.nodes, edges |-> graph'.edges],
         graph.nodes \subseteq graph'.nodes, graph.edges \subseteq graph'.edges,
         RunOK(q, Plus(rows, x), graph'),
         q.pc = "done" => q.file \in File /\ job[q.file].status \in TERMINAL_JOB_STATES
  PROVE  Inv'
<1>1. NewJob \in Job /\ NewJob.processed = 0 /\ NewJob.status = "pending"
  BY DEF NewJob, NoJob, Job
<1>2. Shapes
  BY DEF Inv
<1>3. Shapes'
  <2>1. job' \in [File -> Job]
    BY <1>1, <1>2 DEF Shapes
  <2>2. req' \in [Request -> RequestType] /\ status' = status /\ rows' = rows
    BY <1>2 DEF Shapes
  <2>3. tx' = [t \in Request |-> tx'[t]] /\ \A t \in Request : IsRows(tx'[t])
    BY <1>2 DEF Shapes
  <2> QED BY <1>2, <2>1, <2>2, <2>3 DEF Shapes, IsRows
<1>4. req'[s] = q /\ tx'[s] = x /\ \A t \in Request \ {s} : req'[t] = req[t] /\ tx'[t] = tx[t]
  BY <1>2 DEF Shapes
<1>5. \A f \in File :
        /\ \/ job'[f] = job[f] /\ status'[f] = status[f]
           \/ job'[f] = NewJob
        /\ job[f].status \in TERMINAL_JOB_STATES => job'[f] = job[f]
  BY <1>2 DEF Shapes, TERMINAL_JOB_STATES
<1>6. \A f \in File : job'[f] = NewJob => JobOK(job[f], status[f], rows, graph, f)'
  BY <1>1 DEF JobOK, Progress
<1>7. RunOK(req[s], Visible(s), graph)'
  <2>1. Visible(s)' = Plus(rows, x)
    BY <1>4 DEF Visible, Plus
  <2>2. RunOK(req'[s], Visible(s)', graph')
    BY <1>4, <2>1
  <2> QED BY <2>2
<1>8. q.pc = "done" => job'[q.file].status \in TERMINAL_JOB_STATES
  BY <1>5
<1>9. Within(rows, rows')
  BY DEF Within
<1> QED
  <2>1. \A t \in Request :
          \/ req'[t] = req[t] /\ tx'[t] = tx[t]
          \/ /\ RunOK(req[t], Visible(t), graph)'
             /\ req'[t].pc = "done" => job'[req'[t].file].status \in TERMINAL_JOB_STATES
    BY <1>4, <1>7, <1>8
  <2>2. \A f \in File :
          /\ \/ job'[f] = job[f] /\ status'[f] = status[f]
             \/ JobOK(job[f], status[f], rows, graph, f)'
          /\ job[f].status \in TERMINAL_JOB_STATES => job'[f].status \in TERMINAL_JOB_STATES
    BY <1>5, <1>6
  <2> QED BY <1>3, <1>9, <2>1, <2>2, Keeps

(* What a mention, or the relationships of a record, add to the rows of a   *)
(* request.                                                                *)
WithMention(r, a, b, c) ==
  [r EXCEPT !.record = @ \cup a, !.link = @ \cup b, !.entity = @ \cup c]
WithRelated(r, a, b, c) ==
  [r EXCEPT !.record = @ \cup a, !.rel = @ \cup b, !.proof = @ \cup c]

LEMMA AddsMention ==
  ASSUME NEW r, IsRows(r), NEW a, NEW b, NEW c
  PROVE  /\ IsRows(WithMention(r, a, b, c)) /\ Within(r, WithMention(r, a, b, c))
         /\ WithMention(r, a, b, c).record = r.record \cup a
         /\ WithMention(r, a, b, c).link = r.link \cup b
         /\ WithMention(r, a, b, c).entity = r.entity \cup c
<1> DEFINE X(w, k, e) == [w EXCEPT ![k] = @ \cup e]
<1>1. ASSUME NEW w, IsRows(w), NEW k \in Field, NEW e
      PROVE  /\ IsRows(X(w, k, e))
             /\ \A l \in Field : X(w, k, e)[l] = IF l = k THEN w[k] \cup e ELSE w[l]
  <2>1. DOMAIN w = Field
    BY <1>1 DEF IsRows
  <2> QED BY <1>1, <2>1 DEF IsRows, Within
<1>2. WithMention(r, a, b, c) = X(X(X(r, "record", a), "link", b), "entity", c)
  BY DEF WithMention
<1>3. Field = {"record", "link", "entity", "rel", "proof"}
  BY DEF Field
<1> DEFINE x == X(r, "record", a)
           y == X(x, "link", b)
           z == X(y, "entity", c)
<1> HIDE DEF X
<1>4. IsRows(x) /\ \A l \in Field : x[l] = IF l = "record" THEN r[l] \cup a ELSE r[l]
  BY <1>1, <1>3
<1> HIDE DEF x
<1>5. IsRows(y) /\ \A l \in Field : y[l] = IF l = "link" THEN x[l] \cup b ELSE x[l]
  BY <1>1, <1>3, <1>4
<1> HIDE DEF y
<1>6. IsRows(z) /\ \A l \in Field : z[l] = IF l = "entity" THEN y[l] \cup c ELSE y[l]
  BY <1>1, <1>3, <1>5
<1>7. WithMention(r, a, b, c) = z
  BY <1>2 DEF x, y, z
<1> HIDE DEF z
<1> QED BY <1>3, <1>4, <1>5, <1>6, <1>7 DEF Within

LEMMA AddsRelated ==
  ASSUME NEW r, IsRows(r), NEW a, NEW b, NEW c
  PROVE  /\ IsRows(WithRelated(r, a, b, c)) /\ Within(r, WithRelated(r, a, b, c))
         /\ WithRelated(r, a, b, c).record = r.record \cup a
         /\ WithRelated(r, a, b, c).rel = r.rel \cup b
         /\ WithRelated(r, a, b, c).proof = r.proof \cup c
<1> DEFINE X(w, k, e) == [w EXCEPT ![k] = @ \cup e]
<1>1. ASSUME NEW w, IsRows(w), NEW k \in Field, NEW e
      PROVE  /\ IsRows(X(w, k, e))
             /\ \A l \in Field : X(w, k, e)[l] = IF l = k THEN w[k] \cup e ELSE w[l]
  <2>1. DOMAIN w = Field
    BY <1>1 DEF IsRows
  <2> QED BY <1>1, <2>1 DEF IsRows, Within
<1>2. WithRelated(r, a, b, c) = X(X(X(r, "record", a), "rel", b), "proof", c)
  BY DEF WithRelated
<1>3. Field = {"record", "link", "entity", "rel", "proof"}
  BY DEF Field
<1> DEFINE x == X(r, "record", a)
           y == X(x, "rel", b)
           z == X(y, "proof", c)
<1> HIDE DEF X
<1>4. IsRows(x) /\ \A l \in Field : x[l] = IF l = "record" THEN r[l] \cup a ELSE r[l]
  BY <1>1, <1>3
<1> HIDE DEF x
<1>5. IsRows(y) /\ \A l \in Field : y[l] = IF l = "rel" THEN x[l] \cup b ELSE x[l]
  BY <1>1, <1>3, <1>4
<1> HIDE DEF y
<1>6. IsRows(z) /\ \A l \in Field : z[l] = IF l = "proof" THEN y[l] \cup c ELSE y[l]
  BY <1>1, <1>3, <1>5
<1>7. WithRelated(r, a, b, c) = z
  BY <1>2 DEF x, y, z
<1> HIDE DEF z
<1> QED BY <1>3, <1>4, <1>5, <1>6, <1>7 DEF Within

-----------------------------------------------------------------------------
(* Each action.  First those that only move a request, and may open a job. *)

LEMMA Typed ==
  ASSUME Inv, NEW s \in Request
  PROVE  /\ req[s] \in RequestType /\ req[s].copy \in Job /\ IsRows(rows) /\ IsRows(tx[s])
         /\ RunOK(req[s], Visible(s), graph)
         /\ req = [req EXCEPT ![s] = req[s]] /\ tx = [tx EXCEPT ![s] = tx[s]]
         /\ graph = [nodes |-> graph.nodes, edges |-> graph.edges]
BY DEF Inv, Shapes, RequestType

LEMMA Moves ==
  ASSUME Inv, NEW s \in Request, NEW q \in RequestType,
         req' = [req EXCEPT ![s] = q], UNCHANGED <<status, rows, graph, tx>>,
         job' = job \/ \E f \in File : job[f].status = "none" /\ job' = [job EXCEPT ![f] = NewJob],
         RunOK(q, Visible(s), graph),
         q.pc = "done" => q.file \in File /\ job[q.file].status \in TERMINAL_JOB_STATES
  PROVE  Inv'
<1>1. Within(tx[s], tx[s])
  BY DEF Within
<1>2. graph.nodes \subseteq graph'.nodes /\ graph.edges \subseteq graph'.edges
  OBVIOUS
<1>3. tx' = [tx EXCEPT ![s] = tx[s]] /\ IsRows(tx[s])
      /\ graph' = [nodes |-> graph'.nodes, edges |-> graph'.edges]
  BY Typed
<1>4. RunOK(q, Plus(rows, tx[s]), graph')
  BY DEF Visible
<1> QED BY <1>1, <1>2, <1>3, <1>4, Advances

LEMMA Asks ==
  ASSUME Inv, NEW s \in Request, NEW f \in File, Ingest(s, f) \/ _submit_pending_job(s, f)
  PROVE  Inv'
<1> DEFINE q(pc) == [req[s] EXCEPT !.pc = pc, !.file = f]
<1>1. PICK pc \in {"ask", "queued"} :
        req' = [req EXCEPT ![s].pc = pc, ![s].file = f]
  BY DEF Ingest, _submit_pending_job
<1>2. q(pc) \in RequestType /\ q(pc).pc = pc /\ q(pc).copy = req[s].copy /\ q(pc).file = f
  BY Typed DEF RequestType, Asking
<1>3. req' = [req EXCEPT ![s] = q(pc)]
  BY <1>1
<1>4. job' = job \/ \E g \in File : job[g].status = "none" /\ job' = [job EXCEPT ![g] = NewJob]
  BY DEF Ingest, _submit_pending_job
<1>5. req[s].pc = "new" /\ UNCHANGED <<status, rows, graph, tx>>
  BY DEF Ingest, _submit_pending_job
<1> HIDE DEF q
<1>6. RunOK(q(pc), Visible(s), graph)
  BY <1>2, <1>5, Typed DEF RunOK, HasStored, Writing, Progress
<1> QED BY <1>2, <1>3, <1>4, <1>5, <1>6, Moves

LEMMA LooksUp ==
  ASSUME Inv, NEW s \in Request, ExistingJob(s)
  PROVE  Inv'
<1> DEFINE j == job[f_(s)]
           q == [req[s] EXCEPT !.copy = j,
                   !.pc = IF j.status \in TERMINAL_JOB_STATES THEN "done" ELSE "create"]
<1>1. f_(s) \in File /\ j \in Job /\ JobOK(j, status[f_(s)], rows, graph, f_(s))
  BY Typed DEF ExistingJob, RunOK, Inv, Shapes, f_
<1>2. /\ q \in RequestType /\ q.file = f_(s) /\ q.copy = j
      /\ q.pc = IF j.status \in TERMINAL_JOB_STATES THEN "done" ELSE "create"
  BY <1>1, Typed DEF RequestType, Ended, Working, Asking, f_
<1>3. req' = [req EXCEPT ![s] = q] /\ UNCHANGED <<job, status, rows, graph, tx>>
  BY DEF ExistingJob
<1> HIDE DEF q
<1>4. RunOK(q, Visible(s), graph)
  <2>1. Progress(j.processed, rows, f_(s)) /\ Within(rows, Visible(s))
    BY <1>1, Typed, Fields DEF JobOK, Visible
  <2>2. Progress(j.processed, Visible(s), f_(s))
    BY <2>1, GrowsWithin DEF Progress
  <2> QED BY <1>1, <1>2, <2>2 DEF RunOK, HasStored, Writing
<1> QED BY <1>1, <1>2, <1>3, <1>4, Moves

LEMMA Opens ==
  ASSUME Inv, NEW s \in Request, create_job(s)
  PROVE  Inv'
<1> DEFINE f == f_(s)
           j == IF req[s].copy.status # "none" THEN req[s].copy
                ELSE IF job[f].status = "none" THEN NewJob ELSE job[f]
           q == [req[s] EXCEPT !.copy = j,
                   !.pc = IF j.status \in TERMINAL_JOB_STATES THEN "done" ELSE "fetch"]
<1>1. /\ f \in File /\ job[f] \in Job /\ JobOK(job[f], status[f], rows, graph, f)
      /\ req[s].copy.status \notin TERMINAL_JOB_STATES
      /\ Progress(req[s].copy.processed, Visible(s), f)
  BY Typed DEF create_job, RunOK, Inv, Shapes, f_, Ended
<1>2. NewJob \in Job /\ NewJob.processed = 0 /\ NewJob.status = "pending"
  BY DEF NewJob, NoJob, Job
<1>3. j \in Job
  BY <1>1, <1>2, Typed
<1>4. j.status \in TERMINAL_JOB_STATES => job[f].status \in TERMINAL_JOB_STATES
  BY <1>1, <1>2 DEF TERMINAL_JOB_STATES
<1>5. Progress(j.processed, Visible(s), f)
  <2>1. Progress(job[f].processed, rows, f) /\ Within(rows, Visible(s))
    BY <1>1, Typed, Fields DEF JobOK, Visible
  <2>2. Progress(job[f].processed, Visible(s), f)
    BY <2>1, GrowsWithin DEF Progress
  <2> QED BY <1>1, <1>2, <2>2 DEF Progress
<1>6. /\ req' = [req EXCEPT ![s] = q] /\ UNCHANGED <<status, rows, graph, tx>>
      /\ job' = job \/ \E g \in File : job[g].status = "none" /\ job' = [job EXCEPT ![g] = NewJob]
  BY <1>1 DEF create_job
<1> HIDE DEF j
<1>7. /\ q \in RequestType /\ q.file = f /\ q.copy = j
      /\ q.pc = IF j.status \in TERMINAL_JOB_STATES THEN "done" ELSE "fetch"
  BY <1>3, Typed DEF RequestType, Ended, Working, Asking, f_
<1> HIDE DEF q
<1>8. RunOK(q, Visible(s), graph)
  BY <1>1, <1>5, <1>7 DEF RunOK, HasStored, Writing
<1> QED BY <1>1, <1>4, <1>6, <1>7, <1>8, Moves

LEMMA Turns ==
  ASSUME Inv, NEW s \in Request, Fetch(s) \/ Raise(s)
  PROVE  Inv'
<1>1. PICK pc \in {"begin", "handler"} : req' = [req EXCEPT ![s].pc = pc]
  BY DEF Fetch, Raise, Go
<1> DEFINE q == [req[s] EXCEPT !.pc = pc]
<1>2. /\ q \in RequestType /\ q.pc = pc /\ q.file = req[s].file /\ q.copy = req[s].copy
  BY Typed DEF RequestType, Working
<1>3. req' = [req EXCEPT ![s] = q] /\ UNCHANGED <<job, status, rows, graph, tx>>
      /\ req[s].pc \notin {"new"} \cup Ended
  BY <1>1 DEF Fetch, Raise, Ended
<1> HIDE DEF q
<1>4. RunOK(q, Visible(s), graph)
  BY <1>2, <1>3, Typed DEF RunOK, HasStored, Writing
<1> QED BY <1>2, <1>3, <1>4, Moves

-----------------------------------------------------------------------------
(* Then those that work through a file.                                    *)

LEMMA Texts ==
  ASSUME NEW f \in File
  PROVE  /\ Len(Text[f]) \in Nat /\ DOMAIN Text[f] = 1..Len(Text[f])
         /\ \A i \in DOMAIN Text[f] :
              Len(Text[f][i]) \in Nat /\ DOMAIN Text[f][i] = 1..Len(Text[f][i])
<1>1. Text[f] \in Seq(Seq(Value))
  BY IngestionConstants
<1>2. \A i \in DOMAIN Text[f] : Text[f][i] \in Seq(Value)
  BY <1>1
<1> QED BY <1>1, <1>2

(* A run that comes to record n has stored the records before it.          *)
LEMMA Arrives ==
  ASSUME NEW q, NEW v, NEW f \in File, NEW n \in Nat \ {0},
         q.file = f, q.at = n, q.mention = 1, q.pc = Position(f, n),
         \A i \in DOMAIN Text[f] : i < n => StoredIn(v, f, i)
  PROVE  HasStored(q, v) /\ q.pc \in {"record", "related", "project"}
<1>1. CASE n > Len(Text[f])
  <2>1. q.pc = "project"
    BY <1>1 DEF Position
  <2> QED BY <1>1, <2>1 DEF HasStored
<1>2. CASE ~(n > Len(Text[f])) /\ Text[f][n] = <<>>
  <2>1. q.pc = "related" /\ n \in DOMAIN Text[f]
    BY <1>2, Texts DEF Position
  <2>2. DOMAIN Text[f][n] = {}
    BY <1>2
  <2> QED BY <2>1, <2>2 DEF HasStored
<1>3. CASE ~(n > Len(Text[f])) /\ Text[f][n] # <<>>
  <2>1. q.pc = "record" /\ n \in DOMAIN Text[f]
    BY <1>3, Texts DEF Position
  <2>2. Text[f][n] \in Seq(Value)
    BY <2>1, IngestionConstants
  <2>3. 1 \in DOMAIN Text[f][n] /\ \A k \in DOMAIN Text[f][n] : ~(k < 1)
    BY <1>3, <2>2
  <2> QED BY <2>1, <2>3 DEF HasStored
<1> QED BY <1>1, <1>2, <1>3

LEMMA Begins ==
  ASSUME Inv, NEW s \in Request, mark_job_running(s)
  PROVE  Inv'
<1> DEFINE f == f_(s)
           q == [req[s] EXCEPT !.pc = Position(f, 1), !.at = 1, !.mention = 1,
                               !.copy.status = "running"]
<1>1. f \in File /\ Progress(req[s].copy.processed, Visible(s), f)
  BY Typed DEF mark_job_running, RunOK, f_, Ended
<1>2. Position(f, 1) \in Working /\ Position(f, 1) # "commit"
  BY DEF Position, Working
<1>3. /\ q \in RequestType /\ q.file = f /\ q.at = 1 /\ q.mention = 1
      /\ q.pc = Position(f, 1) /\ q.copy.processed = req[s].copy.processed
  BY <1>2, Typed DEF RequestType, Job, f_
<1>4. req' = [req EXCEPT ![s] = q] /\ UNCHANGED <<job, status, rows, graph, tx>>
  BY DEF mark_job_running, f_
<1> HIDE DEF q
<1>5. HasStored(q, Visible(s)) /\ q.pc \in {"record", "related", "project"}
  <2>1. \A i \in DOMAIN Text[f] : ~(i < 1)
    BY <1>1, Texts
  <2> QED BY <1>1, <1>3, <2>1, Arrives
<1>6. RunOK(q, Visible(s), graph)
  BY <1>1, <1>3, <1>5 DEF RunOK
<1> QED BY <1>3, <1>4, <1>5, <1>6, Moves

LEMMA Resolves ==
  ASSUME Inv, NEW s \in Request, _resolve_mention(s)
  PROVE  Inv'
<1> DEFINE f == f_(s)
           i == req[s].at
           k == req[s].mention
           w == Text[f][i][k]
           new == create_entity(Visible(s), s, w)
           pc == IF k = Len(Text[f][i]) THEN "related" ELSE "record"
           q == [req[s] EXCEPT !.mention = k + 1, !.pc = pc]
           x == WithMention(tx[s], {<<f, i>>}, {<<f, i, w>>}, new)
           v == Plus(rows, x)
<1>1. /\ req[s].pc = "record" /\ f \in File
      /\ Progress(req[s].copy.processed, Visible(s), f) /\ HasStored(req[s], Visible(s))
  BY Typed DEF _resolve_mention, RunOK, f_, Ended
<1>2. /\ i \in DOMAIN Text[f] /\ k \in DOMAIN Text[f][i] /\ k \in Nat
      /\ \A n \in DOMAIN Text[f] : n < i => StoredIn(Visible(s), f, n)
      /\ \A n \in DOMAIN Text[f][i] : n < k => Linked(Visible(s), f, i, n)
  BY <1>1, Texts DEF HasStored, Writing, f_
<1>3. /\ IsRows(x) /\ Within(tx[s], x) /\ x.link = tx[s].link \cup {<<f, i, w>>}
      /\ x.entity = tx[s].entity \cup new
  BY Typed, AddsMention
<1>pc. pc \in {"record", "related"}
  OBVIOUS
<1>4. /\ q \in RequestType /\ q.pc = pc /\ q.file = f /\ q.at = i /\ q.mention = k + 1
      /\ q.copy = req[s].copy
  <2>1. pc \in {"new"} \cup Asking \cup Working \cup Ended /\ k + 1 \in Nat
    BY <1>pc, <1>2 DEF Working
  <2>2. req[s] \in RequestType
    BY Typed
  <2> HIDE DEF pc
  <2> QED BY <2>1, <2>2 DEF RequestType, f_
<1>5. /\ req' = [req EXCEPT ![s] = q] /\ tx' = [tx EXCEPT ![s] = x]
      /\ UNCHANGED <<job, status, rows, graph>>
  BY DEF _resolve_mention, WithMention
<1> HIDE DEF x, q
<1>6. /\ Within(Visible(s), v) /\ v.link = rows.link \cup x.link
      /\ v.entity = rows.entity \cup x.entity
      /\ Visible(s).entity \subseteq rows.entity \cup tx[s].entity
  <2>1. IsRows(rows) /\ IsRows(tx[s])
    BY Typed
  <2>2. \A l \in Field : /\ Visible(s)[l] = rows[l] \cup tx[s][l]
                         /\ v[l] = rows[l] \cup x[l] /\ tx[s][l] \subseteq x[l]
    BY <1>3, <2>1, Fields DEF Visible, Within
  <2> QED BY <2>2 DEF Within, Field
<1>7. Linked(v, f, i, k)
  <2>1. <<f, i, Text[f][i][k]>> \in v.link
    BY <1>3, <1>6
  <2>2. Sees(v, w)
    <3>1. CASE \E id \in Visible(s).entity : id[1] = w
      BY <3>1, <1>3, <1>6 DEF Sees
    <3>2. CASE ~\E id \in Visible(s).entity : id[1] = w
      <4>1. <<w, s>> \in v.entity
        BY <3>2, <1>3, <1>6 DEF create_entity
      <4> QED BY <4>1 DEF Sees
    <3> QED BY <3>1, <3>2
  <2> QED BY <2>1, <2>2 DEF Linked
<1> HIDE DEF v, w, new
<1>8. \A n \in DOMAIN Text[f][i] : n < k + 1 => Linked(v, f, i, n)
  <2>1. ASSUME NEW n \in DOMAIN Text[f][i], n < k + 1 PROVE n < k \/ n = k
    BY <1>1, <1>2, <2>1, Texts
  <2>2. \A n : Linked(Visible(s), f, i, n) => Linked(v, f, i, n)
    BY <1>6, GrowsWithin
  <2> QED BY <1>2, <1>7, <2>1, <2>2
<1>9. HasStored(q, v)
  <2>1. \A n \in DOMAIN Text[f] : n < i => StoredIn(v, f, n)
    BY <1>2, <1>6, GrowsWithin
  <2>2. pc = "related" => \A n \in DOMAIN Text[f][i] : Linked(v, f, i, n)
    BY <1>1, <1>2, <1>8, Texts
  <2>3. pc = "record" => k + 1 \in DOMAIN Text[f][i]
    BY <1>1, <1>2, Texts
  <2> QED BY <1>2, <1>4, <1>8, <2>1, <2>2, <2>3 DEF HasStored
<1>10. RunOK(q, v, graph)
  <2>1. Progress(q.copy.processed, v, f)
    BY <1>1, <1>4, <1>6, GrowsWithin DEF Progress
  <2> QED BY <1>1, <1>4, <1>9, <2>1 DEF RunOK
<1>11. RunOK(q, Plus(rows, x), graph') /\ graph' = [nodes |-> graph'.nodes, edges |-> graph'.edges]
  BY <1>5, <1>10, Typed DEF v
<1>12. q.pc # "done"
  BY <1>4
<1>13. graph.nodes \subseteq graph'.nodes /\ graph.edges \subseteq graph'.edges
  BY <1>5
<1> QED BY <1>3, <1>4, <1>5, <1>11, <1>12, <1>13, Advances

LEMMA Relates ==
  ASSUME Inv, NEW s \in Request, Relate(s)
  PROVE  Inv'
<1> DEFINE f == f_(s)
           i == req[s].at
           ps == Pairs(Text[f][i])
           proofs == {<<f, i, p>> : p \in ps}
           q == [req[s] EXCEPT !.pc = Position(f, i + 1), !.at = i + 1, !.mention = 1,
                               !.copy.processed = i]
           x == WithRelated(tx[s], {<<f, i>>}, ps, proofs)
           v == Plus(rows, x)
<1>1. req[s].pc = "related" /\ f \in File /\ HasStored(req[s], Visible(s))
  BY Typed DEF Relate, RunOK, f_
<1>2. /\ i \in DOMAIN Text[f] /\ i \in Nat \ {0}
      /\ \A n \in DOMAIN Text[f] : n < i => StoredIn(Visible(s), f, n)
      /\ \A k \in DOMAIN Text[f][i] : Linked(Visible(s), f, i, k)
  BY <1>1, Texts DEF HasStored, Writing, f_
<1>3. /\ IsRows(x) /\ Within(tx[s], x) /\ x.record = tx[s].record \cup {<<f, i>>}
      /\ x.rel = tx[s].rel \cup ps /\ x.proof = tx[s].proof \cup proofs
  BY Typed, AddsRelated
<1>4. Position(f, i + 1) \in Working
  BY DEF Position, Working
<1>5. /\ q \in RequestType /\ q.pc = Position(f, i + 1) /\ q.file = f /\ q.at = i + 1
      /\ q.mention = 1 /\ q.copy.processed = i
  <2>1. Position(f, i + 1) \in {"new"} \cup Asking \cup Working \cup Ended
        /\ i \in Nat /\ i + 1 \in Nat
    BY <1>2, <1>4
  <2>2. req[s] \in RequestType /\ f = req[s].file
    BY Typed DEF f_
  <2> HIDE DEF f, i
  <2> QED BY <2>1, <2>2 DEF RequestType, Job
<1>6. /\ req' = [req EXCEPT ![s] = q] /\ tx' = [tx EXCEPT ![s] = x]
      /\ UNCHANGED <<job, status, rows, graph>>
  BY DEF Relate, WithRelated
<1> HIDE DEF x, q
<1>7. /\ Within(Visible(s), v) /\ <<f, i>> \in v.record
      /\ ps \subseteq v.rel /\ proofs \subseteq v.proof
  <2>1. IsRows(rows) /\ IsRows(tx[s])
    BY Typed
  <2>2. \A l \in Field : /\ Visible(s)[l] = rows[l] \cup tx[s][l]
                         /\ v[l] = rows[l] \cup x[l] /\ tx[s][l] \subseteq x[l]
    BY <1>3, <2>1, Fields DEF Visible, Within
  <2> HIDE DEF ps, proofs
  <2> QED BY <1>3, <2>2 DEF Within, Field
<1>8. StoredIn(v, f, i)
  BY <1>2, <1>7, GrowsWithin DEF StoredIn
<1>9. \A n \in DOMAIN Text[f] : n < i + 1 => StoredIn(v, f, n)
  <2>1. ASSUME NEW n \in DOMAIN Text[f], n < i + 1 PROVE n < i \/ n = i
    BY <1>1, <1>2, <2>1, Texts
  <2>2. \A n : StoredIn(Visible(s), f, n) => StoredIn(v, f, n)
    BY <1>7, GrowsWithin
  <2> QED BY <1>2, <1>8, <2>1, <2>2
<1>10. HasStored(q, v) /\ q.pc \in {"record", "related", "project"}
  BY <1>1, <1>2, <1>5, <1>9, Arrives
<1>11. Progress(i, v, f)
  BY <1>1, <1>2, <1>9, Texts DEF Progress
<1>12. RunOK(q, Plus(rows, x), graph') /\ graph' = [nodes |-> graph'.nodes, edges |-> graph'.edges]
  BY <1>1, <1>5, <1>6, <1>10, <1>11, Typed DEF RunOK
<1>13. graph.nodes \subseteq graph'.nodes /\ graph.edges \subseteq graph'.edges
  BY <1>6
<1> QED BY <1>3, <1>5, <1>6, <1>10, <1>12, <1>13, Advances

LEMMA Syncs ==
  ASSUME NEW v
  PROVE  /\ sync_case(v) = [nodes |-> sync_case(v).nodes, edges |-> sync_case(v).edges]
         /\ graph.nodes \subseteq sync_case(v).nodes /\ graph.edges \subseteq sync_case(v).edges
BY DEF sync_case

LEMMA Projects ==
  ASSUME Inv, NEW s \in Request, _sync_graph(s)
  PROVE  Inv'
<1> DEFINE f == f_(s)
           q(to) == [req[s] EXCEPT !.pc = "commit", !.copy.graph = to]
<1>1. /\ req[s].pc = "project" /\ f \in File /\ HasStored(req[s], Visible(s))
      /\ Progress(req[s].copy.processed, Visible(s), f)
  BY Typed DEF _sync_graph, RunOK, f_, Ended
<1>2. \A i \in DOMAIN Text[f] : StoredIn(Visible(s), f, i)
  <2>1. req[s].at > Len(Text[f]) /\ req[s].at \in Nat
    BY <1>1, Typed DEF HasStored, Writing, RequestType, f_
  <2>2. \A i \in DOMAIN Text[f] : i < req[s].at
    BY <1>1, <2>1, Texts
  <2> QED BY <1>1, <2>2 DEF HasStored, Writing, f_
<1>3. PICK to \in {"synced", "failed"} :
        /\ req' = [req EXCEPT ![s].pc = "commit", ![s].copy.graph = to]
        /\ to = "synced" => graph' = sync_case(Visible(s))
        /\ to = "failed" => graph' = graph
  BY DEF _sync_graph
<1>4. /\ graph' = [nodes |-> graph'.nodes, edges |-> graph'.edges]
      /\ graph.nodes \subseteq graph'.nodes /\ graph.edges \subseteq graph'.edges
  BY <1>3, Syncs, Typed
<1>5. to = "synced" => Projected(Visible(s), graph', f)
  <2>1. Projected(Visible(s), sync_case(Visible(s)), f)
    BY <1>1, <1>2, Texts, SyncShows
  <2> QED BY <1>3, <2>1
<1>6. /\ q(to) \in RequestType /\ q(to).pc = "commit" /\ q(to).file = f
      /\ q(to).at = req[s].at /\ q(to).copy.graph = to
      /\ q(to).copy.processed = req[s].copy.processed
  BY Typed DEF RequestType, Job, Working, f_
<1>7. /\ req' = [req EXCEPT ![s] = q(to)] /\ tx' = [tx EXCEPT ![s] = tx[s]]
      /\ UNCHANGED <<job, status, rows>> /\ IsRows(tx[s]) /\ Within(tx[s], tx[s])
  <2>1. req' = [req EXCEPT ![s] = q(to)]
    BY <1>3
  <2>2. UNCHANGED <<job, status, rows, tx>>
    BY DEF _sync_graph
  <2> QED BY <2>1, <2>2, Typed DEF Within
<1> HIDE DEF q
<1>8. HasStored(q(to), Visible(s))
  BY <1>1, <1>2, <1>6 DEF HasStored, Writing, f_
<1>9. RunOK(q(to), Plus(rows, tx[s]), graph')
  BY <1>1, <1>5, <1>6, <1>8 DEF RunOK, Visible
<1>10. q(to).pc # "done"
  BY <1>6
<1> QED BY <1>4, <1>6, <1>7, <1>9, <1>10, Advances

-----------------------------------------------------------------------------
(* At last those that end a run, or none.                                  *)

LEMMA Commits ==
  ASSUME Inv, NEW s \in Request, req[s].pc \in Working, NEW j \in Job, Committed(s, j),
         NEW st \in {"stored", "processing", "parsed"},
         status' = [status EXCEPT ![f_(s)] = st], UNCHANGED graph,
         j.status \in TERMINAL_JOB_STATES, Progress(j.processed, Visible(s), f_(s)),
         j.status = "completed" =>
           /\ st # "stored"
           /\ \A i \in DOMAIN Text[f_(s)] : StoredIn(Visible(s), f_(s), i)
           /\ j.graph = "synced" => Projected(Visible(s), graph, f_(s))
  PROVE  Inv'
<1>0. f_(s) \in File /\ IsRows(rows) /\ IsRows(tx[s])
  BY Typed DEF RunOK, f_, Working
<1>1. PICK f \in File : f = f_(s)
  BY <1>0
<1> DEFINE q == [Calm EXCEPT !.pc = "done", !.file = f]
<1>2. /\ rows' = Visible(s) /\ tx' = [tx EXCEPT ![s] = NoRows]
      /\ job' = [job EXCEPT ![f] = j] /\ req' = [req EXCEPT ![s] = q]
  BY <1>1 DEF Committed
<1>3. "done" \in Ended
  BY DEF Ended
<1>4. /\ q \in RequestType /\ q.pc = "done" /\ q.file = f
      /\ \A v, g : RunOK(q, v, g)
  BY <1>1, <1>3, EndedIsOK
<1> HIDE DEF q
<1>5. Shapes
  BY DEF Inv
<1>6. Within(rows, rows') /\ IsRows(rows')
  BY <1>0, <1>2, Fields DEF Visible
<1>7. Shapes'
  <2>1. job' \in [File -> Job] /\ status' \in [File -> {"stored", "processing", "parsed"}]
    BY <1>2, <1>5 DEF Shapes
  <2>2. req' \in [Request -> RequestType]
    BY <1>2, <1>4, <1>5 DEF Shapes
  <2>3. tx' = [t \in Request |-> tx'[t]] /\ \A t \in Request : IsRows(tx'[t])
    BY <1>2, <1>5, Fields DEF Shapes
  <2> QED BY <1>5, <1>6, <2>1, <2>2, <2>3 DEF Shapes, IsRows
<1>8. /\ req'[s] = q /\ \A t \in Request \ {s} : req'[t] = req[t] /\ tx'[t] = tx[t]
      /\ job'[f] = j /\ \A g \in File \ {f} : job'[g] = job[g]
      /\ status'[f] = st /\ \A g \in File \ {f} : status'[g] = status[g]
  BY <1>1, <1>2, <1>5 DEF Shapes
<1>9. JobOK(job[f], status[f], rows, graph, f)'
  <2>1. JobOK(j, st, Visible(s), graph, f)
    BY <1>1 DEF JobOK
  <2>2. JobOK(job'[f], status'[f], rows', graph', f)
    BY <1>2, <1>8, <2>1
  <2> QED BY <2>2
<1>10. \A t \in Request :
         \/ req'[t] = req[t] /\ tx'[t] = tx[t]
         \/ /\ RunOK(req[t], Visible(t), graph)'
            /\ req'[t].pc = "done" => job'[req'[t].file].status \in TERMINAL_JOB_STATES
  <2>1. RunOK(req'[s], Visible(s)', graph')
    BY <1>4, <1>8
  <2>2. RunOK(req[s], Visible(s), graph)'
    BY <2>1
  <2> QED BY <1>4, <1>8, <2>2
<1>11. \A g \in File :
         /\ \/ job'[g] = job[g] /\ status'[g] = status[g]
            \/ JobOK(job[g], status[g], rows, graph, g)'
         /\ job[g].status \in TERMINAL_JOB_STATES => job'[g].status \in TERMINAL_JOB_STATES
  BY <1>8, <1>9
<1> QED BY <1>6, <1>7, <1>10, <1>11, Keeps

LEMMA Completes ==
  ASSUME Inv, NEW s \in Request, complete_job(s)
  PROVE  Inv'
<1> DEFINE f == f_(s)
           j == [req[s].copy EXCEPT !.status = "completed"]
<1>1. /\ req[s].pc = "commit" /\ f \in File /\ HasStored(req[s], Visible(s))
      /\ Progress(req[s].copy.processed, Visible(s), f)
      /\ req[s].copy.graph = "synced" => Projected(Visible(s), graph, f)
  BY Typed DEF complete_job, RunOK, f_, Ended
<1>2. \A i \in DOMAIN Text[f] : StoredIn(Visible(s), f, i)
  <2>1. req[s].at > Len(Text[f]) /\ req[s].at \in Nat
    BY <1>1, Typed DEF HasStored, Writing, RequestType, f_
  <2>2. \A i \in DOMAIN Text[f] : i < req[s].at
    BY <1>1, <2>1, Texts
  <2> QED BY <1>1, <2>2 DEF HasStored, Writing, f_
<1>3. /\ j \in Job /\ j.status = "completed" /\ j.processed = req[s].copy.processed
      /\ j.graph = req[s].copy.graph
  BY Typed DEF Job, TERMINAL_JOB_STATES
<1>4. /\ Committed(s, j) /\ status' = [status EXCEPT ![f_(s)] = "parsed"] /\ UNCHANGED graph
  BY DEF complete_job
<1> HIDE DEF j
<1>5. req[s].pc \in Working /\ j.status \in TERMINAL_JOB_STATES
  BY <1>1, <1>3 DEF Working, TERMINAL_JOB_STATES
<1>6. Progress(j.processed, Visible(s), f_(s))
  BY <1>1, <1>3
<1>7. \A i \in DOMAIN Text[f_(s)] : StoredIn(Visible(s), f_(s), i)
  BY <1>2
<1>8. j.graph = "synced" => Projected(Visible(s), graph, f_(s))
  BY <1>1, <1>3
<1> QED BY <1>3, <1>4, <1>5, <1>6, <1>7, <1>8, Commits

LEMMA Handles ==
  ASSUME Inv, NEW s \in Request, Handler(s)
  PROVE  Inv'
<1> DEFINE to == IF req[s].copy.processed > 0 THEN "partial" ELSE "failed"
           j == [req[s].copy EXCEPT !.status = to]
           st == IF req[s].copy.status = "running" THEN "processing" ELSE status[f_(s)]
<1>1. /\ req[s].pc = "handler" /\ f_(s) \in File
      /\ Progress(req[s].copy.processed, Visible(s), f_(s))
  BY Typed DEF Handler, RunOK, f_, Ended
<1>2. j \in Job /\ j.status = to /\ j.processed = req[s].copy.processed
  BY Typed DEF Job, TERMINAL_JOB_STATES
<1>3. /\ Committed(s, j) /\ status' = [status EXCEPT ![f_(s)] = st] /\ UNCHANGED graph
      /\ st \in {"stored", "processing", "parsed"}
  BY <1>1 DEF Handler, Inv, Shapes
<1>4. req[s].pc \in Working /\ to \in TERMINAL_JOB_STATES /\ to # "completed"
  BY <1>1 DEF Working, TERMINAL_JOB_STATES
<1> HIDE DEF j, st, to
<1> QED BY <1>1, <1>2, <1>3, <1>4, Commits

LEMMA NoProgress == \A v, f : Progress(0, v, f)
BY DEF Progress

(* Requests that break off lose what they have not committed.              *)
LEMMA BreaksOff ==
  ASSUME Inv, UNCHANGED <<job, status, rows, graph>>,
         req' \in [Request -> RequestType], tx' = [t \in Request |-> tx'[t]],
         \A t \in Request : tx'[t] \in {tx[t], NoRows},
         \A t \in Request :
           \/ req'[t] = req[t] /\ (tx'[t] = tx[t] \/ req[t].pc \in {"new"} \cup Ended)
           \/ \E pc \in {"error", "lost"}, f \in File : req'[t] = [Calm EXCEPT !.pc = pc, !.file = f]
  PROVE  Inv'
<1>1. Shapes
  BY DEF Inv
<1>2. Shapes'
  <2>1. \A t \in Request : IsRows(tx'[t])
    BY <1>1, Fields DEF Shapes
  <2> QED BY <1>1, <2>1 DEF Shapes, IsRows
<1>3. Within(rows, rows')
  BY DEF Within
<1>4. ASSUME NEW t \in Request
      PROVE  \/ req'[t] = req[t] /\ tx'[t] = tx[t]
             \/ /\ RunOK(req[t], Visible(t), graph)'
                /\ req'[t].pc = "done" => job'[req'[t].file].status \in TERMINAL_JOB_STATES
  <2>1. CASE req'[t] = req[t] /\ req[t].pc \in {"new"} \cup Ended
    <3>1. RunOK(req[t], Visible(t), graph)
      BY Typed
    <3>2. \A v, g : RunOK(req[t], v, g)
      <4>1. CASE req[t].pc = "new"
        <5>1. req[t].copy.processed = 0
          BY <3>1, <4>1 DEF RunOK
        <5> QED BY <4>1, <5>1, NoProgress DEF RunOK, HasStored, Writing
      <4>2. CASE req[t].pc \in Ended
        BY <3>1, <4>2 DEF RunOK, HasStored, Writing, Ended
      <4> QED BY <2>1, <4>1, <4>2
    <3>3. RunOK(req'[t], Visible(t)', graph')
      BY <2>1, <3>2
    <3>4. RunOK(req[t], Visible(t), graph)'
      BY <3>3
    <3>5. req[t].pc = "done" => job[req[t].file].status \in TERMINAL_JOB_STATES
      BY DEF Inv, AnsweredJobHasEnded, f_
    <3> QED BY <2>1, <3>4, <3>5
  <2>2. CASE \E pc \in {"error", "lost"}, f \in File :
               req'[t] = [Calm EXCEPT !.pc = pc, !.file = f]
    <3>1. PICK pc \in {"error", "lost"}, f \in File :
            req'[t] = [Calm EXCEPT !.pc = pc, !.file = f]
      BY <2>2
    <3>2. pc \in Ended
      BY DEF Ended
    <3> DEFINE q == [Calm EXCEPT !.pc = pc, !.file = f]
    <3>3. q.pc = pc /\ \A v, g : RunOK(q, v, g)
      BY <3>2, EndedIsOK
    <3> HIDE DEF q
    <3>4. RunOK(req'[t], Visible(t)', graph') /\ req'[t].pc = pc
      <4>1. req'[t] = q
        BY <3>1 DEF q
      <4> QED BY <3>3, <4>1
    <3>5. RunOK(req[t], Visible(t), graph)'
      BY <3>4
    <3> QED BY <3>4, <3>5
  <2> QED BY <2>1, <2>2
<1>5. /\ graph.nodes \subseteq graph'.nodes /\ graph.edges \subseteq graph'.edges
      /\ \A f \in File : job'[f] = job[f] /\ status'[f] = status[f]
  OBVIOUS
<1> QED BY <1>2, <1>3, <1>4, <1>5, Keeps

LEMMA Quits ==
  ASSUME Inv, NEW s \in Request, Rollback(s)
  PROVE  Inv'
<1>1. f_(s) \in File
  BY Typed DEF Rollback, RunOK, f_, Working
<1>2. PICK f \in File : f = f_(s)
  BY <1>1
<1> DEFINE q == [Calm EXCEPT !.pc = "error", !.file = f]
<1>3. q \in RequestType
  BY EndedIsOK DEF Ended
<1>4. req' = [req EXCEPT ![s] = q] /\ tx' = [tx EXCEPT ![s] = NoRows]
      /\ UNCHANGED <<job, status, rows, graph>>
  BY <1>2 DEF Rollback
<1> HIDE DEF q
<1>5. Shapes
  BY DEF Inv
<1>6. /\ req' \in [Request -> RequestType] /\ tx' = [t \in Request |-> tx'[t]]
      /\ \A t \in Request : tx'[t] \in {tx[t], NoRows}
      /\ req'[s] = q /\ \A t \in Request \ {s} : req'[t] = req[t] /\ tx'[t] = tx[t]
  BY <1>3, <1>4, <1>5 DEF Shapes
<1>7. \A t \in Request :
        \/ req'[t] = req[t] /\ (tx'[t] = tx[t] \/ req[t].pc \in {"new"} \cup Ended)
        \/ \E pc \in {"error", "lost"}, g \in File : req'[t] = [Calm EXCEPT !.pc = pc, !.file = g]
  BY <1>6 DEF q
<1> QED BY <1>4, <1>6, <1>7, BreaksOff

LEMMA Restarts ==
  ASSUME Inv, Restart
  PROVE  Inv'
<1> DEFINE Lost(t) == [Calm EXCEPT !.pc = "lost", !.file = f_(t)]
<1>1. /\ req' = [t \in Request |-> IF req[t].pc \in Asking \cup Working THEN Lost(t) ELSE req[t]]
      /\ tx' = [t \in Request |-> NoRows] /\ UNCHANGED <<job, status, rows, graph>>
  BY DEF Restart
<1>2. ASSUME NEW t \in Request, req[t].pc \in Asking \cup Working
      PROVE  f_(t) \in File /\ Lost(t) \in RequestType
  <2>1. f_(t) \in File
    BY <1>2, Typed DEF RunOK, f_, Asking, Working
  <2> QED BY <2>1, EndedIsOK DEF Ended
<1>3. \A t \in Request : req[t].pc \in {"new"} \cup Asking \cup Working \cup Ended
                         /\ req[t] \in RequestType
  BY Typed DEF RequestType
<1>4. \A t \in Request :
        \/ req'[t] = req[t] /\ req[t].pc \in {"new"} \cup Ended
        \/ \E pc \in {"error", "lost"}, g \in File : req'[t] = [Calm EXCEPT !.pc = pc, !.file = g]
  BY <1>1, <1>2, <1>3
<1> HIDE DEF Lost
<1>5. req' \in [Request -> RequestType]
  BY <1>1, <1>2, <1>3
<1>6. tx' = [t \in Request |-> tx'[t]] /\ \A t \in Request : tx'[t] \in {tx[t], NoRows}
  BY <1>1
<1> QED BY <1>1, <1>4, <1>5, <1>6, BreaksOff

LEMMA Retries ==
  ASSUME Inv, NEW f \in File, RetryGraphSync(f)
  PROVE  Inv'
<1>1. PICK to \in {"synced", "failed"} :
        /\ job' = [job EXCEPT ![f].graph = to] /\ UNCHANGED <<status, rows, req, tx>>
        /\ to = "synced" => graph' = sync_case(rows)
        /\ to = "failed" => graph' = graph
  BY DEF RetryGraphSync
<1> DEFINE j == [job[f] EXCEPT !.graph = to]
<1>2. Shapes /\ job[f] \in Job /\ JobOK(job[f], status[f], rows, graph, f)
  BY DEF Inv, Shapes
<1>3. j \in Job /\ j.status = job[f].status /\ j.processed = job[f].processed /\ j.graph = to
  BY <1>2 DEF Job
<1>4. job' = [job EXCEPT ![f] = j]
  BY <1>1
<1> HIDE DEF j
<1>5. job' \in [File -> Job] /\ job'[f] = j /\ \A g \in File \ {f} : job'[g] = job[g]
  BY <1>2, <1>3, <1>4 DEF Shapes
<1>6. /\ graph' = [nodes |-> graph'.nodes, edges |-> graph'.edges]
      /\ graph.nodes \subseteq graph'.nodes /\ graph.edges \subseteq graph'.edges
  BY <1>1, <1>2, Syncs DEF Shapes
<1>7. Shapes'
  BY <1>1, <1>2, <1>5, <1>6 DEF Shapes, IsRows
<1>8. JobOK(job[f], status[f], rows, graph, f)'
  <2>1. j.status = "completed" /\ to = "synced" => Projected(rows, graph', f)
    BY <1>1, <1>2, <1>3, Texts, SyncShows DEF JobOK
  <2>2. JobOK(j, status[f], rows, graph', f)
    BY <1>2, <1>3, <2>1 DEF JobOK
  <2>3. JobOK(job'[f], status'[f], rows', graph', f)
    BY <1>1, <1>5, <2>2
  <2> QED BY <2>3
<1>9. Within(rows, rows')
  BY <1>1 DEF Within
<1>10. \A g \in File :
         /\ \/ job'[g] = job[g] /\ status'[g] = status[g]
            \/ JobOK(job[g], status[g], rows, graph, g)'
         /\ job[g].status \in TERMINAL_JOB_STATES => job'[g].status \in TERMINAL_JOB_STATES
  BY <1>1, <1>3, <1>5, <1>8
<1> QED BY <1>1, <1>6, <1>7, <1>9, <1>10, Keeps

LEMMA Goes == Inv /\ [Next]_vars => Inv'
<1> SUFFICES ASSUME Inv, [Next]_vars PROVE Inv'
  OBVIOUS
<1>1. ASSUME NEW s \in Request, Step(s) \/ Raise(s) \/ ConnectionLost(s)
      PROVE  Inv'
  BY <1>1, LooksUp, Opens, Turns, Begins, Resolves, Relates, Projects, Completes, Handles, Quits
     DEF Step, DeadlockVictim, ConnectionLost
<1>2. ASSUME NEW s \in Request, NEW f \in File, Ingest(s, f) \/ _submit_pending_job(s, f)
      PROVE  Inv'
  BY <1>2, Asks
<1>3. ASSUME NEW f \in File, RetryGraphSync(f)
      PROVE  Inv'
  BY <1>3, Retries
<1>4. CASE UNCHANGED vars
  <2>1. UNCHANGED <<job, status, rows, graph, req, tx>>
    BY <1>4 DEF vars
  <2>2. Shapes /\ Within(rows, rows')
    BY <1>4 DEF Inv, Within, vars
  <2>3. Shapes'
    BY <2>1, <2>2 DEF Shapes, IsRows
  <2> QED BY <2>1, <2>2, <2>3, Keeps
<1> QED BY <1>1, <1>2, <1>3, <1>4, Restarts DEF Next

(* Jobs, rows and Neo4j tell the same story after any number of ingestions *)
(* side by side, exceptions, lost connections, deadlocks, restarts and     *)
(* retries of the projection (ingestion.py, _run and _sync_graph;          *)
(* graph_sync.py, sync_case).                                              *)
THEOREM JobsAreTrue == Spec => []JobsTellTheTruth
<1>1. Inv => JobsTellTheTruth
  <2> SUFFICES ASSUME Inv PROVE JobsTellTheTruth
    OBVIOUS
  <2>1. \A f \in File : JobOK(job[f], status[f], rows, graph, f)
    BY DEF Inv
  <2>2. \A f \in File : \A i : StoredIn(rows, f, i) => i \in DOMAIN Text[f] /\ Stored(f, i)
    BY DEF StoredIn, Stored, Linked, Sees
  <2>3. CompletedIsComplete
    BY <2>1, <2>2 DEF JobOK, CompletedIsComplete
  <2>4. ProgressIsCommitted
    BY <2>1, <2>2 DEF JobOK, Progress, ProgressIsCommitted
  <2>5. SyncedJobIsProjected
    BY <2>1 DEF JobOK, Projected, Shows, SyncedJobIsProjected
  <2> QED BY <2>3, <2>4, <2>5 DEF Inv, JobsTellTheTruth
<1> QED BY Start, Goes, <1>1, PTL DEF Spec
=============================================================================

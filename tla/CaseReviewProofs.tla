-------------------------- MODULE CaseReviewProofs --------------------------
(***************************************************************************)
(* Proofs about CaseReview for any number of entities, artifacts, mentions *)
(* and reviewers who keep off what a colleague is working on (Serial): the *)
(* rows a request has read are still so when it writes.                    *)
(***************************************************************************)
EXTENDS CaseReview, Functions, FiniteSetTheorems, TLAPS

-----------------------------------------------------------------------------
(* The types.                                                              *)

Target == Artifact \cup Mention \cup (Value \X Value) \cup {Nobody}
Shown == {"active", "merged"}
CopyItem == {1, 2} \cup AliasRow \cup (Value \X Shown \X SUBSET Someone)
EndItem == (Rel \X {1, 2}) \cup (Value \X Shown)
RequestType ==
  [pc : {"idle", "error", "read", "committed", "project"},
   op : {"none", "review", "approve_match", "edit", "accept", "reject", "merge"},
   on : Target, decision : {"none", "approved", "rejected"}, to : Extraction \cup {Nobody},
   seen : ArtifactStatus, copy : SUBSET CopyItem, ends : SUBSET EndItem]
NodeRow == [status : {"none", "active", "merged"}, aliases : SUBSET Someone]
IngestType ==
  [pc : {"idle", "project", "commit"}, mention : Mention \cup {Nobody}, value : Someone,
   outcome : {"none", "auto_match", "no_match", "review"}, target : Someone,
   snapshot : [Value -> NodeRow]]

Shapes ==
  /\ entity \in [Value -> EntityRow]
  /\ alias \in [AliasRow -> AliasOf]
  /\ rel \in [Rel -> Value \X Value]
  /\ cand \in [Mention -> Candidate]
  /\ match \in [Mention -> Match]
  /\ doc \in [Artifact -> ArtifactStatus]
  /\ successor \in [Extraction -> Extraction \cup {Nobody}]
  /\ graph \in [Value -> NodeRow]
  /\ req \in [Reviewer -> RequestType]
  /\ ing \in IngestType

-----------------------------------------------------------------------------
(* The invariant.                                                          *)

(* No two requests work on one thing.                                      *)
Apart ==
  \A s, t \in Reviewer :
    s # t /\ Busy(s) /\ Busy(t) => Subject(req[s]) \cap Subject(req[t]) \subseteq {Nobody}

(* What each request has read is still so.                                 *)
Reading(q, op) == q.pc = "read" /\ q.op = op
ReviewOK(q) ==
  Reading(q, "review") =>
    /\ q.on \in Artifact /\ doc[q.on] = "pending_review"
    /\ q.decision \in {"approved", "rejected"}
    /\ q.on \in Proposal => q.decision = "rejected"
ApproveOK(q) ==
  Reading(q, "approve_match") =>
    /\ q.on \in Proposal /\ doc[q.on] = "pending_review"
    /\ q.decision = "approved" /\ q.copy \subseteq {1, 2}
EditOK(q) ==
  Reading(q, "edit") =>
    /\ q.on \in Extraction /\ doc[q.on] = "pending_review" /\ q.to \in Extraction
    /\ q.seen = "pending_review" => doc[q.to] = "pending_review"
MatchOK(q) ==
  Reading(q, "accept") \/ Reading(q, "reject") =>
    q.on \in Mention /\ match[q.on].status = "review"
MergeOK(q) ==
  Reading(q, "merge") =>
    /\ q.on \in Value \X Value /\ q.on[1] # q.on[2]
    /\ entity[q.on[1]].status = "active"
    /\ \A r \in q.copy : r \in AliasRow /\ alias[r].owner # Nobody
    /\ \A r \in Rel, i \in {1, 2} : rel[r][i] = q.on[2] => <<r, i>> \in q.ends
Committed(n) == n[2] = "merged" => entity[n[1]].status = "merged"
ProjectOK(q) ==
  /\ q.pc = "committed" => \A n \in q.ends : n \in Value \X Shown /\ Committed(n)
  /\ q.pc = "project" =>
       \A n \in q.copy : n \in Value \X Shown \X SUBSET Someone /\ Committed(n)
RequestOK(q) ==
  ReviewOK(q) /\ ApproveOK(q) /\ EditOK(q) /\ MatchOK(q) /\ MergeOK(q) /\ ProjectOK(q)

IngestOK ==
  ing.pc # "idle" =>
    /\ ing.mention \in Mention /\ ing.value \in Value /\ ing.target \in Value
    /\ cand[ing.mention].status = "none"
    /\ ing.outcome # "none"
    /\ \A e \in Value : ing.snapshot[e].status = "merged" => entity[e].status = "merged"

MatchesOK ==
  \A m \in Mention :
    /\ match[m].status # "none" => cand[m].status # "none"
    /\ match[m].status = "review" => cand[m].entity = Nobody
TracesOK ==
  /\ \A p \in Proposal : doc[p] # "approved" => \A i \in {1, 2} : alias[<<p, i>>] = NoAlias
  /\ \A x \in Link, s \in Reviewer : <<x, s>> \in reviewed => doc[x] = "approved"
LineageOK ==
  \A x \in Extraction : doc[x] = "superseded" =>
    successor[x] \in Extraction /\ doc[successor[x]] = "approved"

Kept ==
  /\ MergesFormForest /\ MergedKeepNoRelationship /\ GraphMergesAreCommitted
  /\ MatchAgreesWithCandidate /\ MatchesOK /\ TracesOK /\ LineageOK
Inv == Shapes /\ Apart /\ (\A s \in Reviewer : RequestOK(req[s])) /\ IngestOK /\ Kept

Decided == {"approved", "rejected", "superseded"}
OneShot == \A x \in Artifact : doc[x] \in Decided => doc'[x] = doc[x]

-----------------------------------------------------------------------------
(* Types of the records.                                                   *)

LEMMA Nones ==
  /\ Idle \in RequestType /\ Idle.pc = "idle" /\ Idle.op = "none" /\ Idle.on = Nobody
  /\ Idle.to = Nobody /\ Quiet \in IngestType /\ Quiet.pc = "idle"
  /\ NoAlias \in AliasOf /\ NoAlias.owner = Nobody
  /\ \A e \in Value, v \in Value : NewAlias(e, v) \in AliasOf /\ NewAlias(e, v).owner = e
BY DEF Idle, RequestType, Target, ArtifactStatus, Quiet, IngestType, NodeRow, Someone,
       NoAlias, NewAlias, AliasOf

LEMMA Kinds ==
  /\ \A x \in Artifact : x # Nobody
  /\ \A e \in Value : e # Nobody
  /\ \A m \in Mention : m # Nobody
  /\ \A p \in Proposal : p \in Artifact /\ p \in Value \X Value /\ p[1] # p[2]
                         /\ p \notin Extraction /\ p \notin Link
                         /\ \A i \in {1, 2} : <<p, i>> \in AliasRow
                                              /\ <<p, i>> \notin Value /\ <<p, i>> \notin Mention
  /\ \A x \in Extraction : x \in Artifact /\ x \notin Proposal /\ x \notin Link
  /\ \A x \in Link : x \in Artifact /\ x \notin Proposal /\ x \notin Extraction
  /\ \A m \in Mention : m \in AliasRow
BY ReviewConstants DEF Artifact, AliasRow

LEMMA StartKept == Init => Inv
<1> SUFFICES ASSUME Init PROVE Inv
  OBVIOUS
<1>1. Known \subseteq Value
  BY ReviewConstants
<1>2. Shapes
  <2>1. entity \in [Value -> EntityRow]
    BY DEF Init, EntityRow, Someone
  <2>2. alias \in [AliasRow -> AliasOf]
    BY <1>1, Nones DEF Init
  <2>3. rel \in [Rel -> Value \X Value]
    BY <1>1 DEF Init
  <2>4. cand \in [Mention -> Candidate] /\ match \in [Mention -> Match]
    BY DEF Init, Candidate, Match, Someone
  <2>5. doc \in [Artifact -> ArtifactStatus] /\ successor \in [Extraction -> Extraction \cup {Nobody}]
    BY DEF Init, ArtifactStatus
  <2>6. graph \in [Value -> NodeRow]
    BY DEF Init, NodeRow, Someone
  <2>7. req \in [Reviewer -> RequestType] /\ ing \in IngestType
    BY Nones DEF Init
  <2> QED BY <2>1, <2>2, <2>3, <2>4, <2>5, <2>6, <2>7 DEF Shapes
<1>3. Apart /\ (\A s \in Reviewer : RequestOK(req[s])) /\ IngestOK
  BY Nones DEF Init, Apart, Busy, RequestOK, Reading, ReviewOK, ApproveOK, EditOK, MatchOK,
               MergeOK, ProjectOK, IngestOK
<1>4. MergesFormForest /\ MergedKeepNoRelationship /\ GraphMergesAreCommitted
  <2>1. MergesFormForest
    <3> SUFFICES ASSUME NEW S \in (SUBSET Value) \ {{}} PROVE \E e \in S : entity[e].status # "merged"
      BY DEF MergesFormForest
    <3>1. PICK e \in S : e \in Value
      OBVIOUS
    <3>2. entity[e].status # "merged"
      BY <3>1 DEF Init
    <3> QED BY <3>1, <3>2
  <2>2. MergedKeepNoRelationship
    <3> SUFFICES ASSUME NEW r \in Rel, NEW i \in {1, 2}
                 PROVE  entity[rel[r][i]].status = "active"
      BY DEF MergedKeepNoRelationship
    <3>1. rel[r][i] \in Known
      BY DEF Init
    <3> QED BY <1>1, <3>1 DEF Init
  <2>3. GraphMergesAreCommitted
    BY DEF Init, GraphMergesAreCommitted
  <2> QED BY <2>1, <2>2, <2>3
<1>5. MatchAgreesWithCandidate /\ MatchesOK /\ LineageOK
  BY Kinds DEF Init, MatchAgreesWithCandidate, MatchesOK, LineageOK
<1>6. TracesOK
  BY <1>1, Kinds DEF Init, TracesOK
<1> QED BY <1>2, <1>3, <1>4, <1>5, <1>6 DEF Inv, Kept

-----------------------------------------------------------------------------
(* One request's step leaves what the others have read as it is.           *)

Grows ==
  /\ \A e \in Value : entity[e].status = "merged" => entity'[e].status = "merged"
  /\ \A r \in AliasRow : alias[r].owner # Nobody => alias'[r].owner # Nobody
Still(q) ==
  /\ \A x \in Artifact : x \in Subject(q) => doc'[x] = doc[x]
  /\ \A m \in Mention : m \in Subject(q) /\ match[m].status = "review" => match'[m] = match[m]
  /\ \A e \in Value : e \in Subject(q) =>
       /\ entity[e].status = "active" => entity'[e].status = "active"
       /\ \A r \in Rel, i \in {1, 2} : rel'[r][i] = e => rel[r][i] = e

LEMMA StillOK ==
  ASSUME NEW q \in RequestType, RequestOK(q), Grows, Still(q)
  PROVE  RequestOK(q)'
<1>1. q.on \in Subject(q) /\ q.to \in Subject(q)
      /\ (q.op = "merge" => q.on[1] \in Subject(q) /\ q.on[2] \in Subject(q))
  BY DEF Subject
<1>2. ReviewOK(q)'
  BY <1>1 DEF RequestOK, ReviewOK, Reading, Still
<1>3. ApproveOK(q)'
  BY <1>1, Kinds DEF RequestOK, ApproveOK, Reading, Still
<1>4. EditOK(q)'
  BY <1>1, Kinds DEF RequestOK, EditOK, Reading, Still
<1>5. MatchOK(q)'
  BY <1>1 DEF RequestOK, MatchOK, Reading, Still
<1>6. MergeOK(q)'
  <2> SUFFICES ASSUME Reading(q, "merge") PROVE MergeOK(q)'
    BY DEF MergeOK, Reading
  <2>1. q.on \in Value \X Value /\ q.on[1] # q.on[2] /\ entity[q.on[1]].status = "active"
        /\ (\A r \in q.copy : r \in AliasRow /\ alias[r].owner # Nobody)
        /\ (\A r \in Rel, i \in {1, 2} : rel[r][i] = q.on[2] => <<r, i>> \in q.ends)
    BY DEF RequestOK, MergeOK
  <2>2. q.on[1] \in Value /\ q.on[2] \in Value /\ q.on[1] \in Subject(q) /\ q.on[2] \in Subject(q)
    BY <1>1, <2>1 DEF Reading
  <2>3. entity'[q.on[1]].status = "active"
        /\ \A r \in Rel, i \in {1, 2} : rel'[r][i] = q.on[2] => rel[r][i] = q.on[2]
    BY <2>1, <2>2 DEF Still
  <2>4. \A r \in q.copy : r \in AliasRow /\ alias'[r].owner # Nobody
    BY <2>1 DEF Grows
  <2> QED BY <2>1, <2>3, <2>4 DEF MergeOK
<1>7. ProjectOK(q)'
  BY DEF RequestOK, ProjectOK, Grows, Committed
<1> QED BY <1>2, <1>3, <1>4, <1>5, <1>6, <1>7 DEF RequestOK

(* What a step of request s may touch: its own subject.                    *)
OnlyOwn(s) ==
  /\ \A x \in Artifact : x \notin Subject(req[s]) => doc'[x] = doc[x]
  /\ \A m \in Mention :
       m \notin Subject(req[s]) /\ match[m].status = "review" => match'[m] = match[m]
  /\ \A e \in Value : e \notin Subject(req[s]) =>
       /\ entity[e].status = "active" => entity'[e].status = "active"
       /\ \A r \in Rel, i \in {1, 2} : rel'[r][i] = e => rel[r][i] = e

LEMMA OthersKept ==
  ASSUME Inv, NEW s \in Reviewer, Busy(s), NEW q \in RequestType, SetReq(s, q),
         q.pc \in {"idle", "error"} \/ Subject(q) = Subject(req[s]),
         RequestOK(q)', Grows, OnlyOwn(s)
  PROVE  req' \in [Reviewer -> RequestType] /\ Apart' /\ \A t \in Reviewer : RequestOK(req[t])'
<1>1. req \in [Reviewer -> RequestType]
  BY DEF Inv, Shapes
<1>2. /\ req' \in [Reviewer -> RequestType] /\ req'[s] = q
      /\ \A t \in Reviewer \ {s} : req'[t] = req[t]
  BY <1>1 DEF SetReq
<1>3. ASSUME NEW t \in Reviewer, t # s, Busy(t)
      PROVE  Subject(req[s]) \cap Subject(req[t]) \subseteq {Nobody}
  BY <1>3 DEF Inv, Apart
<1>4. Apart'
  <2> SUFFICES ASSUME NEW t \in Reviewer, NEW u \in Reviewer, t # u,
                      req'[t].pc \notin {"idle", "error"}, req'[u].pc \notin {"idle", "error"}
               PROVE  Subject(req'[t]) \cap Subject(req'[u]) \subseteq {Nobody}
    BY DEF Apart, Busy, Subject
  <2>1. CASE t = s
    <3>1. u # s /\ req'[u] = req[u] /\ Busy(u) /\ Subject(req'[t]) = Subject(req[s])
      BY <2>1, <1>2 DEF Busy
    <3> QED BY <3>1, <1>3
  <2>2. CASE u = s
    <3>1. t # s /\ req'[t] = req[t] /\ Busy(t) /\ Subject(req'[u]) = Subject(req[s])
      BY <2>2, <1>2 DEF Busy
    <3> QED BY <3>1, <1>3
  <2>3. CASE t # s /\ u # s
    <3>1. req'[t] = req[t] /\ req'[u] = req[u] /\ Busy(t) /\ Busy(u)
      BY <2>3, <1>2 DEF Busy
    <3> QED BY <3>1 DEF Inv, Apart
  <2> QED BY <2>1, <2>2, <2>3
<1>5. ASSUME NEW t \in Reviewer PROVE RequestOK(req[t])'
  <2>1. CASE t = s
    BY <1>2, <2>1 DEF RequestOK, ReviewOK, ApproveOK, EditOK, MatchOK, MergeOK, ProjectOK,
                      Reading, Committed
  <2>2. CASE t # s
    <3>1. PICK k \in RequestType : k = req[t]
      BY <1>1
    <3>2. RequestOK(k) /\ req'[t] = k
      BY <1>2, <2>2, <3>1 DEF Inv
    <3>3. CASE Busy(t)
      <4>1. \A z : z \in Subject(k) => z \notin Subject(req[s]) \/ z = Nobody
        BY <1>3, <2>2, <3>1, <3>3
      <4>2. Still(k)
        BY <4>1, Kinds DEF Still, OnlyOwn
      <4>3. RequestOK(k)'
        BY <3>2, <4>2, StillOK
      <4> QED BY <3>2, <4>3 DEF RequestOK, ReviewOK, ApproveOK, EditOK, MatchOK, MergeOK,
                                ProjectOK, Reading, Committed
    <3>4. CASE ~Busy(t)
      BY <3>1, <3>2, <3>4 DEF Busy, RequestOK, ReviewOK, ApproveOK, EditOK, MatchOK, MergeOK,
                              ProjectOK, Reading, Committed
    <3> QED BY <3>3, <3>4
  <2> QED BY <2>1, <2>2
<1> QED BY <1>2, <1>4, <1>5

-----------------------------------------------------------------------------
(* Steps of a request.                                                     *)

OtherShapes ==
  /\ entity \in [Value -> EntityRow]
  /\ alias \in [AliasRow -> AliasOf]
  /\ rel \in [Rel -> Value \X Value]
  /\ cand \in [Mention -> Candidate]
  /\ match \in [Mention -> Match]
  /\ doc \in [Artifact -> ArtifactStatus]
  /\ successor \in [Extraction -> Extraction \cup {Nobody}]
  /\ graph \in [Value -> NodeRow]
CandStays == \A m \in Mention : cand[m].status = "none" => cand'[m] = cand[m]

LEMMA IngestKept ==
  ASSUME Inv, UNCHANGED ing, Grows, CandStays
  PROVE  IngestOK'
BY DEF Inv, IngestOK, Grows, CandStays

LEMMA GraphKept ==
  ASSUME Inv, UNCHANGED graph, Grows
  PROVE  GraphMergesAreCommitted'
BY DEF Inv, Kept, GraphMergesAreCommitted, Grows

LEMMA StepKept ==
  ASSUME Inv, NEW s \in Reviewer, Busy(s), NEW q \in RequestType, SetReq(s, q),
         q.pc \in {"idle", "error"} \/ Subject(q) = Subject(req[s]),
         RequestOK(q)', Grows, OnlyOwn(s), CandStays, UNCHANGED ing, OtherShapes', Kept'
  PROVE  Inv'
<1>1. req' \in [Reviewer -> RequestType] /\ Apart' /\ \A t \in Reviewer : RequestOK(req[t])'
  BY OthersKept
<1>2. IngestOK'
  BY IngestKept
<1>3. Shapes'
  BY <1>1 DEF Inv, Shapes, OtherShapes
<1> QED BY <1>1, <1>2, <1>3 DEF Inv

LEMMA AnsweredOK ==
  ASSUME NEW q \in RequestType, q.pc \in {"idle", "error"}
  PROVE  RequestOK(q)'
BY DEF RequestOK, ReviewOK, ApproveOK, EditOK, MatchOK, MergeOK, ProjectOK, Reading

LEMMA RowsKept ==
  ASSUME Inv, UNCHANGED rows
  PROVE  /\ Grows /\ CandStays /\ OneShot
         /\ (\A s \in Reviewer : OnlyOwn(s)) /\ (\A t \in Reviewer : Still(req[t]))
         /\ UNCHANGED graph => Kept' /\ OtherShapes'
<1>1. /\ UNCHANGED entity /\ UNCHANGED alias /\ UNCHANGED rel /\ UNCHANGED cand
      /\ UNCHANGED match /\ UNCHANGED doc /\ UNCHANGED successor /\ UNCHANGED reviewed
  BY DEF rows
<1>2. Grows /\ CandStays /\ OneShot
  BY <1>1 DEF Grows, CandStays, OneShot
<1>3. (\A s \in Reviewer : OnlyOwn(s)) /\ (\A t \in Reviewer : Still(req[t]))
  BY <1>1 DEF OnlyOwn, Still
<1>4. ASSUME UNCHANGED graph PROVE Kept' /\ OtherShapes'
  BY <1>1, <1>4 DEF Inv, Kept, MergesFormForest, MergedKeepNoRelationship,
     GraphMergesAreCommitted, MatchAgreesWithCandidate, MatchesOK, TracesOK, LineageOK,
     Shapes, OtherShapes
<1> QED BY <1>2, <1>3, <1>4

(* A request that leaves the rows and the graph alone.                     *)
LEMMA QuietStep ==
  ASSUME Inv, NEW s \in Reviewer, Busy(s), NEW q \in RequestType, SetReq(s, q),
         q.pc \in {"idle", "error"} \/ Subject(q) = Subject(req[s]),
         RequestOK(q)', UNCHANGED <<rows, graph, ing>>
  PROVE  Inv' /\ OneShot
<1>1. /\ Grows /\ CandStays /\ OneShot /\ OnlyOwn(s) /\ Kept' /\ OtherShapes'
      /\ UNCHANGED rows /\ UNCHANGED ing
  BY RowsKept
<1>2. Inv'
  BY <1>1, StepKept
<1> QED BY <1>1, <1>2

LEMMA ErrorStep ==
  ASSUME Inv, NEW s \in Reviewer, Busy(s), Error(s), UNCHANGED <<graph, ing>>
  PROVE  Inv' /\ OneShot
<1>1. req[s] \in RequestType
  BY DEF Inv, Shapes
<1>2. [Idle EXCEPT !.pc = "error", !.op = req[s].op] \in RequestType
  BY <1>1, Nones DEF RequestType
<1>3. PICK q \in RequestType : q = [Idle EXCEPT !.pc = "error", !.op = req[s].op]
  BY <1>2
<1>4. q.pc = "error"
  BY <1>3, Nones DEF RequestType
<1>5. SetReq(s, q) /\ UNCHANGED <<rows, graph, ing>>
  BY <1>3 DEF Error
<1>6. RequestOK(q)'
  BY <1>4, AnsweredOK
<1> QED BY <1>4, <1>5, <1>6, QuietStep

LEMMA StartStep ==
  ASSUME Serial, Inv, NEW s \in Reviewer, NEW q \in RequestType, Start(s, q), q.pc = "read",
         RequestOK(q)
  PROVE  Inv' /\ OneShot
<1>1. UNCHANGED rows /\ UNCHANGED graph /\ UNCHANGED ing /\ ~Busy(s) /\ SetReq(s, q)
  BY DEF Start
<1>2. /\ req' \in [Reviewer -> RequestType] /\ req'[s] = q
      /\ \A t \in Reviewer \ {s} : req'[t] = req[t]
  BY <1>1 DEF SetReq, Inv, Shapes
<1>3. /\ Grows /\ CandStays /\ OneShot /\ (\A t \in Reviewer : Still(req[t]))
      /\ Kept' /\ OtherShapes'
  BY <1>1, RowsKept
<1>4. ASSUME NEW t \in Reviewer, t # s, Busy(t)
      PROVE  Subject(q) \cap Subject(req[t]) \subseteq {Nobody}
  BY <1>4 DEF Start, Undisturbed
<1>5. Apart'
  <2> SUFFICES ASSUME NEW t \in Reviewer, NEW u \in Reviewer, t # u,
                      req'[t].pc \notin {"idle", "error"}, req'[u].pc \notin {"idle", "error"}
               PROVE  Subject(req'[t]) \cap Subject(req'[u]) \subseteq {Nobody}
    BY DEF Apart, Busy, Subject
  <2>1. CASE t = s
    BY <2>1, <1>2, <1>4 DEF Busy
  <2>2. CASE u = s
    BY <2>2, <1>2, <1>4 DEF Busy
  <2>3. CASE t # s /\ u # s
    <3>1. req'[t] = req[t] /\ req'[u] = req[u] /\ Busy(t) /\ Busy(u)
      BY <2>3, <1>2 DEF Busy
    <3> QED BY <3>1 DEF Inv, Apart
  <2> QED BY <2>1, <2>2, <2>3
<1>6. ASSUME NEW t \in Reviewer PROVE RequestOK(req[t])'
  <2>1. PICK k \in RequestType : k = req'[t]
    BY <1>2
  <2>2. RequestOK(k) /\ Still(k)
    <3>1. CASE t = s
      BY <3>1, <2>1, <1>1, <1>2 DEF rows, Still
    <3>2. CASE t # s
      <4>1. k = req[t]
        BY <3>2, <2>1, <1>2
      <4> QED BY <4>1, <1>3 DEF Inv
    <3> QED BY <3>1, <3>2
  <2>3. RequestOK(k)'
    BY <2>2, <1>3, StillOK
  <2> QED BY <2>1, <2>3 DEF RequestOK, ReviewOK, ApproveOK, EditOK, MatchOK, MergeOK,
                            ProjectOK, Reading, Committed
<1>7. IngestOK'
  BY <1>1, <1>3, IngestKept
<1>8. Shapes'
  BY <1>1, <1>2, <1>3 DEF Inv, Shapes, OtherShapes
<1> QED BY <1>3, <1>5, <1>6, <1>7, <1>8 DEF Inv

-----------------------------------------------------------------------------
(* Reads.                                                                  *)

LEMMA ReviewReadKept ==
  ASSUME Serial, Inv, NEW s \in Reviewer, NEW x \in Artifact,
         NEW d \in {"approved", "rejected"}, ReviewRead(s, x, d)
  PROVE  Inv' /\ OneShot
<1>1. x \in Target /\ doc[x] = "pending_review"
  BY DEF Target, ReviewRead
<1>2. CASE x \in Proposal /\ d = "approved"
  <2>1. apply_approved_match(x) \subseteq {1, 2}
    BY DEF apply_approved_match
  <2>2. PICK c \in SUBSET {1, 2} : c = apply_approved_match(x)
    BY <2>1
  <2>3. c \in SUBSET CopyItem
    BY DEF CopyItem
  <2>4. [Idle EXCEPT !.pc = "read", !.op = "approve_match", !.on = x, !.decision = d, !.copy = c]
          \in RequestType
    BY <1>1, <2>3, Nones DEF RequestType
  <2>5. PICK q \in RequestType : q = [Idle EXCEPT !.pc = "read", !.op = "approve_match",
                                        !.on = x, !.decision = d, !.copy = c]
    BY <2>4
  <2>6. q.pc = "read" /\ q.op = "approve_match" /\ q.on = x /\ q.decision = d /\ q.copy = c
    BY <2>5, Nones DEF RequestType
  <2>7. Start(s, q)
    BY <1>2, <2>2, <2>5 DEF ReviewRead
  <2>8. RequestOK(q)
    BY <1>1, <1>2, <2>6 DEF RequestOK, ReviewOK, ApproveOK, EditOK, MatchOK, MergeOK,
                            ProjectOK, Reading
  <2> QED BY <2>6, <2>7, <2>8, StartStep
<1>3. CASE ~(x \in Proposal /\ d = "approved")
  <2>1. [Idle EXCEPT !.pc = "read", !.op = "review", !.on = x, !.decision = d] \in RequestType
    BY <1>1, Nones DEF RequestType
  <2>2. PICK q \in RequestType :
          q = [Idle EXCEPT !.pc = "read", !.op = "review", !.on = x, !.decision = d]
    BY <2>1
  <2>3. q.pc = "read" /\ q.op = "review" /\ q.on = x /\ q.decision = d
    BY <2>2, Nones DEF RequestType
  <2>4. Start(s, q)
    BY <1>3, <2>2 DEF ReviewRead
  <2>5. RequestOK(q)
    BY <1>1, <1>3, <2>3 DEF RequestOK, ReviewOK, ApproveOK, EditOK, MatchOK, MergeOK,
                            ProjectOK, Reading
  <2> QED BY <2>3, <2>4, <2>5, StartStep
<1> QED BY <1>2, <1>3

LEMMA EditReadKept ==
  ASSUME Serial, Inv, NEW s \in Reviewer, NEW x \in Extraction, NEW y \in Extraction,
         EditRead(s, x, y)
  PROVE  Inv' /\ OneShot
<1>1. x \in Artifact /\ y \in Artifact /\ x \in Target /\ doc[x] = "pending_review"
  BY Kinds DEF Target, EditRead
<1>2. PICK z \in ArtifactStatus : z = doc[y]
  BY <1>1 DEF Inv, Shapes
<1>3. [Idle EXCEPT !.pc = "read", !.op = "edit", !.on = x, !.to = y, !.decision = "approved",
                   !.seen = z] \in RequestType
  BY <1>1, <1>2, Nones DEF RequestType
<1>4. PICK q \in RequestType :
        q = [Idle EXCEPT !.pc = "read", !.op = "edit", !.on = x, !.to = y,
                         !.decision = "approved", !.seen = z]
  BY <1>3
<1>5. q.pc = "read" /\ q.op = "edit" /\ q.on = x /\ q.to = y /\ q.seen = z
  BY <1>4, Nones DEF RequestType
<1>6. Start(s, q)
  BY <1>2, <1>4 DEF EditRead
<1>7. RequestOK(q)
  BY <1>1, <1>2, <1>5 DEF RequestOK, ReviewOK, ApproveOK, EditOK, MatchOK, MergeOK,
                          ProjectOK, Reading
<1> QED BY <1>5, <1>6, <1>7, StartStep

LEMMA MatchReadKept ==
  ASSUME Serial, Inv, NEW s \in Reviewer, NEW m \in Mention, NEW op \in {"accept", "reject"},
         MatchRead(s, m, op)
  PROVE  Inv' /\ OneShot
<1>1. m \in Target /\ match[m].status = "review"
  BY DEF Target, MatchRead
<1>2. [Idle EXCEPT !.pc = "read", !.op = op, !.on = m] \in RequestType
  BY <1>1, Nones DEF RequestType
<1>3. PICK q \in RequestType : q = [Idle EXCEPT !.pc = "read", !.op = op, !.on = m]
  BY <1>2
<1>4. q.pc = "read" /\ q.op = op /\ q.on = m
  BY <1>3, Nones DEF RequestType
<1>5. Start(s, q)
  BY <1>3 DEF MatchRead
<1>6. RequestOK(q)
  BY <1>1, <1>4 DEF RequestOK, ReviewOK, ApproveOK, EditOK, MatchOK, MergeOK, ProjectOK, Reading
<1> QED BY <1>4, <1>5, <1>6, StartStep

LEMMA MergeReadKept ==
  ASSUME Serial, Inv, NEW s \in Reviewer, NEW p \in Value, NEW q \in Value, MergeRead(s, p, q)
  PROVE  Inv' /\ OneShot
<1>1. p # q /\ entity[p].status = "active" /\ <<p, q>> \in Value \X Value /\ <<p, q>> \in Target
  BY DEF Target, MergeRead
<1>2. PICK c \in SUBSET AliasRow : c = {r \in AliasRow : alias[r].owner = q}
  OBVIOUS
<1>3. PICK e \in SUBSET (Rel \X {1, 2}) : e = {n \in Rel \X {1, 2} : rel[n[1]][n[2]] = q}
  OBVIOUS
<1>4. c \in SUBSET CopyItem /\ e \in SUBSET EndItem
  BY DEF CopyItem, EndItem
<1>5. [Idle EXCEPT !.pc = "read", !.op = "merge", !.on = <<p, q>>, !.copy = c, !.ends = e]
        \in RequestType
  BY <1>1, <1>4, Nones DEF RequestType
<1>6. PICK k \in RequestType :
        k = [Idle EXCEPT !.pc = "read", !.op = "merge", !.on = <<p, q>>, !.copy = c, !.ends = e]
  BY <1>5
<1>7. k.pc = "read" /\ k.op = "merge" /\ k.on = <<p, q>> /\ k.copy = c /\ k.ends = e
  BY <1>6, Nones DEF RequestType
<1>8. Start(s, k)
  BY <1>2, <1>3, <1>6 DEF MergeRead
<1>9. MergeOK(k)
  <2>1. k.on[1] = p /\ k.on[2] = q
    BY <1>7
  <2>2. \A r \in k.copy : r \in AliasRow /\ alias[r].owner # Nobody
    BY <1>2, <1>7, Kinds
  <2>3. \A r \in Rel, i \in {1, 2} : rel[r][i] = q => <<r, i>> \in k.ends
    BY <1>3, <1>7
  <2> QED BY <1>1, <1>7, <2>1, <2>2, <2>3 DEF MergeOK
<1>10. RequestOK(k)
  BY <1>7, <1>9 DEF RequestOK, ReviewOK, ApproveOK, EditOK, MatchOK, ProjectOK, Reading
<1> QED BY <1>7, <1>8, <1>10, StartStep

-----------------------------------------------------------------------------
(* Decisions on artifacts.                                                 *)

LEMMA ReviewCommitKept ==
  ASSUME Inv, NEW s \in Reviewer, ReviewCommit(s)
  PROVE  Inv' /\ OneShot
<1>1. PICK x \in Target : x = req[s].on
  BY DEF Inv, Shapes, RequestType
<1>2. PICK d \in {"none", "approved", "rejected"} : d = req[s].decision
  BY DEF Inv, Shapes, RequestType
<1>3. /\ Busy(s) /\ SetReq(s, Idle) /\ UNCHANGED ing /\ UNCHANGED graph
      /\ UNCHANGED entity /\ UNCHANGED alias /\ UNCHANGED rel /\ UNCHANGED cand
      /\ UNCHANGED match /\ UNCHANGED successor
      /\ doc' = [doc EXCEPT ![x] = d]
      /\ reviewed' = IF x \in Link /\ d = "approved" THEN reviewed \cup {<<x, s>>} ELSE reviewed
  BY <1>1, <1>2 DEF ReviewCommit, Busy
<1>4. /\ x \in Artifact /\ doc[x] = "pending_review" /\ d \in {"approved", "rejected"}
      /\ x \in Proposal => d = "rejected"
  BY <1>1, <1>2 DEF Inv, RequestOK, ReviewOK, Reading, ReviewCommit
<1>5. doc \in [Artifact -> ArtifactStatus]
  BY DEF Inv, Shapes
<1>6. doc' \in [Artifact -> ArtifactStatus] /\ doc'[x] = d
      /\ \A y \in Artifact : y # x => doc'[y] = doc[y]
  BY <1>3, <1>4, <1>5 DEF ArtifactStatus
<1>7. Grows /\ CandStays
  BY <1>3 DEF Grows, CandStays
<1>8. OnlyOwn(s)
  BY <1>1, <1>3, <1>6 DEF OnlyOwn, Subject
<1>9. OtherShapes'
  BY <1>3, <1>6 DEF Inv, Shapes, OtherShapes
<1>10. MergesFormForest' /\ MergedKeepNoRelationship' /\ MatchAgreesWithCandidate' /\ MatchesOK'
  BY <1>3 DEF Inv, Kept, MergesFormForest, MergedKeepNoRelationship, MatchAgreesWithCandidate,
              MatchesOK
<1>11. TracesOK'
  <2>1. TracesOK
    BY DEF Inv, Kept
  <2>2. ASSUME NEW p \in Proposal, doc'[p] # "approved", NEW i \in {1, 2}
        PROVE  alias'[<<p, i>>] = NoAlias
    BY <2>1, <2>2, <1>3, <1>4, <1>6, Kinds DEF TracesOK
  <2>3. ASSUME NEW y \in Link, NEW t \in Reviewer, <<y, t>> \in reviewed'
        PROVE  doc'[y] = "approved"
    <3>1. CASE <<y, t>> \in reviewed
      BY <2>1, <3>1, <1>4, <1>6, Kinds DEF TracesOK
    <3>2. CASE <<y, t>> \notin reviewed
      BY <2>3, <3>2, <1>3, <1>6
    <3> QED BY <3>1, <3>2
  <2> QED BY <2>2, <2>3 DEF TracesOK
<1>12. LineageOK'
  BY <1>3, <1>4, <1>6, Kinds DEF Inv, Kept, LineageOK
<1>13. Kept'
  BY <1>3, <1>7, <1>10, <1>11, <1>12, GraphKept DEF Kept
<1>14. Idle \in RequestType /\ Idle.pc = "idle"
  BY Nones
<1>15. Inv'
  BY <1>3, <1>7, <1>8, <1>9, <1>13, <1>14, AnsweredOK, StepKept
<1>16. OneShot
  BY <1>4, <1>6 DEF OneShot, Decided
<1> QED BY <1>15, <1>16
LEMMA EditCommitKept ==
  ASSUME Inv, NEW s \in Reviewer, EditCommit(s)
  PROVE  Inv' /\ OneShot
<1>1. PICK x \in Target : x = req[s].on
  BY DEF Inv, Shapes, RequestType
<1>2. PICK y \in Extraction \cup {Nobody} : y = req[s].to
  BY DEF Inv, Shapes, RequestType
<1>3. PICK seen \in ArtifactStatus : seen = req[s].seen
  BY DEF Inv, Shapes, RequestType
<1>4. /\ x \in Extraction /\ doc[x] = "pending_review" /\ y \in Extraction
      /\ seen = "pending_review" => doc[y] = "pending_review"
  BY <1>1, <1>2, <1>3 DEF Inv, RequestOK, EditOK, Reading, EditCommit
<1>5. Busy(s) /\ UNCHANGED <<graph, ing>>
  BY DEF EditCommit, Busy
<1>6. Idle \in RequestType /\ Idle.pc = "idle" /\ RequestOK(Idle)'
  BY Nones, AnsweredOK
<1>7. CASE seen = "none" /\ doc[y] # "none"
  <2>1. Error(s)
    BY <1>2, <1>3, <1>7 DEF EditCommit
  <2> QED BY <1>5, <2>1, ErrorStep
<1>8. CASE seen \notin {"none", "pending_review"}
  <2>1. SetReq(s, Idle) /\ UNCHANGED rows
    BY <1>2, <1>3, <1>8 DEF EditCommit
  <2> QED BY <1>5, <1>6, <2>1, QuietStep
<1>9. CASE seen \in {"none", "pending_review"} /\ ~(seen = "none" /\ doc[y] # "none")
  <2>1. /\ doc' = [doc EXCEPT ![x] = "superseded", ![y] = "approved"]
        /\ successor' = IF x = y THEN successor ELSE [successor EXCEPT ![x] = y]
        /\ SetReq(s, Idle)
        /\ UNCHANGED <<entity, alias, rel, cand, match, reviewed>>
    BY <1>1, <1>2, <1>3, <1>9 DEF EditCommit
  <2>2. UNCHANGED entity /\ UNCHANGED alias /\ UNCHANGED rel /\ UNCHANGED cand
        /\ UNCHANGED match /\ UNCHANGED reviewed /\ UNCHANGED graph /\ UNCHANGED ing
    BY <1>5, <2>1
  <2>3. doc \in [Artifact -> ArtifactStatus]
        /\ successor \in [Extraction -> Extraction \cup {Nobody}]
    BY DEF Inv, Shapes
  <2>4. x \in Artifact /\ y \in Artifact /\ doc[y] \in {"none", "pending_review"}
    BY <1>4, <1>9, Kinds
  <2>5. /\ doc' \in [Artifact -> ArtifactStatus] /\ doc'[y] = "approved"
        /\ x # y => doc'[x] = "superseded"
        /\ \A z \in Artifact : z # x /\ z # y => doc'[z] = doc[z]
    BY <2>1, <2>3, <2>4 DEF ArtifactStatus
  <2>6. /\ successor' \in [Extraction -> Extraction \cup {Nobody}]
        /\ x # y => successor'[x] = y
        /\ \A z \in Extraction : z # x => successor'[z] = successor[z]
    BY <1>4, <2>1, <2>3
  <2>7. Grows /\ CandStays
    BY <2>2 DEF Grows, CandStays
  <2>8. OnlyOwn(s)
    BY <1>1, <1>2, <2>2, <2>5 DEF OnlyOwn, Subject
  <2>9. OtherShapes'
    BY <2>2, <2>5, <2>6 DEF Inv, Shapes, OtherShapes
  <2>10. MergesFormForest' /\ MergedKeepNoRelationship' /\ MatchAgreesWithCandidate' /\ MatchesOK'
    BY <2>2 DEF Inv, Kept, MergesFormForest, MergedKeepNoRelationship,
                MatchAgreesWithCandidate, MatchesOK
  <2>11. TracesOK'
    <3>1. \A p \in Proposal : doc'[p] = doc[p]
      BY <1>4, <2>5, Kinds
    <3>2. \A p \in Link : doc'[p] = doc[p]
      BY <1>4, <2>5, Kinds
    <3> QED BY <2>2, <3>1, <3>2 DEF Inv, Kept, TracesOK
  <2>12. LineageOK'
    <3> SUFFICES ASSUME NEW z \in Extraction, doc'[z] = "superseded"
                 PROVE  successor'[z] \in Extraction /\ doc'[successor'[z]] = "approved"
      BY DEF LineageOK
    <3>1. CASE z = x
      <4>1. x # y
        BY <2>5, <3>1
      <4> QED BY <1>4, <2>5, <2>6, <3>1, <4>1
    <3>2. CASE z # x
      <4>1. doc[z] = "superseded"
        BY <2>5, <3>2, Kinds
      <4>2. successor[z] \in Extraction /\ doc[successor[z]] = "approved"
        BY <4>1 DEF Inv, Kept, LineageOK
      <4>3. successor[z] \in Artifact /\ successor[z] # x /\ successor[z] # y
        BY <1>4, <2>4, <4>2, Kinds
      <4> QED BY <2>5, <2>6, <3>2, <4>2, <4>3
    <3> QED BY <3>1, <3>2
  <2>13. Kept'
    BY <2>2, <2>7, <2>10, <2>11, <2>12, GraphKept DEF Kept
  <2>14. Inv'
    BY <1>5, <1>6, <2>1, <2>2, <2>7, <2>8, <2>9, <2>13, StepKept
  <2>15. OneShot
    BY <1>4, <2>4, <2>5 DEF OneShot, Decided
  <2> QED BY <2>14, <2>15
<1> QED BY <1>7, <1>8, <1>9

-----------------------------------------------------------------------------
(* Decisions on matches.                                                   *)

LEMMA MatchCommitKept ==
  ASSUME Inv, NEW s \in Reviewer, NEW m \in Mention, req[s].on = m, req[s].pc = "read",
         match[m].status = "review",
         NEW w \in Match, NEW c \in Candidate, c.status # "none",
         w.status = "active" => c = [status |-> "auto_match", entity |-> w.target],
         w.status = "rejected" => c = [status |-> "no_match", entity |-> Nobody],
         w.status # "review",
         match' = [match EXCEPT ![m] = w], cand' = [cand EXCEPT ![m] = c],
         SetReq(s, Idle), UNCHANGED <<entity, alias, rel, doc, successor, reviewed, graph, ing>>
  PROVE  Inv' /\ OneShot
<1>1. /\ UNCHANGED entity /\ UNCHANGED alias /\ UNCHANGED rel /\ UNCHANGED doc
      /\ UNCHANGED successor /\ UNCHANGED reviewed /\ UNCHANGED graph /\ UNCHANGED ing
  OBVIOUS
<1>2. /\ match \in [Mention -> Match] /\ cand \in [Mention -> Candidate]
      /\ MatchAgreesWithCandidate /\ MatchesOK
  BY DEF Inv, Shapes, Kept
<1>3. /\ match' \in [Mention -> Match] /\ match'[m] = w
      /\ \A k \in Mention : k # m => match'[k] = match[k]
  BY <1>2
<1>4. /\ cand' \in [Mention -> Candidate] /\ cand'[m] = c
      /\ \A k \in Mention : k # m => cand'[k] = cand[k]
  BY <1>2
<1>5. Grows /\ CandStays
  BY <1>1, <1>2, <1>4 DEF Grows, CandStays, MatchesOK
<1>6. OnlyOwn(s)
  BY <1>1, <1>3 DEF OnlyOwn, Subject
<1>7. OtherShapes'
  BY <1>1, <1>3, <1>4 DEF Inv, Shapes, OtherShapes
<1>8. MatchAgreesWithCandidate' /\ MatchesOK'
  <2>1. ASSUME NEW k \in Mention
        PROVE  /\ match'[k].status = "active" =>
                    cand'[k] = [status |-> "auto_match", entity |-> match'[k].target]
               /\ match'[k].status = "rejected" =>
                    cand'[k] = [status |-> "no_match", entity |-> Nobody]
               /\ match'[k].status # "none" => cand'[k].status # "none"
               /\ match'[k].status = "review" => cand'[k].entity = Nobody
    <3>1. CASE k = m
      BY <1>3, <1>4, <3>1
    <3>2. CASE k # m
      BY <1>2, <1>3, <1>4, <3>2 DEF MatchAgreesWithCandidate, MatchesOK
    <3> QED BY <3>1, <3>2
  <2> QED BY <2>1 DEF MatchAgreesWithCandidate, MatchesOK
<1>9. MergesFormForest' /\ MergedKeepNoRelationship' /\ TracesOK' /\ LineageOK' /\ OneShot
  BY <1>1 DEF Inv, Kept, MergesFormForest, MergedKeepNoRelationship, TracesOK, LineageOK, OneShot
<1>10. Kept'
  BY <1>1, <1>5, <1>8, <1>9, GraphKept DEF Kept
<1>11. Idle \in RequestType /\ Idle.pc = "idle" /\ RequestOK(Idle)' /\ Busy(s)
  BY Nones, AnsweredOK DEF Busy
<1>12. Inv'
  BY <1>1, <1>5, <1>6, <1>7, <1>10, <1>11, StepKept
<1> QED BY <1>9, <1>12

LEMMA AcceptCommitKept ==
  ASSUME Inv, NEW s \in Reviewer, AcceptCommit(s)
  PROVE  Inv' /\ OneShot
<1>1. req[s].on \in Mention /\ match[req[s].on].status = "review"
  BY DEF Inv, RequestOK, MatchOK, Reading, AcceptCommit
<1>2. PICK m \in Mention : m = req[s].on
  BY <1>1
<1>3. match \in [Mention -> Match] /\ cand \in [Mention -> Candidate]
  BY DEF Inv, Shapes
<1>4. PICK t \in Someone : t = match[m].target
  BY <1>3 DEF Match
<1>5. PICK w \in Match : w = [status |-> "active", target |-> t]
  BY DEF Match
<1>6. PICK c \in Candidate : c = [status |-> "auto_match", entity |-> t]
  BY DEF Candidate
<1>7. [match[m] EXCEPT !.status = "active"] = w
  BY <1>3, <1>4, <1>5 DEF Match
<1>8. match' = [match EXCEPT ![m].status = "active"] /\ cand' = [cand EXCEPT ![m] = c]
  BY <1>2, <1>4, <1>6 DEF AcceptCommit
<1>9. match' = [match EXCEPT ![m] = w]
  BY <1>3, <1>7, <1>8
<1>10. /\ req[s].pc = "read" /\ SetReq(s, Idle)
       /\ UNCHANGED <<entity, alias, rel, doc, successor, reviewed, graph, ing>>
  BY DEF AcceptCommit
<1>11. match[m].status = "review" /\ c.status # "none" /\ w.status = "active" /\ w.target = t
  BY <1>1, <1>2, <1>5, <1>6
<1> QED BY <1>2, <1>6, <1>8, <1>9, <1>10, <1>11, MatchCommitKept

LEMMA RejectCommitKept ==
  ASSUME Inv, NEW s \in Reviewer, RejectCommit(s)
  PROVE  Inv' /\ OneShot
<1>1. req[s].on \in Mention /\ match[req[s].on].status = "review"
  BY DEF Inv, RequestOK, MatchOK, Reading, RejectCommit
<1>2. PICK m \in Mention : m = req[s].on
  BY <1>1
<1>3. match \in [Mention -> Match] /\ cand \in [Mention -> Candidate] /\ cand[m].entity = Nobody
  BY <1>1, <1>2 DEF Inv, Shapes, Kept, MatchesOK
<1>4. PICK t \in Someone : t = match[m].target
  BY <1>3 DEF Match
<1>5. PICK w \in Match : w = [status |-> "rejected", target |-> t]
  BY DEF Match
<1>6. PICK c \in Candidate : c = [status |-> "no_match", entity |-> Nobody]
  BY DEF Candidate, Someone
<1>7. match' = [match EXCEPT ![m].status = "rejected"]
      /\ cand' = [cand EXCEPT ![m].status = "no_match"]
  BY <1>2 DEF RejectCommit
<1>8. match' = [match EXCEPT ![m] = w] /\ cand' = [cand EXCEPT ![m] = c]
  <2>1. [match[m] EXCEPT !.status = "rejected"] = w
    BY <1>3, <1>4, <1>5 DEF Match
  <2>2. [cand[m] EXCEPT !.status = "no_match"] = c
    BY <1>3, <1>6 DEF Candidate
  <2> QED BY <1>3, <1>7, <2>1, <2>2
<1>9. /\ req[s].pc = "read" /\ SetReq(s, Idle)
      /\ UNCHANGED <<entity, alias, rel, doc, successor, reviewed, graph, ing>>
  BY DEF RejectCommit
<1>10. match[m].status = "review" /\ c.status # "none" /\ w.status = "rejected"
  BY <1>1, <1>2, <1>5, <1>6
<1> QED BY <1>2, <1>6, <1>8, <1>9, <1>10, MatchCommitKept
-----------------------------------------------------------------------------
(* Approved pairs and merges.                                              *)

LEMMA CommittedOK ==
  ASSUME NEW q \in RequestType, q.pc = "committed",
         \A n \in q.ends : n \in Value \X Shown /\ (n[2] = "merged" => entity'[n[1]].status = "merged")
  PROVE  RequestOK(q)'
BY DEF RequestOK, ReviewOK, ApproveOK, EditOK, MatchOK, MergeOK, ProjectOK, Reading, Committed

LEMMA ApproveMatchCommitKept ==
  ASSUME Inv, NEW s \in Reviewer, ApproveMatchCommit(s)
  PROVE  Inv' /\ OneShot
<1>1. req[s] \in RequestType
  BY DEF Inv, Shapes
<1>2. PICK k \in RequestType : k = req[s]
  BY <1>1
<1>3. /\ k.pc = "read" /\ k.op = "approve_match" /\ k.on \in Proposal
      /\ doc[k.on] = "pending_review" /\ k.decision = "approved" /\ k.copy \subseteq {1, 2}
  BY <1>2 DEF Inv, RequestOK, ApproveOK, Reading, ApproveMatchCommit
<1>4. PICK p \in Proposal : p = k.on
  BY <1>3
<1>5. PICK new \in SUBSET {1, 2} : new = k.copy
  BY <1>3
<1>6. Busy(s) /\ UNCHANGED <<graph, ing>>
  BY DEF ApproveMatchCommit, Busy
<1>7. CASE ~(new \subseteq apply_approved_match(p))
  <2>1. Error(s)
    BY <1>2, <1>4, <1>5, <1>7 DEF ApproveMatchCommit
  <2> QED BY <1>6, <2>1, ErrorStep
<1>8. CASE new \subseteq apply_approved_match(p)
  <2>1. /\ alias' = [r \in AliasRow |-> IF r \in {p} \X new THEN Alias(p, r[2]) ELSE alias[r]]
        /\ doc' = [doc EXCEPT ![p] = "approved"]
        /\ SetReq(s, [k EXCEPT !.pc = "committed",
                             !.ends = {<<e, "active">> : e \in {p[1], p[2]}}])
        /\ UNCHANGED <<entity, rel, cand, match, successor, reviewed>>
    BY <1>2, <1>3, <1>4, <1>5, <1>8 DEF ApproveMatchCommit
  <2>2. UNCHANGED entity /\ UNCHANGED rel /\ UNCHANGED cand /\ UNCHANGED match
        /\ UNCHANGED successor /\ UNCHANGED reviewed /\ UNCHANGED graph /\ UNCHANGED ing
    BY <1>6, <2>1
  <2>3. /\ p \in Artifact /\ p \in Value \X Value /\ p[1] \in Value /\ p[2] \in Value
        /\ p \notin Extraction /\ p \notin Link
    BY Kinds
  <2>4. PICK ends \in SUBSET EndItem :
          ends = {<<e, "active">> : e \in {p[1], p[2]}}
    <3>1. \A e \in {p[1], p[2]} : <<e, "active">> \in EndItem
      BY <2>3 DEF EndItem, Shown
    <3>2. {<<e, "active">> : e \in {p[1], p[2]}} \in SUBSET EndItem
      BY <3>1
    <3> QED BY <3>2
  <2>5. [k EXCEPT !.pc = "committed", !.ends = ends] \in RequestType
    BY DEF RequestType
  <2>6. PICK q \in RequestType : q = [k EXCEPT !.pc = "committed", !.ends = ends]
    BY <2>5
  <2>7. q.pc = "committed" /\ q.ends = ends /\ q.on = k.on /\ q.to = k.to /\ q.op = k.op
    BY <2>6 DEF RequestType
  <2>8. SetReq(s, q) /\ Subject(q) = Subject(req[s])
    BY <1>2, <2>1, <2>4, <2>6, <2>7 DEF Subject
  <2>9. \A n \in ends : n \in Value \X Shown /\ n[2] = "active"
    BY <2>3, <2>4 DEF Shown
  <2>10. RequestOK(q)'
    BY <2>7, <2>9, CommittedOK
  <2>11. alias \in [AliasRow -> AliasOf] /\ doc \in [Artifact -> ArtifactStatus]
    BY DEF Inv, Shapes
  <2>12. /\ doc' \in [Artifact -> ArtifactStatus] /\ doc'[p] = "approved"
         /\ \A y \in Artifact : y # p => doc'[y] = doc[y]
    BY <2>1, <2>3, <2>11 DEF ArtifactStatus
  <2>13. \A i : Alias(p, i) \in AliasOf /\ Alias(p, i).owner # Nobody
    BY <2>3, Nones, Kinds DEF Alias
  <2>14. alias' \in [AliasRow -> AliasOf]
         /\ \A r \in AliasRow : alias'[r].owner # Nobody \/ alias'[r] = alias[r]
    BY <2>1, <2>11, <2>13
  <2>15. Grows /\ CandStays
    BY <2>2, <2>14 DEF Grows, CandStays
  <2>16. OnlyOwn(s)
    BY <1>2, <1>4, <2>2, <2>12 DEF OnlyOwn, Subject
  <2>17. OtherShapes'
    BY <2>2, <2>12, <2>14 DEF Inv, Shapes, OtherShapes
  <2>18. MergesFormForest' /\ MergedKeepNoRelationship' /\ MatchAgreesWithCandidate' /\ MatchesOK'
    BY <2>2 DEF Inv, Kept, MergesFormForest, MergedKeepNoRelationship,
                MatchAgreesWithCandidate, MatchesOK
  <2>19. TracesOK'
    <3>1. ASSUME NEW z \in Proposal, doc'[z] # "approved", NEW i \in {1, 2}
          PROVE  alias'[<<z, i>>] = NoAlias
      <4>1. z # p /\ doc[z] # "approved" /\ <<z, i>> \in AliasRow
        BY <2>12, <3>1, Kinds
      <4>2. <<z, i>> \notin {p} \X new
        BY <4>1
      <4>3. alias[<<z, i>>] = NoAlias
        BY <4>1 DEF Inv, Kept, TracesOK
      <4> QED BY <2>1, <4>1, <4>2, <4>3
    <3>2. \A y \in Link : doc'[y] = doc[y]
      BY <2>3, <2>12, Kinds
    <3> QED BY <2>2, <3>1, <3>2 DEF Inv, Kept, TracesOK
  <2>20. LineageOK'
    <3>1. \A y \in Extraction : doc'[y] = doc[y]
      BY <2>3, <2>12, Kinds
    <3> QED BY <2>2, <3>1 DEF Inv, Kept, LineageOK
  <2>21. Kept'
    BY <2>2, <2>15, <2>18, <2>19, <2>20, GraphKept DEF Kept
  <2>22. Inv'
    BY <1>6, <2>2, <2>8, <2>10, <2>15, <2>16, <2>17, <2>21, StepKept
  <2>23. OneShot
    BY <1>3, <1>4, <2>12 DEF OneShot, Decided
  <2> QED BY <2>22, <2>23
<1> QED BY <1>7, <1>8

(* Where the absorbed entity goes, the chains still end.                   *)
LEMMA ForestGrows ==
  ASSUME MergesFormForest, entity \in [Value -> EntityRow],
         NEW p \in Value, NEW q \in Value, p # q, entity[p].status = "active",
         entity'[p] = entity[p], entity'[q] = [status |-> "merged", into |-> p],
         \A e \in Value : e # q => entity'[e] = entity[e]
  PROVE  MergesFormForest'
<1> SUFFICES ASSUME NEW S \in (SUBSET Value) \ {{}}
             PROVE  \E e \in S : entity'[e].status # "merged" \/ entity'[e].into \notin S
  BY DEF MergesFormForest
<1>1. CASE p \in S
  BY <1>1
<1>2. CASE p \notin S /\ q \in S
  <2>1. entity'[q].into \notin S
    BY <1>2
  <2> QED BY <1>2, <2>1
<1>3. CASE p \notin S /\ q \notin S
  <2>1. PICK e \in S : entity[e].status # "merged" \/ entity[e].into \notin S
    BY DEF MergesFormForest
  <2>2. entity'[e] = entity[e]
    BY <1>3
  <2> QED BY <2>1, <2>2
<1> QED BY <1>1, <1>2, <1>3

LEMMA MergeCommitKept ==
  ASSUME Inv, NEW s \in Reviewer, MergeCommit(s)
  PROVE  Inv' /\ OneShot
<1>1. req[s] \in RequestType
  BY DEF Inv, Shapes
<1>2. PICK k \in RequestType : k = req[s]
  BY <1>1
<1>3. k.pc = "read" /\ k.op = "merge" /\ k.on \in Value \X Value /\ MergeOK(k)
  BY <1>2 DEF Inv, RequestOK, MergeOK, Reading, MergeCommit
<1>4. PICK p \in Value : p = k.on[1]
  BY <1>3
<1>5. PICK q \in Value : q = k.on[2]
  BY <1>3
<1>6. /\ p # q /\ entity[p].status = "active"
      /\ \A r \in k.copy : r \in AliasRow /\ alias[r].owner # Nobody
      /\ \A r \in Rel, i \in {1, 2} : rel[r][i] = q => <<r, i>> \in k.ends
  BY <1>3, <1>4, <1>5 DEF MergeOK, Reading
<1>7. Busy(s) /\ UNCHANGED graph /\ UNCHANGED ing
  BY DEF MergeCommit, Busy
<1>8. CASE Error(s)
  BY <1>7, <1>8, ErrorStep
<1>9. CASE ~Error(s)
  <2>1. /\ alias' = MovedAliases(s) /\ rel' = Pairs(MovedEnds(s))
        /\ entity' = [entity EXCEPT ![q] = [status |-> "merged", into |-> p]]
        /\ SetReq(s, [k EXCEPT !.pc = "committed", !.copy = {},
                             !.ends = {<<p, "active">>, <<q, "merged">>}])
        /\ UNCHANGED <<cand, match, doc, successor, reviewed>>
    BY <1>2, <1>4, <1>5, <1>9 DEF MergeCommit
  <2>2. UNCHANGED cand /\ UNCHANGED match /\ UNCHANGED doc /\ UNCHANGED successor
        /\ UNCHANGED reviewed
    BY <2>1
  <2>3. /\ entity \in [Value -> EntityRow] /\ alias \in [AliasRow -> AliasOf]
        /\ rel \in [Rel -> Value \X Value]
    BY DEF Inv, Shapes
  <2>4. [status |-> "merged", into |-> p] \in EntityRow
    BY DEF EntityRow, Someone
  <2>5. /\ entity' \in [Value -> EntityRow]
        /\ entity'[q] = [status |-> "merged", into |-> p] /\ entity'[q].status = "merged"
        /\ \A e \in Value : e # q => entity'[e] = entity[e]
    BY <2>1, <2>3, <2>4
  <2>6. /\ alias' \in [AliasRow -> AliasOf]
        /\ \A r \in AliasRow : r \notin k.copy => alias'[r] = alias[r]
        /\ \A r \in AliasRow : r \in k.copy => alias'[r].owner = p
    <3>1. \A r \in AliasRow : alias'[r] = IF r \in k.copy THEN [alias[r] EXCEPT !.owner = p]
                                          ELSE alias[r]
      BY <1>2, <1>4, <2>1 DEF MovedAliases
    <3>2. \A r \in AliasRow : [alias[r] EXCEPT !.owner = p] \in AliasOf
                              /\ [alias[r] EXCEPT !.owner = p].owner = p
      BY <2>3 DEF AliasOf, Someone
    <3>3. DOMAIN alias' = AliasRow /\ alias' = [r \in AliasRow |-> alias'[r]]
      BY <2>1 DEF MovedAliases
    <3>4. \A r \in AliasRow : alias[r] \in AliasOf
      BY <2>3
    <3>5. \A r \in AliasRow : alias'[r] \in AliasOf
      BY <3>1, <3>2, <3>4
    <3>6. alias' \in [AliasRow -> AliasOf]
      BY <3>3, <3>5
    <3>7. ASSUME NEW r \in AliasRow, r \in k.copy PROVE alias'[r].owner = p
      <4>1. alias'[r] = [alias[r] EXCEPT !.owner = p]
        BY <3>1, <3>7
      <4>2. [alias[r] EXCEPT !.owner = p].owner = p
        BY <3>2
      <4> QED BY <4>1, <4>2
    <3>8. \A r \in AliasRow : r \notin k.copy => alias'[r] = alias[r]
      BY <3>1
    <3> QED BY <3>6, <3>7, <3>8
  <2>7. /\ rel' \in [Rel -> Value \X Value]
        /\ \A r \in Rel, i \in {1, 2} :
             rel'[r][i] = IF <<r, i>> \in k.ends THEN p ELSE rel[r][i]
    <3>1. ASSUME NEW r \in Rel
          PROVE  rel'[r] = <<IF <<r, 1>> \in k.ends THEN p ELSE rel[r][1],
                             IF <<r, 2>> \in k.ends THEN p ELSE rel[r][2]>>
      BY <1>2, <1>4, <2>1 DEF Pairs, MovedEnds
    <3>2. \A r \in Rel : rel[r][1] \in Value /\ rel[r][2] \in Value
      BY <2>3
    <3>3. ASSUME NEW r \in Rel PROVE rel'[r] \in Value \X Value
      <4>1. PICK a \in Value : a = IF <<r, 1>> \in k.ends THEN p ELSE rel[r][1]
        BY <3>2
      <4>2. PICK b \in Value : b = IF <<r, 2>> \in k.ends THEN p ELSE rel[r][2]
        BY <3>2
      <4>3. rel'[r] = <<a, b>>
        BY <3>1, <4>1, <4>2
      <4> QED BY <4>3
    <3>4. rel' = [r \in Rel |-> rel'[r]]
      BY <2>1 DEF Pairs
    <3>5. rel' \in [Rel -> Value \X Value]
      BY <3>3, <3>4
    <3> QED BY <3>1, <3>5
  <2>8. PICK ends \in SUBSET EndItem : ends = {<<p, "active">>, <<q, "merged">>}
    <3>1. <<p, "active">> \in EndItem /\ <<q, "merged">> \in EndItem
      BY DEF EndItem, Shown
    <3> QED BY <3>1
  <2>9. [k EXCEPT !.pc = "committed", !.copy = {}, !.ends = ends] \in RequestType
    BY DEF RequestType
  <2>10. PICK z \in RequestType : z = [k EXCEPT !.pc = "committed", !.copy = {}, !.ends = ends]
    BY <2>9
  <2>11. z.pc = "committed" /\ z.ends = ends /\ z.on = k.on /\ z.to = k.to /\ z.op = k.op
    BY <2>10 DEF RequestType
  <2>12. SetReq(s, z) /\ Subject(z) = Subject(req[s])
    BY <1>2, <2>1, <2>8, <2>10, <2>11 DEF Subject
  <2>13. \A n \in ends : n \in Value \X Shown
                         /\ (n[2] = "merged" => entity'[n[1]].status = "merged")
    BY <2>5, <2>8 DEF Shown
  <2>14. RequestOK(z)'
    BY <2>11, <2>13, CommittedOK
  <2>15. p # Nobody /\ p \in Subject(req[s]) /\ q \in Subject(req[s])
    BY <1>2, <1>3, <1>4, <1>5, Kinds DEF Subject
  <2>16. Grows /\ CandStays
    <3>1. \A e \in Value : entity[e].status = "merged" => entity'[e].status = "merged"
      BY <2>5
    <3>2. \A r \in AliasRow : alias[r].owner # Nobody => alias'[r].owner # Nobody
      BY <2>6, <2>15
    <3> QED BY <2>2, <3>1, <3>2 DEF Grows, CandStays
  <2>17. OnlyOwn(s)
    <3>1. ASSUME NEW e \in Value, e \notin Subject(req[s])
          PROVE  /\ entity'[e] = entity[e]
                 /\ \A r \in Rel, i \in {1, 2} : rel'[r][i] = e => rel[r][i] = e
      BY <2>5, <2>7, <2>15, <3>1
    <3> QED BY <2>2, <3>1 DEF OnlyOwn
  <2>18. OtherShapes'
    BY <2>2, <1>7, <2>5, <2>6, <2>7 DEF Inv, Shapes, OtherShapes
  <2>19. MergesFormForest'
    <3>1. MergesFormForest /\ entity'[p] = entity[p]
      BY <1>6, <2>5 DEF Inv, Kept
    <3> QED BY <1>6, <2>3, <2>5, <3>1, ForestGrows
  <2>20. MergedKeepNoRelationship'
    <3> SUFFICES ASSUME NEW r \in Rel, NEW i \in {1, 2}
                 PROVE  entity'[rel'[r][i]].status = "active"
      BY DEF MergedKeepNoRelationship
    <3>1. CASE <<r, i>> \in k.ends
      BY <1>6, <2>5, <2>7, <3>1
    <3>2. CASE <<r, i>> \notin k.ends
      <4>1. rel'[r][i] = rel[r][i] /\ rel[r][i] # q /\ rel[r][i] \in Value
        BY <1>6, <2>3, <2>7, <3>2
      <4>2. entity[rel[r][i]].status = "active"
        BY DEF Inv, Kept, MergedKeepNoRelationship
      <4> QED BY <2>5, <4>1, <4>2
    <3> QED BY <3>1, <3>2
  <2>21. TracesOK'
    <3>1. TracesOK
      BY DEF Inv, Kept
    <3>2. ASSUME NEW x \in Proposal, doc'[x] # "approved", NEW i \in {1, 2}
          PROVE  alias'[<<x, i>>] = NoAlias
      <4>1. alias[<<x, i>>] = NoAlias /\ <<x, i>> \in AliasRow
        BY <2>2, <3>1, <3>2, Kinds DEF TracesOK
      <4>2. <<x, i>> \notin k.copy
        BY <1>6, <4>1, Nones
      <4> QED BY <2>6, <4>1, <4>2
    <3> QED BY <2>2, <3>1, <3>2 DEF TracesOK
  <2>22. MatchAgreesWithCandidate' /\ MatchesOK' /\ LineageOK' /\ OneShot
    BY <2>2 DEF Inv, Kept, MatchAgreesWithCandidate, MatchesOK, LineageOK, OneShot
  <2>23. Kept'
    BY <1>7, <2>16, <2>19, <2>20, <2>21, <2>22, GraphKept DEF Kept
  <2>24. Inv'
    BY <1>7, <2>12, <2>14, <2>16, <2>17, <2>18, <2>23, StepKept
  <2> QED BY <2>22, <2>24
<1> QED BY <1>8, <1>9
-----------------------------------------------------------------------------
(* The projection after a commit.                                          *)

LEMMA ProjectReadKept ==
  ASSUME Inv, NEW s \in Reviewer, ProjectRead(s)
  PROVE  Inv' /\ OneShot
<1>1. req[s] \in RequestType
  BY DEF Inv, Shapes
<1>2. PICK k \in RequestType : k = req[s]
  BY <1>1
<1>3. /\ k.pc = "committed" /\ Busy(s) /\ UNCHANGED <<rows, graph, ing>>
      /\ \A n \in k.ends : n \in Value \X Shown /\ Committed(n)
  BY <1>2 DEF Inv, RequestOK, ProjectOK, ProjectRead, Busy
<1>4. UNCHANGED entity
  BY <1>3 DEF rows
<1>5. ASSUME NEW e \in Value PROVE Names(e) \in SUBSET Someone
  BY DEF Names, Inv, Shapes, AliasOf
<1>6. ASSUME NEW n \in k.ends
      PROVE  /\ <<n[1], n[2], Names(n[1])>> \in Value \X Shown \X SUBSET Someone
             /\ n[2] = "merged" => entity'[n[1]].status = "merged"
  <2>1. n[1] \in Value /\ n[2] \in Shown
    BY <1>3
  <2>2. Names(n[1]) \in SUBSET Someone
    BY <1>5, <2>1
  <2> QED BY <1>3, <1>4, <2>1, <2>2 DEF Committed
<1>7. \A x \in {<<n[1], n[2], Names(n[1])>> : n \in k.ends} :
        /\ x \in Value \X Shown \X SUBSET Someone
        /\ x[2] = "merged" => entity'[x[1]].status = "merged"
  BY <1>6
<1>8. PICK c : c = {<<n[1], n[2], Names(n[1])>> : n \in k.ends}
  OBVIOUS
<1>9. \A x \in c : /\ x \in Value \X Shown \X SUBSET Someone
                   /\ x[2] = "merged" => entity'[x[1]].status = "merged"
  BY <1>7, <1>8
<1>10. c \in SUBSET CopyItem
  BY <1>9 DEF CopyItem
<1>11. [k EXCEPT !.pc = "project", !.copy = c] \in RequestType
  BY <1>10 DEF RequestType
<1>12. PICK q \in RequestType : q = [k EXCEPT !.pc = "project", !.copy = c]
  BY <1>11
<1>13. q.pc = "project" /\ q.copy = c /\ q.on = k.on /\ q.to = k.to /\ q.op = k.op
  BY <1>12 DEF RequestType
<1>14. SetReq(s, q)
  BY <1>2, <1>8, <1>12 DEF ProjectRead
<1>15. Subject(q) = Subject(req[s])
  BY <1>2, <1>13 DEF Subject
<1>16. RequestOK(q)'
  BY <1>9, <1>13 DEF RequestOK, ReviewOK, ApproveOK, EditOK, MatchOK, MergeOK, ProjectOK,
                     Reading, Committed
<1> QED BY <1>3, <1>14, <1>15, <1>16, QuietStep

LEMMA ProjectWriteKept ==
  ASSUME Inv, NEW s \in Reviewer, ProjectWrite(s)
  PROVE  Inv' /\ OneShot
<1>1. /\ Busy(s) /\ UNCHANGED rows /\ UNCHANGED ing /\ SetReq(s, Idle)
      /\ \A n \in req[s].copy : n \in Value \X Shown \X SUBSET Someone /\ Committed(n)
  BY DEF Inv, RequestOK, ProjectOK, ProjectWrite, Busy
<1>2. /\ UNCHANGED entity /\ UNCHANGED alias /\ UNCHANGED rel /\ UNCHANGED cand
      /\ UNCHANGED match /\ UNCHANGED doc /\ UNCHANGED successor /\ UNCHANGED reviewed
  BY <1>1 DEF rows
<1>3. Grows /\ CandStays /\ OneShot /\ OnlyOwn(s)
  BY <1>1, RowsKept
<1>4. ASSUME NEW e \in Value
      PROVE  graph'[e] \in NodeRow /\ (graph'[e].status = "merged" => entity[e].status = "merged")
  <2>1. CASE \E n \in req[s].copy : n[1] = e
    <3>1. PICK n \in req[s].copy :
            n[1] = e /\ graph'[e] = [status |-> n[2], aliases |-> n[3]]
      BY <2>1 DEF ProjectWrite
    <3>2. n \in Value \X Shown \X SUBSET Someone /\ Committed(n)
      BY <1>1
    <3>3. n[2] \in Shown /\ n[3] \in SUBSET Someone
      BY <3>2
    <3> QED BY <3>1, <3>2, <3>3 DEF NodeRow, Shown, Committed
  <2>2. CASE ~\E n \in req[s].copy : n[1] = e
    BY <2>2 DEF ProjectWrite, Inv, Shapes, Kept, GraphMergesAreCommitted
  <2> QED BY <2>1, <2>2
<1>5. graph' \in [Value -> NodeRow]
  <2>1. graph' = [e \in Value |-> graph'[e]]
    BY DEF ProjectWrite
  <2> QED BY <1>4, <2>1
<1>6. OtherShapes'
  BY <1>2, <1>5 DEF Inv, Shapes, OtherShapes
<1>7. GraphMergesAreCommitted'
  BY <1>2, <1>4 DEF GraphMergesAreCommitted
<1>8. Kept'
  BY <1>2, <1>7 DEF Inv, Kept, MergesFormForest, MergedKeepNoRelationship,
     MatchAgreesWithCandidate, MatchesOK, TracesOK, LineageOK
<1>9. Idle \in RequestType /\ Idle.pc = "idle" /\ RequestOK(Idle)'
  BY Nones, AnsweredOK
<1>10. Inv'
  BY <1>1, <1>3, <1>6, <1>8, <1>9, StepKept
<1> QED BY <1>3, <1>10

LEMMA ProjectFailsKept ==
  ASSUME Inv, NEW s \in Reviewer, ProjectFails(s)
  PROVE  Inv' /\ OneShot
<1>1. Busy(s) /\ SetReq(s, Idle) /\ UNCHANGED <<rows, graph, ing>>
  BY DEF ProjectFails, Busy
<1>2. Idle \in RequestType /\ Idle.pc = "idle" /\ RequestOK(Idle)'
  BY Nones, AnsweredOK
<1> QED BY <1>1, <1>2, QuietStep

-----------------------------------------------------------------------------
(* The ingestion.                                                          *)

LEMMA OutsideKept ==
  ASSUME Inv, UNCHANGED req, Grows, \A t \in Reviewer : Still(req[t]),
         ing' \in IngestType, IngestOK', OtherShapes', Kept'
  PROVE  Inv'
<1>1. req \in [Reviewer -> RequestType]
  BY DEF Inv, Shapes
<1>2. Apart'
  BY DEF Inv, Apart, Busy, Subject
<1>3. ASSUME NEW t \in Reviewer PROVE RequestOK(req[t])'
  <2>1. PICK k \in RequestType : k = req[t]
    BY <1>1
  <2>2. RequestOK(k)'
    BY <2>1, StillOK DEF Inv
  <2> QED BY <2>1, <2>2 DEF RequestOK, ReviewOK, ApproveOK, EditOK, MatchOK, MergeOK,
                            ProjectOK, Reading, Committed
<1>4. Shapes'
  BY <1>1 DEF Shapes, OtherShapes
<1> QED BY <1>2, <1>3, <1>4 DEF Inv

LEMMA ResolveKept ==
  ASSUME Inv, NEW m \in Mention, NEW v \in Value, resolve_candidate(m, v)
  PROVE  Inv' /\ OneShot
<1>1. /\ cand[m].status = "none" /\ UNCHANGED rows /\ UNCHANGED graph /\ UNCHANGED req
  BY DEF resolve_candidate
<1>2. UNCHANGED entity /\ UNCHANGED cand
  BY <1>1 DEF rows
<1>3. Grows /\ CandStays /\ OneShot /\ Kept' /\ OtherShapes' /\ \A t \in Reviewer : Still(req[t])
  BY <1>1, RowsKept
<1>4. PICK o \in Outcomes(v) :
        ing' = [pc |-> "project", mention |-> m, value |-> v, outcome |-> o[1],
                target |-> o[2], snapshot |-> Snapshot(v, o)]
  BY DEF resolve_candidate
<1>5. o[1] \in {"auto_match", "no_match", "review"} /\ o[2] \in Value
  BY DEF Outcomes
<1>6. ASSUME NEW e \in Value
      PROVE  /\ Snapshot(v, o)[e] \in NodeRow
             /\ Snapshot(v, o)[e].status = "merged" => entity[e].status = "merged"
  <2>1. entity[e].status \in {"none", "active", "merged"}
    BY DEF Inv, Shapes, EntityRow
  <2>2. Names(e) \in SUBSET Someone
    BY DEF Names, Inv, Shapes, AliasOf
  <2>3. PICK a \in SUBSET Someone :
          a = IF o[1] # "review" /\ o[2] = e THEN Names(e) \cup {v} ELSE Names(e)
    BY <2>2 DEF Someone
  <2>4. PICK z \in {"none", "active", "merged"} :
          z = IF o = <<"no_match", e>> /\ entity[e].status = "none" THEN "active"
              ELSE entity[e].status
    BY <2>1
  <2>5. Snapshot(v, o)[e] = [status |-> z, aliases |-> a]
    BY <2>3, <2>4 DEF Snapshot
  <2> QED BY <2>4, <2>5 DEF NodeRow
<1>7. Snapshot(v, o) \in [Value -> NodeRow]
  <2>1. Snapshot(v, o) = [e \in Value |-> Snapshot(v, o)[e]]
    BY DEF Snapshot
  <2> QED BY <1>6, <2>1
<1>8. ing' \in IngestType
  BY <1>4, <1>5, <1>7 DEF IngestType, Someone
<1>9. IngestOK'
  BY <1>1, <1>2, <1>4, <1>5, <1>6 DEF IngestOK
<1>10. Inv'
  BY <1>1, <1>3, <1>8, <1>9, OutsideKept
<1> QED BY <1>3, <1>10

LEMMA IngestProjectKept ==
  ASSUME Inv, IngestProject
  PROVE  Inv' /\ OneShot
<1>1. /\ ing.pc = "project" /\ UNCHANGED rows /\ UNCHANGED req
      /\ ing' = [ing EXCEPT !.pc = "commit", !.snapshot = Quiet.snapshot]
      /\ graph' = [e \in Value |-> IF ing.snapshot[e].status = "none"
                                   THEN graph[e] ELSE ing.snapshot[e]]
  BY DEF IngestProject
<1>2. /\ UNCHANGED entity /\ UNCHANGED alias /\ UNCHANGED rel /\ UNCHANGED cand
      /\ UNCHANGED match /\ UNCHANGED doc /\ UNCHANGED successor /\ UNCHANGED reviewed
  BY <1>1 DEF rows
<1>3. Grows /\ CandStays /\ OneShot /\ \A t \in Reviewer : Still(req[t])
  BY <1>1, RowsKept
<1>4. ing \in IngestType /\ graph \in [Value -> NodeRow] /\ ing.snapshot \in [Value -> NodeRow]
  BY DEF Inv, Shapes, IngestType
<1>5. Quiet.snapshot \in [Value -> NodeRow] /\ \A e \in Value : Quiet.snapshot[e].status = "none"
  BY DEF Quiet, NodeRow
<1>6. /\ ing' \in IngestType /\ ing'.mention = ing.mention /\ ing'.value = ing.value
      /\ ing'.target = ing.target /\ ing'.outcome = ing.outcome
      /\ ing'.snapshot = Quiet.snapshot
  BY <1>1, <1>4, <1>5 DEF IngestType
<1>7. IngestOK'
  BY <1>1, <1>2, <1>5, <1>6 DEF Inv, IngestOK
<1>8. graph' \in [Value -> NodeRow]
  BY <1>1, <1>4
<1>9. GraphMergesAreCommitted'
  BY <1>1, <1>2 DEF Inv, Kept, IngestOK, GraphMergesAreCommitted
<1>10. OtherShapes'
  BY <1>2, <1>8 DEF Inv, Shapes, OtherShapes
<1>11. Kept'
  BY <1>2, <1>9 DEF Inv, Kept, MergesFormForest, MergedKeepNoRelationship,
     MatchAgreesWithCandidate, MatchesOK, TracesOK, LineageOK
<1>12. Inv'
  BY <1>1, <1>3, <1>6, <1>7, <1>10, <1>11, OutsideKept
<1> QED BY <1>3, <1>12
LEMMA IngestCommitKept ==
  ASSUME Inv, IngestCommit
  PROVE  Inv' /\ OneShot
<1>1. ing.pc = "commit" /\ ing \in IngestType
  BY DEF IngestCommit, Inv, Shapes
<1>2. PICK m \in Mention : m = ing.mention
  BY <1>1 DEF Inv, IngestOK
<1>3. PICK t \in Value : t = ing.target
  BY <1>1 DEF Inv, IngestOK
<1>4. PICK v \in Value : v = ing.value
  BY <1>1 DEF Inv, IngestOK
<1>5. PICK out \in {"auto_match", "no_match", "review"} : out = ing.outcome
  BY <1>1 DEF Inv, IngestOK, IngestType
<1>6. cand[m].status = "none"
  BY <1>1, <1>2 DEF Inv, IngestOK
<1>7. PICK k \in Candidate :
        k = [status |-> out, entity |-> IF out = "review" THEN Nobody ELSE t]
  <2>1. CASE out = "review"
    BY <2>1 DEF Candidate, Someone
  <2>2. CASE out # "review"
    BY <2>2 DEF Candidate, Someone
  <2> QED BY <2>1, <2>2
<1>8. /\ UNCHANGED rel /\ UNCHANGED doc /\ UNCHANGED successor /\ UNCHANGED reviewed
      /\ UNCHANGED graph /\ UNCHANGED req /\ ing' = Quiet
      /\ entity' = IF out = "no_match" /\ entity[t].status = "none"
                   THEN [entity EXCEPT ![t].status = "active"] ELSE entity
      /\ alias' = IF out = "review" \/ HasAlias(t, v) THEN alias
                  ELSE [alias EXCEPT ![m] = NewAlias(t, v)]
      /\ cand' = [cand EXCEPT ![m] = k]
      /\ out = "review" => match' = [match EXCEPT ![m] = [status |-> "review", target |-> t]]
      /\ out = "auto_match" => match' = [match EXCEPT ![m] = [status |-> "active", target |-> t]]
      /\ out = "no_match" => match' = match
  BY <1>2, <1>3, <1>4, <1>5, <1>7 DEF IngestCommit
<1>9. /\ entity \in [Value -> EntityRow] /\ alias \in [AliasRow -> AliasOf]
      /\ cand \in [Mention -> Candidate] /\ match \in [Mention -> Match]
  BY DEF Inv, Shapes
<1>10. /\ entity' \in [Value -> EntityRow]
       /\ \A e \in Value : entity[e].status # "none" => entity'[e] = entity[e]
       /\ \A e \in Value : entity'[e] = entity[e] \/ entity'[e].status = "active"
  <2>1. CASE out = "no_match" /\ entity[t].status = "none"
    <3>1. entity' = [entity EXCEPT ![t].status = "active"]
      BY <1>8, <2>1
    <3>2. entity' \in [Value -> EntityRow] /\ entity'[t].status = "active"
      BY <1>9, <3>1 DEF EntityRow
    <3>3. \A e \in Value : e # t => entity'[e] = entity[e]
      BY <1>9, <3>1
    <3> QED BY <2>1, <3>2, <3>3
  <2>2. CASE ~(out = "no_match" /\ entity[t].status = "none")
    <3>1. entity' = entity
      BY <1>8, <2>2
    <3> QED BY <1>9, <3>1
  <2> QED BY <2>1, <2>2
<1>11. /\ alias' \in [AliasRow -> AliasOf]
       /\ \A r \in AliasRow : r # m => alias'[r] = alias[r]
       /\ \A r \in AliasRow : alias[r].owner # Nobody => alias'[r].owner # Nobody
  <2>1. CASE out = "review" \/ HasAlias(t, v)
    BY <1>8, <1>9, <2>1
  <2>2. CASE ~(out = "review" \/ HasAlias(t, v))
    <3>1. PICK n \in AliasOf : n = NewAlias(t, v) /\ n.owner = t
      BY Nones
    <3>2. alias' = [alias EXCEPT ![m] = n]
      BY <1>8, <2>2, <3>1
    <3>3. m \in AliasRow /\ t # Nobody
      BY Kinds
    <3> QED BY <1>9, <3>1, <3>2, <3>3
  <2> QED BY <2>1, <2>2
<1>12. /\ cand' \in [Mention -> Candidate] /\ cand'[m] = k
       /\ \A n \in Mention : n # m => cand'[n] = cand[n]
  BY <1>8, <1>9
<1>13. MatchesOK /\ MatchAgreesWithCandidate /\ match[m].status = "none"
  <2>1. MatchesOK /\ MatchAgreesWithCandidate
    BY DEF Inv, Kept
  <2> QED BY <1>6, <2>1 DEF MatchesOK
<1>14. PICK w \in Match :
         /\ match' = [match EXCEPT ![m] = w]
         /\ w.status = "active" => out = "auto_match" /\ w.target = t
         /\ w.status \in {"none", "review", "active"}
         /\ w.status = "review" => out = "review"
  <2>1. CASE out = "review"
    <3>1. PICK w \in Match : w = [status |-> "review", target |-> t]
      BY DEF Match, Someone
    <3> QED BY <1>8, <2>1, <3>1
  <2>2. CASE out = "auto_match"
    <3>1. PICK w \in Match : w = [status |-> "active", target |-> t]
      BY DEF Match, Someone
    <3> QED BY <1>8, <2>2, <3>1
  <2>3. CASE out = "no_match"
    <3>1. PICK w \in Match : w = match[m]
      BY <1>9
    <3>2. match' = [match EXCEPT ![m] = w]
      BY <1>8, <1>9, <2>3, <3>1
    <3> QED BY <1>13, <3>1, <3>2
  <2> QED BY <2>1, <2>2, <2>3
<1>15. /\ match' \in [Mention -> Match] /\ match'[m] = w
       /\ \A n \in Mention : n # m => match'[n] = match[n]
  BY <1>9, <1>14
<1>16. Grows /\ OneShot
  BY <1>8, <1>10, <1>11 DEF Grows, OneShot
<1>17. ASSUME NEW s \in Reviewer PROVE Still(req[s])
  <2>1. \A n \in Mention : match[n].status = "review" => match'[n] = match[n]
    BY <1>13, <1>15
  <2>2. \A e \in Value : entity[e].status = "active" => entity'[e].status = "active"
    BY <1>10
  <2> QED BY <1>8, <2>1, <2>2 DEF Still
<1>18. ing' \in IngestType /\ IngestOK'
  BY <1>8, Nones DEF IngestOK
<1>19. OtherShapes'
  BY <1>8, <1>10, <1>11, <1>12, <1>15 DEF Inv, Shapes, OtherShapes
<1>20. MergesFormForest'
  <2> SUFFICES ASSUME NEW S \in (SUBSET Value) \ {{}}
               PROVE  \E e \in S : entity'[e].status # "merged" \/ entity'[e].into \notin S
    BY DEF MergesFormForest
  <2>1. PICK e \in S : entity[e].status # "merged" \/ entity[e].into \notin S
    BY DEF Inv, Kept, MergesFormForest
  <2> QED BY <1>10, <2>1
<1>21. MergedKeepNoRelationship'
  <2> SUFFICES ASSUME NEW r \in Rel, NEW i \in {1, 2}
               PROVE  entity'[rel'[r][i]].status = "active"
    BY DEF MergedKeepNoRelationship
  <2>1. entity[rel[r][i]].status = "active"
    BY DEF Inv, Kept, MergedKeepNoRelationship
  <2>2. rel[r][i] \in Value
    BY DEF Inv, Shapes
  <2> QED BY <1>8, <1>10, <2>1, <2>2
<1>22. MatchAgreesWithCandidate' /\ MatchesOK'
  <2>1. ASSUME NEW n \in Mention
        PROVE  /\ match'[n].status = "active" =>
                    cand'[n] = [status |-> "auto_match", entity |-> match'[n].target]
               /\ match'[n].status = "rejected" =>
                    cand'[n] = [status |-> "no_match", entity |-> Nobody]
               /\ match'[n].status # "none" => cand'[n].status # "none"
               /\ match'[n].status = "review" => cand'[n].entity = Nobody
    <3>1. CASE n = m
      BY <1>7, <1>12, <1>14, <1>15, <3>1
    <3>2. CASE n # m
      BY <1>12, <1>13, <1>15, <3>2 DEF MatchAgreesWithCandidate, MatchesOK
    <3> QED BY <3>1, <3>2
  <2> QED BY <2>1 DEF MatchAgreesWithCandidate, MatchesOK
<1>23. TracesOK' /\ LineageOK'
  BY <1>8, <1>11, Kinds DEF Inv, Kept, TracesOK, LineageOK
<1>24. Kept'
  BY <1>8, <1>16, <1>20, <1>21, <1>22, <1>23, GraphKept DEF Kept
<1>25. Inv'
  BY <1>8, <1>16, <1>17, <1>18, <1>19, <1>24, OutsideKept
<1> QED BY <1>16, <1>25

-----------------------------------------------------------------------------
(* The theorems.                                                           *)

LEMMA UnchangedKept == ASSUME Inv, UNCHANGED vars PROVE Inv' /\ OneShot
<1>1. UNCHANGED rows /\ UNCHANGED graph /\ UNCHANGED req /\ UNCHANGED ing
  BY DEF vars
<1>2. Grows /\ CandStays /\ OneShot /\ Kept' /\ OtherShapes' /\ \A t \in Reviewer : Still(req[t])
  BY <1>1, RowsKept
<1>3. ing' \in IngestType
  BY <1>1 DEF Inv, Shapes
<1>4. IngestOK'
  BY <1>1, <1>2, IngestKept
<1> QED BY <1>1, <1>2, <1>3, <1>4, OutsideKept

LEMMA StepsKept == ASSUME Serial, Inv, [Next]_vars PROVE Inv' /\ OneShot
<1>1. CASE UNCHANGED vars
  BY <1>1, UnchangedKept
<1>2. ASSUME NEW s \in Reviewer,
             \/ \E x \in Artifact, d \in {"approved", "rejected"} : ReviewRead(s, x, d)
             \/ \E x, y \in Extraction : EditRead(s, x, y)
             \/ \E m \in Mention, op \in {"accept", "reject"} : MatchRead(s, m, op)
             \/ \E p, q \in Value : MergeRead(s, p, q)
      PROVE  Inv' /\ OneShot
  BY <1>2, ReviewReadKept, EditReadKept, MatchReadKept, MergeReadKept
<1>3. ASSUME NEW s \in Reviewer,
             \/ ReviewCommit(s) \/ ApproveMatchCommit(s) \/ EditCommit(s)
             \/ AcceptCommit(s) \/ RejectCommit(s) \/ MergeCommit(s)
             \/ ProjectRead(s) \/ ProjectWrite(s) \/ ProjectFails(s)
      PROVE  Inv' /\ OneShot
  BY <1>3, ReviewCommitKept, ApproveMatchCommitKept, EditCommitKept, AcceptCommitKept,
     RejectCommitKept, MergeCommitKept, ProjectReadKept, ProjectWriteKept, ProjectFailsKept
<1>4. CASE \/ \E m \in Mention, v \in Value : resolve_candidate(m, v)
           \/ IngestProject \/ IngestCommit
  BY <1>4, ResolveKept, IngestProjectKept, IngestCommitKept
<1> QED BY <1>1, <1>2, <1>3, <1>4 DEF Next

LEMMA KeptIsEnough == Inv => MergesAreWhole /\ DecisionsAreWhole
<1> SUFFICES ASSUME Inv PROVE MergesAreWhole /\ DecisionsAreWhole
  OBVIOUS
<1>1. SupersededHasApprovedEdit
  BY Kinds DEF Inv, Kept, LineageOK, SupersededHasApprovedEdit
<1>2. RejectedLeavesNoTrace
  BY DEF Inv, Kept, TracesOK, RejectedLeavesNoTrace
<1> QED BY <1>1, <1>2 DEF Inv, Kept, MergesAreWhole, DecisionsAreWhole

(* Reviewers who keep off what a colleague works on leave no circle of     *)
(* merges, no relationship at a merged entity, and no node that shows a    *)
(* merge that was rolled back (merge_entities, sync_entities_by_id).       *)
THEOREM MergesLeaveAForest ==
  ASSUME Serial
  PROVE  Spec => []MergesAreWhole
<1>1. Inv /\ [Next]_vars => Inv'
  BY StepsKept
<1> QED BY <1>1, StartKept, KeptIsEnough, PTL DEF Spec

(* Their decisions take effect as a whole: a match and its mention agree,  *)
(* a superseded artifact names an approved one, and what was rejected has  *)
(* written nothing (review_evidence_artifact, accept_match, reject_match). *)
THEOREM DecisionsTakeEffect ==
  ASSUME Serial
  PROVE  Spec => []DecisionsAreWhole
<1>1. Inv /\ [Next]_vars => Inv'
  BY StepsKept
<1> QED BY <1>1, StartKept, KeptIsEnough, PTL DEF Spec

(* A decided artifact keeps its status (review_artifact).                  *)
THEOREM DecisionsStand ==
  ASSUME Serial
  PROVE  Spec => DecisionsAreOneShot
<1>1. Inv /\ [Next]_vars => Inv'
  BY StepsKept
<1>2. Inv /\ [Next]_vars =>
        [\A x \in Artifact : doc[x] \in {"approved", "rejected", "superseded"} =>
           doc'[x] = doc[x]]_vars
  BY StepsKept DEF OneShot, Decided
<1> QED BY <1>1, <1>2, StartKept, PTL DEF Spec, DecisionsAreOneShot

=============================================================================

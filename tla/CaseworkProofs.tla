---------------------------- MODULE CaseworkProofs ----------------------------
(***************************************************************************)
(* Proofs about Submissions and Casework for any number of submitters,     *)
(* clients and requests, and about the runs of CaseAnalyses for any number *)
(* of items and of disturbances.                                           *)
(***************************************************************************)
EXTENDS Casework, Submissions, CaseAnalyses, FiniteSetTheorems, SequenceTheorems, TLAPS

-----------------------------------------------------------------------------
(* Submissions.  A key is never rewritten and names what its run is for,   *)
(* so whoever joins a row by its key has asked for the same thing.         *)

Asked == {Ask[s] : s \in Submitter}
RowType ==
  [key : (Asked \cup {"any"}) \X Nat, ask : Asked, born : Nat,
   status : {"pending", "running", "cleared", "ended"}, late : BOOLEAN, task : BOOLEAN]
SubType ==
  [pc : Open \cup {"idle", "refused", "crashed", "answered"}, born : Nat, clear : Nat,
   attempt : Nat, created : BOOLEAN, job : Nat]

SubmissionTypes == sub \in [Submitter -> SubType] /\ rows \in Seq(RowType)

KeysNameAsks == Named => \A j \in DOMAIN rows : rows[j].key[1] = rows[j].ask

(* What the row a session has joined or opened is for.                     *)
JoinsItsOwn(s) ==
  /\ sub[s].pc = "commit" /\ ~sub[s].created =>
       sub[s].job \in DOMAIN rows /\ rows[sub[s].job].key = MyKey(s)
  /\ sub[s].pc = "answered" =>
       sub[s].job \in DOMAIN rows /\ (Named => rows[sub[s].job].ask = Ask[s])

SubmissionsInv ==
  /\ SubmissionTypes
  /\ KeysNameAsks
  /\ \A s \in Submitter : JoinsItsOwn(s)

(* Rows are only added; keys stay, and so does what a named run is for.    *)
RowsGrow ==
  /\ UNCHANGED feature
  /\ rows' \in Seq(RowType) /\ Len(rows) <= Len(rows')
  /\ \A j \in DOMAIN rows :
       rows'[j].key = rows[j].key /\ (Named => rows'[j].ask = rows[j].ask)
  /\ Named => \A j \in DOMAIN rows' \ DOMAIN rows : rows'[j].key[1] = rows'[j].ask

LEMMA SameLength ==
  ASSUME NEW S, NEW q \in Seq(S), NEW f, f = [j \in DOMAIN q |-> f[j]],
         \A j \in DOMAIN q : f[j] \in S
  PROVE  f \in Seq(S) /\ Len(f) = Len(q) /\ DOMAIN f = DOMAIN q
<1>1. DOMAIN q = 1..Len(q) /\ Len(q) \in Nat
  OBVIOUS
<1>2. f \in [1..Len(q) -> S]
  BY <1>1
<1> QED BY <1>1, <1>2

LEMMA SubmissionsStart == SubmissionsInit => SubmissionsInv
BY DEF SubmissionsInit, NoSubmissions, SubmissionsInv, SubmissionTypes, SubType, KeysNameAsks,
   JoinsItsOwn

LEMMA RowsSame ==
  ASSUME SubmissionsInv, UNCHANGED <<feature, rows>>
  PROVE  RowsGrow
BY DEF SubmissionsInv, SubmissionTypes, RowsGrow

LEMMA GrowthKeeps ==
  ASSUME SubmissionsInv, RowsGrow
  PROVE  /\ KeysNameAsks'
         /\ \A s \in Submitter : sub'[s] = sub[s] => JoinsItsOwn(s)'
<1>1. DOMAIN rows \subseteq DOMAIN rows' /\ (Named' <=> Named)
  BY DEF SubmissionsInv, SubmissionTypes, RowsGrow, Named
<1>2. KeysNameAsks'
  BY <1>1 DEF SubmissionsInv, KeysNameAsks, RowsGrow
<1>3. ASSUME NEW s \in Submitter, sub'[s] = sub[s]
      PROVE  JoinsItsOwn(s)'
  BY <1>1, <1>3 DEF SubmissionsInv, JoinsItsOwn, RowsGrow, MyKey, Key
<1> QED BY <1>2, <1>3

(* A session that moves, the rows growing or staying.                      *)
LEMMA SessionMoves ==
  ASSUME SubmissionsInv, RowsGrow, NEW s \in Submitter, NEW r \in SubType,
         sub' = [sub EXCEPT ![s] = r], JoinsItsOwn(s)'
  PROVE  SubmissionsInv'
<1>1. SubmissionTypes'
  BY DEF SubmissionsInv, SubmissionTypes, RowsGrow
<1>2. ASSUME NEW t \in Submitter
      PROVE  JoinsItsOwn(t)'
  BY GrowthKeeps DEF SubmissionsInv, SubmissionTypes
<1> QED BY <1>1, <1>2, GrowthKeeps DEF SubmissionsInv

LEMMA BegunNat == Begun \in Nat
<1>1. IsFiniteSet({s \in Submitter : sub[s].pc # "idle"})
  BY SubmissionConstants, FS_Subset
<1> QED BY <1>1, FS_CardinalityType DEF Begun

LEMMA GoesKeeps ==
  ASSUME SubmissionsInv, NEW s \in Submitter, NEW j \in Nat,
         NEW to \in {"count", "refused", "flush", "crashed"}, Goes(s, to, j)
  PROVE  SubmissionsInv' /\ sub'[s].pc = to
<1> DEFINE n == Begun + 1
           r == [sub[s] EXCEPT !.pc = to, !.born = n, !.clear = j]
<1>0. n \in Nat /\ sub[s] \in SubType
  BY BegunNat DEF SubmissionsInv, SubmissionTypes
<1> HIDE DEF n
<1>1. r \in SubType /\ r.pc = to
  BY <1>0 DEF SubType, Open
<1>2. sub' = [sub EXCEPT ![s] = r] /\ RowsGrow
  BY RowsSame DEF Goes, n
<1>3. sub'[s] = r
  BY <1>2 DEF SubmissionsInv, SubmissionTypes
<1>4. JoinsItsOwn(s)'
  BY <1>1, <1>3 DEF JoinsItsOwn
<1> HIDE DEF r
<1> QED BY <1>1, <1>2, <1>3, <1>4, SessionMoves

LEMMA LookKeeps ==
  ASSUME SubmissionsInv, NEW s \in Submitter, NEW found \in SUBSET Active,
         LookForActive(s, found)
  PROVE  /\ SubmissionsInv'
         /\ (\A j \in Active : rows[j].late) => sub'[s].pc \in Open
<1>1. \A j \in Newest(found) : j \in Nat /\ j \in Active
  BY DEF Newest, Active, SubmissionsInv, SubmissionTypes
<1>2. CASE Goes(s, "count", 0)
  BY <1>2, GoesKeeps DEF Open
<1>3. ASSUME NEW j \in Newest(found), ~Stale(j), Goes(s, "refused", 0)
      PROVE  SubmissionsInv' /\ ~ \A i \in Active : rows[i].late
  BY <1>1, <1>3, GoesKeeps DEF Stale
<1>4. ASSUME NEW j \in Newest(found), Goes(s, "flush", j)
      PROVE  SubmissionsInv' /\ sub'[s].pc \in Open
  BY <1>1, <1>4, GoesKeeps DEF Open
<1> QED BY <1>2, <1>3, <1>4 DEF LookForActive

(* The seven routes as they begin, and what they make of stale rows.       *)
Begins(s) ==
  \/ submit_case_feature_job(s) \/ submit_custody_audit(s) \/ submit_cross_case_job(s)
  \/ submit_report_audit(s) \/ submit_triage(s) \/ submit_multilingual(s)

LEMMA BeginsKeeps ==
  ASSUME SubmissionsInv, NEW s \in Submitter, Begins(s)
  PROVE  /\ SubmissionsInv'
         /\ feature \notin {"triage", "multilingual"} /\ (\A j \in Active : rows[j].late)
              => sub'[s].pc \in Open
<1>1. CASE submit_case_feature_job(s) \/ submit_custody_audit(s) \/ submit_cross_case_job(s)
  BY <1>1, LookKeeps DEF submit_case_feature_job, submit_custody_audit, submit_cross_case_job
<1>2. CASE submit_report_audit(s)
  BY <1>2, LookKeeps DEF submit_report_audit
<1>3. CASE submit_triage(s) \/ submit_multilingual(s)
  BY <1>3, LookKeeps, GoesKeeps DEF submit_triage, submit_multilingual, TheActiveJob
<1> QED BY <1>1, <1>2, <1>3 DEF Begins

LEMMA StatementKeeps ==
  ASSUME SubmissionsInv, NEW s \in Submitter, Flush(s) \/ Count(s) \/ create_job(s) \/ Insert(s)
  PROVE  SubmissionsInv' /\ sub[s].pc # "idle" /\ \A t \in Submitter \ {s} : sub'[t] = sub[t]
<1>type. sub[s] \in SubType /\ Len(rows) \in Nat /\ sub \in [Submitter -> SubType]
         /\ DOMAIN rows \subseteq Nat
  BY DEF SubmissionsInv, SubmissionTypes
<1>0. RowsGrow
  BY RowsSame DEF Flush, Count, create_job, Insert
<1>move. ASSUME NEW r \in SubType, sub' = [sub EXCEPT ![s] = r], JoinsItsOwn(s)',
                sub[s].pc # "idle"
         PROVE  SubmissionsInv' /\ sub[s].pc # "idle" /\ \A t \in Submitter \ {s} : sub'[t] = sub[t]
  BY <1>0, <1>move, <1>type, SessionMoves
<1>quiet. ASSUME NEW r \in SubType, sub' = [sub EXCEPT ![s] = r],
                 r.pc \notin {"commit", "answered"} \/ (r.pc = "commit" /\ r.created)
          PROVE  JoinsItsOwn(s)'
  BY <1>quiet, <1>type DEF JoinsItsOwn
<1>1. CASE Flush(s)
  <2> DEFINE r == [sub[s] EXCEPT !.pc = "count"]
  <2>1. r \in SubType /\ r.pc = "count" /\ sub' = [sub EXCEPT ![s] = r] /\ sub[s].pc = "flush"
    BY <1>1, <1>type DEF Flush, SubType, Open
  <2> HIDE DEF r
  <2> QED BY <2>1, <1>move, <1>quiet
<1>2. CASE Count(s)
  <2> DEFINE n == Len(rows) + 1
             r == [sub[s] EXCEPT !.pc = "select", !.attempt = n]
  <2>0. sub' = [sub EXCEPT ![s] = r] /\ sub[s].pc = "count"
    BY <1>2, Zenon DEF Count
  <2>2. n \in Nat
    BY <1>type
  <2> HIDE DEF n
  <2>1. r \in SubType /\ r.pc = "select"
    BY <2>2, <1>type DEF SubType, Open
  <2> HIDE DEF r
  <2> QED BY <2>0, <2>1, <1>move, <1>quiet
<1>3. CASE create_job(s)
  <2>0. sub[s].pc = "select" /\ UNCHANGED rows
    BY <1>3 DEF create_job
  <2>1. CASE sub' = [sub EXCEPT ![s].pc = "insert"]
    <3> DEFINE r == [sub[s] EXCEPT !.pc = "insert"]
    <3>1. r \in SubType /\ r.pc = "insert" /\ sub' = [sub EXCEPT ![s] = r]
      BY <2>1, <1>type DEF SubType, Open
    <3> HIDE DEF r
    <3> QED BY <2>0, <3>1, <1>move, <1>quiet
  <2>2. ASSUME NEW j \in WithKey(s), sub' = [sub EXCEPT ![s].pc = "commit", ![s].job = j]
        PROVE  SubmissionsInv' /\ \A t \in Submitter \ {s} : sub'[t] = sub[t]
    <3> DEFINE r == [sub[s] EXCEPT !.pc = "commit", !.job = j]
    <3>1. /\ r \in SubType /\ r.pc = "commit" /\ r.job = j /\ r.attempt = sub[s].attempt
          /\ sub' = [sub EXCEPT ![s] = r]
      BY <2>2, <1>type DEF SubType, Open, WithKey
    <3> HIDE DEF r
    <3>2. rows[j].key = Key(s, sub[s].attempt) /\ j \in DOMAIN rows
      BY DEF WithKey, MyKey
    <3>3. Key(s, sub[s].attempt)' = Key(s, sub[s].attempt)
      <4>1. sub'[s].attempt = sub[s].attempt
        BY <3>1, <1>type
      <4> QED BY <1>3, <4>1 DEF Key, Named, create_job
    <3>4. JoinsItsOwn(s)'
      BY <2>0, <3>1, <3>2, <3>3, <1>type DEF JoinsItsOwn, MyKey
    <3> QED BY <2>0, <3>1, <3>4, <1>move
  <2> QED BY <1>3, <2>0, <2>1, <2>2, <1>move DEF create_job
<1>4. CASE Insert(s)
  <2>0. sub[s].pc = "insert"
    BY <1>4 DEF Insert
  <2>1. CASE sub' = [sub EXCEPT ![s].pc = "commit", ![s].created = TRUE]
    <3> DEFINE r == [sub[s] EXCEPT !.pc = "commit", !.created = TRUE]
    <3>1. r \in SubType /\ r.pc = "commit" /\ r.created /\ sub' = [sub EXCEPT ![s] = r]
      BY <2>1, <1>type DEF SubType, Open
    <3> HIDE DEF r
    <3> QED BY <2>0, <3>1, <1>move, <1>quiet
  <2>2. CASE sub' = [sub EXCEPT ![s].pc = "crashed", ![s].clear = 0]
    <3> DEFINE r == [sub[s] EXCEPT !.pc = "crashed", !.clear = 0]
    <3>1. r \in SubType /\ r.pc = "crashed" /\ sub' = [sub EXCEPT ![s] = r]
      BY <2>2, <1>type DEF SubType, Open
    <3> HIDE DEF r
    <3> QED BY <2>0, <3>1, <1>move, <1>quiet
  <2> QED BY <1>4, <2>1, <2>2 DEF Insert
<1> QED BY <1>1, <1>2, <1>3, <1>4

LEMMA CommitKeeps ==
  ASSUME SubmissionsInv, NEW s \in Submitter, NEW ask, CommitAnswer(s, ask),
         ask = AsFound \/ (~Named /\ ask = [j \in DOMAIN rows |-> Ask[s]])
  PROVE  SubmissionsInv' /\ sub[s].pc # "idle" /\ \A t \in Submitter \ {s} : sub'[t] = sub[t]
<1> DEFINE me == sub[s]
           new == Row(MyKey(s), Ask[s], me.born)
           cleared == [j \in DOMAIN rows |->
             [rows[j] EXCEPT !.status = IF j = me.clear THEN "cleared" ELSE @,
                             !.ask = IF j = me.job THEN ask[j] ELSE @]]
           r == [me EXCEPT !.pc = "answered",
                           !.job = IF me.created THEN Len(rows) + 1 ELSE @]
<1>type. /\ me \in SubType /\ sub \in [Submitter -> SubType] /\ Ask[s] \in Asked
         /\ rows \in Seq(RowType) /\ me.pc = "commit" /\ UNCHANGED feature
  BY DEF SubmissionsInv, SubmissionTypes, Asked, CommitAnswer
<1>own. ~me.created => me.job \in DOMAIN rows /\ rows[me.job].key = MyKey(s)
  BY <1>type DEF SubmissionsInv, JoinsItsOwn
<1>1. new \in RowType /\ new.key = MyKey(s) /\ new.ask = Ask[s]
  BY <1>type DEF Row, RowType, MyKey, Key, SubType
<1>2. /\ cleared \in Seq(RowType) /\ Len(cleared) = Len(rows)
      /\ \A j \in DOMAIN rows : /\ cleared[j].key = rows[j].key
                                /\ Named => cleared[j].ask = rows[j].ask
  <2>1. ASSUME NEW j \in DOMAIN rows
        PROVE  ask[j] \in Asked /\ (Named => ask[j] = rows[j].ask)
    <3>0. rows[j] \in RowType
      BY <1>type
    <3>1. rows[j].ask \in Asked
      BY <3>0 DEF RowType
    <3> QED BY <1>type, <3>1 DEF AsFound
  <2>2. ASSUME NEW j \in DOMAIN rows
        PROVE  /\ cleared[j] \in RowType /\ cleared[j].key = rows[j].key
               /\ Named => cleared[j].ask = rows[j].ask
    <3> DEFINE st == IF j = me.clear THEN "cleared" ELSE rows[j].status
               a == IF j = me.job THEN ask[j] ELSE rows[j].ask
    <3>1. rows[j] \in RowType
      BY <1>type
    <3>2. st \in {"pending", "running", "cleared", "ended"} /\ a \in Asked
          /\ (Named => a = rows[j].ask)
      BY <2>1, <3>1 DEF RowType
    <3>3. cleared[j] = [rows[j] EXCEPT !.status = st, !.ask = a]
      OBVIOUS
    <3> HIDE DEF st, a, cleared
    <3> QED BY <3>1, <3>2, <3>3 DEF RowType
  <2>3. cleared \in Seq(RowType) /\ Len(cleared) = Len(rows)
    <3>1. cleared = [j \in DOMAIN rows |-> cleared[j]]
      OBVIOUS
    <3> HIDE DEF cleared
    <3> QED BY <1>type, <2>2, <3>1, SameLength
  <2> HIDE DEF cleared
  <2> QED BY <2>2, <2>3
<1>3. /\ rows' = IF me.created THEN Append(cleared, new) ELSE cleared
      /\ sub' = [sub EXCEPT ![s] = r]
  BY DEF CommitAnswer
<1> HIDE DEF new, cleared
<1>4. Named => new.key[1] = new.ask
  BY <1>1 DEF MyKey, Key
<1>5. RowsGrow
  <2>1. CASE me.created
    <3>1. rows' = Append(cleared, new) /\ Len(rows) \in Nat
      BY <1>3, <1>type, <2>1
    <3>2. /\ rows' \in Seq(RowType) /\ Len(rows') = Len(rows) + 1
          /\ DOMAIN rows' = 1..(Len(rows) + 1) /\ DOMAIN rows = 1..Len(rows)
          /\ rows'[Len(rows) + 1] = new
          /\ \A j \in DOMAIN rows : rows'[j] = cleared[j]
      BY <1>1, <1>2, <1>type, <3>1
    <3> QED BY <1>2, <1>4, <1>type, <3>2 DEF RowsGrow
  <2>2. CASE ~me.created
    <3>1. rows' = cleared /\ DOMAIN rows' = DOMAIN rows
      BY <1>2, <1>3, <1>type, <2>2
    <3> QED BY <1>2, <1>type, <3>1 DEF RowsGrow
  <2> QED BY <2>1, <2>2
<1>6. r \in SubType /\ r.pc = "answered" /\ r.job = IF me.created THEN Len(rows) + 1 ELSE me.job
  <2>1. (IF me.created THEN Len(rows) + 1 ELSE me.job) \in Nat
    BY <1>type DEF SubType
  <2> DEFINE n == IF me.created THEN Len(rows) + 1 ELSE me.job
  <2>2. r = [me EXCEPT !.pc = "answered", !.job = n]
    OBVIOUS
  <2> HIDE DEF n, r
  <2>3. r \in SubType /\ r.pc = "answered" /\ r.job = n
    BY <1>type, <2>1, <2>2 DEF SubType, n
  <2> QED BY <2>3 DEF n
<1> HIDE DEF r
<1>7. Named' <=> Named
  BY <1>type DEF Named
<1>8. r.job \in DOMAIN rows' /\ (Named => rows'[r.job].ask = Ask[s])
  <2>1. CASE me.created
    <3>1. rows'[Len(rows) + 1] = new /\ Len(rows) + 1 \in DOMAIN rows'
      BY <1>1, <1>2, <1>3, <1>type, <2>1
    <3> QED BY <1>1, <1>6, <2>1, <3>1
  <2>2. CASE ~me.created
    <3>1. r.job \in DOMAIN rows /\ rows[r.job].key = MyKey(s)
      BY <1>6, <1>own, <2>2
    <3>2. r.job \in DOMAIN rows' /\ (Named => rows'[r.job].ask = rows[r.job].ask)
      BY <1>5, <1>type, <3>1 DEF RowsGrow
    <3>3. Named => rows[r.job].ask = Ask[s]
      BY <3>1 DEF SubmissionsInv, KeysNameAsks, MyKey, Key
    <3> QED BY <3>2, <3>3
  <2> QED BY <2>1, <2>2
<1>9. JoinsItsOwn(s)'
  BY <1>3, <1>6, <1>7, <1>8, <1>type DEF JoinsItsOwn
<1>10. SubmissionsInv'
  BY <1>3, <1>5, <1>6, <1>9, SessionMoves
<1> QED BY <1>3, <1>10, <1>type

Answers(s) ==
  \/ _submit_case_job(s) \/ CommitCustody(s) \/ CommitCrossCase(s) \/ CommitReportAudit(s)
  \/ submit_triage_analysis(s) \/ submit_multilingual_analysis(s)

LEMMA AnswersKeeps ==
  ASSUME SubmissionsInv, NEW s \in Submitter, Answers(s)
  PROVE  SubmissionsInv' /\ sub[s].pc # "idle" /\ \A t \in Submitter \ {s} : sub'[t] = sub[t]
<1>1. CASE submit_multilingual_analysis(s)
  BY <1>1, CommitKeeps DEF submit_multilingual_analysis, Named
<1>2. CASE CommitAnswer(s, AsFound)
  BY <1>2, CommitKeeps
<1> QED BY <1>1, <1>2 DEF Answers, _submit_case_job, CommitCustody, CommitCrossCase,
           CommitReportAudit, submit_triage_analysis

(* Tasks, time and restarts leave keys and what runs are for alone.        *)
Meanwhile ==
  \/ \E j \in DOMAIN rows : TaskStarts(j) \/ TaskEnds(j) \/ GrowsOld(j)
  \/ Restart

LEMMA MeanwhileGrows ==
  ASSUME SubmissionsInv, UNCHANGED feature, rows' = [j \in DOMAIN rows |-> rows'[j]],
         \A j \in DOMAIN rows :
           /\ rows'[j] \in RowType
           /\ rows'[j].key = rows[j].key /\ rows'[j].ask = rows[j].ask
  PROVE  RowsGrow
<1>1. rows \in Seq(RowType)
  BY DEF SubmissionsInv, SubmissionTypes
<1>2. rows' \in Seq(RowType) /\ Len(rows') = Len(rows) /\ DOMAIN rows' = DOMAIN rows
  BY <1>1, SameLength
<1> QED BY <1>1, <1>2 DEF RowsGrow

LEMMA MeanwhileKeeps ==
  ASSUME SubmissionsInv, Meanwhile
  PROVE  SubmissionsInv' /\ \A s \in Submitter : sub[s].pc = "idle" => sub'[s] = sub[s]
<1>type. sub \in [Submitter -> SubType] /\ rows \in Seq(RowType)
  BY DEF SubmissionsInv, SubmissionTypes
<1>1. ASSUME NEW j \in DOMAIN rows, NEW st \in {"pending", "running", "cleared", "ended"},
             Becomes(j, st), UNCHANGED <<feature, sub>>
      PROVE  SubmissionsInv'
  <2>1. \A i \in DOMAIN rows : rows[i] \in RowType
    BY <1>type
  <2>2. RowsGrow
    BY <1>1, <2>1, MeanwhileGrows DEF Becomes, RowType
  <2> QED BY <1>1, <2>2, GrowthKeeps DEF SubmissionsInv, SubmissionTypes, RowsGrow
<1>2. ASSUME NEW j \in DOMAIN rows, TaskStarts(j) \/ TaskEnds(j)
      PROVE  SubmissionsInv' /\ UNCHANGED sub
  <2>1. rows[j] \in RowType
    BY <1>type
  <2> QED BY <1>1, <1>2, <2>1 DEF TaskStarts, TaskEnds, RowType
<1>3. ASSUME NEW j \in DOMAIN rows, GrowsOld(j)
      PROVE  SubmissionsInv' /\ UNCHANGED sub
  <2>1. \A i \in DOMAIN rows : rows[i] \in RowType
    BY <1>type
  <2>2. RowsGrow
    BY <1>3, <2>1, MeanwhileGrows DEF GrowsOld, RowType
  <2> QED BY <1>3, <2>2, GrowthKeeps DEF GrowsOld, SubmissionsInv, SubmissionTypes, RowsGrow
<1>4. CASE Restart
  <2>1. \A i \in DOMAIN rows : rows[i] \in RowType
    BY <1>type
  <2>2. RowsGrow
    BY <1>4, <2>1, MeanwhileGrows DEF Restart, RowType
  <2>3. ASSUME NEW s \in Submitter
        PROVE  /\ sub'[s] \in SubType /\ JoinsItsOwn(s)'
               /\ sub[s].pc = "idle" => sub'[s] = sub[s]
    <3>1. CASE sub[s].pc \in Open
      <4>1. sub'[s] = [sub[s] EXCEPT !.pc = "crashed", !.clear = 0, !.created = FALSE]
        BY <1>4, <3>1 DEF Restart
      <4> DEFINE r == [sub[s] EXCEPT !.pc = "crashed", !.clear = 0, !.created = FALSE]
      <4>2. sub[s] \in SubType
        BY <1>type
      <4>3. r \in SubType /\ r.pc = "crashed"
        BY <4>2 DEF SubType
      <4>4. sub'[s] \in SubType /\ sub'[s].pc = "crashed"
        BY <4>1, <4>3
      <4> QED BY <3>1, <4>4 DEF JoinsItsOwn, Open
    <3>2. CASE sub[s].pc \notin Open
      <4>1. sub'[s] = sub[s]
        BY <1>4, <3>2 DEF Restart
      <4> QED BY <1>type, <2>2, <4>1, GrowthKeeps
    <3> QED BY <3>1, <3>2
  <2>4. sub' \in [Submitter -> SubType]
    <3>1. sub' = [s \in Submitter |-> sub'[s]]
      BY <1>4 DEF Restart
    <3> QED BY <2>3, <3>1
  <2> QED BY <2>2, <2>3, <2>4, GrowthKeeps DEF SubmissionsInv, SubmissionTypes, RowsGrow
<1> QED BY <1>2, <1>3, <1>4 DEF Meanwhile

LEMMA SubmissionsStep ==
  ASSUME SubmissionsInv, [SubmissionsNext]_subVars
  PROVE  /\ SubmissionsInv'
         /\ [feature \notin {"triage", "multilingual"}
               => \A s \in Submitter : GetsThrough(s)]_subVars
<1>1. ASSUME NEW s \in Submitter, Begins(s)
      PROVE  SubmissionsInv' /\ (feature \notin {"triage", "multilingual"}
                                   => \A t \in Submitter : GetsThrough(t))
  <2>1. \A t \in Submitter \ {s} : sub'[t] = sub[t]
    BY <1>1 DEF Begins, submit_case_feature_job, submit_custody_audit, submit_cross_case_job,
       submit_report_audit, submit_triage, submit_multilingual, TheActiveJob, LookForActive,
       Goes, SubmissionsInv, SubmissionTypes
  <2> QED BY <1>1, <2>1, BeginsKeeps DEF GetsThrough
<1>2. ASSUME NEW s \in Submitter, sub[s].pc # "idle", \A t \in Submitter \ {s} : sub'[t] = sub[t]
      PROVE  \A t \in Submitter : GetsThrough(t)
  BY <1>2 DEF GetsThrough
<1>3. ASSUME NEW s \in Submitter,
             Flush(s) \/ Count(s) \/ create_job(s) \/ Insert(s) \/ Answers(s)
      PROVE  SubmissionsInv' /\ \A t \in Submitter : GetsThrough(t)
  BY <1>2, <1>3, StatementKeeps, AnswersKeeps
<1>4. CASE Meanwhile
  BY <1>4, MeanwhileKeeps DEF GetsThrough
<1>5. CASE UNCHANGED subVars
  <2>1. UNCHANGED <<feature, rows>> /\ UNCHANGED sub
    BY <1>5 DEF subVars
  <2>2. RowsGrow
    BY <2>1, RowsSame
  <2> QED BY <1>5, <2>1, <2>2, GrowthKeeps DEF SubmissionsInv, SubmissionTypes, RowsGrow
<1> QED BY <1>1, <1>3, <1>4, <1>5 DEF SubmissionsNext, Begins, Answers, Meanwhile

(* A submission that names a scope or a draft is answered with a run over  *)
(* it: whichever submissions and restarts come between the count of its    *)
(* attempt and its key, it joins no run over another one                   *)
(* (analysis_jobs.py:259, report_audit.py:745).                            *)
THEOREM RequestsGetTheirOwn == SubmissionsSpec => []AnswersMatchRequest
<1>1. SubmissionsInv => AnswersMatchRequest
  BY DEF SubmissionsInv, JoinsItsOwn, AnswersMatchRequest
<1>2. SubmissionsInv /\ [SubmissionsNext]_subVars => SubmissionsInv'
  BY SubmissionsStep
<1> QED BY SubmissionsStart, <1>1, <1>2, PTL DEF SubmissionsSpec

(* No number of orphaned rows refuses or fails a submission, except in the *)
(* two features that ask for the one active row (analysis_jobs.py:223).    *)
THEOREM OrphansGiveWay == SubmissionsSpec => StaleGivesWay
<1>1. SubmissionsInv /\ [SubmissionsNext]_subVars => SubmissionsInv'
  BY SubmissionsStep
<1>2. SubmissionsInv /\ [SubmissionsNext]_subVars
        => [feature \notin {"triage", "multilingual"}
              => \A s \in Submitter : GetsThrough(s)]_subVars
  BY SubmissionsStep
<1> QED BY SubmissionsStart, <1>1, <1>2, PTL DEF SubmissionsSpec, StaleGivesWay

-----------------------------------------------------------------------------
(* Casework.  Rows are added and statuses rewritten, but titles, results,  *)
(* objects and the output of a run stay: what a request has stored for the *)
(* status it is about to write cannot be taken away by another one.        *)

Computed == UNION Outputs
FoundType ==
  [title : {f.title : f \in Computed}, value : {f.value : f \in Computed},
   status : DOMAIN FINDING_TRANSITIONS, run : Nat]
RunType == [status : {"completed", "failed"}, out : Outputs]

TitlesOf(d) == {d.found[i].title : i \in DOMAIN d.found}

(* The columns of the records; the ones the properties speak of, typed.    *)
Columns(d) ==
  /\ d = [found |-> d.found, runs |-> d.runs, results |-> d.results, col |-> d.col,
          hyp |-> d.hyp, reports |-> d.reports, objects |-> d.objects,
          events |-> d.events, cand |-> d.cand]
  /\ d.found \in Seq(FoundType) /\ d.runs \in Seq(RunType) /\ d.events \in Nat

Kept(d) ==
  /\ \A r \in DOMAIN d.runs :
       d.runs[r].status = "completed"
         => r \in d.results /\ \A f \in d.runs[r].out : f.title \in TitlesOf(d)
  /\ \A r \in d.reports : r.status = "ready" => r.id \in d.objects
  /\ topic \in Alone => d.events <= 1

(* What a request in flight relies on.                                     *)
Relies(r, d) ==
  r.pc # "idle" =>
    /\ r.op = "triage" => r.arg[1] \in DOMAIN d.found /\ r.arg[2] \in DOMAIN FINDING_TRANSITIONS
    /\ r.op = "analyze" => r.arg \in Outputs
    /\ r.op = "analyze" /\ r.pc = "inserted" =>
         /\ r.seen \in Seq(Computed)
         /\ \A f \in r.arg :
              f.title \in TitlesOf(d) \/ \E k \in DOMAIN r.seen : r.seen[k] = f
    /\ r.op = "report" /\ r.pc = "put" /\ r.seen = "ready" => r.arg \in d.objects
    /\ r.op = "commit" /\ topic \in Alone => r.seen = d.events

IsRequest(r) == r = [pc |-> r.pc, op |-> r.op, arg |-> r.arg, seen |-> r.seen]

Undisturbed ==
  topic \in Alone =>
    \A c, d \in Client : req[c].pc # "idle" /\ req[d].pc # "idle" => c = d

CaseworkInv ==
  /\ Columns(db) /\ Kept(db)
  /\ req = [c \in Client |-> req[c]]
  /\ \A c \in Client : IsRequest(req[c]) /\ Relies(req[c], db)
  /\ Undisturbed

(* The rows of d after a commit that led to e.                             *)
Grows(d, e) ==
  /\ DOMAIN d.found \subseteq DOMAIN e.found
  /\ TitlesOf(d) \subseteq TitlesOf(e)
  /\ d.objects \subseteq e.objects

LEMMA CaseworkStart == CaseworkInit => CaseworkInv
BY DEF CaseworkInit, CaseworkInv, Columns, Kept, Relies, IsRequest, Undisturbed, NoRecords, Idle

LEMMA ReliesGrows ==
  ASSUME NEW r, NEW d, NEW e, Relies(r, d), Grows(d, e),
         e.events = d.events \/ topic \notin Alone \/ r.pc = "idle"
  PROVE  Relies(r, e)
BY DEF Relies, Grows

(* A request moves; the records stay or grow.                              *)
LEMMA RequestMoves ==
  ASSUME CaseworkInv, NEW c \in Client, NEW r, IsRequest(r), UNCHANGED topic,
         req' = [req EXCEPT ![c] = r], NEW e, db' = e,
         Columns(e), Kept(e), Grows(db, e), Relies(r, e),
         req[c].pc # "idle" \/ (topic \in Alone => \A d \in Client : req[d].pc = "idle"),
         e.events = db.events \/ req[c].pc # "idle"
  PROVE  CaseworkInv'
<1>1. /\ req' = [d \in Client |-> req'[d]] /\ req'[c] = r
      /\ \A d \in Client \ {c} : req'[d] = req[d]
  BY DEF CaseworkInv
<1>2. Undisturbed'
  BY <1>1 DEF CaseworkInv, Undisturbed
<1>3. ASSUME NEW d \in Client
      PROVE  IsRequest(req'[d]) /\ Relies(req'[d], e)
  <2>1. CASE d = c
    BY <1>1, <2>1
  <2>2. CASE d # c
    <3>1. e.events = db.events \/ topic \notin Alone \/ req[d].pc = "idle"
      BY <2>2 DEF CaseworkInv, Undisturbed
    <3>2. Relies(req[d], e)
      BY <3>1, ReliesGrows DEF CaseworkInv
    <3> QED BY <1>1, <2>2, <3>2 DEF CaseworkInv
  <2> QED BY <2>1, <2>2
<1>4. Columns(db)' /\ Kept(db)'
  BY DEF Columns, Kept, TitlesOf
<1>5. \A d \in Client : IsRequest(req[d])' /\ Relies(req[d], db)'
  BY <1>3 DEF IsRequest, Relies, TitlesOf
<1> QED BY <1>1, <1>2, <1>4, <1>5 DEF CaseworkInv

LEMMA GrowsSelf == \A d : Grows(d, d)
BY DEF Grows

LEMMA LoadsKeeps ==
  ASSUME CaseworkInv, NEW c \in Client, NEW of, NEW op, NEW arg, NEW seen,
         Loads(c, of, op, arg, seen),
         op = "triage" => arg[1] \in DOMAIN db.found /\ arg[2] \in DOMAIN FINDING_TRANSITIONS,
         op = "analyze" => arg \in Outputs,
         op = "commit" => seen = db.events
  PROVE  CaseworkInv'
<1> DEFINE r == [pc |-> "loaded", op |-> op, arg |-> arg, seen |-> seen]
<1>1. /\ r.pc = "loaded" /\ r.op = op /\ r.arg = arg /\ r.seen = seen
      /\ r = [pc |-> r.pc, op |-> r.op, arg |-> r.arg, seen |-> r.seen]
      /\ req' = [req EXCEPT ![c] = r] /\ UNCHANGED <<topic, db>> /\ req[c].pc = "idle"
      /\ topic \in Alone => \A d \in Client : req[d].pc = "idle"
  BY DEF Loads
<1> HIDE DEF r
<1>2. IsRequest(r) /\ Relies(r, db)
  BY <1>1 DEF IsRequest, Relies
<1> QED BY <1>1, <1>2, GrowsSelf, RequestMoves DEF CaseworkInv

(* The last step of a request: it commits e, or nothing.                   *)
LEMMA EndsKeeps ==
  ASSUME CaseworkInv, NEW c \in Client, Ends(c), req[c].pc # "idle", NEW e, db' = e,
         e = db \/ (Columns(e) /\ Kept(e) /\ Grows(db, e))
  PROVE  CaseworkInv'
<1>1. IsRequest(Idle) /\ Relies(Idle, e)
  BY DEF IsRequest, Relies, Idle
<1>2. Columns(e) /\ Kept(e) /\ Grows(db, e)
  BY GrowsSelf DEF CaseworkInv
<1> QED BY <1>1, <1>2, RequestMoves DEF Ends

(* A commit that leaves runs, findings, results, reports and events alone. *)
Elsewhere(e) ==
  /\ e.found = db.found /\ e.runs = db.runs /\ e.results = db.results
  /\ e.reports = db.reports /\ e.objects = db.objects /\ e.events = db.events
  /\ e = [found |-> e.found, runs |-> e.runs, results |-> e.results, col |-> e.col,
          hyp |-> e.hyp, reports |-> e.reports, objects |-> e.objects,
          events |-> e.events, cand |-> e.cand]

LEMMA ElsewhereKeeps ==
  ASSUME CaseworkInv, NEW c \in Client, Ends(c), req[c].pc # "idle", NEW e, db' = e,
         e = db \/ Elsewhere(e)
  PROVE  CaseworkInv'
<1>1. CASE Elsewhere(e)
  <2>1. Columns(e) /\ Kept(e) /\ Grows(db, e)
    BY <1>1 DEF CaseworkInv, Columns, Kept, Grows, TitlesOf, Elsewhere
  <2> QED BY <2>1, EndsKeeps
<1> QED BY <1>1, EndsKeeps

(* The topics whose rows the invariant does not speak of.                  *)
LEMMA OtherTopicsKeep ==
  ASSUME CaseworkInv, NEW c \in Client,
         \/ update_collection(c) \/ seal_collection(c) \/ delete_collection(c)
         \/ transition_hypothesis_status(c) \/ link_evidence_to_hypothesis(c)
         \/ delete_hypothesis(c) \/ resolve_contradiction(c) \/ ReviewCandidate(c) \/ Dies(c)
  PROVE  CaseworkInv'
<1>1. Columns(db)
  BY DEF CaseworkInv
<1>2. ASSUME NEW v
      PROVE  /\ Elsewhere([db EXCEPT !.col = v]) /\ Elsewhere([db EXCEPT !.hyp = v])
             /\ Elsewhere([db EXCEPT !.cand = v])
  BY <1>1 DEF Columns, Elsewhere
<1>3. ASSUME Ends(c), req[c].pc # "idle",
             \/ UNCHANGED db
             \/ \E v : \/ db' = [db EXCEPT !.col = v] \/ db' = [db EXCEPT !.hyp = v]
                       \/ db' = [db EXCEPT !.cand = v]
      PROVE  CaseworkInv'
  BY <1>2, <1>3, ElsewhereKeeps
<1>4. CASE update_collection(c) \/ seal_collection(c) \/ delete_collection(c)
  BY <1>3, <1>4 DEF update_collection, seal_collection, delete_collection, At
<1>5. CASE transition_hypothesis_status(c) \/ link_evidence_to_hypothesis(c) \/ delete_hypothesis(c)
  BY <1>3, <1>5
     DEF transition_hypothesis_status, link_evidence_to_hypothesis, delete_hypothesis, At
<1>6. CASE resolve_contradiction(c) \/ ReviewCandidate(c)
  BY <1>3, <1>6 DEF resolve_contradiction, ReviewCandidate, At
<1>7. CASE Dies(c)
  BY <1>3, <1>7 DEF Dies
<1> QED BY <1>4, <1>5, <1>6, <1>7

(* What an EXCEPT makes of a request and of the records.                   *)
LEMMA RequestUpdate ==
  ASSUME NEW r, IsRequest(r), NEW pc, NEW seen
  PROVE  [r EXCEPT !.pc = pc, !.seen = seen]
           = [pc |-> pc, op |-> r.op, arg |-> r.arg, seen |-> seen]
<1>1. [r EXCEPT !.pc = pc] = [pc |-> pc, op |-> r.op, arg |-> r.arg, seen |-> r.seen]
  BY DEF IsRequest
<1>2. [[pc |-> pc, op |-> r.op, arg |-> r.arg, seen |-> r.seen] EXCEPT !.seen = seen]
        = [pc |-> pc, op |-> r.op, arg |-> r.arg, seen |-> seen]
  OBVIOUS
<1>3. [r EXCEPT !.pc = pc, !.seen = seen] = [[r EXCEPT !.pc = pc] EXCEPT !.seen = seen]
  OBVIOUS
<1> QED BY <1>1, <1>2, <1>3

Records(found, runs, results, reports, objects, events) ==
  [found |-> found, runs |-> runs, results |-> results, col |-> db.col, hyp |-> db.hyp,
   reports |-> reports, objects |-> objects, events |-> events, cand |-> db.cand]

LEMMA RecordsUpdate ==
  ASSUME Columns(db),
         NEW found, NEW runs, NEW results, NEW reports, NEW objects, NEW events
  PROVE  /\ [db EXCEPT !.found = found]
              = Records(found, db.runs, db.results, db.reports, db.objects, db.events)
         /\ [db EXCEPT !.runs = runs, !.results = results, !.found = found]
              = Records(found, runs, results, db.reports, db.objects, db.events)
         /\ [db EXCEPT !.objects = objects]
              = Records(db.found, db.runs, db.results, db.reports, objects, db.events)
         /\ [db EXCEPT !.reports = reports]
              = Records(db.found, db.runs, db.results, reports, db.objects, db.events)
         /\ [db EXCEPT !.events = events]
              = Records(db.found, db.runs, db.results, db.reports, db.objects, events)
<1>. db = Records(db.found, db.runs, db.results, db.reports, db.objects, db.events)
  BY DEF Columns, Records
<1>1. [db EXCEPT !.found = found]
        = Records(found, db.runs, db.results, db.reports, db.objects, db.events)
  BY DEF Records
<1>2. [db EXCEPT !.objects = objects]
        = Records(db.found, db.runs, db.results, db.reports, objects, db.events)
  BY DEF Records
<1>3. [db EXCEPT !.reports = reports]
        = Records(db.found, db.runs, db.results, reports, db.objects, db.events)
  BY DEF Records
<1>4. [db EXCEPT !.events = events]
        = Records(db.found, db.runs, db.results, db.reports, db.objects, events)
  BY DEF Records
<1>5. [db EXCEPT !.runs = runs]
        = Records(db.found, runs, db.results, db.reports, db.objects, db.events)
  BY DEF Records
<1>6. [Records(db.found, runs, db.results, db.reports, db.objects, db.events)
         EXCEPT !.results = results]
        = Records(db.found, runs, results, db.reports, db.objects, db.events)
  BY DEF Records
<1>7. [Records(db.found, runs, results, db.reports, db.objects, db.events)
         EXCEPT !.found = found]
        = Records(found, runs, results, db.reports, db.objects, db.events)
  BY DEF Records
<1>8. [db EXCEPT !.runs = runs, !.results = results, !.found = found]
        = [[[db EXCEPT !.runs = runs] EXCEPT !.results = results] EXCEPT !.found = found]
  OBVIOUS
<1> QED BY <1>1, <1>2, <1>3, <1>4, <1>5, <1>6, <1>7, <1>8

LEMMA LoadingKeeps ==
  ASSUME CaseworkInv, NEW c \in Client,
         \/ update_finding_status(c) \/ run_analytics(c) \/ LoadCollection(c)
         \/ LoadHypothesis(c) \/ generate_report(c) \/ commit_timeline_proposal(c)
         \/ LoadCandidate(c)
  PROVE  CaseworkInv'
<1>1. ASSUME NEW of, NEW op \in {"rename", "seal", "delete", "move", "link", "drop", "report",
                                 "resolve", "decide"},
             NEW arg, NEW seen, Loads(c, of, op, arg, seen)
      PROVE  CaseworkInv'
  BY <1>1, LoadsKeeps
<1>2. CASE update_finding_status(c)
  <2>1. PICK i \in DOMAIN db.found, to \in DOMAIN FINDING_TRANSITIONS \ {"NEW"} :
          Loads(c, "findings", "triage", <<i, to>>, db.found[i].status)
    BY <1>2 DEF update_finding_status
  <2>2. <<i, to>>[1] = i /\ <<i, to>>[2] = to
    OBVIOUS
  <2> QED BY <2>1, <2>2, LoadsKeeps
<1>3. CASE run_analytics(c)
  BY <1>3, LoadsKeeps DEF run_analytics
<1>4. CASE LoadCollection(c) \/ LoadHypothesis(c)
  BY <1>1, <1>4 DEF LoadCollection, LoadHypothesis
<1>5. CASE generate_report(c) \/ LoadCandidate(c)
  BY <1>1, <1>5 DEF generate_report, LoadCandidate
<1>6. CASE commit_timeline_proposal(c)
  BY <1>6, LoadsKeeps DEF commit_timeline_proposal
<1> QED BY <1>2, <1>3, <1>4, <1>5, <1>6

(* A review rewrites the status of a finding, not its title.               *)
LEMMA TriageKeeps ==
  ASSUME CaseworkInv, NEW c \in Client, apply_status_change(c)
  PROVE  CaseworkInv'
<1> DEFINE i == req[c].arg[1]
           to == req[c].arg[2]
           found == [db.found EXCEPT ![i] = [db.found[i] EXCEPT !.status = to]]
           e == [db EXCEPT !.found = found]
<1>1. /\ Columns(db) /\ Kept(db) /\ req[c].pc # "idle" /\ Ends(c)
      /\ i \in DOMAIN db.found /\ to \in DOMAIN FINDING_TRANSITIONS
      /\ db' = e \/ db' = db
  BY DEF apply_status_change, At, CaseworkInv, Relies
<1>2. db.found \in Seq(FoundType) /\ db.found[i] \in FoundType
  BY <1>1 DEF Columns
<1> HIDE DEF i, to
<1>3. [db.found[i] EXCEPT !.status = to] \in FoundType
  BY <1>1, <1>2 DEF FoundType
<1>4. /\ found \in Seq(FoundType) /\ DOMAIN found = DOMAIN db.found
      /\ \A k \in DOMAIN found : found[k].title = db.found[k].title
  BY <1>1, <1>2, <1>3 DEF FoundType
<1> HIDE DEF found
<1>5. /\ e.found = found /\ e.runs = db.runs /\ e.results = db.results
      /\ e.reports = db.reports /\ e.objects = db.objects /\ e.events = db.events
      /\ Columns(e)
  <2>1. e = Records(found, db.runs, db.results, db.reports, db.objects, db.events)
    BY <1>1, RecordsUpdate
  <2> HIDE DEF e
  <2> QED BY <1>1, <1>4, <2>1 DEF Columns, Records
<1> HIDE DEF e
<1>6. TitlesOf(e) = TitlesOf(db)
  BY <1>4, <1>5 DEF TitlesOf
<1>7. Kept(e) /\ Grows(db, e)
  BY <1>1, <1>4, <1>5, <1>6 DEF Kept, Grows
<1> QED BY <1>1, <1>5, <1>7, EndsKeeps

LEMMA OutputOrders ==
  ASSUME NEW out \in Outputs, NEW S \in SUBSET out, NEW new \in Orders(S)
  PROVE  new \in Seq(Computed) /\ \A f \in S : \E k \in DOMAIN new : new[k] = f
<1>1. Cardinality(S) \in Nat /\ S \subseteq Computed
  BY CaseworkConstants, FS_Subset, FS_CardinalityType DEF Computed
<1> QED BY <1>1 DEF Orders

LEMMA SavingKeeps ==
  ASSUME CaseworkInv, NEW c \in Client, SaveResults(c) \/ save_findings(c)
  PROVE  CaseworkInv'
<1>req. IsRequest(req[c]) /\ Relies(req[c], db) /\ Columns(db) /\ Kept(db)
  BY DEF CaseworkInv
<1>1. CASE SaveResults(c)
  <2> DEFINE r == [req[c] EXCEPT !.pc = "saved"]
  <2>1. /\ req' = [req EXCEPT ![c] = r] /\ UNCHANGED <<topic, db>> /\ req[c].pc = "loaded"
        /\ req[c].op = "analyze"
    BY <1>1 DEF SaveResults, Advances, At
  <2>2. r = [pc |-> "saved", op |-> "analyze", arg |-> req[c].arg, seen |-> req[c].seen]
    BY <1>req, <2>1 DEF IsRequest
  <2> HIDE DEF r
  <2>3. IsRequest(r) /\ Relies(r, db)
    BY <1>req, <2>1, <2>2 DEF IsRequest, Relies
  <2> QED BY <1>req, <2>1, <2>3, GrowsSelf, RequestMoves
<1>2. CASE save_findings(c)
  <2> DEFINE S == {f \in req[c].arg : f.title \notin Titles}
  <2>1. PICK new \in Orders(S) : req' = [req EXCEPT ![c].pc = "inserted", ![c].seen = new]
    BY <1>2 DEF save_findings
  <2> DEFINE r == [req[c] EXCEPT !.pc = "inserted", !.seen = new]
  <2>2. /\ req' = [req EXCEPT ![c] = r] /\ UNCHANGED <<topic, db>> /\ req[c].pc = "saved"
        /\ req[c].op = "analyze" /\ req[c].arg \in Outputs
    BY <1>2, <1>req, <2>1 DEF save_findings, At, Relies
  <2>3. r = [pc |-> "inserted", op |-> "analyze", arg |-> req[c].arg, seen |-> new]
    <3>1. r = [pc |-> "inserted", op |-> req[c].op, arg |-> req[c].arg, seen |-> new]
      BY <1>req, RequestUpdate
    <3> QED BY <2>2, <3>1
  <2>7. S \in SUBSET req[c].arg
    OBVIOUS
  <2>4. new \in Seq(Computed) /\ \A f \in S : \E k \in DOMAIN new : new[k] = f
    <3> HIDE DEF S
    <3> QED BY <2>2, <2>7, OutputOrders
  <2>5. \A f \in req[c].arg : f \in S \/ f.title \in TitlesOf(db)
    BY DEF Titles, TitlesOf
  <2> HIDE DEF r, S
  <2>6. IsRequest(r) /\ Relies(r, db)
    BY <2>2, <2>3, <2>4, <2>5 DEF IsRequest, Relies
  <2> QED BY <1>req, <2>2, <2>6, GrowsSelf, RequestMoves
<1> QED BY <1>1, <1>2

(* A run commits with the findings it inserted; when it is completed, its  *)
(* results are among the stored ones and its titles among the titles.      *)
LEMMA RunKeeps ==
  ASSUME CaseworkInv, NEW c \in Client, NEW st \in {"completed", "failed"}, NEW saved \in BOOLEAN,
         NEW new \in Seq(Computed), CommitRun(c, st, saved, new), Ends(c),
         req[c].pc # "idle", req[c].arg \in Outputs,
         st = "completed" =>
           /\ saved
           /\ \A f \in req[c].arg :
                f.title \in TitlesOf(db) \/ \E k \in DOMAIN new : new[k] = f
  PROVE  CaseworkInv'
<1> DEFINE opened == [status |-> st, out |-> req[c].arg]
           newFound == [k \in DOMAIN new |-> [title |-> new[k].title, value |-> new[k].value,
                                              status |-> "NEW", run |-> NextRun]]
           runs == Append(db.runs, opened)
           results == IF saved THEN db.results \cup {NextRun} ELSE db.results
           found == db.found \o newFound
           e == [db EXCEPT !.runs = runs, !.results = results, !.found = found]
<1>0. db' = e /\ Columns(db) /\ Kept(db)
  BY DEF CommitRun, CaseworkInv
<1>1. /\ db.runs \in Seq(RunType) /\ Len(db.runs) \in Nat /\ NextRun = Len(db.runs) + 1
      /\ db.found \in Seq(FoundType) /\ Len(db.found) \in Nat /\ Len(new) \in Nat
      /\ DOMAIN new = 1..Len(new)
  BY <1>0 DEF Columns, NextRun
<1>2. opened \in RunType /\ NextRun \in Nat
  BY <1>1 DEF RunType
<1>3. /\ runs \in Seq(RunType) /\ DOMAIN runs = DOMAIN db.runs \cup {NextRun}
      /\ runs[NextRun] = opened /\ \A r \in DOMAIN db.runs : runs[r] = db.runs[r]
  BY <1>1, <1>2
<1>4. newFound \in Seq(FoundType) /\ Len(newFound) = Len(new) /\ DOMAIN newFound = DOMAIN new
      /\ \A k \in DOMAIN new : newFound[k].title = new[k].title
  <2>1. ASSUME NEW k \in DOMAIN new
        PROVE  newFound[k] \in FoundType /\ newFound[k].title = new[k].title
    <3>1. new[k] \in Computed
      BY <1>1
    <3> QED BY <1>2, <3>1 DEF FoundType, FINDING_TRANSITIONS
  <2>2. newFound = [k \in DOMAIN new |-> newFound[k]]
    OBVIOUS
  <2> HIDE DEF newFound
  <2> QED BY <2>1, <2>2, SameLength
<1> HIDE DEF opened, newFound, runs
<1>5. /\ found \in Seq(FoundType) /\ DOMAIN found = 1..(Len(db.found) + Len(new))
      /\ \A k \in DOMAIN db.found : k \in DOMAIN found /\ found[k] = db.found[k]
      /\ \A k \in DOMAIN new : Len(db.found) + k \in DOMAIN found
                               /\ found[Len(db.found) + k] = newFound[k]
  <2> DEFINE n == Len(db.found)
             m == Len(newFound)
  <2>1. n \in Nat /\ m \in Nat /\ m = Len(new) /\ DOMAIN db.found = 1..n /\ DOMAIN new = 1..m
    BY <1>1, <1>4
  <2>2. found \in Seq(FoundType) /\ Len(found) = n + m
    <3>1. db.found \in Seq(FoundType) /\ newFound \in Seq(FoundType)
      BY <1>1, <1>4
    <3> QED BY <3>1
  <2>3. \A k \in 1..(n + m) : found[k] = IF k <= n THEN db.found[k] ELSE newFound[k - n]
    BY <1>1, <1>4
  <2> HIDE DEF n, m, found
  <2>4. DOMAIN found = 1..(n + m)
    BY <2>1, <2>2
  <2>5. \A k \in 1..n : k \in 1..(n + m) /\ k <= n
    BY <2>1
  <2>6. \A k \in 1..m : n + k \in 1..(n + m) /\ ~(n + k <= n) /\ (n + k) - n = k
    BY <2>1
  <2> QED BY <2>1, <2>2, <2>3, <2>4, <2>5, <2>6 DEF n
<1> HIDE DEF results, found
<1>6. /\ e.found = found /\ e.runs = runs /\ e.results = results /\ Columns(e)
      /\ e.reports = db.reports /\ e.objects = db.objects /\ e.events = db.events
  <2>1. e = Records(found, runs, results, db.reports, db.objects, db.events)
    BY <1>0, RecordsUpdate
  <2> HIDE DEF e
  <2> QED BY <1>0, <1>3, <1>5, <2>1 DEF Columns, Records
<1> HIDE DEF e
<1>7. Grows(db, e) /\ \A k \in DOMAIN new : new[k].title \in TitlesOf(e)
  <2>1. DOMAIN db.found \subseteq DOMAIN e.found /\ TitlesOf(db) \subseteq TitlesOf(e)
    BY <1>5, <1>6 DEF TitlesOf
  <2>2. \A k \in DOMAIN new : new[k].title \in TitlesOf(e)
    BY <1>4, <1>5, <1>6 DEF TitlesOf
  <2> QED BY <1>6, <2>1, <2>2 DEF Grows
<1>8. ASSUME NEW r \in DOMAIN runs, runs[r].status = "completed"
      PROVE  r \in results /\ \A f \in runs[r].out : f.title \in TitlesOf(e)
  <2>1. CASE r = NextRun
    <3>1. st = "completed" /\ runs[r].out = req[c].arg
      BY <1>3, <1>8, <2>1 DEF opened
    <3> QED BY <1>7, <2>1, <3>1 DEF results, Grows
  <2>2. CASE r # NextRun
    <3>1. r \in DOMAIN db.runs /\ runs[r] = db.runs[r]
      BY <1>3, <2>2
    <3> QED BY <1>0, <1>7, <1>8, <3>1 DEF Kept, Grows, results
  <2> QED BY <2>1, <2>2
<1>9. Kept(e)
  BY <1>0, <1>6, <1>8 DEF Kept
<1> QED BY <1>0, <1>6, <1>7, <1>9, EndsKeeps

LEMMA RunsKeep ==
  ASSUME CaseworkInv, NEW c \in Client, update_run(c) \/ RunFails(c)
  PROVE  CaseworkInv'
<1>req. Relies(req[c], db)
  BY DEF CaseworkInv
<1>1. CASE update_run(c)
  <2>1. /\ CommitRun(c, "completed", TRUE, req[c].seen) /\ Ends(c)
        /\ req[c].op = "analyze" /\ req[c].pc = "inserted"
    BY <1>1 DEF update_run, At
  <2>2. /\ req[c].arg \in Outputs /\ req[c].seen \in Seq(Computed)
        /\ \A f \in req[c].arg :
             f.title \in TitlesOf(db) \/ \E k \in DOMAIN req[c].seen : req[c].seen[k] = f
    BY <1>req, <2>1 DEF Relies
  <2> QED BY <2>1, <2>2, RunKeeps
<1>2. CASE RunFails(c)
  <2>1. /\ CommitRun(c, "failed", req[c].pc # "loaded", <<>>) /\ Ends(c)
        /\ req[c].op = "analyze" /\ req[c].pc \in {"loaded", "saved"}
    BY <1>2 DEF RunFails
  <2>2. req[c].arg \in Outputs
    BY <1>req, <2>1 DEF Relies
  <2>3. <<>> \in Seq(Computed) /\ (req[c].pc # "loaded") \in BOOLEAN
    OBVIOUS
  <2> QED BY <2>1, <2>2, <2>3, RunKeeps
<1> QED BY <1>1, <1>2

(* The object is in the store before the row says so.                      *)
LEMMA PuttingKeeps ==
  ASSUME CaseworkInv, NEW c \in Client, BuildAndPut(c)
  PROVE  CaseworkInv'
<1>1. IsRequest(req[c]) /\ Columns(db) /\ Kept(db)
  BY DEF CaseworkInv
<1>2. /\ req[c].op = "report" /\ req[c].pc = "loaded" /\ UNCHANGED topic
  BY DEF BuildAndPut, At
<1>3. PICK st \in {"ready", "failed"} :
        /\ req' = [req EXCEPT ![c].pc = "put", ![c].seen = st]
        /\ db' = IF st = "failed" THEN db ELSE [db EXCEPT !.objects = @ \cup {req[c].arg}]
  BY DEF BuildAndPut
<1> DEFINE r == [req[c] EXCEPT !.pc = "put", !.seen = st]
           objects == IF st = "failed" THEN db.objects ELSE db.objects \cup {req[c].arg}
           e == Records(db.found, db.runs, db.results, db.reports, objects, db.events)
<1>4. req' = [req EXCEPT ![c] = r]
  BY <1>3
<1>5. r = [pc |-> "put", op |-> req[c].op, arg |-> req[c].arg, seen |-> st]
  BY <1>1, RequestUpdate
<1> HIDE DEF r
<1>6. db' = e
  <2>1. CASE st = "failed"
    <3>1. db = Records(db.found, db.runs, db.results, db.reports, db.objects, db.events)
      BY <1>1 DEF Columns, Records
    <3> QED BY <1>3, <2>1, <3>1
  <2>2. CASE st # "failed"
    <3>1. db' = [db EXCEPT !.objects = objects]
      BY <1>3, <2>2
    <3> HIDE DEF objects
    <3> QED BY <1>1, <3>1, RecordsUpdate
  <2> QED BY <2>1, <2>2
<1>7. /\ e.found = db.found /\ e.runs = db.runs /\ e.results = db.results /\ Columns(e)
      /\ e.reports = db.reports /\ e.objects = objects /\ e.events = db.events
  BY <1>1 DEF Columns, Records
<1> HIDE DEF e
<1>8. Kept(e) /\ Grows(db, e)
  BY <1>1, <1>7 DEF Kept, Grows, TitlesOf
<1>9. IsRequest(r) /\ Relies(r, e)
  BY <1>2, <1>5, <1>7 DEF IsRequest, Relies
<1> QED BY <1>2, <1>4, <1>6, <1>7, <1>8, <1>9, RequestMoves

LEMMA ReportKeeps ==
  ASSUME CaseworkInv, NEW c \in Client, CommitReport(c)
  PROVE  CaseworkInv'
<1> DEFINE reports == db.reports \cup {[id |-> req[c].arg, status |-> req[c].seen]}
           e == Records(db.found, db.runs, db.results, reports, db.objects, db.events)
<1>1. /\ Columns(db) /\ Kept(db) /\ Relies(req[c], db)
      /\ req[c].op = "report" /\ req[c].pc = "put" /\ Ends(c)
      /\ db' = [db EXCEPT !.reports = reports]
  BY DEF CaseworkInv, CommitReport, At
<1>2. \A r \in reports : r.status = "ready" => r.id \in db.objects
  BY <1>1 DEF Kept, Relies
<1> HIDE DEF reports
<1>3. db' = e
  BY <1>1, RecordsUpdate
<1>4. /\ e.found = db.found /\ e.runs = db.runs /\ e.results = db.results /\ Columns(e)
      /\ e.reports = reports /\ e.objects = db.objects /\ e.events = db.events
  BY <1>1 DEF Columns, Records
<1> HIDE DEF e
<1>5. Kept(e) /\ Grows(db, e)
  BY <1>1, <1>2, <1>4 DEF Kept, Grows, TitlesOf
<1> QED BY <1>1, <1>3, <1>4, <1>5, EndsKeeps

(* A commit of a proposal that is alone still sees the events as it read   *)
(* them.                                                                   *)
LEMMA EventKeeps ==
  ASSUME CaseworkInv, NEW c \in Client, RecordEvent(c)
  PROVE  CaseworkInv'
<1> DEFINE n == db.events + 1
           e == Records(db.found, db.runs, db.results, db.reports, db.objects, n)
<1>1. /\ Columns(db) /\ Kept(db) /\ Relies(req[c], db)
      /\ req[c].op = "commit" /\ req[c].pc = "loaded" /\ Ends(c)
      /\ db' = IF req[c].seen > 0 THEN db ELSE [db EXCEPT !.events = n]
  BY DEF CaseworkInv, RecordEvent, At
<1>2. CASE db' = db
  BY <1>1, <1>2, EndsKeeps
<1>3. CASE ~(req[c].seen > 0) /\ db' = [db EXCEPT !.events = n]
  <2>1. db.events \in Nat /\ n \in Nat
    BY <1>1 DEF Columns
  <2>2. topic \in Alone => n <= 1
    BY <1>1, <1>3, <2>1 DEF Relies
  <2> HIDE DEF n
  <2>3. db' = e
    BY <1>1, <1>3, RecordsUpdate
  <2>4. /\ e.found = db.found /\ e.runs = db.runs /\ e.results = db.results /\ Columns(e)
        /\ e.reports = db.reports /\ e.objects = db.objects /\ e.events = n
    BY <1>1, <2>1 DEF Columns, Records
  <2> HIDE DEF e
  <2>5. Kept(e) /\ Grows(db, e)
    BY <1>1, <2>2, <2>4 DEF Kept, Grows, TitlesOf
  <2> QED BY <1>1, <2>3, <2>4, <2>5, EndsKeeps
<1> QED BY <1>1, <1>2, <1>3

LEMMA CaseworkStep ==
  ASSUME CaseworkInv, [CaseworkNext]_caseworkVars
  PROVE  CaseworkInv'
<1>1. CASE UNCHANGED caseworkVars
  BY <1>1 DEF caseworkVars, CaseworkInv, Undisturbed, Columns, Kept, Relies, IsRequest, TitlesOf
<1>2. ASSUME NEW c \in Client,
             \/ update_finding_status(c) \/ apply_status_change(c)
             \/ run_analytics(c) \/ SaveResults(c) \/ save_findings(c) \/ update_run(c)
             \/ RunFails(c)
             \/ LoadCollection(c) \/ update_collection(c) \/ seal_collection(c)
             \/ delete_collection(c)
             \/ LoadHypothesis(c) \/ transition_hypothesis_status(c)
             \/ link_evidence_to_hypothesis(c) \/ delete_hypothesis(c)
             \/ generate_report(c) \/ BuildAndPut(c) \/ CommitReport(c)
             \/ commit_timeline_proposal(c) \/ RecordEvent(c)
             \/ LoadCandidate(c) \/ resolve_contradiction(c) \/ ReviewCandidate(c)
             \/ Dies(c)
      PROVE  CaseworkInv'
  BY <1>2, LoadingKeeps, TriageKeeps, SavingKeeps, RunsKeep, OtherTopicsKeep, PuttingKeeps,
     ReportKeeps, EventKeeps
<1> QED BY <1>1, <1>2 DEF CaseworkNext

(* A completed run has its results stored and all it found among the       *)
(* findings, and a ready report has its object, whatever other runs,       *)
(* reviews and failures come between the store and the commit              *)
(* (findings.py:707, reporting.py:556).                                    *)
THEOREM StatusesAreEarned == CaseworkSpec => []StatusIsEarned
<1>1. CaseworkInv => StatusIsEarned
  BY DEF CaseworkInv, Kept, StatusIsEarned, CompletedRunIsWhole, ReadyIsReadable, Titles, TitlesOf
<1>2. CaseworkInv /\ [CaseworkNext]_caseworkVars => CaseworkInv'
  BY CaseworkStep
<1> QED BY CaseworkStart, <1>1, <1>2, PTL DEF CaseworkSpec

(* A proposal whose commits do not overlap makes at most one event, however *)
(* often a commit dies or is asked again (timeline_reconstruction.py:972). *)
THEOREM CommitsOnce == CaseworkSpec => []CommittedOnce
<1>1. CaseworkInv => CommittedOnce
  BY DEF CaseworkInv, Kept, CommittedOnce
<1>2. CaseworkInv /\ [CaseworkNext]_caseworkVars => CaseworkInv'
  BY CaseworkStep
<1> QED BY CaseworkStart, <1>1, <1>2, PTL DEF CaseworkSpec

-----------------------------------------------------------------------------
(* The programs of CaseAnalyses: what their loops look like, for any number *)
(* of items, and the order that the entries of each keep.                   *)

Ops == { "read", "access", "cancel", "evidence", "start", "poll", "glance", "peek",
         "record", "beside", "reuse", "ask", "translate", "explain", "commit" }
Entry == [op : Ops, item : Item]

LEMMA FunctionsAreSequences ==
  ASSUME NEW S, NEW n \in Nat, NEW s \in [1..n -> S]
  PROVE  s \in Seq(S) /\ Len(s) = n
<1>1. s \in Seq(S)
  BY SeqDef
<1>2. QED
  BY <1>1, LenProperties

LEMMA OnceEntries ==
  ASSUME NEW ops \in Seq(Ops)
  PROVE  /\ Once(ops) \in Seq(Entry) /\ Len(Once(ops)) = Len(ops)
         /\ \A j \in 1..Len(ops) : Once(ops)[j] = Step(ops[j], 1)
<1>1. Len(ops) \in Nat /\ \A j \in 1..Len(ops) : ops[j] \in Ops
  BY LenProperties, ElementOfSeq
<1>2. 1 \in Item
  BY AnalysisConstants DEF Item
<1>3. Once(ops) \in [1..Len(ops) -> Entry]
  BY <1>1, <1>2 DEF Once, Step, Entry
<1>4. QED
  BY <1>1, <1>3, FunctionsAreSequences DEF Once

LEMMA LoopEntries ==
  ASSUME NEW body \in Seq(Ops), Len(body) \in {2, 3, 4, 7}
  PROVE  /\ Loop(body) \in Seq(Entry) /\ Len(Loop(body)) = NumItems * Len(body)
         /\ \A i \in Item : \A k \in 1..Len(body) :
              /\ (i - 1) * Len(body) + k \in 1..Len(Loop(body))
              /\ Loop(body)[(i - 1) * Len(body) + k] = Step(body[k], i)
<1>1. \A j \in 1..Len(body) : body[j] \in Ops
  BY ElementOfSeq
<1> DEFINE n == NumItems * Len(body)
<1>2. n \in Nat
  BY AnalysisConstants
<1>3. ASSUME NEW j \in 1..n
      PROVE  /\ ((j - 1) % Len(body)) + 1 \in 1..Len(body)
             /\ ((j - 1) \div Len(body)) + 1 \in Item
  BY <1>3, AnalysisConstants DEF Item
<1>4. Loop(body) \in [1..n -> Entry]
  BY <1>1, <1>3 DEF Loop, Step, Entry
<1>5. Loop(body) \in Seq(Entry) /\ Len(Loop(body)) = n
  BY <1>2, <1>4, FunctionsAreSequences
<1>6. ASSUME NEW i \in Item, NEW k \in 1..Len(body)
      PROVE  LET j == (i - 1) * Len(body) + k IN
             j \in 1..n /\ (j - 1) % Len(body) = k - 1 /\ (j - 1) \div Len(body) = i - 1
  BY <1>6, AnalysisConstants DEF Item
<1>7. ASSUME NEW i \in Item, NEW k \in 1..Len(body)
      PROVE  Loop(body)[(i - 1) * Len(body) + k] = Step(body[k], i)
  <2>1. PICK j \in 1..n : /\ j = (i - 1) * Len(body) + k
                          /\ (j - 1) % Len(body) = k - 1 /\ (j - 1) \div Len(body) = i - 1
    BY <1>6
  <2>2. (k - 1) + 1 = k /\ (i - 1) + 1 = i
    BY AnalysisConstants DEF Item
  <2>3. Loop(body)[j] = Step(body[((j - 1) % Len(body)) + 1], ((j - 1) \div Len(body)) + 1)
    BY DEF Loop
  <2>4. QED
    BY <2>1, <2>2, <2>3
<1>8. QED
  BY <1>5, <1>6, <1>7

LEMMA CopyPosition ==
  ASSUME NEW L \in {2, 3, 4, 7}, NEW i \in Item
  PROVE  \E d \in Nat : d = (i - 1) * L /\ d + L <= NumItems * L
<1>1. (i - 1) * L \in Nat /\ (i - 1) * L + L <= NumItems * L
  BY AnalysisConstants DEF Item
<1>2. QED
  BY <1>1

LEMMA LoopPosition ==
  ASSUME NEW L \in {2, 3, 4, 7}, NEW m \in 1..(NumItems * L)
  PROVE  \E i \in Item : \E k \in 1..L : m = (i - 1) * L + k
<1> DEFINE i == ((m - 1) \div L) + 1
           k == ((m - 1) % L) + 1
<1>1. i \in Item
  BY AnalysisConstants DEF Item
<1>2. k \in 1..L
  BY AnalysisConstants
<1>3. m = (i - 1) * L + k
  BY AnalysisConstants
<1>4. QED
  BY <1>1, <1>2, <1>3

(* q goes on, after p, with the entries of ops, or with a loop of body.    *)
GoesOn(p, s, ops, n, q) ==
  /\ q \in Seq(Entry) /\ Len(q) = s + n
  /\ \A j \in 1..s : q[j] = p[j]
  /\ \A k \in 1..n : q[s + k] = Step(ops[k], 1)

(* Past p, every entry of q stands in a whole copy of body for one item.   *)
CopyAt(q, b, body, n, i) == \A j \in (b + 1)..(b + n) : q[j] = Step(body[j - b], i)
LoopsOn(p, s, body, n, q) ==
  /\ q \in Seq(Entry) /\ Len(q) = s + NumItems * n
  /\ \A j \in 1..s : q[j] = p[j]
  /\ \A i \in Item : \E b \in s..(Len(q) - n) : CopyAt(q, b, body, n, i)
  /\ \A j \in (s + 1)..Len(q) : \E b \in s..(Len(q) - n) :
       j \in (b + 1)..(b + n) /\ \E i \in Item : CopyAt(q, b, body, n, i)

(* What a loop appended lies in a copy of its body.                        *)
LEMMA InsideALoop ==
  ASSUME NEW p, NEW s \in Nat, NEW body, NEW n \in Nat, NEW q,
         LoopsOn(p, s, body, n, q), NEW j \in (s + 1)..Len(q)
  PROVE  \E b \in s..(Len(q) - n), i \in Item :
           j \in (b + 1)..(b + n) /\ CopyAt(q, b, body, n, i)
<1>1. PICK b \in s..(Len(q) - n) :
        j \in (b + 1)..(b + n) /\ \E i \in Item : CopyAt(q, b, body, n, i)
  BY DEF LoopsOn
<1>2. QED
  BY <1>1

(* Appending a loop leaves what stood before and adds a copy for each item.  *)
LEMMA LoopAfter ==
  ASSUME NEW p \in Seq(Entry), NEW body \in Seq(Ops), Len(body) \in {2, 3, 4, 7},
         NEW q, q = p \o Loop(body)
  PROVE  LoopsOn(p, Len(p), body, Len(body), q)
<1> DEFINE loop == Loop(body)
<1>1. /\ loop \in Seq(Entry) /\ Len(loop) = NumItems * Len(body)
      /\ \A i \in Item : \A k \in 1..Len(body) :
           /\ (i - 1) * Len(body) + k \in 1..Len(loop)
           /\ loop[(i - 1) * Len(body) + k] = Step(body[k], i)
  BY LoopEntries
<1> HIDE DEF loop
<1>2. /\ q \in Seq(Entry) /\ Len(q) = Len(p) + Len(loop)
      /\ \A j \in 1..(Len(p) + Len(loop)) :
           q[j] = IF j <= Len(p) THEN p[j] ELSE loop[j - Len(p)]
  <2>1. q = p \o loop
    BY DEF loop
  <2>2. /\ p \o loop \in Seq(Entry) /\ Len(p \o loop) = Len(p) + Len(loop)
        /\ \A j \in 1..(Len(p) + Len(loop)) :
             (p \o loop)[j] = IF j <= Len(p) THEN p[j] ELSE loop[j - Len(p)]
    BY <1>1, ConcatProperties
  <2>3. QED
    BY <2>1, <2>2
<1>3. Len(p) \in Nat /\ Len(loop) \in Nat
  BY <1>1, LenProperties
<1>4. ASSUME NEW i \in Item
      PROVE  /\ Len(p) + (i - 1) * Len(body) \in Len(p)..(Len(q) - Len(body))
             /\ CopyAt(q, Len(p) + (i - 1) * Len(body), body, Len(body), i)
  <2>1. PICK d \in Nat : d = (i - 1) * Len(body) /\ d + Len(body) <= NumItems * Len(body)
    BY CopyPosition
  <2>2. Len(body) \in Nat
    OBVIOUS
  <2>3. Len(p) + d \in Len(p)..(Len(q) - Len(body))
    BY <1>1, <1>2, <1>3, <2>1, <2>2
  <2>4. ASSUME NEW j \in (Len(p) + d + 1)..(Len(p) + d + Len(body))
        PROVE  q[j] = Step(body[j - (Len(p) + d)], i)
    <3> DEFINE k == j - (Len(p) + d)
    <3>1. k \in 1..Len(body) /\ j = Len(p) + d + k
      BY <1>3, <2>2
    <3>2. k \in Int
      BY <1>3, <2>2
    <3> HIDE DEF k
    <3>3. d + k \in 1..Len(loop) /\ loop[d + k] = Step(body[k], i)
      BY <1>1, <2>1, <3>1
    <3>4. /\ j \in 1..(Len(p) + Len(loop)) /\ ~(j <= Len(p)) /\ j - Len(p) = d + k
      BY <1>3, <2>2, <3>1, <3>2, <3>3
    <3>5. QED
      BY <1>2, <3>3, <3>4 DEF k
  <2>5. QED
    BY <2>1, <2>3, <2>4 DEF CopyAt
<1>5. ASSUME NEW j \in (Len(p) + 1)..Len(q)
      PROVE  \E b \in Len(p)..(Len(q) - Len(body)) :
               /\ j \in (b + 1)..(b + Len(body))
               /\ \E i \in Item : CopyAt(q, b, body, Len(body), i)
  <2>1. PICK m \in 1..Len(loop) : j = Len(p) + m
    <3>1. j - Len(p) \in 1..Len(loop) /\ j = Len(p) + (j - Len(p))
      BY <1>2, <1>3
    <3>2. QED
      BY <3>1
  <2>2. PICK i \in Item, k \in 1..Len(body) : m = (i - 1) * Len(body) + k
    <3>1. m \in 1..(NumItems * Len(body))
      BY <1>1
    <3>2. QED
      BY <3>1, LoopPosition
  <2>3. PICK d \in Nat : d = (i - 1) * Len(body)
    BY CopyPosition
  <2>4. j \in (Len(p) + d + 1)..(Len(p) + d + Len(body))
    <3>1. Len(body) \in Nat
      OBVIOUS
    <3>2. k \in Int /\ j = Len(p) + d + k
      BY <1>3, <2>1, <2>2, <2>3, <3>1
    <3>3. QED
      BY <1>3, <2>3, <3>1, <3>2
  <2>5. QED
    BY <1>4, <2>3, <2>4
<1>6. \A j \in 1..Len(p) : q[j] = p[j]
  BY <1>2, <1>3
<1>7. QED
  BY <1>1, <1>2, <1>4, <1>5, <1>6 DEF LoopsOn

LEMMA OnceAfter ==
  ASSUME NEW p \in Seq(Entry), NEW ops \in Seq(Ops), NEW q, q = p \o Once(ops)
  PROVE  GoesOn(p, Len(p), ops, Len(ops), q)
<1> DEFINE once == Once(ops)
<1>1. /\ once \in Seq(Entry) /\ Len(once) = Len(ops)
      /\ \A k \in 1..Len(ops) : once[k] = Step(ops[k], 1)
  BY OnceEntries
<1> HIDE DEF once
<1>2. /\ q \in Seq(Entry) /\ Len(q) = Len(p) + Len(once)
      /\ \A j \in 1..(Len(p) + Len(once)) :
           q[j] = IF j <= Len(p) THEN p[j] ELSE once[j - Len(p)]
  <2>1. q = p \o once
    BY DEF once
  <2>2. /\ p \o once \in Seq(Entry) /\ Len(p \o once) = Len(p) + Len(once)
        /\ \A j \in 1..(Len(p) + Len(once)) :
             (p \o once)[j] = IF j <= Len(p) THEN p[j] ELSE once[j - Len(p)]
    BY <1>1, ConcatProperties
  <2>3. QED
    BY <2>1, <2>2
<1>3. Len(p) \in Nat /\ Len(ops) \in Nat
  BY LenProperties
<1>4. \A j \in 1..Len(p) : q[j] = p[j]
  BY <1>1, <1>2, <1>3
<1>5. \A k \in 1..Len(ops) : q[Len(p) + k] = Step(ops[k], 1)
  BY <1>1, <1>2, <1>3
<1>6. QED
  BY <1>1, <1>2, <1>4, <1>5 DEF GoesOn

LEMMA BeginEntries ==
  /\ Begin \in Seq(Entry) /\ Len(Begin) = 3
  /\ Begin[1] = Step("read", 1) /\ Begin[2] = Step("access", 1)
  /\ Begin[3] = Step("cancel", 1)
<1> DEFINE ops == <<"read", "access", "cancel">>
<1>1. ops \in Seq(Ops) /\ Len(ops) = 3
  BY DEF Ops
<1>2. ops[1] = "read" /\ ops[2] = "access" /\ ops[3] = "cancel" /\ Begin = Once(ops)
  BY DEF Begin
<1> HIDE DEF ops
<1>3. QED
  BY <1>1, <1>2, OnceEntries

(* Four of the programs end, or end their first part, with this loop: a    *)
(* record follows its access check, and there is one for every item.       *)
RecordsItems(q, s) ==
  /\ q \in Seq(Entry) /\ Len(q) = s + 4 * NumItems
  /\ \A j \in (s + 1)..Len(q) : q[j].op \in {"poll", "access", "record", "commit"}
  /\ \A j \in (s + 1)..Len(q) : q[j].op = "record" => j > s + 1 /\ q[j - 1].op = "access"
  /\ \A i \in Item : \E j \in (s + 1)..Len(q) : q[j] = Step("record", i)

LEMMA RecordingLoop ==
  ASSUME NEW p \in Seq(Entry),
         NEW q, q = p \o Loop(PerItem)
  PROVE  RecordsItems(q, Len(p)) /\ \A j \in 1..Len(p) : q[j] = p[j]
<1> DEFINE body == PerItem
<1>1. body \in Seq(Ops) /\ Len(body) = 4 /\ q = p \o Loop(body)
  BY DEF Ops, PerItem
<1>2. body[1] = "poll" /\ body[2] = "access" /\ body[3] = "record" /\ body[4] = "commit"
  BY DEF PerItem
<1> HIDE DEF body
<1>3. LoopsOn(p, Len(p), body, 4, q)
  <2>1. LoopsOn(p, Len(p), body, Len(body), q)
    BY <1>1, LoopAfter
  <2>2. QED
    BY <1>1, <2>1
<1>4. Len(p) \in Nat /\ NumItems \in Nat
  BY LenProperties, AnalysisConstants
<1>5. q \in Seq(Entry) /\ Len(q) = Len(p) + 4 * NumItems
  BY <1>1, <1>3, <1>4 DEF LoopsOn
<1>6. ASSUME NEW b \in Int, NEW i, CopyAt(q, b, body, 4, i)
      PROVE  /\ q[b + 1] = Step("poll", i) /\ q[b + 2] = Step("access", i)
             /\ q[b + 3] = Step("record", i) /\ q[b + 4] = Step("commit", i)
  <2>1. \A j \in (b + 1)..(b + 4) : q[j] = Step(body[j - b], i)
    BY <1>1, <1>6 DEF CopyAt
  <2>2. /\ (b + 1) - b = 1 /\ (b + 2) - b = 2 /\ (b + 3) - b = 3 /\ (b + 4) - b = 4
        /\ {b + 1, b + 2, b + 3, b + 4} \subseteq (b + 1)..(b + 4)
    OBVIOUS
  <2>3. QED
    BY <1>2, <2>1, <2>2
<1>7. ASSUME NEW j \in (Len(p) + 1)..Len(q)
      PROVE  /\ q[j].op \in {"poll", "access", "record", "commit"}
             /\ q[j].op = "record" => j > Len(p) + 1 /\ q[j - 1].op = "access"
  <2>1. PICK b \in Len(p)..(Len(q) - 4), i \in Item :
          j \in (b + 1)..(b + 4) /\ CopyAt(q, b, body, 4, i)
    BY <1>1, <1>3 DEF LoopsOn
  <2>2. /\ q[b + 1].op = "poll" /\ q[b + 2].op = "access"
        /\ q[b + 3].op = "record" /\ q[b + 4].op = "commit"
    <3>1. /\ q[b + 1] = Step("poll", i) /\ q[b + 2] = Step("access", i)
          /\ q[b + 3] = Step("record", i) /\ q[b + 4] = Step("commit", i)
      BY <1>6, <2>1
    <3>2. QED
      BY <3>1 DEF Step
  <2>3. \/ j = b + 1 \/ j = b + 2 \/ j = b + 4
        \/ j = b + 3 /\ j - 1 = b + 2 /\ j > Len(p) + 1
    BY <1>4, <1>5, <2>1
  <2>4. QED
    BY <2>2, <2>3
<1>8. ASSUME NEW i \in Item
      PROVE  \E j \in (Len(p) + 1)..Len(q) : q[j] = Step("record", i)
  <2>1. PICK b \in Len(p)..(Len(q) - 4) : CopyAt(q, b, body, 4, i)
    BY <1>1, <1>3 DEF LoopsOn
  <2>2. b + 3 \in (Len(p) + 1)..Len(q) /\ q[b + 3] = Step("record", i)
    BY <1>4, <1>5, <1>6, <2>1
  <2>3. QED
    BY <2>2
<1>9. \A j \in 1..Len(p) : q[j] = p[j]
  BY <1>3 DEF LoopsOn
<1>10. QED
  BY <1>5, <1>7, <1>8, <1>9 DEF RecordsItems

-----------------------------------------------------------------------------
(* What the order of the entries guarantees, program by program.           *)
StartOf(f) == IF f \in {"custody", "multilingual", "triage"} THEN 5 ELSE 4
Unread == {"read", "access", "cancel", "evidence", "start"}
Guarded == {"record", "reuse", "ask"}
InSemanticPass(f, j) == f = "contradiction" /\ j > Len(contradiction_rules)

(* Reading, checking and starting come first and once each; after that an  *)
(* item is recorded right behind an access check - or, by a run that only  *)
(* records one artifact, last -; what is not counted as the run's items is *)
(* recorded apart; and a text that is reused is skipped to its commit.     *)
EntryOrdered(p, f, j) ==
  /\ p[j].op = "read" => j = 1
  /\ p[j].op = "cancel" => j = 3
  /\ p[j].op = "evidence" => j < StartOf(f)
  /\ p[j].op = "start" <=> j = StartOf(f)
  /\ j <= StartOf(f) => p[j].op \in Unread
  /\ p[j].op \in {"record", "beside", "translate"} => j >= 6
  /\ p[j].op \in Guarded /\ f \notin OneArtifact =>
       j > 1 /\ p[j - 1].op \in {"access", "reuse", "ask"}
  /\ p[j].op = "record" /\ f \in OneArtifact => j = Len(p)
  /\ p[j].op = "beside" => f \notin OneArtifact /\ (j <= 6 \/ InSemanticPass(f, j))
  /\ p[j].op = "peek" => InSemanticPass(f, j)
  /\ InSemanticPass(f, j) => p[j].op \in {"peek", "beside", "commit"}
  /\ p[j].op \in {"reuse", "ask", "translate"} => f = "multilingual"
  /\ p[j].op = "translate" => j > 1 /\ p[j - 1].op = "record"
  /\ p[j].op = "reuse" =>
       /\ j + 4 <= Len(p) /\ p[j + 1].op = "ask"
       /\ p[j + 2] = Step("record", p[j].item)
       /\ p[j + 3].op = "translate" /\ p[j + 4].op = "commit"

DerivedBy(f) == IF f \in OneArtifact THEN {1} ELSE Item

Ordered(p, f) ==
  /\ p \in Seq(Entry) /\ Len(p) > 7
  /\ p[1].op = "read" /\ p[2].op = "access" /\ p[3].op = "cancel"
  /\ \A j \in 1..Len(p) : EntryOrdered(p, f, j)
  /\ \A c \in DerivedBy(f) : \E j \in 1..Len(p) : p[j] = Step("record", c)

LEMMA CustodyOrdered == Ordered(custody, "custody")
<1> DEFINE ops == <<"evidence", "start", "beside", "commit">>
           p == custody
<1>1. ops \in Seq(Ops) /\ Len(ops) = 4 /\ custody_start = Begin \o Once(ops)
  BY DEF Ops, custody_start
<1>2. ops[1] = "evidence" /\ ops[2] = "start" /\ ops[3] = "beside" /\ ops[4] = "commit"
  OBVIOUS
<1> HIDE DEF ops, p
<1>3. GoesOn(Begin, 3, ops, 4, custody_start)
  <2>1. GoesOn(Begin, Len(Begin), ops, Len(ops), custody_start)
    BY <1>1, BeginEntries, OnceAfter
  <2>2. QED
    BY <1>1, <2>1, BeginEntries
<1>4. /\ custody_start \in Seq(Entry) /\ Len(custody_start) = 7
      /\ \A j \in 1..3 : custody_start[j] = Begin[j]
      /\ \A k \in 1..4 : custody_start[3 + k] = Step(ops[k], 1)
  BY <1>3 DEF GoesOn
<1>5. /\ RecordsItems(custody, Len(custody_start))
      /\ \A j \in 1..Len(custody_start) : custody[j] = custody_start[j]
  BY <1>4, RecordingLoop DEF custody
<1>6. RecordsItems(p, 7) /\ \A j \in 1..7 : p[j] = custody_start[j]
  BY <1>4, <1>5 DEF p
<1>7. /\ p[1].op = "read" /\ p[2].op = "access" /\ p[3].op = "cancel"
      /\ p[4].op = "evidence" /\ p[5].op = "start" /\ p[6].op = "beside"
      /\ p[7].op = "commit"
  BY <1>2, <1>4, <1>6, BeginEntries DEF Step
<1>8. p \in Seq(Entry) /\ Len(p) \in Nat /\ Len(p) > 10
  BY <1>6, AnalysisConstants DEF RecordsItems
<1>9. ASSUME NEW j \in 1..Len(p)
      PROVE  EntryOrdered(p, "custody", j)
  <2>1. \/ j = 1 /\ p[j].op = "read"
        \/ j = 2 /\ p[j].op = "access"
        \/ j = 3 /\ p[j].op = "cancel"
        \/ j = 4 /\ p[j].op = "evidence"
        \/ j = 5 /\ p[j].op = "start"
        \/ j = 6 /\ p[j].op = "beside"
        \/ j = 7 /\ p[j].op = "commit"
        \/ /\ j >= 8 /\ p[j].op \in {"poll", "access", "record", "commit"}
           /\ p[j].op = "record" => j > 8 /\ p[j - 1].op = "access"
    <3>1. j \in {1, 2, 3, 4, 5, 6, 7} \/ j \in 8..Len(p)
      BY <1>8
    <3>2. CASE j \in {1, 2, 3, 4, 5, 6, 7}
      BY <1>7, <3>2
    <3>3. CASE j \in 8..Len(p)
      BY <1>6, <1>8, <3>3 DEF RecordsItems
    <3>4. QED
      BY <3>1, <3>2, <3>3
  <2>2. /\ StartOf("custody") = 5 /\ "custody" \notin OneArtifact
        /\ ~InSemanticPass("custody", j)
    BY DEF StartOf, OneArtifact, InSemanticPass
  <2>3. QED
    BY <2>1, <2>2 DEF EntryOrdered, Unread, Guarded
<1>10. \A c \in DerivedBy("custody") : \E j \in 1..Len(p) : p[j] = Step("record", c)
  BY <1>6, <1>8 DEF RecordsItems, DerivedBy, OneArtifact
<1>11. QED
  BY <1>7, <1>8, <1>9, <1>10 DEF Ordered, p

LEMMA MatchingOrdered == Ordered(matching, "matching")
<1> DEFINE ops == <<"start", "commit">>
           p == matching
<1>1. ops \in Seq(Ops) /\ Len(ops) = 2 /\ matching_start = Begin \o Once(ops)
  BY DEF Ops, matching_start
<1>2. ops[1] = "start" /\ ops[2] = "commit"
  OBVIOUS
<1> HIDE DEF ops, p
<1>3. GoesOn(Begin, 3, ops, 2, matching_start)
  <2>1. GoesOn(Begin, Len(Begin), ops, Len(ops), matching_start)
    BY <1>1, BeginEntries, OnceAfter
  <2>2. QED
    BY <1>1, <2>1, BeginEntries
<1>4. /\ matching_start \in Seq(Entry) /\ Len(matching_start) = 5
      /\ \A j \in 1..3 : matching_start[j] = Begin[j]
      /\ \A k \in 1..2 : matching_start[3 + k] = Step(ops[k], 1)
  BY <1>3 DEF GoesOn
<1>5. /\ RecordsItems(matching, Len(matching_start))
      /\ \A j \in 1..Len(matching_start) : matching[j] = matching_start[j]
  BY <1>4, RecordingLoop DEF matching
<1>6. RecordsItems(p, 5) /\ \A j \in 1..5 : p[j] = matching_start[j]
  BY <1>4, <1>5 DEF p
<1>7. /\ p[1].op = "read" /\ p[2].op = "access" /\ p[3].op = "cancel"
      /\ p[4].op = "start" /\ p[5].op = "commit"
  BY <1>2, <1>4, <1>6, BeginEntries DEF Step
<1>8. p \in Seq(Entry) /\ Len(p) \in Nat /\ Len(p) > 8
  BY <1>6, AnalysisConstants DEF RecordsItems
<1>9. ASSUME NEW j \in 1..Len(p)
      PROVE  EntryOrdered(p, "matching", j)
  <2>1. \/ j = 1 /\ p[j].op = "read"
        \/ j = 2 /\ p[j].op = "access"
        \/ j = 3 /\ p[j].op = "cancel"
        \/ j = 4 /\ p[j].op = "start"
        \/ j = 5 /\ p[j].op = "commit"
        \/ /\ j >= 6 /\ p[j].op \in {"poll", "access", "record", "commit"}
           /\ p[j].op = "record" => j > 6 /\ p[j - 1].op = "access"
    <3>1. j \in {1, 2, 3, 4, 5} \/ j \in 6..Len(p)
      BY <1>8
    <3>2. CASE j \in {1, 2, 3, 4, 5}
      BY <1>7, <3>2
    <3>3. CASE j \in 6..Len(p)
      BY <1>6, <1>8, <3>3 DEF RecordsItems
    <3>4. QED
      BY <3>1, <3>2, <3>3
  <2>2. /\ StartOf("matching") = 4 /\ "matching" \notin OneArtifact
        /\ ~InSemanticPass("matching", j)
    BY DEF StartOf, OneArtifact, InSemanticPass
  <2>3. QED
    BY <2>1, <2>2 DEF EntryOrdered, Unread, Guarded
<1>10. \A c \in DerivedBy("matching") : \E j \in 1..Len(p) : p[j] = Step("record", c)
  BY <1>6, <1>8 DEF RecordsItems, DerivedBy, OneArtifact
<1>11. QED
  BY <1>7, <1>8, <1>9, <1>10 DEF Ordered, p

LEMMA TimelineOrdered == Ordered(timeline, "timeline")
<1> DEFINE ops == <<"start", "poll", "commit">>
           p == timeline
<1>1. ops \in Seq(Ops) /\ Len(ops) = 3 /\ timeline_start = Begin \o Once(ops)
  BY DEF Ops, timeline_start
<1>2. ops[1] = "start" /\ ops[2] = "poll" /\ ops[3] = "commit"
  OBVIOUS
<1> HIDE DEF ops, p
<1>3. GoesOn(Begin, 3, ops, 3, timeline_start)
  <2>1. GoesOn(Begin, Len(Begin), ops, Len(ops), timeline_start)
    BY <1>1, BeginEntries, OnceAfter
  <2>2. QED
    BY <1>1, <2>1, BeginEntries
<1>4. /\ timeline_start \in Seq(Entry) /\ Len(timeline_start) = 6
      /\ \A j \in 1..3 : timeline_start[j] = Begin[j]
      /\ \A k \in 1..3 : timeline_start[3 + k] = Step(ops[k], 1)
  BY <1>3 DEF GoesOn
<1>5. /\ RecordsItems(timeline, Len(timeline_start))
      /\ \A j \in 1..Len(timeline_start) : timeline[j] = timeline_start[j]
  BY <1>4, RecordingLoop DEF timeline
<1>6. RecordsItems(p, 6) /\ \A j \in 1..6 : p[j] = timeline_start[j]
  BY <1>4, <1>5 DEF p
<1>7. /\ p[1].op = "read" /\ p[2].op = "access" /\ p[3].op = "cancel"
      /\ p[4].op = "start" /\ p[5].op = "poll" /\ p[6].op = "commit"
  BY <1>2, <1>4, <1>6, BeginEntries DEF Step
<1>8. p \in Seq(Entry) /\ Len(p) \in Nat /\ Len(p) > 9
  BY <1>6, AnalysisConstants DEF RecordsItems
<1>9. ASSUME NEW j \in 1..Len(p)
      PROVE  EntryOrdered(p, "timeline", j)
  <2>1. \/ j = 1 /\ p[j].op = "read"
        \/ j = 2 /\ p[j].op = "access"
        \/ j = 3 /\ p[j].op = "cancel"
        \/ j = 4 /\ p[j].op = "start"
        \/ j = 5 /\ p[j].op = "poll"
        \/ j = 6 /\ p[j].op = "commit"
        \/ /\ j >= 7 /\ p[j].op \in {"poll", "access", "record", "commit"}
           /\ p[j].op = "record" => j > 7 /\ p[j - 1].op = "access"
    <3>1. j \in {1, 2, 3, 4, 5, 6} \/ j \in 7..Len(p)
      BY <1>8
    <3>2. CASE j \in {1, 2, 3, 4, 5, 6}
      BY <1>7, <3>2
    <3>3. CASE j \in 7..Len(p)
      BY <1>6, <1>8, <3>3 DEF RecordsItems
    <3>4. QED
      BY <3>1, <3>2, <3>3
  <2>2. /\ StartOf("timeline") = 4 /\ "timeline" \notin OneArtifact
        /\ ~InSemanticPass("timeline", j)
    BY DEF StartOf, OneArtifact, InSemanticPass
  <2>3. QED
    BY <2>1, <2>2 DEF EntryOrdered, Unread, Guarded
<1>10. \A c \in DerivedBy("timeline") : \E j \in 1..Len(p) : p[j] = Step("record", c)
  BY <1>6, <1>8 DEF RecordsItems, DerivedBy, OneArtifact
<1>11. QED
  BY <1>7, <1>8, <1>9, <1>10 DEF Ordered, p

LEMMA FinancialOrdered == Ordered(financial, "financial")
<1> DEFINE ops == <<"start">>
           rest == <<"poll", "access", "poll", "access", "poll", "access", "record">>
           p == financial
<1>1. /\ ops \in Seq(Ops) /\ Len(ops) = 1 /\ financial_start = Begin \o Once(ops)
      /\ rest \in Seq(Ops) /\ Len(rest) = 7 /\ p = financial_start \o Once(rest)
  BY DEF Ops, financial_start, financial
<1>2. /\ ops[1] = "start"
      /\ rest[1] = "poll" /\ rest[2] = "access" /\ rest[3] = "poll" /\ rest[4] = "access"
      /\ rest[5] = "poll" /\ rest[6] = "access" /\ rest[7] = "record"
  OBVIOUS
<1> HIDE DEF ops, rest, p
<1>3. GoesOn(Begin, 3, ops, 1, financial_start)
  <2>1. GoesOn(Begin, Len(Begin), ops, Len(ops), financial_start)
    BY <1>1, BeginEntries, OnceAfter
  <2>2. QED
    BY <1>1, <2>1, BeginEntries
<1>4. /\ financial_start \in Seq(Entry) /\ Len(financial_start) = 4
      /\ \A j \in 1..3 : financial_start[j] = Begin[j]
      /\ \A k \in 1..1 : financial_start[3 + k] = Step(ops[k], 1)
  BY <1>3 DEF GoesOn
<1>5. GoesOn(financial_start, 4, rest, 7, p)
  <2>1. GoesOn(financial_start, Len(financial_start), rest, Len(rest), p)
    BY <1>1, <1>4, OnceAfter
  <2>2. QED
    BY <1>1, <1>4, <2>1
<1>6. /\ p \in Seq(Entry) /\ Len(p) = 11
      /\ \A j \in 1..4 : p[j] = financial_start[j]
      /\ \A k \in 1..7 : p[4 + k] = Step(rest[k], 1)
  BY <1>5 DEF GoesOn
<1>7. /\ p[1].op = "read" /\ p[2].op = "access" /\ p[3].op = "cancel"
      /\ p[4].op = "start" /\ p[5].op = "poll" /\ p[6].op = "access"
      /\ p[7].op = "poll" /\ p[8].op = "access" /\ p[9].op = "poll"
      /\ p[10].op = "access" /\ p[11].op = "record"
      /\ p[11] = Step("record", 1)
  BY <1>2, <1>4, <1>6, BeginEntries DEF Step
<1>8. ASSUME NEW j \in 1..Len(p)
      PROVE  EntryOrdered(p, "financial", j)
  <2>1. \/ j = 1 /\ p[j].op = "read"
        \/ j = 2 /\ p[j].op = "access"
        \/ j = 3 /\ p[j].op = "cancel"
        \/ j = 4 /\ p[j].op = "start"
        \/ j = 5 /\ p[j].op = "poll"
        \/ j = 6 /\ p[j].op = "access"
        \/ j = 7 /\ p[j].op = "poll"
        \/ j = 8 /\ p[j].op = "access"
        \/ j = 9 /\ p[j].op = "poll"
        \/ j = 10 /\ p[j].op = "access"
        \/ j = 11 /\ p[j].op = "record"
    <3>1. j \in {1, 2, 3, 4, 5, 6, 7, 8, 9, 10, 11}
      BY <1>6
    <3>2. CASE j <= 6
      BY <1>7, <3>1, <3>2
    <3>3. CASE j > 6
      BY <1>7, <3>1, <3>3
    <3>4. QED
      BY <3>1, <3>2, <3>3
  <2>2. /\ StartOf("financial") = 4 /\ "financial" \in OneArtifact
        /\ ~InSemanticPass("financial", j)
    BY DEF StartOf, OneArtifact, InSemanticPass
  <2>3. QED
    BY <1>6, <2>1, <2>2 DEF EntryOrdered, Unread, Guarded
<1>9. \A c \in DerivedBy("financial") : \E j \in 1..Len(p) : p[j] = Step("record", c)
  BY <1>6, <1>7 DEF DerivedBy, OneArtifact
<1>10. QED
  BY <1>6, <1>7, <1>8, <1>9 DEF Ordered, p

LEMMA TriageOrdered == Ordered(triage, "triage")
<1> DEFINE ops == <<"evidence", "start", "commit">>
           rest == <<"glance", "poll", "access", "explain", "record">>
           p == triage
<1>1. /\ ops \in Seq(Ops) /\ Len(ops) = 3 /\ triage_start = Begin \o Once(ops)
      /\ rest \in Seq(Ops) /\ Len(rest) = 5 /\ p = triage_start \o Once(rest)
  BY DEF Ops, triage_start, triage
<1>2. /\ ops[1] = "evidence" /\ ops[2] = "start" /\ ops[3] = "commit"
      /\ rest[1] = "glance" /\ rest[2] = "poll" /\ rest[3] = "access" /\ rest[4] = "explain"
      /\ rest[5] = "record"
  OBVIOUS
<1> HIDE DEF ops, rest, p
<1>3. GoesOn(Begin, 3, ops, 3, triage_start)
  <2>1. GoesOn(Begin, Len(Begin), ops, Len(ops), triage_start)
    BY <1>1, BeginEntries, OnceAfter
  <2>2. QED
    BY <1>1, <2>1, BeginEntries
<1>4. /\ triage_start \in Seq(Entry) /\ Len(triage_start) = 6
      /\ \A j \in 1..3 : triage_start[j] = Begin[j]
      /\ \A k \in 1..3 : triage_start[3 + k] = Step(ops[k], 1)
  BY <1>3 DEF GoesOn
<1>5. GoesOn(triage_start, 6, rest, 5, p)
  <2>1. GoesOn(triage_start, Len(triage_start), rest, Len(rest), p)
    BY <1>1, <1>4, OnceAfter
  <2>2. QED
    BY <1>1, <1>4, <2>1
<1>6. /\ p \in Seq(Entry) /\ Len(p) = 11
      /\ \A j \in 1..6 : p[j] = triage_start[j]
      /\ \A k \in 1..5 : p[6 + k] = Step(rest[k], 1)
  BY <1>5 DEF GoesOn
<1>7. /\ p[1].op = "read" /\ p[2].op = "access" /\ p[3].op = "cancel"
      /\ p[4].op = "evidence" /\ p[5].op = "start" /\ p[6].op = "commit"
      /\ p[7].op = "glance" /\ p[8].op = "poll" /\ p[9].op = "access"
      /\ p[10].op = "explain" /\ p[11].op = "record"
      /\ p[11] = Step("record", 1)
  BY <1>2, <1>4, <1>6, BeginEntries DEF Step
<1>8. ASSUME NEW j \in 1..Len(p)
      PROVE  EntryOrdered(p, "triage", j)
  <2>1. \/ j = 1 /\ p[j].op = "read"
        \/ j = 2 /\ p[j].op = "access"
        \/ j = 3 /\ p[j].op = "cancel"
        \/ j = 4 /\ p[j].op = "evidence"
        \/ j = 5 /\ p[j].op = "start"
        \/ j = 6 /\ p[j].op = "commit"
        \/ j = 7 /\ p[j].op = "glance"
        \/ j = 8 /\ p[j].op = "poll"
        \/ j = 9 /\ p[j].op = "access"
        \/ j = 10 /\ p[j].op = "explain"
        \/ j = 11 /\ p[j].op = "record"
    <3>1. j \in {1, 2, 3, 4, 5, 6, 7, 8, 9, 10, 11}
      BY <1>6
    <3>2. CASE j <= 6
      BY <1>7, <3>1, <3>2
    <3>3. CASE j > 6
      BY <1>7, <3>1, <3>3
    <3>4. QED
      BY <3>1, <3>2, <3>3
  <2>2. /\ StartOf("triage") = 5 /\ "triage" \in OneArtifact
        /\ ~InSemanticPass("triage", j)
    BY DEF StartOf, OneArtifact, InSemanticPass
  <2>3. QED
    BY <1>6, <2>1, <2>2 DEF EntryOrdered, Unread, Guarded
<1>9. \A c \in DerivedBy("triage") : \E j \in 1..Len(p) : p[j] = Step("record", c)
  BY <1>6, <1>7 DEF DerivedBy, OneArtifact
<1>10. QED
  BY <1>6, <1>7, <1>8, <1>9 DEF Ordered, p

LEMMA ReportAuditOrdered == Ordered(report_audit, "report_audit")
<1> DEFINE ops == <<"start", "commit", "glance", "explain", "poll">>
           rest == <<"poll", "access", "explain", "poll", "record">>
           p == report_audit
<1>1. /\ ops \in Seq(Ops) /\ Len(ops) = 5 /\ report_audit_start = Begin \o Once(ops)
      /\ rest \in Seq(Ops) /\ Len(rest) = 5 /\ p = report_audit_start \o Once(rest)
  BY DEF Ops, report_audit_start, report_audit
<1>2. /\ ops[1] = "start" /\ ops[2] = "commit" /\ ops[3] = "glance" /\ ops[4] = "explain"
      /\ ops[5] = "poll"
      /\ rest[1] = "poll" /\ rest[2] = "access" /\ rest[3] = "explain" /\ rest[4] = "poll"
      /\ rest[5] = "record"
  OBVIOUS
<1> HIDE DEF ops, rest, p
<1>3. GoesOn(Begin, 3, ops, 5, report_audit_start)
  <2>1. GoesOn(Begin, Len(Begin), ops, Len(ops), report_audit_start)
    BY <1>1, BeginEntries, OnceAfter
  <2>2. QED
    BY <1>1, <2>1, BeginEntries
<1>4. /\ report_audit_start \in Seq(Entry) /\ Len(report_audit_start) = 8
      /\ \A j \in 1..3 : report_audit_start[j] = Begin[j]
      /\ \A k \in 1..5 : report_audit_start[3 + k] = Step(ops[k], 1)
  BY <1>3 DEF GoesOn
<1>5. GoesOn(report_audit_start, 8, rest, 5, p)
  <2>1. GoesOn(report_audit_start, Len(report_audit_start), rest, Len(rest), p)
    BY <1>1, <1>4, OnceAfter
  <2>2. QED
    BY <1>1, <1>4, <2>1
<1>6. /\ p \in Seq(Entry) /\ Len(p) = 13
      /\ \A j \in 1..8 : p[j] = report_audit_start[j]
      /\ \A k \in 1..5 : p[8 + k] = Step(rest[k], 1)
  BY <1>5 DEF GoesOn
<1>7. /\ p[1].op = "read" /\ p[2].op = "access" /\ p[3].op = "cancel"
      /\ p[4].op = "start" /\ p[5].op = "commit" /\ p[6].op = "glance"
      /\ p[7].op = "explain" /\ p[8].op = "poll" /\ p[9].op = "poll"
      /\ p[10].op = "access" /\ p[11].op = "explain" /\ p[12].op = "poll"
      /\ p[13].op = "record"
      /\ p[13] = Step("record", 1)
  BY <1>2, <1>4, <1>6, BeginEntries DEF Step
<1>8. ASSUME NEW j \in 1..Len(p)
      PROVE  EntryOrdered(p, "report_audit", j)
  <2>1. \/ j = 1 /\ p[j].op = "read"
        \/ j = 2 /\ p[j].op = "access"
        \/ j = 3 /\ p[j].op = "cancel"
        \/ j = 4 /\ p[j].op = "start"
        \/ j = 5 /\ p[j].op = "commit"
        \/ j = 6 /\ p[j].op = "glance"
        \/ j = 7 /\ p[j].op = "explain"
        \/ j = 8 /\ p[j].op = "poll"
        \/ j = 9 /\ p[j].op = "poll"
        \/ j = 10 /\ p[j].op = "access"
        \/ j = 11 /\ p[j].op = "explain"
        \/ j = 12 /\ p[j].op = "poll"
        \/ j = 13 /\ p[j].op = "record"
    <3>1. j \in {1, 2, 3, 4, 5, 6, 7, 8, 9, 10, 11, 12, 13}
      BY <1>6
    <3>2. CASE j <= 6
      BY <1>7, <3>1, <3>2
    <3>3. CASE j > 6
      BY <1>7, <3>1, <3>3
    <3>4. QED
      BY <3>1, <3>2, <3>3
  <2>2. /\ StartOf("report_audit") = 4 /\ "report_audit" \in OneArtifact
        /\ ~InSemanticPass("report_audit", j)
    BY DEF StartOf, OneArtifact, InSemanticPass
  <2>3. QED
    BY <1>6, <2>1, <2>2 DEF EntryOrdered, Unread, Guarded
<1>9. \A c \in DerivedBy("report_audit") : \E j \in 1..Len(p) : p[j] = Step("record", c)
  BY <1>6, <1>7 DEF DerivedBy, OneArtifact
<1>10. QED
  BY <1>6, <1>7, <1>8, <1>9 DEF Ordered, p

LEMMA ContradictionOrdered == Ordered(contradiction, "contradiction")
<1> DEFINE ops == <<"start", "poll", "commit">>
           body == <<"peek", "beside", "commit">>
           first == Begin \o Once(ops)
           r == contradiction_rules
           p == contradiction
<1>1. /\ ops \in Seq(Ops) /\ Len(ops) = 3 /\ body \in Seq(Ops) /\ Len(body) = 3
      /\ r = first \o Loop(PerItem) /\ p = r \o Loop(body)
  BY DEF Ops, contradiction_rules, contradiction
<1>2. /\ ops[1] = "start" /\ ops[2] = "poll" /\ ops[3] = "commit"
      /\ body[1] = "peek" /\ body[2] = "beside" /\ body[3] = "commit"
  OBVIOUS
<1>3. first = Begin \o Once(ops)
  OBVIOUS
<1> HIDE DEF ops, body, first, r, p
<1>4. GoesOn(Begin, 3, ops, 3, first)
  <2>1. GoesOn(Begin, Len(Begin), ops, Len(ops), first)
    BY <1>1, <1>3, BeginEntries, OnceAfter
  <2>2. QED
    BY <1>1, <2>1, BeginEntries
<1>5. /\ first \in Seq(Entry) /\ Len(first) = 6
      /\ \A j \in 1..3 : first[j] = Begin[j]
      /\ \A k \in 1..3 : first[3 + k] = Step(ops[k], 1)
  BY <1>4 DEF GoesOn
<1>6. RecordsItems(r, Len(first)) /\ \A j \in 1..Len(first) : r[j] = first[j]
  BY <1>1, <1>5, RecordingLoop
<1>7. RecordsItems(r, 6) /\ \A j \in 1..6 : r[j] = first[j]
  BY <1>5, <1>6
<1>8. r \in Seq(Entry) /\ Len(r) \in Nat /\ Len(r) > 9
  BY <1>7, AnalysisConstants DEF RecordsItems
<1>9. LoopsOn(r, Len(r), body, 3, p)
  <2>1. LoopsOn(r, Len(r), body, Len(body), p)
    BY <1>1, <1>8, LoopAfter
  <2>2. QED
    BY <1>1, <2>1
<1>10. p \in Seq(Entry) /\ Len(p) \in Nat /\ Len(p) > 9 /\ \A j \in 1..Len(r) : p[j] = r[j]
  BY <1>8, <1>9, AnalysisConstants DEF LoopsOn
<1>11. /\ p[1].op = "read" /\ p[2].op = "access" /\ p[3].op = "cancel"
       /\ p[4].op = "start" /\ p[5].op = "poll" /\ p[6].op = "commit"
  <2>1. \A j \in 1..6 : p[j] = first[j]
    BY <1>7, <1>8, <1>10
  <2>2. QED
    BY <1>2, <1>5, <2>1, BeginEntries DEF Step
<1>12. ASSUME NEW j \in (Len(r) + 1)..Len(p)
       PROVE  p[j].op \in {"peek", "beside", "commit"}
  <2>1. PICK b \in Len(r)..(Len(p) - 3), i \in Item :
          j \in (b + 1)..(b + 3) /\ CopyAt(p, b, body, 3, i)
    BY <1>9 DEF LoopsOn
  <2>2. p[j] = Step(body[j - b], i)
    BY <2>1 DEF CopyAt
  <2>3. j - b \in {1, 2, 3}
    BY <1>8, <1>10, <2>1
  <2>4. QED
    BY <1>2, <2>2, <2>3 DEF Step
<1>13. ASSUME NEW j \in 1..Len(p)
       PROVE  EntryOrdered(p, "contradiction", j)
  <2>1. \/ j = 1 /\ p[j].op = "read"
        \/ j = 2 /\ p[j].op = "access"
        \/ j = 3 /\ p[j].op = "cancel"
        \/ j = 4 /\ p[j].op = "start"
        \/ j = 5 /\ p[j].op = "poll"
        \/ j = 6 /\ p[j].op = "commit"
        \/ /\ j >= 7 /\ j <= Len(r) /\ p[j].op \in {"poll", "access", "record", "commit"}
           /\ p[j].op = "record" => j > 7 /\ p[j - 1].op = "access"
        \/ j > Len(r) /\ p[j].op \in {"peek", "beside", "commit"}
    <3>1. j \in {1, 2, 3, 4, 5, 6} \/ j \in 7..Len(r) \/ j \in (Len(r) + 1)..Len(p)
      BY <1>8, <1>10
    <3>2. CASE j \in {1, 2, 3, 4, 5, 6}
      BY <1>11, <3>2
    <3>3. CASE j \in 7..Len(r)
      <4>1. /\ r[j].op \in {"poll", "access", "record", "commit"}
            /\ r[j].op = "record" => j > 7 /\ r[j - 1].op = "access"
        BY <1>7, <1>8, <3>3 DEF RecordsItems
      <4>2. j \in 1..Len(r) /\ j - 1 \in 1..Len(r)
        BY <1>8, <3>3
      <4>3. QED
        BY <1>10, <3>3, <4>1, <4>2
    <3>4. CASE j \in (Len(r) + 1)..Len(p)
      BY <1>8, <1>12, <3>4
    <3>5. QED
      BY <3>1, <3>2, <3>3, <3>4
  <2>2. /\ StartOf("contradiction") = 4 /\ "contradiction" \notin OneArtifact
        /\ InSemanticPass("contradiction", j) <=> j > Len(r)
    BY DEF StartOf, OneArtifact, InSemanticPass, r
  <2>3. QED
    BY <1>8, <2>1, <2>2 DEF EntryOrdered, Unread, Guarded
<1>14. \A c \in DerivedBy("contradiction") : \E j \in 1..Len(p) : p[j] = Step("record", c)
  <2> SUFFICES ASSUME NEW c \in Item
               PROVE  \E j \in 1..Len(p) : p[j] = Step("record", c)
    BY DEF DerivedBy, OneArtifact
  <2>1. PICK j \in 7..Len(r) : r[j] = Step("record", c)
    BY <1>7 DEF RecordsItems
  <2>2. j \in 1..Len(r) /\ Len(r) <= Len(p)
    BY <1>1, <1>8, <1>9, <2>1, AnalysisConstants DEF LoopsOn
  <2>3. QED
    BY <1>8, <1>10, <2>1, <2>2
<1>15. QED
  BY <1>10, <1>11, <1>13, <1>14 DEF Ordered, p

LEMMA CrossCaseOrdered == Ordered(cross_case, "cross_case")
<1> DEFINE ops == <<"start">>
           seek == <<"poll", "access">>
           body == <<"poll", "access", "record">>
           first == Begin \o Once(ops)
           s == cross_case_start
           p == cross_case
<1>1. /\ ops \in Seq(Ops) /\ Len(ops) = 1
      /\ seek \in Seq(Ops) /\ Len(seek) = 2 /\ body \in Seq(Ops) /\ Len(body) = 3
      /\ s = first \o Loop(seek) /\ p = s \o Loop(body)
  BY DEF Ops, cross_case_start, cross_case
<1>2. /\ ops[1] = "start" /\ seek[1] = "poll" /\ seek[2] = "access"
      /\ body[1] = "poll" /\ body[2] = "access" /\ body[3] = "record"
  OBVIOUS
<1>3. first = Begin \o Once(ops)
  OBVIOUS
<1> HIDE DEF ops, seek, body, first, s, p
<1>4. GoesOn(Begin, 3, ops, 1, first)
  <2>1. GoesOn(Begin, Len(Begin), ops, Len(ops), first)
    BY <1>1, <1>3, BeginEntries, OnceAfter
  <2>2. QED
    BY <1>1, <2>1, BeginEntries
<1>5. /\ first \in Seq(Entry) /\ Len(first) = 4
      /\ \A j \in 1..3 : first[j] = Begin[j]
      /\ first[4] = Step(ops[1], 1)
  BY <1>4 DEF GoesOn
<1>6. LoopsOn(first, 4, seek, 2, s)
  <2>1. LoopsOn(first, Len(first), seek, Len(seek), s)
    BY <1>1, <1>5, LoopAfter
  <2>2. QED
    BY <1>1, <1>5, <2>1
<1>7. s \in Seq(Entry) /\ Len(s) \in Nat /\ Len(s) > 5 /\ \A j \in 1..4 : s[j] = first[j]
  BY <1>6, AnalysisConstants DEF LoopsOn
<1>8. LoopsOn(s, Len(s), body, 3, p)
  <2>1. LoopsOn(s, Len(s), body, Len(body), p)
    BY <1>1, <1>7, LoopAfter
  <2>2. QED
    BY <1>1, <2>1
<1>9. p \in Seq(Entry) /\ Len(p) \in Nat /\ Len(p) > 8 /\ \A j \in 1..Len(s) : p[j] = s[j]
  BY <1>7, <1>8, AnalysisConstants DEF LoopsOn
<1>10. /\ p[1].op = "read" /\ p[2].op = "access" /\ p[3].op = "cancel" /\ p[4].op = "start"
  <2>1. \A j \in 1..4 : p[j] = first[j]
    BY <1>7, <1>9
  <2>2. QED
    BY <1>2, <1>5, <2>1, BeginEntries DEF Step
<1>11. ASSUME NEW j \in 5..Len(s)
       PROVE  p[j].op \in {"poll", "access"}
  <2>0. j \in (4 + 1)..Len(s)
    BY <1>7
  <2>1. PICK b \in 4..(Len(s) - 2) :
          j \in (b + 1)..(b + 2) /\ \E i \in Item : CopyAt(s, b, seek, 2, i)
    BY <1>6, <2>0 DEF LoopsOn
  <2>2. \E i \in Item : s[j] = Step(seek[j - b], i)
    BY <2>1 DEF CopyAt
  <2>3. j - b \in {1, 2}
    BY <1>7, <2>1
  <2>4. p[j] = s[j]
    BY <1>7, <1>9
  <2>5. QED
    BY <1>2, <2>2, <2>3, <2>4 DEF Step
<1>12. ASSUME NEW j \in (Len(s) + 1)..Len(p)
       PROVE  /\ p[j].op \in {"poll", "access", "record"}
              /\ p[j].op = "record" => p[j - 1].op = "access"
  <2>1. PICK b \in Len(s)..(Len(p) - 3), i \in Item :
          j \in (b + 1)..(b + 3) /\ CopyAt(p, b, body, 3, i)
    BY <1>8 DEF LoopsOn
  <2>2. \A m \in (b + 1)..(b + 3) : p[m] = Step(body[m - b], i)
    BY <2>1 DEF CopyAt
  <2>3. j - b \in {1, 2, 3}
    BY <1>7, <1>9, <2>1
  <2>4. ASSUME j - b = 3
        PROVE  p[j - 1].op = "access"
    <3>1. j - 1 \in (b + 1)..(b + 3) /\ (j - 1) - b = 2
      BY <1>7, <1>9, <2>4
    <3>2. p[j - 1] = Step(body[2], i)
      BY <2>2, <3>1
    <3>3. QED
      BY <1>2, <3>2 DEF Step
  <2>5. p[j] = Step(body[j - b], i)
    BY <2>1, <2>2
  <2>6. QED
    BY <1>2, <2>3, <2>4, <2>5 DEF Step
<1>13. ASSUME NEW j \in 1..Len(p)
       PROVE  EntryOrdered(p, "cross_case", j)
  <2>1. \/ j = 1 /\ p[j].op = "read"
        \/ j = 2 /\ p[j].op = "access"
        \/ j = 3 /\ p[j].op = "cancel"
        \/ j = 4 /\ p[j].op = "start"
        \/ /\ j >= 6 /\ p[j].op \in {"poll", "access", "record"}
           /\ p[j].op = "record" => p[j - 1].op = "access"
        \/ j >= 5 /\ p[j].op \in {"poll", "access"}
    <3>1. j \in {1, 2, 3, 4} \/ j \in 5..Len(s) \/ j \in (Len(s) + 1)..Len(p)
      BY <1>7, <1>9
    <3>2. CASE j \in {1, 2, 3, 4}
      BY <1>10, <3>2
    <3>3. CASE j \in 5..Len(s)
      BY <1>7, <1>11, <3>3
    <3>4. CASE j \in (Len(s) + 1)..Len(p)
      BY <1>7, <1>12, <3>4
    <3>5. QED
      BY <3>1, <3>2, <3>3, <3>4
  <2>2. /\ StartOf("cross_case") = 4 /\ "cross_case" \notin OneArtifact
        /\ ~InSemanticPass("cross_case", j)
    BY DEF StartOf, OneArtifact, InSemanticPass
  <2>3. QED
    BY <2>1, <2>2 DEF EntryOrdered, Unread, Guarded
<1>14. \A c \in DerivedBy("cross_case") : \E j \in 1..Len(p) : p[j] = Step("record", c)
  <2> SUFFICES ASSUME NEW c \in Item
               PROVE  \E j \in 1..Len(p) : p[j] = Step("record", c)
    BY DEF DerivedBy, OneArtifact
  <2>1. PICK b \in Len(s)..(Len(p) - 3) : CopyAt(p, b, body, 3, c)
    BY <1>8 DEF LoopsOn
  <2>2. \A m \in (b + 1)..(b + 3) : p[m] = Step(body[m - b], c)
    BY <2>1 DEF CopyAt
  <2>3. b + 3 \in (b + 1)..(b + 3) /\ (b + 3) - b = 3 /\ b + 3 \in 1..Len(p)
    BY <1>7, <1>9
  <2>4. QED
    BY <1>2, <2>2, <2>3
<1>15. QED
  BY <1>9, <1>10, <1>13, <1>14 DEF Ordered, p

LEMMA MultilingualOrdered == Ordered(multilingual, "multilingual")
<1> DEFINE ops == <<"evidence", "start", "commit">>
           body == <<"poll", "access", "reuse", "ask", "record", "translate", "commit">>
           s == multilingual_start
           p == multilingual
<1>1. /\ ops \in Seq(Ops) /\ Len(ops) = 3 /\ body \in Seq(Ops) /\ Len(body) = 7
      /\ s = Begin \o Once(ops) /\ p = s \o Loop(body)
  BY DEF Ops, multilingual_start, multilingual
<1>2. /\ ops[1] = "evidence" /\ ops[2] = "start" /\ ops[3] = "commit"
      /\ body[1] = "poll" /\ body[2] = "access" /\ body[3] = "reuse" /\ body[4] = "ask"
      /\ body[5] = "record" /\ body[6] = "translate" /\ body[7] = "commit"
  OBVIOUS
<1> HIDE DEF ops, body, s, p
<1>3. GoesOn(Begin, 3, ops, 3, s)
  <2>1. GoesOn(Begin, Len(Begin), ops, Len(ops), s)
    BY <1>1, BeginEntries, OnceAfter
  <2>2. QED
    BY <1>1, <2>1, BeginEntries
<1>4. /\ s \in Seq(Entry) /\ Len(s) = 6
      /\ \A j \in 1..3 : s[j] = Begin[j]
      /\ \A k \in 1..3 : s[3 + k] = Step(ops[k], 1)
  BY <1>3 DEF GoesOn
<1>5. LoopsOn(s, 6, body, 7, p)
  <2>1. LoopsOn(s, Len(s), body, Len(body), p)
    BY <1>1, <1>4, LoopAfter
  <2>2. QED
    BY <1>1, <1>4, <2>1
<1>6. p \in Seq(Entry) /\ Len(p) \in Nat /\ Len(p) > 12 /\ \A j \in 1..6 : p[j] = s[j]
  BY <1>5, AnalysisConstants DEF LoopsOn
<1>7. /\ p[1].op = "read" /\ p[2].op = "access" /\ p[3].op = "cancel"
      /\ p[4].op = "evidence" /\ p[5].op = "start" /\ p[6].op = "commit"
  BY <1>2, <1>4, <1>6, BeginEntries DEF Step
<1>8. ASSUME NEW b \in 6..(Len(p) - 7), NEW i \in Item, CopyAt(p, b, body, 7, i)
      PROVE  /\ p[b + 1].op = "poll" /\ p[b + 2].op = "access"
             /\ p[b + 3] = Step("reuse", i) /\ p[b + 4].op = "ask"
             /\ p[b + 5] = Step("record", i) /\ p[b + 6].op = "translate"
             /\ p[b + 7].op = "commit"
  <2>1. \A m \in (b + 1)..(b + 7) : p[m] = Step(body[m - b], i)
    BY <1>8 DEF CopyAt
  <2>2. /\ (b + 1) - b = 1 /\ (b + 2) - b = 2 /\ (b + 3) - b = 3 /\ (b + 4) - b = 4
        /\ (b + 5) - b = 5 /\ (b + 6) - b = 6 /\ (b + 7) - b = 7
        /\ {b + 1, b + 2, b + 3, b + 4, b + 5, b + 6, b + 7} \subseteq (b + 1)..(b + 7)
    BY <1>6
  <2>3. /\ p[b + 1] = Step("poll", i) /\ p[b + 2] = Step("access", i)
        /\ p[b + 3] = Step("reuse", i) /\ p[b + 4] = Step("ask", i)
        /\ p[b + 5] = Step("record", i) /\ p[b + 6] = Step("translate", i)
        /\ p[b + 7] = Step("commit", i)
    BY <1>2, <2>1, <2>2
  <2>4. QED
    BY <2>3 DEF Step
<1>9. ASSUME NEW j \in 1..Len(p)
      PROVE  EntryOrdered(p, "multilingual", j)
  <2>1. \/ j = 1 /\ p[j].op = "read"
        \/ j = 2 /\ p[j].op = "access"
        \/ j = 3 /\ p[j].op = "cancel"
        \/ j = 4 /\ p[j].op = "evidence"
        \/ j = 5 /\ p[j].op = "start"
        \/ j = 6 /\ p[j].op = "commit"
        \/ j >= 7 /\ p[j].op \in {"poll", "access", "commit"}
        \/ /\ j >= 7 /\ p[j].op = "reuse" /\ p[j - 1].op = "access" /\ j + 4 <= Len(p)
           /\ p[j + 1].op = "ask" /\ p[j + 2] = Step("record", p[j].item)
           /\ p[j + 3].op = "translate" /\ p[j + 4].op = "commit"
        \/ j >= 7 /\ p[j].op = "ask" /\ p[j - 1].op = "reuse"
        \/ j >= 7 /\ p[j].op = "record" /\ p[j - 1].op = "ask"
        \/ j >= 7 /\ p[j].op = "translate" /\ p[j - 1].op = "record"
    <3>1. j \in {1, 2, 3, 4, 5, 6} \/ j \in 7..Len(p)
      BY <1>6
    <3>2. CASE j \in {1, 2, 3, 4, 5, 6}
      BY <1>7, <3>2
    <3>3. CASE j \in 7..Len(p)
      <4>1. PICK b \in 6..(Len(p) - 7), i \in Item :
              j \in (b + 1)..(b + 7) /\ CopyAt(p, b, body, 7, i)
        <5>1. 6 + 1 = 7
          OBVIOUS
        <5>2. LoopsOn(s, 6, body, 7, p) /\ j \in (6 + 1)..Len(p)
          BY <1>5, <3>3, <5>1
        <5>3. QED
          BY <5>2, InsideALoop
      <4>2. /\ p[b + 1].op = "poll" /\ p[b + 2].op = "access"
            /\ p[b + 3].op = "reuse" /\ p[b + 3].item = i /\ p[b + 4].op = "ask"
            /\ p[b + 5] = Step("record", i) /\ p[b + 5].op = "record"
            /\ p[b + 6].op = "translate" /\ p[b + 7].op = "commit"
        <5>1. /\ p[b + 1].op = "poll" /\ p[b + 2].op = "access"
              /\ p[b + 3] = Step("reuse", i) /\ p[b + 4].op = "ask"
              /\ p[b + 5] = Step("record", i) /\ p[b + 6].op = "translate"
              /\ p[b + 7].op = "commit"
          BY <1>8, <4>1
        <5>2. QED
          BY <5>1 DEF Step
      <4>3. \/ j = b + 1 \/ j = b + 2 \/ j = b + 7
            \/ /\ j = b + 3 /\ j - 1 = b + 2 /\ j + 1 = b + 4 /\ j + 2 = b + 5
               /\ j + 3 = b + 6 /\ j + 4 = b + 7 /\ j + 4 <= Len(p)
            \/ j = b + 4 /\ j - 1 = b + 3
            \/ j = b + 5 /\ j - 1 = b + 4
            \/ j = b + 6 /\ j - 1 = b + 5
        BY <1>6, <4>1
      <4>4. CASE j = b + 3
        BY <3>3, <4>2, <4>3, <4>4
      <4>5. CASE j # b + 3
        <5>1. \/ j = b + 1 \/ j = b + 2 \/ j = b + 7
              \/ j = b + 4 /\ j - 1 = b + 3
              \/ j = b + 5 /\ j - 1 = b + 4
              \/ j = b + 6 /\ j - 1 = b + 5
          BY <4>3, <4>5
        <5>2. j >= 7
          BY <3>3
        <5>3. QED
          BY <4>2, <5>1, <5>2
      <4>6. QED
        BY <4>4, <4>5
    <3>4. QED
      BY <3>1, <3>2, <3>3
  <2>2. /\ StartOf("multilingual") = 5 /\ "multilingual" \notin OneArtifact
        /\ ~InSemanticPass("multilingual", j)
    BY DEF StartOf, OneArtifact, InSemanticPass
  <2>3. QED
    BY <2>1, <2>2 DEF EntryOrdered, Unread, Guarded
<1>10. \A c \in DerivedBy("multilingual") : \E j \in 1..Len(p) : p[j] = Step("record", c)
  <2> SUFFICES ASSUME NEW c \in Item
               PROVE  \E j \in 1..Len(p) : p[j] = Step("record", c)
    BY DEF DerivedBy, OneArtifact
  <2>1. PICK b \in 6..(Len(p) - 7) : CopyAt(p, b, body, 7, c)
    BY <1>5 DEF LoopsOn
  <2>2. p[b + 5] = Step("record", c)
    BY <1>8, <2>1
  <2>3. b + 5 \in 1..Len(p)
    BY <1>6
  <2>4. QED
    BY <2>2, <2>3
<1>11. QED
  BY <1>6, <1>7, <1>9, <1>10 DEF Ordered, p

LEMMA ProgramsOrdered ==
  \A f \in AnalysisFeatures : Ordered(Program[f], f)
<1> SUFFICES ASSUME NEW f \in AnalysisFeatures
             PROVE  Ordered(Program[f], f)
  OBVIOUS
<1>1. /\ Program["custody"] = custody /\ Program["matching"] = matching
      /\ Program["timeline"] = timeline /\ Program["contradiction"] = contradiction
      /\ Program["financial"] = financial /\ Program["cross_case"] = cross_case
      /\ Program["multilingual"] = multilingual /\ Program["triage"] = triage
      /\ Program["report_audit"] = report_audit
  BY DEF Program
<1>2. QED
  BY <1>1, CustodyOrdered, MatchingOrdered, TimelineOrdered, ContradictionOrdered,
     FinancialOrdered, CrossCaseOrdered, MultilingualOrdered, TriageOrdered,
     ReportAuditOrdered
     DEF AnalysisFeatures

-----------------------------------------------------------------------------
(* The invariant of a run.                                                 *)
Op(j) == Program[analysis][j].op
Early == run.at <= StartOf(analysis)
Working == run.mode = "work"

(* The copy of the row is behind the row only while the job is active; a   *)
(* run that read that it is to stop stops before its first transition.     *)
CopyIsTrue ==
  /\ Working /\ run.mem \in TERMINAL_STATUSES => status = run.mem
  /\ run.mode = "done" => status \in TERMINAL_STATUSES
  /\ status \in Succeeded => run.mode = "done" /\ run.saw # "poll"
  /\ Working /\ run.saw = "poll" => run.at \in {2, 3} /\ run.flagged

(* Nothing is stored before the transition to running, and after it only   *)
(* the run itself takes the job out of running, but for a failure.         *)
BeginsEmpty ==
  /\ Working /\ Early =>
       /\ status # "running" /\ summary = {} /\ Own = {}
       /\ run.made = {} /\ run.buffer = {}
  /\ Working /\ ~Early =>
       run.mem \in {"running", "failed"} /\ status \in {"running", "failed"}
  /\ run.mode = "recover" /\ status \in {"pending", "canceled"} => summary = {} /\ Own = {}

(* What counts as created is stored or about to be.                        *)
CountIsTrue ==
  /\ Working \/ (run.mode = "close" /\ run.to = "canceled") =>
       run.made = Own \cup run.buffer
  /\ SummaryIsTrue

(* A single artifact is flushed last, and stored by the commit of success. *)
WholeOrNothing ==
  analysis \in OneArtifact =>
    /\ (Working /\ ~AtEnd) \/ run.mode = "close" => run.buffer = {}
    /\ status \notin Succeeded => Own = {}

(* What the run has passed by is stored or flushed.                        *)
PassedAreStored ==
  Working /\ ~run.bad =>
    \A j \in 1..Len(Program[analysis]) :
      j < run.at /\ Op(j) = "record" =>
        LET c == Program[analysis][j].item IN artifacts[c] # "none" \/ c \in run.buffer

(* Whoever is about to record has just been found to have access.          *)
AccessIsFresh ==
  /\ authorized => afterRevoke = 0
  /\ Working =>
       /\ run.at <= 6 => afterRevoke = 0
       /\ analysis \in OneArtifact /\ ~AtEnd => afterRevoke = 0
       /\ ~AtEnd /\ Op(run.at) \in Guarded => afterRevoke = 0
       /\ ~AtEnd /\ Op(run.at) = "translate" => afterRevoke <= 1
  /\ RevocationBites

RunInv ==
  /\ TypeOK
  /\ CopyIsTrue
  /\ BeginsEmpty
  /\ CountIsTrue
  /\ WholeOrNothing
  /\ PassedAreStored
  /\ AccessIsFresh
  /\ SucceededIsComplete

LEMMA RulesLength == Len(contradiction_rules) \in Nat
<1>1. PICK first : first = Begin \o Once(<<"start", "poll", "commit">>)
  OBVIOUS
<1>2. QED
  BY LenProperties

LEMMA ProgramInOrder ==
  ASSUME TypeOK
  PROVE  Ordered(Program[analysis], analysis)
BY AnalysisConstants, ProgramsOrdered DEF TypeOK

LEMMA HereIsOrdered ==
  ASSUME TypeOK, ~AtEnd
  PROVE  /\ run.at \in 1..Len(Program[analysis]) /\ Len(Program[analysis]) > 7
         /\ Len(Program[analysis]) \in Nat
         /\ EntryOrdered(Program[analysis], analysis, run.at)
         /\ Op(run.at) \in Ops /\ Its \in Item
<1>1. Ordered(Program[analysis], analysis)
  BY ProgramInOrder
<1>2. Len(Program[analysis]) \in Nat /\ Len(Program[analysis]) > 7
  BY <1>1, LenProperties DEF Ordered
<1>3. run.at \in 1..Len(Program[analysis])
  BY <1>2 DEF TypeOK, RunState, AtEnd
<1>4. Program[analysis][run.at] \in Entry
  BY <1>1, <1>3, ElementOfSeq DEF Ordered
<1>5. QED
  BY <1>1, <1>2, <1>3, <1>4 DEF Ordered, Entry, Op, Its

(* Polls, records and commits come after the transition to running.        *)
LEMMA PastStart ==
  ASSUME TypeOK, ~AtEnd, Op(run.at) \notin Unread
  PROVE  /\ StartOf(analysis) \in {4, 5} /\ run.at > StartOf(analysis)
         /\ ~Early /\ run.at \notin {2, 3}
<1>1. run.at \in Nat /\ EntryOrdered(Program[analysis], analysis, run.at)
  BY HereIsOrdered
<1>2. StartOf(analysis) \in {4, 5}
  BY DEF StartOf
<1>3. ~(run.at <= StartOf(analysis))
  BY <1>1 DEF EntryOrdered, Op
<1>4. QED
  BY <1>1, <1>2, <1>3 DEF Early

(* An entry that records nothing leaves the access as fresh as it found    *)
(* it, and one that checks it makes it fresh.                              *)
LEMMA FreshOneOn ==
  ASSUME RunInv, Working, ~AtEnd, Working', run'.at = run.at + 1,
         UNCHANGED <<analysis, authorized, afterRevoke>>,
         Op(run.at) # "record", Op(run.at) = "access" => authorized
  PROVE  AccessIsFresh'
<1> PICK p : p = Program[analysis]
  OBVIOUS
<1>1. /\ run.at \in 1..Len(p) /\ Len(p) > 7 /\ Len(p) \in Nat
      /\ EntryOrdered(p, analysis, run.at)
  BY HereIsOrdered DEF RunInv
<1>2. Ordered(p, analysis)
  BY ProgramInOrder DEF RunInv
<1>3. /\ Program[analysis'] = p /\ (AtEnd <=> run.at > Len(p))
      /\ (AtEnd' <=> run.at + 1 > Len(p))
  BY DEF AtEnd
<1>4. AccessIsFresh'
  <2>1. /\ authorized => afterRevoke = 0
        /\ run.at <= 6 => afterRevoke = 0
        /\ analysis \in OneArtifact => afterRevoke = 0
        /\ p[run.at].op \in Guarded => afterRevoke = 0
        /\ RevocationBites
    BY DEF RunInv, AccessIsFresh, Op
  <2>2. ASSUME run.at + 1 <= Len(p), analysis \notin OneArtifact, p[run.at + 1].op \in Guarded
        PROVE  afterRevoke = 0
    <3>1. EntryOrdered(p, analysis, run.at + 1) /\ (run.at + 1) - 1 = run.at
      BY <1>1, <1>2, <2>2 DEF Ordered
    <3>2. p[run.at].op \in {"access", "reuse", "ask"}
      BY <2>2, <3>1 DEF EntryOrdered
    <3>3. QED
      BY <2>1, <3>2 DEF Guarded, Op
  <2>3. ASSUME run.at + 1 <= Len(p)
        PROVE  p[run.at + 1].op # "translate"
    <3>1. EntryOrdered(p, analysis, run.at + 1) /\ (run.at + 1) - 1 = run.at
      BY <1>1, <1>2, <2>3 DEF Ordered
    <3>2. QED
      BY <3>1 DEF EntryOrdered, Op
  <2>4. AtEnd' \/ run.at + 1 <= Len(p)
    BY <1>1, <1>3
  <2>5. RevocationBites'
    BY <2>1 DEF RevocationBites
  <2>6. QED
    BY <1>1, <1>3, <2>1, <2>2, <2>3, <2>4, <2>5 DEF AccessIsFresh, Op
<1>5. QED
  BY <1>4

(* A step of the run past an entry that records nothing.                   *)
LEMMA MovesOn ==
  ASSUME RunInv, Working, ~AtEnd, TypeOK', Working',
         run'.at = run.at + 1, run'.made = run.made, run'.buffer = run.buffer,
         run.bad => run'.bad,
         UNCHANGED <<analysis, status, summary, artifacts, authorized, afterRevoke>>,
         Op(run.at) \notin {"record", "start"}, Op(run.at) = "access" => authorized,
         run'.mem \in TERMINAL_STATUSES => status = run'.mem,
         ~Early => run'.mem \in {"running", "failed"},
         run'.saw = "poll" => run'.at \in {2, 3} /\ run'.flagged
  PROVE  RunInv'
<1> PICK p : p = Program[analysis]
  OBVIOUS
<1>1. /\ run.at \in 1..Len(p) /\ Len(p) > 7 /\ Len(p) \in Nat
      /\ EntryOrdered(p, analysis, run.at)
  BY HereIsOrdered DEF RunInv
<1>2. Ordered(p, analysis)
  BY ProgramInOrder DEF RunInv
<1>3. /\ Program[analysis'] = p /\ Own' = Own /\ (AtEnd <=> run.at > Len(p))
      /\ (AtEnd' <=> run.at + 1 > Len(p))
  BY DEF Own, AtEnd
<1>4. CopyIsTrue'
  BY DEF CopyIsTrue, RunInv, Working, Succeeded, TERMINAL_STATUSES
<1>5. BeginsEmpty'
  <2>1. Early' => Early
    BY <1>1 DEF Early, StartOf
  <2>2. ~Early' => ~Early
    <3>1. StartOf(analysis) \in Nat /\ run.at # StartOf(analysis)
      BY <1>1 DEF EntryOrdered, Op, StartOf
    <3>2. QED
      BY <1>1, <3>1 DEF Early
  <2>3. QED
    BY <1>3, <2>1, <2>2 DEF BeginsEmpty, RunInv, Working
<1>6. CountIsTrue'
  BY <1>3 DEF CountIsTrue, SummaryIsTrue, RunInv, Working
<1>7. WholeOrNothing'
  BY <1>1, <1>3 DEF WholeOrNothing, RunInv, Working
<1>8. PassedAreStored'
  <2> SUFFICES ASSUME ~run'.bad, NEW j \in 1..Len(p), j < run.at + 1, p[j].op = "record"
               PROVE  artifacts[p[j].item] # "none" \/ p[j].item \in run.buffer
    BY <1>3 DEF PassedAreStored, Op
  <2>1. j < run.at
    BY <1>1 DEF Op
  <2>2. QED
    BY <2>1 DEF RunInv, PassedAreStored, Op
<1>9. AccessIsFresh'
  BY FreshOneOn
<1>10. SucceededIsComplete'
  BY DEF RunInv, SucceededIsComplete, Derived
<1>11. QED
  BY <1>4, <1>5, <1>6, <1>7, <1>8, <1>9, <1>10 DEF RunInv

(* A run that stops keeps what it has flushed, if it may.                  *)
LEMMA Leaves ==
  ASSUME RunInv, Working, TypeOK', run'.mode \in {"close", "recover"},
         run'.made = run.made, run'.buffer = run.buffer,
         UNCHANGED <<analysis, status, summary, artifacts, authorized, afterRevoke>>,
         analysis \in OneArtifact /\ run'.mode = "close" => run.buffer = {}
  PROVE  RunInv'
<1>1. Own' = Own /\ ~Working' /\ run'.mode # "done"
  BY DEF Own, Working
<1>2. CopyIsTrue'
  BY <1>1 DEF CopyIsTrue, RunInv, Working, Succeeded, TERMINAL_STATUSES
<1>3. BeginsEmpty'
  BY <1>1 DEF BeginsEmpty, RunInv, Working
<1>4. CountIsTrue'
  BY <1>1 DEF CountIsTrue, SummaryIsTrue, RunInv, Working
<1>5. WholeOrNothing'
  BY <1>1 DEF WholeOrNothing, RunInv
<1>6. PassedAreStored'
  BY <1>1 DEF PassedAreStored
<1>7. AccessIsFresh'
  BY <1>1 DEF AccessIsFresh, RevocationBites, RunInv
<1>8. SucceededIsComplete'
  BY DEF RunInv, SucceededIsComplete, Derived
<1>9. QED
  BY <1>2, <1>3, <1>4, <1>5, <1>6, <1>7, <1>8 DEF RunInv

(* A run that finds its job ended by somebody else leaves it alone.        *)
LEMMA LeavesAlone ==
  ASSUME RunInv, run.mode \in {"work", "recover"}, TypeOK', run'.mode = "done",
         status \in TERMINAL_STATUSES,
         UNCHANGED <<analysis, status, summary, artifacts, authorized, afterRevoke>>
  PROVE  RunInv'
<1>1. Own' = Own /\ ~Working'
  BY DEF Own, Working
<1>2. status \notin Succeeded
  BY DEF RunInv, CopyIsTrue
<1>3. status # "failed" => summary = Own
  BY <1>2 DEF RunInv, BeginsEmpty, Working, Succeeded, TERMINAL_STATUSES
<1>4. CopyIsTrue'
  BY <1>1, <1>2 DEF CopyIsTrue, Succeeded, TERMINAL_STATUSES
<1>5. BeginsEmpty'
  BY <1>1 DEF BeginsEmpty
<1>6. CountIsTrue'
  BY <1>1, <1>3 DEF CountIsTrue, SummaryIsTrue
<1>7. WholeOrNothing'
  BY <1>1 DEF WholeOrNothing, RunInv
<1>8. PassedAreStored'
  BY <1>1 DEF PassedAreStored
<1>9. AccessIsFresh'
  BY <1>1 DEF AccessIsFresh, RevocationBites, RunInv
<1>10. SucceededIsComplete'
  BY DEF RunInv, SucceededIsComplete, Derived
<1>11. QED
  BY <1>4, <1>5, <1>6, <1>7, <1>8, <1>9, <1>10 DEF RunInv

(* The two ways to leave a loop: a semantic pass that is to stop, after    *)
(* which nothing more is an item, and a model call that failed.            *)
LEMMA LeavesLoop ==
  ASSUME RunInv, Working, ~AtEnd, TypeOK', Working',
         run'.at = Len(Program[analysis]) + 1,
         run'.made = run.made, run'.buffer = run.buffer,
         run.bad => run'.bad,
         UNCHANGED <<analysis, status, summary, artifacts, authorized, afterRevoke>>,
         Op(run.at) \in {"peek", "ask"}, Op(run.at) = "ask" => run'.bad,
         run'.mem \in TERMINAL_STATUSES => status = run'.mem,
         ~Early => run'.mem \in {"running", "failed"}, run'.saw # "poll"
  PROVE  RunInv'
<1> PICK p : p = Program[analysis]
  OBVIOUS
<1>1. /\ run.at \in 1..Len(p) /\ Len(p) > 7 /\ Len(p) \in Nat
      /\ EntryOrdered(p, analysis, run.at)
  BY HereIsOrdered DEF RunInv
<1>2. Ordered(p, analysis)
  BY ProgramInOrder DEF RunInv
<1>3. Program[analysis'] = p /\ Own' = Own /\ AtEnd' /\ run'.at = Len(p) + 1
  BY <1>1 DEF Own, AtEnd
<1>4. ~Early /\ ~Early'
  BY <1>1, <1>3 DEF EntryOrdered, Early, StartOf, Op, Unread
<1>5. CopyIsTrue'
  BY DEF CopyIsTrue, RunInv, Working, Succeeded, TERMINAL_STATUSES
<1>6. BeginsEmpty'
  BY <1>3, <1>4 DEF BeginsEmpty, RunInv, Working
<1>7. CountIsTrue'
  BY <1>3 DEF CountIsTrue, SummaryIsTrue, RunInv, Working
<1>8. WholeOrNothing'
  BY <1>1, <1>3 DEF WholeOrNothing, RunInv, Working
<1>9. PassedAreStored'
  <2> SUFFICES ASSUME ~run'.bad, NEW j \in 1..Len(p), p[j].op = "record"
               PROVE  artifacts[p[j].item] # "none" \/ p[j].item \in run.buffer
    BY <1>3 DEF PassedAreStored, Op
  <2>1. InSemanticPass(analysis, run.at)
    BY <1>1 DEF EntryOrdered, Op
  <2>2. ~InSemanticPass(analysis, j)
    BY <1>2 DEF Ordered, EntryOrdered
  <2>3. j < run.at
    <3>1. Len(contradiction_rules) \in Nat
      BY RulesLength
    <3>2. QED
      BY <1>1, <2>1, <2>2, <3>1 DEF InSemanticPass
  <2>4. QED
    BY <2>3 DEF RunInv, PassedAreStored, Op
<1>10. AccessIsFresh'
  BY <1>1, <1>3 DEF AccessIsFresh, RevocationBites, RunInv
<1>11. SucceededIsComplete'
  BY DEF RunInv, SucceededIsComplete, Derived
<1>12. QED
  BY <1>5, <1>6, <1>7, <1>8, <1>9, <1>10, <1>11 DEF RunInv

(* A text that has an artifact already is skipped to its commit.           *)
LEMMA Skips ==
  ASSUME RunInv, Working, ~AtEnd, TypeOK', Working', Op(run.at) = "reuse",
         run' = [run EXCEPT !.reused = TRUE, !.at = @ + 4], artifacts[Its] # "none",
         UNCHANGED <<analysis, status, summary, artifacts, authorized, afterRevoke>>
  PROVE  RunInv'
<1> PICK p : p = Program[analysis]
  OBVIOUS
<1>1. /\ run.at \in 1..Len(p) /\ Len(p) > 7 /\ Len(p) \in Nat
      /\ EntryOrdered(p, analysis, run.at)
  BY HereIsOrdered DEF RunInv
<1>2. /\ run'.at = run.at + 4 /\ run'.mem = run.mem /\ run'.saw = run.saw
      /\ run'.flagged = run.flagged /\ run'.made = run.made /\ run'.buffer = run.buffer
      /\ run'.bad = run.bad
  BY DEF RunInv, TypeOK, RunState
<1>3. Program[analysis'] = p /\ Own' = Own
  BY DEF Own
<1>4. /\ p[run.at + 1].op = "ask" /\ p[run.at + 2] = Step("record", p[run.at].item)
      /\ p[run.at + 3].op = "translate" /\ p[run.at + 4].op = "commit"
      /\ run.at + 4 <= Len(p) /\ analysis = "multilingual"
  BY <1>1 DEF EntryOrdered, Op
<1>5. ~Early /\ ~Early' /\ run.at \notin {2, 3}
  BY <1>1, <1>2, PastStart DEF Early, Unread, RunInv
<1>6. CopyIsTrue'
  BY <1>2, <1>5 DEF CopyIsTrue, RunInv, Working, Succeeded, TERMINAL_STATUSES
<1>7. BeginsEmpty'
  BY <1>2, <1>3, <1>5 DEF BeginsEmpty, RunInv, Working
<1>8. CountIsTrue'
  BY <1>2, <1>3 DEF CountIsTrue, SummaryIsTrue, RunInv, Working
<1>9. WholeOrNothing'
  BY <1>4 DEF WholeOrNothing, OneArtifact
<1>10. PassedAreStored'
  <2> SUFFICES ASSUME ~run.bad, NEW j \in 1..Len(p), j < run.at + 4, p[j].op = "record"
               PROVE  artifacts[p[j].item] # "none" \/ p[j].item \in run.buffer
    BY <1>2, <1>3 DEF PassedAreStored, Op
  <2> DEFINE at == run.at
  <2>0. at \in Int /\ j \in Int /\ j < at + 4
    BY <1>1
  <2> HIDE DEF at
  <2>1. j < at \/ j = at \/ j = at + 1 \/ j = at + 2 \/ j = at + 3
    BY <2>0
  <2> USE DEF at
  <2>2. j < run.at \/ j = run.at + 2
    BY <1>4, <2>1 DEF Op
  <2>3. CASE j < run.at
    BY <2>3 DEF RunInv, PassedAreStored, Op
  <2>4. CASE j = run.at + 2
    BY <1>4, <2>4 DEF Step, Its
  <2>5. QED
    BY <2>2, <2>3, <2>4
<1>11. AccessIsFresh'
  <2>1. afterRevoke = 0
    BY DEF RunInv, AccessIsFresh, Guarded
  <2>2. QED
    BY <2>1 DEF AccessIsFresh, RevocationBites
<1>12. SucceededIsComplete'
  BY DEF RunInv, SucceededIsComplete, Derived
<1>13. QED
  BY <1>6, <1>7, <1>8, <1>9, <1>10, <1>11, <1>12 DEF RunInv

(* What the run records it has flushed; a row that was there is passed by. *)
LEMMA Notes ==
  ASSUME RunInv, Working, ~AtEnd, TypeOK', NEW c \in Content,
         run' = [Noted(run, c) EXCEPT !.at = @ + 1], CountLate,
         Op(run.at) \in {"record", "beside", "translate"},
         Op(run.at) = "record" => c = Its,
         UNCHANGED <<analysis, status, summary, artifacts, authorized>>
  PROVE  RunInv'
<1> PICK p : p = Program[analysis]
  OBVIOUS
<1>1. /\ run.at \in 1..Len(p) /\ Len(p) > 7 /\ Len(p) \in Nat
      /\ EntryOrdered(p, analysis, run.at)
  BY HereIsOrdered DEF RunInv
<1>2. Ordered(p, analysis)
  BY ProgramInOrder DEF RunInv
<1>3. /\ run'.at = run.at + 1 /\ run'.mem = run.mem /\ run'.saw = run.saw
      /\ run'.flagged = run.flagged /\ run'.bad = run.bad /\ run'.mode = run.mode
      /\ artifacts[c] = "none" =>
           run'.buffer = run.buffer \cup {c} /\ run'.made = run.made \cup {c}
      /\ artifacts[c] # "none" => run'.buffer = run.buffer /\ run'.made = run.made
  BY DEF RunInv, TypeOK, RunState, Noted
<1>4. /\ Program[analysis'] = p /\ Own' = Own /\ Working'
      /\ (AtEnd <=> run.at > Len(p)) /\ (AtEnd' <=> run.at + 1 > Len(p))
  BY <1>3 DEF Own, AtEnd, Working
<1>5. ~Early /\ ~Early' /\ run.at \notin {2, 3}
  BY <1>1, <1>3, PastStart DEF Early, Unread, RunInv
<1>6. CopyIsTrue'
  BY <1>3, <1>5 DEF CopyIsTrue, RunInv, Working, Succeeded, TERMINAL_STATUSES
<1>7. BeginsEmpty'
  BY <1>3, <1>4, <1>5 DEF BeginsEmpty, RunInv, Working
<1>8. CountIsTrue'
  <2>1. run.made = Own \cup run.buffer
    BY DEF RunInv, CountIsTrue
  <2>2. run'.made = Own \cup run'.buffer
    BY <1>3, <2>1
  <2>3. QED
    BY <1>3, <1>4, <2>2 DEF CountIsTrue, SummaryIsTrue, Working
<1>9. WholeOrNothing'
  <2>1. analysis \in OneArtifact => AtEnd'
    BY <1>1, <1>4 DEF EntryOrdered, Op, OneArtifact
  <2>2. QED
    BY <1>3, <1>4, <2>1 DEF WholeOrNothing, RunInv, Working
<1>10. PassedAreStored'
  <2> SUFFICES ASSUME ~run.bad, NEW j \in 1..Len(p), j < run.at + 1, p[j].op = "record"
               PROVE  artifacts[p[j].item] # "none" \/ p[j].item \in run'.buffer
    BY <1>3, <1>4 DEF PassedAreStored, Op
  <2>1. CASE j < run.at
    BY <1>3, <2>1 DEF RunInv, PassedAreStored, Op
  <2>2. CASE j = run.at
    BY <1>3, <2>2 DEF Op, Its
  <2>3. QED
    BY <1>1, <2>1, <2>2
<1>11. AccessIsFresh'
  <2>1. /\ authorized => afterRevoke = 0
        /\ run.at <= 6 => afterRevoke = 0
        /\ analysis \in OneArtifact => afterRevoke = 0
        /\ p[run.at].op = "record" => afterRevoke = 0
        /\ p[run.at].op = "translate" => afterRevoke <= 1
        /\ RevocationBites /\ afterRevoke \in Nat
    BY DEF RunInv, AccessIsFresh, Op, Guarded, TypeOK
  <2>2. SemanticPass <=> InSemanticPass(analysis, run.at)
    BY DEF SemanticPass, InSemanticPass
  <2>3. /\ p[run.at].op = "beside" => run.at <= 6 \/ SemanticPass
        /\ p[run.at].op = "translate" => analysis = "multilingual"
        /\ run.at >= 6
    BY <1>1, <2>2 DEF EntryOrdered, Op
  <2>4. RevocationBites'
    BY <2>1, <2>3 DEF RevocationBites, CountLate, Op
  <2>5. ASSUME ~AtEnd', analysis \notin OneArtifact
        PROVE  p[run.at + 1].op \notin Guarded
    <3>1. EntryOrdered(p, analysis, run.at + 1) /\ (run.at + 1) - 1 = run.at
      BY <1>1, <1>2, <1>4, <2>5 DEF Ordered
    <3>2. QED
      BY <2>5, <3>1 DEF EntryOrdered, Op
  <2>6. ASSUME ~AtEnd', p[run.at + 1].op = "translate"
        PROVE  p[run.at].op = "record"
    <3>1. EntryOrdered(p, analysis, run.at + 1) /\ (run.at + 1) - 1 = run.at
      BY <1>1, <1>2, <1>4, <2>6 DEF Ordered
    <3>2. QED
      BY <2>6, <3>1 DEF EntryOrdered
  <2>7. analysis \in OneArtifact => AtEnd'
    BY <1>1, <1>4 DEF EntryOrdered, Op, OneArtifact
  <2>8. authorized => afterRevoke' = 0
    BY <2>1 DEF CountLate
  <2>9. p[run.at].op = "record" => afterRevoke' <= 1
    BY <2>1 DEF CountLate
  <2>10. ~(run'.at <= 6) /\ Program[analysis'] = Program[analysis]
    BY <1>3, <1>4, <2>3, <1>1
  <2>11. /\ ~AtEnd' => Op(run.at)' = p[run.at + 1].op
    BY <1>3, <1>4 DEF Op
  <2>12. QED
    BY <2>4, <2>5, <2>6, <2>7, <2>8, <2>9, <2>10, <2>11 DEF AccessIsFresh
<1>12. SucceededIsComplete'
  BY DEF RunInv, SucceededIsComplete, Derived
<1>13. QED
  BY <1>6, <1>7, <1>8, <1>9, <1>10, <1>11, <1>12 DEF RunInv

LEMMA ItemsAreContent ==
  /\ Item \subseteq Content /\ 1 \in Item
  /\ \A i \in Item : Beside(i) \in Content
BY AnalysisConstants DEF Item, Content, Beside

(* What a commit of the session stores.                                    *)
LEMMA StoredRows ==
  ASSUME TypeOK, Stored
  PROVE  /\ Own' = Own \cup run.buffer
         /\ \A c \in Content :
              artifacts'[c] # "none" <=> artifacts[c] # "none" \/ c \in run.buffer
<1>1. \A c \in Content :
        artifacts'[c] = IF c \in run.buffer THEN "own" ELSE artifacts[c]
  BY DEF Stored
<1>2. run.buffer \in SUBSET Content
  BY DEF TypeOK, RunState
<1>3. QED
  BY <1>1, <1>2 DEF Own

LEMMA FlushedAreStored ==
  ASSUME RunInv, TypeOK', Commit
  PROVE  RunInv'
<1> PICK p : p = Program[analysis]
  OBVIOUS
<1>a. Working /\ ~AtEnd /\ Op(run.at) = "commit"
  BY DEF Commit, Here, Working, Op
<1>1. /\ run.at \in 1..Len(p) /\ Len(p) > 7 /\ Len(p) \in Nat
      /\ EntryOrdered(p, analysis, run.at)
  BY <1>a, HereIsOrdered DEF RunInv
<1>2. /\ run'.at = run.at + 1 /\ run'.mem = run.mem /\ run'.saw = run.saw
      /\ run'.flagged = run.flagged /\ run'.made = run.made /\ run'.buffer = {}
      /\ run'.bad = run.bad /\ run'.mode = run.mode
  BY DEF Commit, Onward, TaskIs, RunInv, TypeOK, RunState
<1>3. /\ Own' = Own \cup run.buffer
      /\ \A c \in Content :
           artifacts'[c] # "none" <=> artifacts[c] # "none" \/ c \in run.buffer
  BY StoredRows DEF RunInv, Commit
<1>4. UNCHANGED <<analysis, status, summary, authorized, afterRevoke>> /\ Working'
  BY <1>a, <1>2 DEF Commit, job, world, Working
<1>5. ~Early /\ ~Early' /\ run.at \notin {2, 3}
  BY <1>a, <1>1, <1>2, <1>4, PastStart DEF Early, Unread, RunInv
<1>6. CopyIsTrue'
  BY <1>2, <1>4, <1>5 DEF CopyIsTrue, RunInv, Working, Succeeded, TERMINAL_STATUSES
<1>7. BeginsEmpty'
  BY <1>2, <1>4, <1>5 DEF BeginsEmpty, RunInv, Working
<1>8. CountIsTrue'
  BY <1>a, <1>2, <1>3, <1>4 DEF CountIsTrue, SummaryIsTrue, RunInv, Working
<1>9. WholeOrNothing'
  BY <1>a, <1>2, <1>3, <1>4 DEF WholeOrNothing, RunInv, Working
<1>10. PassedAreStored'
  <2> SUFFICES ASSUME ~run.bad, NEW j \in 1..Len(p), j < run.at + 1, p[j].op = "record"
               PROVE  artifacts'[p[j].item] # "none"
    BY <1>2, <1>4 DEF PassedAreStored, Op
  <2>1. j < run.at
    BY <1>a, <1>1 DEF Op
  <2>2. artifacts[p[j].item] # "none" \/ p[j].item \in run.buffer
    BY <1>a, <2>1 DEF RunInv, PassedAreStored, Op
  <2>3. p[j].item \in Content
    <3>1. p \in Seq(Entry)
      BY ProgramInOrder DEF Ordered, RunInv
    <3>2. p[j] \in Entry
      BY <3>1, ElementOfSeq
    <3>3. QED
      BY <3>2, ItemsAreContent DEF Entry
  <2>4. QED
    BY <1>3, <2>2, <2>3
<1>11. AccessIsFresh'
  BY <1>a, <1>2, <1>4, FreshOneOn
<1>12. SucceededIsComplete'
  BY <1>a, <1>4 DEF RunInv, CopyIsTrue, SucceededIsComplete, Working, Succeeded
<1>13. QED
  BY <1>6, <1>7, <1>8, <1>9, <1>10, <1>11, <1>12 DEF RunInv

(* The entries of the programs, one by one.                                *)
LEMMA HereWorks ==
  ASSUME NEW op, Here(op)
  PROVE  Working /\ ~AtEnd /\ Op(run.at) = op /\ run.mode = "work"
BY DEF Here, Working, Op

LEMMA RefreshedFields ==
  ASSUME TypeOK
  PROVE  /\ Refreshed.mode = run.mode /\ Refreshed.at = run.at
         /\ Refreshed.mem = status /\ Refreshed.flagged = cancel
         /\ Refreshed.to = run.to /\ Refreshed.buffer = run.buffer
         /\ Refreshed.made = run.made /\ Refreshed.reused = run.reused
         /\ Refreshed.bad = run.bad /\ Refreshed \in RunState
         /\ Refreshed.saw = IF ~cancel /\ ~(status = "running" /\ late) THEN run.saw
                            ELSE IF SemanticPass THEN "semantic" ELSE "poll"
BY DEF TypeOK, RunState, Refreshed

(* The first three entries of every program.                               *)
LEMMA FirstEntries ==
  ASSUME TypeOK, ~AtEnd
  PROVE  /\ run.at = 1 => Op(run.at) = "read"
         /\ run.at = 2 => Op(run.at) = "access"
         /\ run.at = 3 => Op(run.at) = "cancel"
         /\ Op(run.at) = "read" => run.at = 1
         /\ Op(run.at) = "cancel" => run.at = 3
<1>1. Ordered(Program[analysis], analysis)
  BY ProgramInOrder
<1>2. EntryOrdered(Program[analysis], analysis, run.at)
  BY HereIsOrdered
<1>3. QED
  BY <1>1, <1>2 DEF Ordered, EntryOrdered, Op

LEMMA ReadKeeps ==
  ASSUME RunInv, TypeOK', Read
  PROVE  RunInv'
<1>1. Working /\ ~AtEnd /\ Op(run.at) = "read" /\ run.mode = "work"
  BY HereWorks DEF Read
<1>2. run.at = 1 /\ Early /\ status # "running" /\ ~SemanticPass
  <2>1. run.at = 1
    BY <1>1, FirstEntries DEF RunInv
  <2>2. Early
    BY <2>1 DEF Early, StartOf
  <2>3. EntryOrdered(Program[analysis], analysis, run.at)
    BY <1>1, HereIsOrdered DEF RunInv
  <2>4. ~SemanticPass
    BY <1>1, <2>3 DEF EntryOrdered, Op, SemanticPass, InSemanticPass
  <2>5. QED
    BY <1>1, <2>1, <2>2, <2>4 DEF RunInv, BeginsEmpty
<1>3. UNCHANGED <<analysis, status, summary, artifacts, authorized, afterRevoke>>
  BY DEF Read, job, world
<1>4. CASE status = "pending" \/ analysis \in ReadsAnyStatus
  <2>1. run' = [Refreshed EXCEPT !.at = @ + 1]
    BY <1>4 DEF Read, Onward, TaskIs
  <2>2. /\ run'.at = run.at + 1 /\ run'.mem = status /\ run'.flagged = cancel
        /\ run'.made = run.made /\ run'.buffer = run.buffer /\ run'.bad = run.bad
        /\ run'.saw = Refreshed.saw /\ run'.mode = "work"
    BY <1>1, <2>1, RefreshedFields DEF RunInv, RunState
  <2>3. run'.saw = "poll" => run'.at \in {2, 3} /\ run'.flagged
    BY <1>1, <1>2, <2>2, RefreshedFields DEF RunInv, CopyIsTrue
  <2>4. QED
    BY <1>1, <1>2, <1>3, <2>2, <2>3, MovesOn DEF Working
<1>5. CASE ~(status = "pending" \/ analysis \in ReadsAnyStatus)
  <2>1. run' = [Refreshed EXCEPT !.mode = "done", !.buffer = {}]
    BY <1>5 DEF Read, Done, TaskIs
  <2>2. run'.mode = "done"
    BY <2>1, RefreshedFields DEF RunInv, RunState
  <2>3. status \in TERMINAL_STATUSES
    BY <1>2, <1>5 DEF RunInv, TypeOK, ActiveStatuses
  <2>4. QED
    BY <1>1, <1>3, <2>2, <2>3, LeavesAlone
<1>6. QED
  BY <1>4, <1>5

(* What _stop_job and _fail_job leave to do.                               *)
LEMMA StopLeaves ==
  ASSUME RunInv, Working, TypeOK', NEW r \in RunState, NEW to, stop_job(r, to),
         r.made = run.made, r.buffer = run.buffer,
         analysis \in OneArtifact => run.buffer = {},
         UNCHANGED <<analysis, status, summary, artifacts, authorized, afterRevoke>>
  PROVE  RunInv'
<1>1. /\ run'.mode \in {"close", "recover"}
      /\ run'.made = run.made /\ run'.buffer = run.buffer
  BY DEF stop_job, TaskIs, RunState
<1>2. QED
  BY <1>1, Leaves

LEMMA FailLeaves ==
  ASSUME RunInv, Working, TypeOK', fail_job(run),
         analysis \in OneArtifact => run.buffer = {},
         UNCHANGED <<analysis, status, summary, artifacts, authorized, afterRevoke>>
  PROVE  RunInv'
<1>1. run \in RunState /\ run.mode = "work"
  BY DEF RunInv, TypeOK, Working
<1>2. CASE run.mem \in TERMINAL_STATUSES
  <2>1. run'.mode = "done"
    BY <1>1, <1>2 DEF fail_job, Done, TaskIs, RunState
  <2>2. status \in TERMINAL_STATUSES
    BY <1>2 DEF RunInv, CopyIsTrue
  <2>3. QED
    BY <1>1, <2>1, <2>2, LeavesAlone
<1>3. CASE run.mem \notin TERMINAL_STATUSES
  <2>1. run'.mode = "close" /\ run'.made = run.made /\ run'.buffer = run.buffer
    BY <1>1, <1>3 DEF fail_job, TaskIs, RunState
  <2>2. QED
    BY <2>1, Leaves
<1>4. QED
  BY <1>2, <1>3

(* Going on with the copy as it is.                                        *)
LEMMA OnwardKeeps ==
  ASSUME RunInv, Working, ~AtEnd, TypeOK', Onward(run),
         Op(run.at) \notin {"record", "start", "read"},
         Op(run.at) = "access" => authorized, Op(run.at) = "cancel" => ~run.flagged,
         UNCHANGED <<analysis, status, summary, artifacts, authorized, afterRevoke>>
  PROVE  RunInv'
<1>1. run \in RunState /\ run.mode = "work"
  BY DEF RunInv, TypeOK, Working
<1>2. /\ run'.at = run.at + 1 /\ run'.mem = run.mem /\ run'.flagged = run.flagged
      /\ run'.made = run.made /\ run'.buffer = run.buffer /\ run'.bad = run.bad
      /\ run'.saw = run.saw /\ run'.mode = "work"
  BY <1>1 DEF Onward, TaskIs, RunState
<1>3. run.saw = "poll" => run.at = 2 /\ run.flagged
  BY FirstEntries DEF RunInv, CopyIsTrue
<1>4. ~Early => run'.mem \in {"running", "failed"}
  BY <1>2 DEF RunInv, BeginsEmpty
<1>5. run'.mem \in TERMINAL_STATUSES => status = run'.mem
  BY <1>2 DEF RunInv, CopyIsTrue
<1>6. QED
  BY <1>2, <1>3, <1>4, <1>5, MovesOn DEF Working

LEMMA NothingFlushed ==
  ASSUME RunInv, Working, ~AtEnd
  PROVE  analysis \in OneArtifact => run.buffer = {}
BY DEF RunInv, WholeOrNothing

LEMMA ChecksKeep ==
  ASSUME RunInv, TypeOK', Access \/ CancelCheck \/ EvidenceCheck
  PROVE  RunInv'
<1>1. UNCHANGED <<analysis, status, summary, artifacts, authorized, afterRevoke>>
  BY DEF Access, CancelCheck, EvidenceCheck, job, world
<1>2. run \in RunState
  BY DEF RunInv, TypeOK
<1>3. CASE Access
  <2>1. Working /\ ~AtEnd /\ Op(run.at) = "access"
    BY <1>3, HereWorks DEF Access
  <2>2. CASE authorized
    BY <1>1, <1>3, <2>1, <2>2, OnwardKeeps DEF Access
  <2>3. CASE ~authorized
    BY <1>1, <1>3, <2>1, <2>3, NothingFlushed, FailLeaves DEF Access
  <2>4. QED
    BY <2>2, <2>3
<1>4. CASE CancelCheck
  <2>1. Working /\ ~AtEnd /\ Op(run.at) = "cancel"
    BY <1>4, HereWorks DEF CancelCheck
  <2>2. CASE run.flagged
    <3>1. stop_job(run, "canceled")
      BY <1>4, <2>2 DEF CancelCheck
    <3>2. QED
      BY <1>1, <1>2, <2>1, <3>1, NothingFlushed, StopLeaves
  <2>3. CASE ~run.flagged
    BY <1>1, <1>4, <2>1, <2>3, OnwardKeeps DEF CancelCheck
  <2>4. QED
    BY <2>2, <2>3
<1>5. CASE EvidenceCheck
  <2>1. Working /\ ~AtEnd /\ Op(run.at) = "evidence"
    BY <1>5, HereWorks DEF EvidenceCheck
  <2>2. CASE Onward(run)
    BY <1>1, <2>1, <2>2, OnwardKeeps
  <2>3. CASE fail_job(run)
    BY <1>1, <2>1, <2>3, NothingFlushed, FailLeaves
  <2>4. QED
    BY <1>5, <2>2, <2>3 DEF EvidenceCheck
<1>6. QED
  BY <1>3, <1>4, <1>5

(* What the refreshed copy of a started run says.                          *)
LEMMA StartedCopy ==
  ASSUME RunInv, Working, ~AtEnd, Op(run.at) \notin Unread
  PROVE  /\ Refreshed.mem \in {"running", "failed"} /\ run.saw # "poll"
         /\ run.mem \in {"running", "failed"}
         /\ should_stop(Refreshed) = "no" => Refreshed.saw = run.saw
         /\ SemanticPass => Refreshed.saw # "poll"
<1>1. ~Early /\ run.at \notin {2, 3}
  BY PastStart DEF RunInv
<1>2. /\ status \in {"running", "failed"} /\ run.saw # "poll"
      /\ run.mem \in {"running", "failed"}
  BY <1>1 DEF RunInv, BeginsEmpty, CopyIsTrue
<1>3. QED
  BY <1>2, RefreshedFields DEF should_stop, RunInv

LEMMA RefreshedOnward ==
  ASSUME RunInv, Working, ~AtEnd, TypeOK', Op(run.at) \in {"poll", "peek"},
         should_stop(Refreshed) = "no", Onward(Refreshed),
         UNCHANGED <<analysis, status, summary, artifacts, authorized, afterRevoke>>
  PROVE  RunInv'
<1>1. /\ run'.at = run.at + 1 /\ run'.mem = status
      /\ run'.made = run.made /\ run'.buffer = run.buffer /\ run'.bad = run.bad
      /\ run'.saw = Refreshed.saw /\ run'.mode = "work"
  BY RefreshedFields DEF Onward, TaskIs, RunInv, RunState, Working
<1>2. run'.mem \in {"running", "failed"} /\ run'.saw # "poll"
  BY <1>1, StartedCopy, RefreshedFields DEF Unread, RunInv
<1>3. QED
  BY <1>1, <1>2, MovesOn DEF Working

LEMMA QuestionsKeep ==
  ASSUME RunInv, TypeOK', Poll \/ Glance \/ Peek
  PROVE  RunInv'
<1>1. UNCHANGED <<analysis, status, summary, artifacts, authorized, afterRevoke>>
  BY DEF Poll, Glance, Peek, job, world
<1>2. run \in RunState /\ Refreshed \in RunState
  BY RefreshedFields DEF RunInv, TypeOK
<1>3. CASE Poll
  <2>1. Working /\ ~AtEnd /\ Op(run.at) = "poll"
    BY <1>3, HereWorks DEF Poll
  <2>2. CASE should_stop(Refreshed) # "no"
    <3>1. stop_job(Refreshed, StopStatus(Refreshed))
      BY <1>3, <2>2 DEF Poll
    <3>2. Refreshed.made = run.made /\ Refreshed.buffer = run.buffer
      BY RefreshedFields DEF RunInv
    <3>3. QED
      BY <1>1, <1>2, <2>1, <3>1, <3>2, NothingFlushed, StopLeaves
  <2>3. CASE should_stop(Refreshed) = "no"
    BY <1>1, <1>3, <2>1, <2>3, RefreshedOnward DEF Poll
  <2>4. QED
    BY <2>2, <2>3
<1>4. CASE Glance
  <2>1. Working /\ ~AtEnd /\ Op(run.at) = "glance"
    BY <1>4, HereWorks DEF Glance
  <2>2. CASE should_stop(run) # "no"
    <3>1. stop_job(run, StopStatus(run))
      BY <1>4, <2>2 DEF Glance
    <3>2. QED
      BY <1>1, <1>2, <2>1, <3>1, NothingFlushed, StopLeaves
  <2>3. CASE should_stop(run) = "no"
    BY <1>1, <1>4, <2>1, <2>3, OnwardKeeps DEF Glance
  <2>4. QED
    BY <2>2, <2>3
<1>5. CASE Peek
  <2>1. Working /\ ~AtEnd /\ Op(run.at) = "peek"
    BY <1>5, HereWorks DEF Peek
  <2>2. SemanticPass
    <3>1. EntryOrdered(Program[analysis], analysis, run.at)
      BY <2>1, HereIsOrdered DEF RunInv
    <3>2. QED
      BY <2>1, <3>1 DEF EntryOrdered, Op, SemanticPass, InSemanticPass
  <2>3. CASE should_stop(Refreshed) # "no"
    <3>1. run' = [Refreshed EXCEPT !.at = Len(Program[analysis]) + 1]
      BY <1>5, <2>3 DEF Peek, TaskIs
    <3>2. /\ run'.at = Len(Program[analysis]) + 1 /\ run'.mem = status
          /\ run'.made = run.made /\ run'.buffer = run.buffer /\ run'.bad = run.bad
          /\ run'.saw = Refreshed.saw /\ run'.mode = "work"
      BY <2>1, <3>1, RefreshedFields DEF RunInv, RunState, Working
    <3>3. run'.mem \in {"running", "failed"} /\ run'.saw # "poll"
      BY <2>1, <2>2, <3>2, StartedCopy, RefreshedFields DEF Unread, RunInv
    <3>4. QED
      BY <1>1, <2>1, <3>2, <3>3, LeavesLoop DEF Working
  <2>4. CASE should_stop(Refreshed) = "no"
    BY <1>1, <1>5, <2>1, <2>4, RefreshedOnward DEF Peek
  <2>5. QED
    BY <2>3, <2>4
<1>6. QED
  BY <1>3, <1>4, <1>5

(* The transition to running: nothing has been derived yet.                *)
LEMMA StartKeeps ==
  ASSUME RunInv, TypeOK', Start
  PROVE  RunInv'
<1> PICK p : p = Program[analysis]
  OBVIOUS
<1>1. Working /\ ~AtEnd /\ Op(run.at) = "start" /\ run \in RunState
  BY HereWorks DEF Start, RunInv, TypeOK
<1>2. /\ run.at \in 1..Len(p) /\ Len(p) > 7 /\ Len(p) \in Nat
      /\ EntryOrdered(p, analysis, run.at)
  BY <1>1, HereIsOrdered DEF RunInv
<1>3. UNCHANGED <<analysis, summary, artifacts, authorized, afterRevoke>>
  BY DEF Start, world
<1>4. CASE run.mem = "pending"
  <2>1. run' = [[run EXCEPT !.mem = "running"] EXCEPT !.at = @ + 1] /\ status' = "running"
    BY <1>4 DEF Start, Onward, TaskIs
  <2>2. /\ run'.at = run.at + 1 /\ run'.mem = "running" /\ run'.flagged = run.flagged
        /\ run'.made = run.made /\ run'.buffer = run.buffer /\ run'.bad = run.bad
        /\ run'.saw = run.saw /\ run'.mode = "work"
    BY <1>1, <2>1 DEF RunState, Working
  <2>3. Early /\ ~Early' /\ run.at \notin {2, 3}
    <3>1. run.at = StartOf(analysis) /\ StartOf(analysis) \in {4, 5}
      BY <1>1, <1>2 DEF EntryOrdered, Op, StartOf
    <3>2. QED
      BY <1>3, <2>2, <3>1 DEF Early
  <2>4. Own' = Own /\ Own = {} /\ summary = {} /\ run.made = {} /\ run.buffer = {}
    BY <1>1, <1>3, <2>3 DEF Own, RunInv, BeginsEmpty
  <2>5. CopyIsTrue'
    BY <1>1, <2>1, <2>2, <2>3 DEF CopyIsTrue, RunInv, Working, Succeeded, TERMINAL_STATUSES
  <2>6. BeginsEmpty'
    BY <2>1, <2>2, <2>3 DEF BeginsEmpty, Working
  <2>7. CountIsTrue'
    BY <2>2, <2>4 DEF CountIsTrue, SummaryIsTrue, Working
  <2>8. WholeOrNothing'
    BY <2>2, <2>4 DEF WholeOrNothing, Working
  <2>9. PassedAreStored'
    <3> SUFFICES ASSUME ~run.bad, NEW j \in 1..Len(p), j < run.at + 1, p[j].op = "record"
                 PROVE  artifacts[p[j].item] # "none" \/ p[j].item \in run.buffer
      BY <1>3, <2>2 DEF PassedAreStored, Op
    <3>1. j < run.at
      BY <1>1, <1>2 DEF Op
    <3>2. QED
      BY <1>1, <3>1 DEF RunInv, PassedAreStored, Op
  <2>10. AccessIsFresh'
    BY <1>1, <1>3, <2>2, FreshOneOn DEF Working
  <2>11. SucceededIsComplete'
    BY <2>1 DEF SucceededIsComplete
  <2>12. QED
    BY <2>5, <2>6, <2>7, <2>8, <2>9, <2>10, <2>11 DEF RunInv
<1>5. CASE run.mem # "pending"
  <2>1. run' = [run EXCEPT !.mode = "recover"] /\ UNCHANGED status
    BY <1>5 DEF Start, TaskIs
  <2>2. run'.mode = "recover" /\ run'.made = run.made /\ run'.buffer = run.buffer
    BY <1>1, <2>1 DEF RunState
  <2>3. QED
    BY <1>1, <1>3, <2>1, <2>2, Leaves
<1>6. QED
  BY <1>4, <1>5

LEMMA BadOnward ==
  ASSUME RunInv, Working, ~AtEnd, TypeOK', Op(run.at) \in {"translate", "explain"},
         NEW worse \in BOOLEAN, Onward([run EXCEPT !.bad = @ \/ worse]),
         UNCHANGED <<analysis, status, summary, artifacts, authorized, afterRevoke>>
  PROVE  RunInv'
<1>1. run \in RunState
  BY DEF RunInv, TypeOK
<1>2. /\ run'.at = run.at + 1 /\ run'.mem = run.mem
      /\ run'.made = run.made /\ run'.buffer = run.buffer
      /\ run'.saw = run.saw /\ run'.mode = "work"
  BY <1>1 DEF Onward, TaskIs, RunState, Working
<1>3. run'.bad = (run.bad \/ worse)
  BY <1>1 DEF Onward, TaskIs, RunState
<1>4. run.mem \in {"running", "failed"} /\ run.saw # "poll"
  BY StartedCopy DEF Unread
<1>5. run.mem \in TERMINAL_STATUSES => status = run.mem
  BY DEF RunInv, CopyIsTrue
<1>6. run.bad => run'.bad
  BY <1>3
<1>7. QED
  BY <1>2, <1>4, <1>5, <1>6, MovesOn DEF Working

(* The entries that record, ask or explain.                                *)
LEMMA RecordsKeep ==
  ASSUME RunInv, TypeOK', Record \/ RecordBeside \/ Translate
  PROVE  RunInv'
<1>1. UNCHANGED <<analysis, status, summary, artifacts, authorized>>
  BY DEF Record, RecordBeside, Translate, job
<1>2. CASE Record
  <2>1. Working /\ ~AtEnd /\ Op(run.at) = "record"
    BY <1>2, HereWorks DEF Record
  <2>2. Its \in Content
    BY <2>1, HereIsOrdered, ItemsAreContent DEF RunInv
  <2>3. run' = [Noted(run, Its) EXCEPT !.at = @ + 1] /\ CountLate
    BY <1>2 DEF Record, Onward, TaskIs
  <2>4. QED
    BY <1>1, <2>1, <2>2, <2>3, Notes
<1>3. ASSUME Here("beside") \/ Here("translate"), Onward(Noted(run, Beside(Its))), CountLate
      PROVE  RunInv'
  <2>1. Working /\ ~AtEnd /\ Op(run.at) \in {"beside", "translate"}
    BY <1>3, HereWorks
  <2>2. PICK c : c = Beside(Its)
    OBVIOUS
  <2>3. c \in Content
    BY <2>1, <2>2, HereIsOrdered, ItemsAreContent DEF RunInv
  <2>4. run' = [Noted(run, c) EXCEPT !.at = @ + 1]
    BY <1>3, <2>2 DEF Onward, TaskIs
  <2>5. QED
    BY <1>1, <1>3, <2>1, <2>3, <2>4, Notes
<1>4. CASE RecordBeside
  <2>1. Working /\ ~AtEnd /\ Op(run.at) = "beside" /\ Here("beside")
    BY <1>4, HereWorks DEF RecordBeside
  <2>2. CASE Onward(run) /\ UNCHANGED afterRevoke
    BY <1>1, <2>1, <2>2, OnwardKeeps
  <2>3. QED
    BY <1>3, <1>4, <2>1, <2>2 DEF RecordBeside
<1>5. CASE Translate
  <2>1. Working /\ ~AtEnd /\ Op(run.at) = "translate" /\ Here("translate")
    BY <1>5, HereWorks DEF Translate
  <2>2. ASSUME NEW unreadable \in BOOLEAN, UNCHANGED afterRevoke,
               Onward([run EXCEPT !.bad = @ \/ unreadable])
        PROVE  RunInv'
    BY <1>1, <2>1, <2>2, BadOnward
  <2>3. QED
    BY <1>3, <1>5, <2>1, <2>2 DEF Translate
<1>6. QED
  BY <1>2, <1>4, <1>5

LEMMA ModelCallsKeep ==
  ASSUME RunInv, TypeOK', Reuse \/ AskModel \/ Explain
  PROVE  RunInv'
<1>1. UNCHANGED <<analysis, status, summary, artifacts, authorized, afterRevoke>>
  BY DEF Reuse, AskModel, Explain, job, world
<1>2. run \in RunState
  BY DEF RunInv, TypeOK
<1>3. CASE Reuse
  <2>1. Working /\ ~AtEnd /\ Op(run.at) = "reuse"
    BY <1>3, HereWorks DEF Reuse
  <2>2. CASE Onward(run)
    BY <1>1, <2>1, <2>2, OnwardKeeps
  <2>3. CASE /\ artifacts[Its] # "none"
             /\ run' = [run EXCEPT !.reused = TRUE, !.at = @ + 4]
    <3>1. Working'
      BY <1>2, <2>1, <2>3 DEF Working, RunState
    <3>2. QED
      BY <1>1, <2>1, <2>3, <3>1, Skips
  <2>4. QED
    BY <1>3, <2>2, <2>3 DEF Reuse, TaskIs
<1>4. CASE AskModel
  <2>1. Working /\ ~AtEnd /\ Op(run.at) = "ask"
    BY <1>4, HereWorks DEF AskModel
  <2>2. CASE Onward(run)
    BY <1>1, <2>1, <2>2, OnwardKeeps
  <2>3. CASE run' = [run EXCEPT !.bad = TRUE, !.at = Len(Program[analysis]) + 1]
    <3>1. /\ run'.at = Len(Program[analysis]) + 1 /\ run'.mem = run.mem
          /\ run'.made = run.made /\ run'.buffer = run.buffer /\ run'.bad
          /\ run'.saw = run.saw /\ run'.mode = "work"
      BY <1>2, <2>1, <2>3 DEF RunState, Working
    <3>2. run.mem \in {"running", "failed"} /\ run.saw # "poll"
      BY <2>1, StartedCopy DEF Unread
    <3>3. run.mem \in TERMINAL_STATUSES => status = run.mem
      BY <2>1 DEF RunInv, CopyIsTrue
    <3>4. QED
      BY <1>1, <2>1, <3>1, <3>2, <3>3, LeavesLoop DEF Working
  <2>4. QED
    BY <1>4, <2>2, <2>3 DEF AskModel, TaskIs
<1>5. CASE Explain
  <2>1. Working /\ ~AtEnd /\ Op(run.at) = "explain"
    BY <1>5, HereWorks DEF Explain
  <2>2. PICK unusable \in BOOLEAN : Onward([run EXCEPT !.bad = @ \/ unusable])
    BY <1>5 DEF Explain
  <2>3. QED
    BY <1>1, <2>1, <2>2, BadOnward
<1>6. QED
  BY <1>3, <1>4, <1>5

(* The end of the program: fruitless, overtaken, or stored as it says.     *)
LEMMA FinishKeeps ==
  ASSUME RunInv, TypeOK', Finish
  PROVE  RunInv'
<1> PICK p : p = Program[analysis]
  OBVIOUS
<1>1. Working /\ AtEnd /\ run \in RunState /\ run.mode = "work"
  BY DEF Finish, Working, RunInv, TypeOK
<1>2. /\ Ordered(p, analysis) /\ Len(p) \in Nat /\ Len(p) > 7
      /\ run.at > Len(p) /\ run.at \in Nat
  BY <1>1, ProgramInOrder, LenProperties DEF RunInv, Ordered, AtEnd, RunState
<1>3. UNCHANGED <<analysis, authorized, afterRevoke>>
  BY DEF Finish, world
<1>4. CASE run.bad /\ Fruitless
  <2>1. fail_job(run) /\ UNCHANGED <<status, summary, artifacts>>
    BY <1>4 DEF Finish, job
  <2>2. analysis \in OneArtifact => run.buffer = {}
    BY <1>1, <1>4 DEF Fruitless, OneArtifact, RunInv, CountIsTrue
  <2>3. QED
    BY <1>1, <1>3, <2>1, <2>2, FailLeaves
<1>5. CASE ~(run.bad /\ Fruitless) /\ run.mem # "running"
  <2>1. run' = [run EXCEPT !.mode = "recover"] /\ UNCHANGED <<status, summary, artifacts>>
    BY <1>5 DEF Finish, TaskIs, job
  <2>2. run'.mode = "recover" /\ run'.made = run.made /\ run'.buffer = run.buffer
    BY <1>1, <2>1 DEF RunState
  <2>3. QED
    BY <1>1, <1>3, <2>1, <2>2, Leaves
<1>6. CASE ~(run.bad /\ Fruitless) /\ run.mem = "running"
  <2>1. /\ status' = FinalStatus /\ summary' = run.made /\ Stored
        /\ run' = [run EXCEPT !.mode = "done", !.buffer = {}]
    BY <1>6 DEF Finish, Done, TaskIs
  <2>2. run'.mode = "done" /\ run'.saw = run.saw /\ ~Working'
    BY <1>1, <2>1 DEF RunState, Working
  <2>3. run.saw # "poll"
    BY <1>1, <1>2 DEF RunInv, CopyIsTrue
  <2>4. /\ Own' = Own \cup run.buffer
        /\ \A c \in Content :
             artifacts'[c] # "none" <=> artifacts[c] # "none" \/ c \in run.buffer
    BY <2>1, StoredRows DEF RunInv
  <2>5. CopyIsTrue'
    BY <2>1, <2>2, <2>3 DEF CopyIsTrue, FinalStatus, Succeeded, TERMINAL_STATUSES
  <2>6. BeginsEmpty'
    BY <2>2 DEF BeginsEmpty
  <2>7. CountIsTrue'
    BY <1>1, <2>1, <2>2, <2>4 DEF CountIsTrue, SummaryIsTrue, RunInv
  <2>8. WholeOrNothing'
    BY <2>1, <2>2 DEF WholeOrNothing, FinalStatus, Succeeded
  <2>9. PassedAreStored'
    BY <2>2 DEF PassedAreStored
  <2>10. AccessIsFresh'
    BY <1>3, <2>2 DEF AccessIsFresh, RevocationBites, RunInv
  <2>11. SucceededIsComplete'
    <3> SUFFICES ASSUME ~run.bad, NEW c \in Derived
                 PROVE  artifacts'[c] # "none"
      BY <1>3, <2>1 DEF SucceededIsComplete, FinalStatus, Derived
    <3>1. c \in DerivedBy(analysis)
      BY DEF Derived, DerivedBy
    <3>2. PICK j \in 1..Len(p) : p[j] = Step("record", c)
      BY <1>2, <3>1 DEF Ordered
    <3>3. j < run.at /\ p[j].op = "record" /\ p[j].item = c
      BY <1>2, <3>2 DEF Step
    <3>4. artifacts[c] # "none" \/ c \in run.buffer
      BY <1>1, <3>3 DEF RunInv, PassedAreStored, Op
    <3>5. c \in Content
      BY ItemsAreContent DEF Derived
    <3>6. QED
      BY <2>4, <3>4, <3>5
  <2>12. QED
    BY <2>5, <2>6, <2>7, <2>8, <2>9, <2>10, <2>11 DEF RunInv
<1>7. QED
  BY <1>4, <1>5, <1>6

LEMMA CloseKeeps ==
  ASSUME RunInv, TypeOK', Close
  PROVE  RunInv'
<1>1. run \in RunState /\ run.mode = "close" /\ ~Working
  BY DEF Close, RunInv, TypeOK, Working
<1>2. /\ run'.mode = "done" /\ ~Working'
      /\ status' = run.to /\ run.to \in {"failed", "canceled"} /\ summary' = run.made
  BY <1>1 DEF Close, Done, TaskIs, RunState, Working
<1>3. UNCHANGED <<analysis, authorized, afterRevoke>>
  BY DEF Close, world
<1>4. Own' = Own \cup run.buffer
  BY StoredRows DEF RunInv, Close
<1>5. CopyIsTrue'
  BY <1>2 DEF CopyIsTrue, Succeeded, TERMINAL_STATUSES
<1>6. BeginsEmpty'
  BY <1>2 DEF BeginsEmpty
<1>7. CountIsTrue'
  BY <1>1, <1>2, <1>4 DEF CountIsTrue, SummaryIsTrue, RunInv
<1>8. WholeOrNothing'
  <2>1. status \notin Succeeded
    BY <1>1 DEF RunInv, CopyIsTrue
  <2>2. QED
    BY <1>1, <1>2, <1>3, <1>4, <2>1 DEF WholeOrNothing, RunInv
<1>9. PassedAreStored'
  BY <1>2 DEF PassedAreStored
<1>10. AccessIsFresh'
  BY <1>2, <1>3 DEF AccessIsFresh, RevocationBites, RunInv
<1>11. SucceededIsComplete'
  BY <1>2 DEF SucceededIsComplete
<1>12. QED
  BY <1>5, <1>6, <1>7, <1>8, <1>9, <1>10, <1>11 DEF RunInv

(* An exception rolls back what was flushed; the counts stay behind.       *)
LEMMA RecoveryKeeps ==
  ASSUME RunInv, TypeOK', Crash \/ Recover
  PROVE  RunInv'
<1>1. UNCHANGED <<analysis, status, summary, artifacts, authorized, afterRevoke>>
  BY DEF Crash, Recover, job, world
<1>2. run \in RunState
  BY DEF RunInv, TypeOK
<1>3. CASE Crash
  <2>1. Working /\ run'.mode = "recover" /\ run'.made = run.made /\ run'.buffer = run.buffer
    BY <1>2, <1>3 DEF Crash, TaskIs, RunState, Working
  <2>2. QED
    BY <1>1, <2>1, Leaves
<1>4. CASE Recover
  <2>1. run.mode = "recover"
    BY <1>4 DEF Recover
  <2>2. CASE status \in TERMINAL_STATUSES
    <3>1. run'.mode = "done"
      BY <1>2, <1>4, <2>2 DEF Recover, fail_job, Done, TaskIs, RunState
    <3>2. QED
      BY <1>1, <2>1, <2>2, <3>1, LeavesAlone
  <2>3. CASE status \notin TERMINAL_STATUSES
    <3>1. run'.mode = "close" /\ run'.to = "failed" /\ run'.buffer = {} /\ ~Working'
      BY <1>2, <1>4, <2>3 DEF Recover, fail_job, TaskIs, RunState, Working
    <3>2. CopyIsTrue'
      BY <1>1, <2>3, <3>1 DEF CopyIsTrue, RunInv, Succeeded, TERMINAL_STATUSES
    <3>3. BeginsEmpty'
      BY <3>1 DEF BeginsEmpty
    <3>4. CountIsTrue'
      BY <3>1 DEF CountIsTrue, SummaryIsTrue
    <3>5. WholeOrNothing'
      BY <1>1, <3>1 DEF WholeOrNothing, RunInv, Own
    <3>6. PassedAreStored'
      BY <3>1 DEF PassedAreStored
    <3>7. AccessIsFresh'
      BY <1>1, <3>1 DEF AccessIsFresh, RevocationBites, RunInv
    <3>8. SucceededIsComplete'
      BY <1>1 DEF RunInv, SucceededIsComplete, Derived
    <3>9. QED
      BY <3>2, <3>3, <3>4, <3>5, <3>6, <3>7, <3>8 DEF RunInv
  <2>4. QED
    BY <2>2, <2>3
<1>5. QED
  BY <1>3, <1>4

(* The rest of the process takes nothing back that the run relies on.      *)
LEMMA OutsideKeeps ==
  ASSUME RunInv, TypeOK',
         UNCHANGED <<analysis, status, summary, artifacts, run, authorized, afterRevoke>>
  PROVE  RunInv'
<1>1. Own' = Own /\ (AtEnd' <=> AtEnd) /\ (Working' <=> Working) /\ (Early' <=> Early)
  BY DEF Own, AtEnd, Working, Early
<1>2. \A j : Op(j)' = Op(j)
  BY DEF Op
<1>3. CopyIsTrue' /\ BeginsEmpty' /\ CountIsTrue' /\ WholeOrNothing'
  BY <1>1 DEF CopyIsTrue, BeginsEmpty, CountIsTrue, SummaryIsTrue, WholeOrNothing, RunInv
<1>4. PassedAreStored' /\ AccessIsFresh' /\ SucceededIsComplete'
  BY <1>1, <1>2 DEF PassedAreStored, AccessIsFresh, RevocationBites, SucceededIsComplete,
                    Derived, RunInv, Op
<1>5. QED
  BY <1>3, <1>4 DEF RunInv

LEMMA ClearStaleKeeps ==
  ASSUME RunInv, TypeOK', ClearStale
  PROVE  RunInv'
<1>1. UNCHANGED <<analysis, summary, artifacts, run, authorized, afterRevoke>>
  BY DEF ClearStale
<1>2. /\ status \in {"pending", "running"} /\ status' \in {"failed", "canceled"}
      /\ status = "running" => status' = "failed"
  BY DEF ClearStale, ActiveStatuses
<1>3. Own' = Own /\ (AtEnd' <=> AtEnd) /\ (Working' <=> Working) /\ (Early' <=> Early)
  BY <1>1 DEF Own, AtEnd, Working, Early
<1>4. \A j : Op(j)' = Op(j)
  BY <1>1 DEF Op
<1>5. CopyIsTrue'
  BY <1>1, <1>2, <1>3 DEF CopyIsTrue, RunInv, Succeeded, TERMINAL_STATUSES
<1>6. run.mode # "done"
  BY <1>2 DEF RunInv, CopyIsTrue, TERMINAL_STATUSES
<1>7. BeginsEmpty'
  BY <1>1, <1>2, <1>3 DEF BeginsEmpty, RunInv
<1>8. CountIsTrue'
  BY <1>1, <1>3, <1>6 DEF CountIsTrue, SummaryIsTrue, RunInv
<1>9. WholeOrNothing'
  BY <1>1, <1>2, <1>3 DEF WholeOrNothing, RunInv, Succeeded
<1>10. PassedAreStored' /\ AccessIsFresh'
  BY <1>1, <1>3, <1>4 DEF PassedAreStored, AccessIsFresh, RevocationBites, RunInv, Op
<1>11. SucceededIsComplete'
  BY <1>2 DEF SucceededIsComplete
<1>12. QED
  BY <1>5, <1>7, <1>8, <1>9, <1>10, <1>11 DEF RunInv

LEMMA ChangeAccessKeeps ==
  ASSUME RunInv, TypeOK', ChangeAccess
  PROVE  RunInv'
<1>1. UNCHANGED <<analysis, status, summary, artifacts, run>> /\ afterRevoke' = 0
  BY DEF ChangeAccess, job
<1>2. Own' = Own /\ (AtEnd' <=> AtEnd) /\ (Working' <=> Working) /\ (Early' <=> Early)
  BY <1>1 DEF Own, AtEnd, Working, Early
<1>3. \A j : Op(j)' = Op(j)
  BY <1>1 DEF Op
<1>4. CopyIsTrue' /\ BeginsEmpty' /\ CountIsTrue' /\ WholeOrNothing'
  BY <1>1, <1>2
  DEF CopyIsTrue, BeginsEmpty, CountIsTrue, SummaryIsTrue, WholeOrNothing, RunInv
<1>5. PassedAreStored' /\ SucceededIsComplete'
  BY <1>1, <1>2, <1>3 DEF PassedAreStored, SucceededIsComplete, Derived, RunInv, Op
<1>6. AccessIsFresh'
  BY <1>1 DEF AccessIsFresh, RevocationBites
<1>7. QED
  BY <1>4, <1>5, <1>6 DEF RunInv

LEMMA OtherRecordsKeeps ==
  ASSUME RunInv, TypeOK', NEW c \in Content, OtherRecords(c)
  PROVE  RunInv'
<1>1. UNCHANGED <<analysis, status, summary, run, authorized, afterRevoke>>
  BY DEF OtherRecords, job
<1>2. \A d \in Content :
        artifacts'[d] = IF d = c THEN "earlier" ELSE artifacts[d]
  BY DEF OtherRecords, RunInv, TypeOK
<1>3. /\ Own' = Own
      /\ \A d \in Content : artifacts[d] # "none" => artifacts'[d] # "none"
  BY <1>2 DEF Own, OtherRecords
<1>4. (AtEnd' <=> AtEnd) /\ (Working' <=> Working) /\ (Early' <=> Early)
  BY <1>1 DEF AtEnd, Working, Early
<1>5. \A j : Op(j)' = Op(j)
  BY <1>1 DEF Op
<1>6. CopyIsTrue' /\ BeginsEmpty' /\ CountIsTrue' /\ WholeOrNothing'
  BY <1>1, <1>3, <1>4
  DEF CopyIsTrue, BeginsEmpty, CountIsTrue, SummaryIsTrue, WholeOrNothing, RunInv
<1>7. AccessIsFresh'
  BY <1>1, <1>4, <1>5 DEF AccessIsFresh, RevocationBites, RunInv
<1>8. SucceededIsComplete'
  BY <1>1, <1>3, ItemsAreContent DEF SucceededIsComplete, Derived, RunInv
<1>9. PassedAreStored'
  <2> PICK p : p = Program[analysis]
    OBVIOUS
  <2> SUFFICES ASSUME Working, ~run.bad,
                      NEW j \in 1..Len(p), j < run.at, p[j].op = "record"
               PROVE  artifacts'[p[j].item] # "none" \/ p[j].item \in run.buffer
    BY <1>1, <1>4 DEF PassedAreStored, Op
  <2>1. artifacts[p[j].item] # "none" \/ p[j].item \in run.buffer
    BY DEF RunInv, PassedAreStored, Op
  <2>2. p \in Seq(Entry)
    BY ProgramInOrder DEF Ordered, RunInv
  <2>3. p[j].item \in Content
    <3>1. p[j] \in Entry
      BY <2>2, ElementOfSeq
    <3>2. QED
      BY <3>1, ItemsAreContent DEF Entry
  <2>4. QED
    BY <1>3, <2>1, <2>3
<1>10. QED
  BY <1>6, <1>7, <1>8, <1>9 DEF RunInv

LEMMA LoseTaskKeeps ==
  ASSUME RunInv, TypeOK', LoseTask
  PROVE  RunInv'
<1>1. UNCHANGED <<analysis, status, summary, artifacts, authorized, afterRevoke>>
  BY DEF LoseTask, job
<1>2. run'.mode = "lost" /\ ~Working' /\ run.mode # "done" /\ run'.buffer = {}
  BY DEF LoseTask, TaskIs, RunInv, TypeOK, RunState, Working
<1>3. CopyIsTrue'
  BY <1>1, <1>2 DEF CopyIsTrue, RunInv
<1>4. BeginsEmpty' /\ CountIsTrue' /\ PassedAreStored'
  BY <1>2 DEF BeginsEmpty, CountIsTrue, SummaryIsTrue, PassedAreStored
<1>5. WholeOrNothing'
  BY <1>1, <1>2 DEF WholeOrNothing, RunInv, Own
<1>6. AccessIsFresh' /\ SucceededIsComplete'
  BY <1>1, <1>2
  DEF AccessIsFresh, RevocationBites, SucceededIsComplete, Derived, RunInv
<1>7. QED
  BY <1>3, <1>4, <1>5, <1>6 DEF RunInv

(* Types.                                                                  *)
LEMMA TaskTypes ==
  ASSUME NEW r \in RunState
  PROVE  /\ [r EXCEPT !.at = @ + 1] \in RunState
         /\ [r EXCEPT !.mode = "done", !.buffer = {}] \in RunState
         /\ [r EXCEPT !.mode = "recover"] \in RunState
         /\ \A to \in {"failed", "canceled"} :
              [r EXCEPT !.mode = "close", !.to = to] \in RunState
         /\ [r EXCEPT !.mem = "running"] \in RunState
         /\ [r EXCEPT !.buffer = {}] \in RunState
         /\ \A n \in Nat : [r EXCEPT !.at = n + 1] \in RunState
         /\ \A n \in Nat : [r EXCEPT !.bad = TRUE, !.at = n + 1] \in RunState
         /\ [r EXCEPT !.reused = TRUE, !.at = @ + 4] \in RunState
         /\ [r EXCEPT !.mode = "lost", !.buffer = {}] \in RunState
         /\ \A c \in Content :
              [r EXCEPT !.buffer = @ \cup {c}, !.made = @ \cup {c}] \in RunState
<1> USE DEF RunState, Mode, ActiveStatuses, TERMINAL_STATUSES
<1>1. [r EXCEPT !.at = @ + 1] \in RunState /\ [r EXCEPT !.mode = "recover"] \in RunState
  OBVIOUS
<1>2. \A to \in {"failed", "canceled"} :
        [r EXCEPT !.mode = "close", !.to = to] \in RunState
  OBVIOUS
<1>3. /\ [r EXCEPT !.mode = "done", !.buffer = {}] \in RunState
      /\ [r EXCEPT !.mem = "running"] \in RunState
      /\ [r EXCEPT !.buffer = {}] \in RunState
      /\ [r EXCEPT !.mode = "lost", !.buffer = {}] \in RunState
  OBVIOUS
<1>4. \A q \in RunState : \A n \in Nat :
        [q EXCEPT !.at = n + 1] \in RunState /\ [q EXCEPT !.at = @ + 4] \in RunState
  OBVIOUS
<1>5. \A n \in Nat : [r EXCEPT !.bad = TRUE, !.at = n + 1] \in RunState
  <2>1. [r EXCEPT !.bad = TRUE] \in RunState
    OBVIOUS
  <2>2. \A n \in Nat : [[r EXCEPT !.bad = TRUE] EXCEPT !.at = n + 1] \in RunState
    BY <1>4, <2>1
  <2>3. QED
    BY <2>2
<1>6. [r EXCEPT !.reused = TRUE, !.at = @ + 4] \in RunState
  <2>1. [r EXCEPT !.reused = TRUE] \in RunState
    OBVIOUS
  <2>2. PICK q \in RunState : q = [r EXCEPT !.reused = TRUE]
    BY <2>1
  <2>3. [q EXCEPT !.at = @ + 4] \in RunState
    BY <1>4
  <2>4. QED
    BY <2>2, <2>3
<1>7. \A c \in Content :
        [r EXCEPT !.buffer = @ \cup {c}, !.made = @ \cup {c}] \in RunState
  OBVIOUS
<1>8. \A n \in Nat : [r EXCEPT !.at = n + 1] \in RunState
  BY <1>4
<1> HIDE DEF RunState
<1>9. QED
  BY <1>1, <1>2, <1>3, <1>5, <1>6, <1>7, <1>8

LEMMA ControlTypes ==
  ASSUME NEW r \in RunState
  PROVE  /\ Onward(r) => run' \in RunState
         /\ Done(r) => run' \in RunState
         /\ fail_job(r) => run' \in RunState
         /\ \A to \in {"failed", "canceled"} : stop_job(r, to) => run' \in RunState
BY TaskTypes DEF Onward, Done, fail_job, stop_job, TaskIs

LEMMA TaskStays ==
  ASSUME TypeOK, Runner
  PROVE  run' \in RunState
<1>1. run \in RunState /\ Refreshed \in RunState
  BY RefreshedFields DEF TypeOK
<1>2. CASE Read \/ Access \/ CancelCheck \/ EvidenceCheck
  BY <1>1, <1>2, ControlTypes DEF Read, Access, CancelCheck, EvidenceCheck
<1>3. CASE Start
  <2>1. [run EXCEPT !.mem = "running"] \in RunState
    BY <1>1, TaskTypes
  <2>2. QED
    BY <1>1, <1>3, <2>1, TaskTypes, ControlTypes DEF Start, TaskIs
<1>4. CASE Poll \/ Glance
  <2>1. \A r : StopStatus(r) \in {"failed", "canceled"}
    BY DEF StopStatus
  <2>2. QED
    BY <1>1, <1>4, <2>1, ControlTypes DEF Poll, Glance
<1>5. CASE Peek
  <2>1. ~AtEnd
    BY <1>5 DEF Peek, Here
  <2>2. Len(Program[analysis]) \in Nat
    BY <2>1, HereIsOrdered
  <2>3. QED
    BY <1>1, <1>5, <2>2, TaskTypes, ControlTypes DEF Peek, TaskIs
<1>6. CASE Record \/ RecordBeside \/ Translate
  <2>1. ~AtEnd
    BY <1>6 DEF Record, RecordBeside, Translate, Here
  <2>2. Its \in Content /\ Beside(Its) \in Content
    BY <2>1, HereIsOrdered, ItemsAreContent
  <2>3. \A c \in Content : Noted(run, c) \in RunState
    BY <1>1, TaskTypes DEF Noted
  <2>4. \A more \in BOOLEAN : [run EXCEPT !.bad = @ \/ more] \in RunState
    BY <1>1 DEF RunState
  <2>5. CASE Record
    BY <2>2, <2>3, <2>5, ControlTypes DEF Record
  <2>6. CASE RecordBeside
    BY <1>1, <2>2, <2>3, <2>6, ControlTypes DEF RecordBeside
  <2>7. CASE Translate
    BY <1>1, <2>2, <2>3, <2>4, <2>7, ControlTypes DEF Translate
  <2>8. QED
    BY <1>6, <2>5, <2>6, <2>7
<1>7. CASE Reuse \/ AskModel
  <2>1. ~AtEnd
    BY <1>7 DEF Reuse, AskModel, Here
  <2>2. Len(Program[analysis]) \in Nat
    BY <2>1, HereIsOrdered
  <2>3. QED
    BY <1>1, <1>7, <2>2, TaskTypes, ControlTypes DEF Reuse, AskModel, TaskIs
<1>8. CASE Explain
  <2>1. \A more \in BOOLEAN : [run EXCEPT !.bad = @ \/ more] \in RunState
    BY <1>1 DEF RunState
  <2>2. QED
    BY <1>8, <2>1, ControlTypes DEF Explain
<1>9. CASE Commit
  <2>1. [run EXCEPT !.buffer = {}] \in RunState
    BY <1>1, TaskTypes
  <2>2. QED
    BY <1>9, <2>1, ControlTypes DEF Commit
<1>10. CASE Finish \/ Close \/ Crash
  BY <1>1, <1>10, TaskTypes, ControlTypes DEF Finish, Close, Crash, TaskIs
<1>11. CASE Recover
  <2>1. [run EXCEPT !.mem = status, !.buffer = {}] \in RunState
    BY <1>1 DEF RunState, TypeOK
  <2>2. QED
    BY <1>11, <2>1, ControlTypes DEF Recover
<1>12. QED
  BY <1>2, <1>3, <1>4, <1>5, <1>6, <1>7, <1>8, <1>9, <1>10, <1>11 DEF Runner

LEMMA TypesHold ==
  ASSUME TypeOK, [Next]_vars
  PROVE  TypeOK'
<1>1. run' \in RunState
  <2>1. CASE Runner
    BY <2>1, TaskStays
  <2>2. CASE LoseTask
    BY <2>2, TaskTypes DEF LoseTask, TaskIs, TypeOK
  <2>3. CASE UNCHANGED run
    BY <2>3 DEF TypeOK
  <2>4. QED
    BY <2>1, <2>2, <2>3 DEF Next, Environment, vars, RequestCancel, Expire, ClearStale,
       ChangeAccess, ChangeEvidence, OtherRecords
<1>2. UNCHANGED analysis
  BY DEF Next, Runner, Environment, vars, Read, Access, CancelCheck, EvidenceCheck, Start,
     Poll, Glance, Peek, Record, RecordBeside, Reuse, AskModel, Translate, Explain, Commit,
     Finish, Close, Crash, Recover, RequestCancel, Expire, ClearStale, ChangeAccess,
     ChangeEvidence, OtherRecords, LoseTask
<1>3. /\ status' \in ActiveStatuses \cup TERMINAL_STATUSES
      /\ summary' \in SUBSET Content
  <2>1. CASE Start \/ Finish \/ Close
    BY <2>1 DEF Start, Finish, FinalStatus, Close, job, TypeOK, RunState, ActiveStatuses,
       TERMINAL_STATUSES
  <2>2. CASE ClearStale
    BY <2>2 DEF ClearStale, TypeOK, TERMINAL_STATUSES
  <2>3. CASE UNCHANGED <<status, summary>>
    BY <2>3 DEF TypeOK
  <2>4. QED
    BY <2>1, <2>2, <2>3 DEF Next, Runner, Environment, vars, job, Read, Access, CancelCheck,
       EvidenceCheck, Poll, Glance, Peek, Record, RecordBeside, Reuse, AskModel, Translate,
       Explain, Commit, Crash, Recover, RequestCancel, Expire, ChangeAccess,
       ChangeEvidence, OtherRecords, LoseTask
<1>4. cancel' \in BOOLEAN /\ late' \in BOOLEAN
  <2>1. cancel \in BOOLEAN /\ late \in BOOLEAN
    BY DEF TypeOK
  <2>2. CASE Start
    BY <2>1, <2>2 DEF Start
  <2>3. CASE Finish \/ Close
    BY <2>1, <2>3 DEF Finish, Close, job
  <2>4. CASE RequestCancel \/ Expire \/ ClearStale
    BY <2>1, <2>4 DEF RequestCancel, Expire, ClearStale
  <2>5. CASE UNCHANGED <<cancel, late>>
    BY <2>1, <2>5
  <2>6. QED
    BY <2>2, <2>3, <2>4, <2>5 DEF Next, Runner, Environment, vars, job, Read, Access,
       CancelCheck, EvidenceCheck, Poll, Glance, Peek, Record, RecordBeside, Reuse,
       AskModel, Translate, Explain, Commit, Crash, Recover, ChangeAccess, ChangeEvidence,
       OtherRecords, LoseTask
<1>5. artifacts' \in [Content -> {"none", "earlier", "own"}]
  <2>1. CASE Stored
    BY <2>1 DEF Stored, TypeOK
  <2>2. ASSUME NEW c \in Content, OtherRecords(c)
        PROVE  artifacts' \in [Content -> {"none", "earlier", "own"}]
    BY <2>2 DEF OtherRecords, TypeOK
  <2>3. CASE UNCHANGED artifacts
    BY <2>3 DEF TypeOK
  <2>4. QED
    BY <2>1, <2>2, <2>3 DEF Next, Runner, Environment, vars, Read, Access, CancelCheck,
       EvidenceCheck, Start, Poll, Glance, Peek, Record, RecordBeside, Reuse, AskModel,
       Translate, Explain, Commit, Finish, Close, Crash, Recover, RequestCancel, Expire,
       ClearStale, ChangeAccess, ChangeEvidence, LoseTask
<1>6. /\ authorized' \in BOOLEAN /\ available' \in BOOLEAN /\ afterRevoke' \in Nat
      /\ disturbances' \in 0..MaxDisturbances
  <2>1. /\ authorized \in BOOLEAN /\ available \in BOOLEAN /\ afterRevoke \in Nat
        /\ disturbances \in 0..MaxDisturbances
    BY DEF TypeOK
  <2>2. CASE UNCHANGED world
    BY <2>1, <2>2 DEF world
  <2>3. CASE /\ CountLate \/ UNCHANGED afterRevoke
             /\ UNCHANGED <<authorized, available, disturbances>>
    BY <2>1, <2>3 DEF CountLate
  <2>4. CASE /\ Disturb
             /\ UNCHANGED <<authorized, available, afterRevoke>>
    BY <2>1, <2>4, AnalysisConstants DEF Disturb
  <2>5. CASE ChangeAccess
    <3>1. authorized' \in BOOLEAN /\ available' \in BOOLEAN
      BY <2>1, <2>5 DEF ChangeAccess
    <3>2. afterRevoke' \in Nat /\ disturbances' \in 0..MaxDisturbances
      BY <2>1, <2>5, AnalysisConstants DEF ChangeAccess, Disturb
    <3>3. QED
      BY <3>1, <3>2
  <2>6. CASE ChangeEvidence
    <3>1. authorized' \in BOOLEAN /\ available' \in BOOLEAN /\ afterRevoke' \in Nat
      BY <2>1, <2>6 DEF ChangeEvidence
    <3>2. disturbances' \in 0..MaxDisturbances
      BY <2>1, <2>6, AnalysisConstants DEF ChangeEvidence, Disturb
    <3>3. QED
      BY <3>1, <3>2
  <2>7. CASE Runner
    BY <2>2, <2>3, <2>7 DEF Runner, world, Read, Access, CancelCheck, EvidenceCheck,
       Start, Poll, Glance, Peek, Record, RecordBeside, Reuse, AskModel, Translate, Explain,
       Commit, Finish, Close, Crash, Recover
  <2>8. CASE Environment
    BY <2>4, <2>5, <2>6, <2>8 DEF Environment, RequestCancel, Expire, ClearStale,
       OtherRecords, LoseTask
  <2>9. CASE UNCHANGED vars
    BY <2>2, <2>9 DEF vars
  <2>10. QED
    BY <2>7, <2>8, <2>9 DEF Next
<1>7. QED
  BY <1>1, <1>2, <1>3, <1>4, <1>5, <1>6 DEF TypeOK

LEMMA RunBegins == Init => RunInv
<1> SUFFICES ASSUME Init
             PROVE  RunInv
  OBVIOUS
<1>1. TypeOK
  <2>1. run \in RunState
    BY DEF Init, RunState, Mode, ActiveStatuses
  <2>2. artifacts \in [Content -> {"none", "earlier", "own"}]
    BY DEF Init
  <2>3. /\ cancel \in BOOLEAN /\ late \in BOOLEAN
        /\ authorized \in BOOLEAN /\ available \in BOOLEAN
    BY DEF Init
  <2>4. disturbances \in 0..MaxDisturbances /\ afterRevoke \in Nat
    BY AnalysisConstants DEF Init
  <2>5. QED
    BY <2>1, <2>2, <2>3, <2>4 DEF Init, TypeOK, ActiveStatuses
<1>2. /\ run.mode = "work" /\ run.at = 1 /\ run.mem = "pending" /\ run.saw = "nothing"
      /\ run.buffer = {} /\ run.made = {} /\ status = "pending" /\ summary = {}
      /\ afterRevoke = 0
  BY DEF Init
<1>3. Own = {}
  BY DEF Init, Own
<1>4. Early
  BY <1>2 DEF Early, StartOf
<1>5. CopyIsTrue /\ BeginsEmpty /\ CountIsTrue
  BY <1>2, <1>3, <1>4 DEF CopyIsTrue, BeginsEmpty, CountIsTrue, SummaryIsTrue, Working,
     Succeeded, TERMINAL_STATUSES
<1>6. WholeOrNothing /\ AccessIsFresh /\ SucceededIsComplete
  BY <1>2, <1>3 DEF WholeOrNothing, AccessIsFresh, RevocationBites, SucceededIsComplete
<1>7. PassedAreStored
  BY <1>2, ProgramInOrder, <1>1, LenProperties DEF PassedAreStored, Ordered
<1>8. QED
  BY <1>1, <1>5, <1>6, <1>7 DEF RunInv

LEMMA RunGoesOn ==
  ASSUME RunInv, [Next]_vars
  PROVE  RunInv'
<1>1. TypeOK'
  BY TypesHold DEF RunInv
<1>2. CASE Runner
  BY <1>1, <1>2, ReadKeeps, ChecksKeep, StartKeeps, QuestionsKeep, RecordsKeep,
     ModelCallsKeep, FlushedAreStored, FinishKeeps, CloseKeeps, RecoveryKeeps DEF Runner
<1>3. CASE RequestCancel \/ Expire \/ ChangeEvidence
  BY <1>1, <1>3, OutsideKeeps DEF RequestCancel, Expire, ChangeEvidence, job
<1>4. CASE ClearStale \/ ChangeAccess \/ LoseTask
  BY <1>1, <1>4, ClearStaleKeeps, ChangeAccessKeeps, LoseTaskKeeps
<1>5. ASSUME NEW c \in Content, OtherRecords(c)
      PROVE  RunInv'
  BY <1>1, <1>5, OtherRecordsKeeps
<1>6. CASE UNCHANGED vars
  BY <1>1, <1>6, OutsideKeeps DEF vars, job, world
<1>7. QED
  BY <1>2, <1>3, <1>4, <1>5, <1>6 DEF Next, Environment

LEMMA RunInvariant == Spec => []RunInv
<1>1. RunInv /\ [Next]_vars => RunInv'
  BY RunGoesOn
<1>2. QED
  BY RunBegins, <1>1, PTL DEF Spec

(* A run of any of the nine analyses, with any number of items and however *)
(* often it is disturbed, keeps its types: in particular its copy of the   *)
(* row has a status of the column, and what it counts as created is among  *)
(* the contents it could have recorded.                                    *)
THEOREM RunTypes == Spec => []TypeOK
BY RunInvariant, PTL DEF RunInv

(* Once the actor has lost access to the case a run writes no more than    *)
(* what it had in hand: every record of an item comes straight after a     *)
(* check of access, or is the one record of its run.                       *)
THEOREM RevocationStopsTheRun == Spec => []RevocationBites
<1>1. RunInv => RevocationBites
  BY DEF RunInv, AccessIsFresh
<1>2. QED
  BY <1>1, RunInvariant, PTL

(* What a job reports of its run is true, whatever the order in which the  *)
(* nine runners poll, flush and commit: a run told to stop never reports   *)
(* success, "succeeded" means that all of its results are stored, a run    *)
(* of a single artifact that fails leaves none, and the summary counts     *)
(* the rows that were stored.                                              *)
THEOREM ReportsAreTrue == Spec => []OutcomeIsTrue
<1>1. RunInv => StoppedNeverSucceeds
  BY DEF RunInv, CopyIsTrue, StoppedNeverSucceeds
<1>2. RunInv => NothingHalfDone
  BY DEF RunInv, WholeOrNothing, NothingHalfDone, Succeeded
<1>3. RunInv => SucceededIsComplete /\ SummaryIsTrue
  BY DEF RunInv, CountIsTrue
<1>4. RunInv => OutcomeIsTrue
  BY <1>1, <1>2, <1>3 DEF OutcomeIsTrue
<1>5. QED
  BY <1>4, RunInvariant, PTL

=============================================================================

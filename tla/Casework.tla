------------------------------- MODULE Casework -------------------------------
(***************************************************************************)
(* The records an investigator works on: findings and the analytics runs   *)
(* that produce them, collections, hypotheses, reports, and timeline       *)
(* proposals and contradiction candidates after their review.  Each route  *)
(* loads a row, tests it, and writes it back in one transaction; nothing   *)
(* locks the row in between.  A behaviour works on one topic, which keeps  *)
(* TLC from multiplying records that share no state.                       *)
(***************************************************************************)
EXTENDS Integers, Sequences, FiniteSets

CONSTANTS
  Client,       \* requests in flight together
  Admin,        \* the clients whose user is an administrator
  Topics,       \* the topics to consider
  Alone,        \* the topics whose requests are assumed not to overlap
  Outputs,      \* what the analytics pipeline may compute: sets of findings
  MaxRequests   \* bound on the number of requests

ASSUME CaseworkConstants ==
  /\ Topics \cup Alone
       \subseteq {"findings", "collection", "hypothesis", "report", "proposal", "candidate"}
  /\ Admin \subseteq Client /\ MaxRequests \in Nat
  /\ \A out \in Outputs : IsFiniteSet(out) /\ \A f \in out : {"title", "value"} = DOMAIN f

VARIABLES
  topic,
  req,    \* the requests: position, operation, argument, the row as loaded
  asked,  \* how many requests have begun
  db      \* committed rows, and the report objects in the store

caseworkVars == <<topic, req, asked, db>>

Idle == [pc |-> "idle", op |-> "none", arg |-> 0, seen |-> 0]

NoRecords ==
  [found |-> <<>>, runs |-> <<>>, results |-> {},
   col |-> [name |-> 0, status |-> "draft"],
   hyp |-> [status |-> "proposed", pro |-> {}, con |-> {}, weight |-> 0],
   reports |-> {}, objects |-> {}, events |-> 0,
   cand |-> [status |-> "pending_review", states |-> <<>>]]

CaseworkInit ==
  /\ topic \in Topics
  /\ req = [c \in Client |-> Idle] /\ asked = 0 /\ db = NoRecords

-----------------------------------------------------------------------------
(* A request loads what it decides on, and later writes and commits.       *)

Loads(c, of, op, arg, seen) ==
  /\ topic = of /\ req[c].pc = "idle" /\ asked < MaxRequests
  /\ topic \in Alone => \A d \in Client : req[d].pc = "idle"
  /\ asked' = asked + 1
  /\ req' = [req EXCEPT ![c] = [pc |-> "loaded", op |-> op, arg |-> arg, seen |-> seen]]
  /\ UNCHANGED <<topic, db>>

At(c, op, pc) == req[c].op = op /\ req[c].pc = pc
Ends(c) == req' = [req EXCEPT ![c] = Idle] /\ UNCHANGED <<topic, asked>>
Advances(c, pc) == req' = [req EXCEPT ![c].pc = pc] /\ UNCHANGED <<topic, asked>>

-----------------------------------------------------------------------------
(* Findings.                                                               *)

FINDING_TRANSITIONS ==
  [NEW |-> {"REVIEWED", "DISMISSED", "CONFIRMED"},
   REVIEWED |-> {"DISMISSED", "CONFIRMED"}, DISMISSED |-> {}, CONFIRMED |-> {}]
transition_allowed(current, target, is_admin) ==
  current = target \/ target \in FINDING_TRANSITIONS[current] \/ is_admin

update_finding_status(c) ==
  \E i \in DOMAIN db.found, to \in DOMAIN FINDING_TRANSITIONS \ {"NEW"} :
    /\ to # db.found[i].status
    /\ Loads(c, "findings", "triage", <<i, to>>, db.found[i].status)

apply_status_change(c) ==
  /\ At(c, "triage", "loaded")
  /\ LET i == req[c].arg[1]  to == req[c].arg[2]
     IN IF transition_allowed(req[c].seen, to, c \in Admin)
        THEN db' = [db EXCEPT !.found[i].status = to]
        ELSE UNCHANGED db
  /\ Ends(c)

(* A run is one transaction: its row, its results, its findings.           *)
run_analytics(c) ==
  \E out \in Outputs : Loads(c, "findings", "analyze", out, <<>>)

Titles == {db.found[i].title : i \in DOMAIN db.found}

SaveResults(c) ==
  /\ At(c, "analyze", "loaded") /\ UNCHANGED db /\ Advances(c, "saved")

(* Only titles no run of the case has produced are inserted.               *)
Orders(out) == {new \in [1..Cardinality(out) -> out] : {new[k] : k \in DOMAIN new} = out}
save_findings(c) ==
  /\ At(c, "analyze", "saved") /\ UNCHANGED <<db, topic, asked>>
  /\ \E new \in Orders({f \in req[c].arg : f.title \notin Titles}) :
       req' = [req EXCEPT ![c].pc = "inserted", ![c].seen = new]

NextRun == Len(db.runs) + 1
CommitRun(c, status, saved, new) ==
  db' = [db EXCEPT !.runs = Append(@, [status |-> status, out |-> req[c].arg]),
                   !.results = IF saved THEN @ \cup {NextRun} ELSE @,
                   !.found = @ \o [k \in DOMAIN new |->
                      [title |-> new[k].title, value |-> new[k].value,
                       status |-> "NEW", run |-> NextRun]]]

update_run(c) ==
  /\ At(c, "analyze", "inserted")
  /\ CommitRun(c, "completed", TRUE, req[c].seen) /\ Ends(c)

(* An exception outside the database leaves the transaction usable: the    *)
(* row becomes failed, and commits with whatever was flushed before.       *)
RunFails_completes(c) ==
  /\ req[c].op = "analyze" /\ req[c].pc \in {"loaded", "saved"}
  /\ CommitRun(c, "completed", req[c].pc # "loaded", <<>>) /\ Ends(c)
RunFails(c) ==
  /\ req[c].op = "analyze" /\ req[c].pc \in {"loaded", "saved"}
  /\ CommitRun(c, "failed", req[c].pc # "loaded", <<>>) /\ Ends(c)

-----------------------------------------------------------------------------
(* Collections.                                                            *)

LoadCollection(c) ==
  \E op \in {"rename", "seal", "delete"} :
    db.col.status # "gone" /\ Loads(c, "collection", op, asked, db.col.status)

update_collection(c) ==
  /\ At(c, "rename", "loaded")
  /\ IF req[c].seen = "sealed" \/ db.col.status = "gone" THEN UNCHANGED db
     ELSE db' = [db EXCEPT !.col.name = req[c].arg]
  /\ Ends(c)

seal_collection(c) ==
  /\ At(c, "seal", "loaded")
  /\ IF db.col.status = "gone" THEN UNCHANGED db
     ELSE db' = [db EXCEPT !.col.status = "sealed"]
  /\ Ends(c)

delete_collection(c) ==
  /\ At(c, "delete", "loaded") /\ db' = [db EXCEPT !.col.status = "gone"] /\ Ends(c)

-----------------------------------------------------------------------------
(* Hypotheses.                                                             *)

_VALID_TRANSITIONS ==
  [proposed |-> {"under_review", "dismissed"},
   under_review |-> {"supported", "contradicted", "dismissed"},
   supported |-> {"concluded", "contradicted"},
   contradicted |-> {"under_review", "dismissed"},
   dismissed |-> {"proposed"}, concluded |-> {"proposed"}, gone |-> {}]

LoadHypothesis(c) ==
  /\ db.hyp.status # "gone"
  /\ \/ \E to \in DOMAIN _VALID_TRANSITIONS \ {"gone"} :
          Loads(c, "hypothesis", "move", to, db.hyp)
     \/ \E side \in {"pro", "con"} : Loads(c, "hypothesis", "link", side, db.hyp)
     \/ Loads(c, "hypothesis", "drop", 0, db.hyp)

transition_hypothesis_status(c) ==
  /\ At(c, "move", "loaded")
  /\ IF req[c].arg \in _VALID_TRANSITIONS[req[c].seen.status] /\ db.hyp.status # "gone"
     THEN db' = [db EXCEPT !.hyp.status = req[c].arg] ELSE UNCHANGED db
  /\ Ends(c)

(* The list is appended to in place.  The UPDATE names the columns whose   *)
(* value differs from the one loaded: a list that was empty was replaced   *)
(* by a new one and is written, a longer one is the object that was loaded *)
(* and is not; the weight counts it either way.                            *)
link_evidence_to_hypothesis(c) ==
  /\ At(c, "link", "loaded")
  /\ LET seen == req[c].seen  side == req[c].arg
         weight == Cardinality(seen.pro) - Cardinality(seen.con)
                     + (IF side = "pro" THEN 1 ELSE -1)
         hyp == [db.hyp EXCEPT ![side] = IF seen[side] = {} THEN {asked} ELSE @,
                               !.weight = IF weight # seen.weight THEN weight ELSE @]
     IN IF db.hyp.status = "gone" THEN UNCHANGED db ELSE db' = [db EXCEPT !.hyp = hyp]
  /\ Ends(c)

delete_hypothesis(c) ==
  /\ At(c, "drop", "loaded") /\ db' = [db EXCEPT !.hyp.status = "gone"] /\ Ends(c)

-----------------------------------------------------------------------------
(* Reports: the row, then the object, then the commit.                     *)

generate_report(c) == Loads(c, "report", "report", asked + 1, "generating")

BuildAndPut(c) ==
  /\ At(c, "report", "loaded") /\ UNCHANGED <<topic, asked>>
  /\ \E status \in {"ready", "failed"} :
       /\ req' = [req EXCEPT ![c].pc = "put", ![c].seen = status]
       /\ db' = IF status = "failed" THEN db
                ELSE [db EXCEPT !.objects = @ \cup {req[c].arg}]

CommitReport(c) ==
  /\ At(c, "report", "put")
  /\ db' = [db EXCEPT !.reports = @ \cup {[id |-> req[c].arg, status |-> req[c].seen]}]
  /\ Ends(c)

-----------------------------------------------------------------------------
(* An approved timeline proposal, and the states of a contradiction.       *)

commit_timeline_proposal(c) == Loads(c, "proposal", "commit", 0, db.events)

RecordEvent_again(c) ==
  /\ At(c, "commit", "loaded") /\ Ends(c) /\ db' = [db EXCEPT !.events = @ + 1]
RecordEvent(c) ==
  /\ At(c, "commit", "loaded") /\ Ends(c)
  /\ db' = IF req[c].seen > 0 THEN db ELSE [db EXCEPT !.events = @ + 1]

LoadCandidate(c) ==
  \/ \E state \in {"explained", "requires_evidence", "deferred"} :
       Loads(c, "candidate", "resolve", state, db.cand.status)
  \/ \E status \in {"approved", "rejected"} :
       Loads(c, "candidate", "decide", status, db.cand.status)

resolve_contradiction(c) ==
  /\ At(c, "resolve", "loaded") /\ Ends(c)
  /\ db' = IF req[c].seen # "pending_review" THEN db
           ELSE [db EXCEPT !.cand.states = Append(@, req[c].arg)]

ReviewCandidate(c) ==
  /\ At(c, "decide", "loaded") /\ Ends(c)
  /\ db' = IF req[c].seen # "pending_review" THEN db
           ELSE [db EXCEPT !.cand.status = req[c].arg]

-----------------------------------------------------------------------------

(* The connection is lost or the process dies: the transaction is gone,    *)
(* an object that was put stays.  The client may simply ask again.         *)
Dies(c) == req[c].pc # "idle" /\ Ends(c) /\ UNCHANGED db

CaseworkNext ==
  \E c \in Client :
    \/ update_finding_status(c) \/ apply_status_change(c)
    \/ run_analytics(c) \/ SaveResults(c) \/ save_findings(c) \/ update_run(c)
    \/ RunFails(c)
    \/ LoadCollection(c) \/ update_collection(c) \/ seal_collection(c)
    \/ delete_collection(c)
    \/ LoadHypothesis(c) \/ transition_hypothesis_status(c)
    \/ link_evidence_to_hypothesis(c) \/ delete_hypothesis(c)
    \/ generate_report(c) \/ BuildAndPut(c) \/ CommitReport(c)
    \/ commit_timeline_proposal(c) \/ RecordEvent(c)
    \/ LoadCandidate(c) \/ resolve_contradiction(c) \/ ReviewCandidate(c)
    \/ Dies(c)

CaseworkSpec == CaseworkInit /\ [][CaseworkNext]_caseworkVars

-----------------------------------------------------------------------------

(* A run that reads completed (findings.py:707) has its results stored,    *)
(* and everything it found is among the findings of the case, whichever    *)
(* other runs and reviewers work on them meanwhile.                        *)
CompletedRunIsWhole ==
  \A r \in DOMAIN db.runs :
    db.runs[r].status = "completed"
      => r \in db.results /\ \A f \in db.runs[r].out : f.title \in Titles

(* A report that reads ready (reporting.py:556) can be downloaded, through *)
(* store failures and requests that die between the store and the commit.  *)
ReadyIsReadable ==
  \A r \in db.reports : r.status = "ready" => r.id \in db.objects

(* "Commit is idempotent" (timeline_reconstruction.py:972): a proposal     *)
(* makes one event however often the commit dies or is asked again, as     *)
(* long as the requests come one after the other.                          *)
CommittedOnce == topic \in Alone => db.events <= 1

(* A status that promises something is kept only by what was stored.       *)
StatusIsEarned == CompletedRunIsWhole /\ ReadyIsReadable
=============================================================================

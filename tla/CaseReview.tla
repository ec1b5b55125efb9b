----------------------------- MODULE CaseReview -----------------------------
(***************************************************************************)
(* Human review of ONE case: decisions on derived artifacts (with edits),  *)
(* on resolution matches, and merges of entities, made by concurrent       *)
(* sessions over the rows of PostgreSQL, and the refresh of the graph      *)
(* projection after the commit.  One ingestion adds mentions meanwhile.    *)
(*                                                                         *)
(* A session reads its rows, decides on these copies, and writes and       *)
(* commits later.  Row locks keep the writes of one transaction together,  *)
(* so writing and committing are one action; nothing protects the time     *)
(* between reading and writing.                                            *)
(***************************************************************************)
EXTENDS Integers, FiniteSets

CONSTANTS
  Value,       \* canonical values; an entity is named by its value
  Known,       \* the entities that exist from the start
  Proposal,    \* entity_resolution artifacts: pairs of entities
  Extraction,  \* extraction artifacts, told apart by their content hash
  Link,        \* cross_case_link artifacts
  Mention,     \* mentions still to be ingested
  Rel,         \* relationship rows
  Reviewer,    \* sessions of the review and merge routes
  Nobody,
  Serial       \* do reviewers keep off what a colleague is working on?

ASSUME ReviewConstants ==
  /\ Known \subseteq Value
  /\ Nobody \notin Value \cup Proposal \cup Extraction \cup Link \cup Mention
  /\ Proposal \subseteq {p \in Known \X Known : p[1] # p[2]}
  /\ Proposal \cap (Extraction \cup Link) = {} /\ Extraction \cap Link = {}
  /\ (Value \cup Mention) \cap (Proposal \X {1, 2}) = {}
  /\ Serial \in BOOLEAN

VARIABLES
  entity,     \* rows of entities: status and merged_into_id
  alias,      \* rows of entity_aliases
  rel,        \* rows of relationships: source and target
  cand,       \* rows of entity_candidates
  match,      \* rows of entity_matches
  doc,        \* status of each derived artifact
  successor,  \* the edited artifact a superseded one names in its note
  reviewed,   \* reviewed_cross_case_link children
  graph,      \* the Entity nodes of Neo4j
  req,        \* the reviewers' requests
  ing         \* the running ingestion

rows == <<entity, alias, rel, cand, match, doc, successor, reviewed>>
vars == <<rows, graph, req, ing>>

-----------------------------------------------------------------------------

Artifact == Proposal \cup Extraction \cup Link
Someone == Value \cup {Nobody}
EntityRow == [ status : {"none", "active", "merged"}, into : Someone ]

(* An alias row is named by what inserted it: the entity's creation, the   *)
(* approval of a proposal (one row per side), or the ingestion of a        *)
(* mention.  Merges change the owner of a row, never its value.            *)
AliasRow == Value \cup (Proposal \X {1, 2}) \cup Mention
AliasOf == [ owner : Someone, value : Someone ]
NoAlias == [ owner |-> Nobody, value |-> Nobody ]
NewAlias(e, v) == [ owner |-> e, value |-> v ]
HasAlias(e, v) == \E r \in AliasRow : alias[r] = NewAlias(e, v)

Candidate == [ status : {"none", "review", "auto_match", "no_match"}, entity : Someone ]
Match == [ status : {"none", "review", "active", "rejected"}, target : Someone ]
ArtifactStatus == {"none", "pending_review", "approved", "rejected", "superseded"}

Node == [ status : {"none", "active", "merged"}, aliases : SUBSET Value ]

(* A request: the operation, its subject (an artifact, a mention's match   *)
(* or the pair of a merge), the decision, the copies it took.              *)
Idle == [ pc |-> "idle", op |-> "none", on |-> Nobody, decision |-> "none",
          to |-> Nobody, seen |-> "none", copy |-> {}, ends |-> {} ]
Busy(s) == req[s].pc \notin {"idle", "error"}

Quiet == [ pc |-> "idle", mention |-> Nobody, value |-> Nobody, outcome |-> "none",
           target |-> Nobody, snapshot |-> [v \in Value |-> [status |-> "none", aliases |-> {}]] ]

Init ==
  /\ entity = [v \in Value |-> [ status |-> IF v \in Known THEN "active" ELSE "none",
                                 into |-> Nobody ]]
  /\ alias = [r \in AliasRow |-> IF r \in Known THEN NewAlias(r, r) ELSE NoAlias]
  /\ rel \in [Rel -> {e \in Known \X Known : e[1] # e[2]}]
  /\ \A r, q \in Rel : rel[r] = rel[q] => r = q
  /\ cand = [m \in Mention |-> [status |-> "none", entity |-> Nobody]]
  /\ match = [m \in Mention |-> [status |-> "none", target |-> Nobody]]
  /\ doc \in [Artifact -> {"none", "pending_review"}]
  /\ \A x \in Artifact : doc[x] = "none" => x \in Extraction
  /\ successor = [x \in Extraction |-> Nobody]
  /\ reviewed = {}
  /\ graph = [v \in Value |-> IF v \in Known
                              THEN [status |-> "active", aliases |-> {v}]
                              ELSE [status |-> "none", aliases |-> {}]]
  /\ req = [s \in Reviewer |-> Idle]
  /\ ing = Quiet

SetReq(s, r) == req' = [req EXCEPT ![s] = r]

(* What a request works on.  Under Serial nobody starts on the subject of  *)
(* a colleague's request before that request is answered.                  *)
Subject(r) ==
  {r.on, r.to} \cup (IF r.op \in {"merge", "approve_match"} THEN {r.on[1], r.on[2]} ELSE {})
Undisturbed(s, r) ==
  Serial => \A t \in Reviewer \ {s} :
              Busy(t) => Subject(req[t]) \cap Subject(r) \subseteq {Nobody}

Start(s, r) ==
  /\ ~Busy(s)
  /\ Undisturbed(s, r)
  /\ SetReq(s, r)
  /\ UNCHANGED <<rows, graph, ing>>

(* A database error rolls the transaction back; the answer is a 500.       *)
Error(s) ==
  /\ SetReq(s, [Idle EXCEPT !.pc = "error", !.op = req[s].op])
  /\ UNCHANGED rows

-----------------------------------------------------------------------------
(* review_evidence_artifact.  Anything but pending_review is answered 409. *)

(* The decision on the artifact as it is; an approval of a proposal checks *)
(* that both entities are there and unmerged, and lists the missing        *)
(* aliases (copy).                                                         *)
Alias(p, side) == IF side = 1 THEN NewAlias(p[1], p[2]) ELSE NewAlias(p[2], p[1])
apply_approved_match(p) ==
  {side \in {1, 2} : \A r \in AliasRow : alias[r] # Alias(p, side)}
ReviewRead_unchecked(s, x, decision) ==
  /\ doc[x] # "none"
  /\ Start(s, [Idle EXCEPT !.pc = "read", !.op = IF x \in Proposal THEN "approve_match" ELSE "review",
                           !.on = x, !.decision = decision])
ReviewRead(s, x, decision) ==
  /\ doc[x] = "pending_review"
  /\ IF x \in Proposal /\ decision = "approved"
     THEN /\ \A e \in {x[1], x[2]} : entity[e].status = "active"
          /\ Start(s, [Idle EXCEPT !.pc = "read", !.op = "approve_match", !.on = x,
                                   !.decision = decision, !.copy = apply_approved_match(x)])
     ELSE Start(s, [Idle EXCEPT !.pc = "read", !.op = "review", !.on = x,
                                !.decision = decision])

(* An approval with an edited payload: record_artifact looks for an        *)
(* artifact of the same content, and keeps a copy of its status (seen).    *)
EditRead(s, x, y) ==
  /\ doc[x] = "pending_review"
  /\ Start(s, [Idle EXCEPT !.pc = "read", !.op = "edit", !.on = x, !.to = y,
                           !.decision = "approved", !.seen = doc[y]])

(* review_artifact, the side effects of an approval, and the COMMIT.       *)
ReviewCommit(s) ==
  /\ req[s].pc = "read" /\ req[s].op = "review"
  /\ LET x == req[s].on IN
     /\ doc' = [doc EXCEPT ![x] = req[s].decision]
     /\ reviewed' = IF x \in Link /\ req[s].decision = "approved"
                    THEN reviewed \cup {<<x, s>>} ELSE reviewed
  /\ SetReq(s, Idle)
  /\ UNCHANGED <<entity, alias, rel, cand, match, successor, graph, ing>>

(* The unique key of an alias the running ingestion has inserted.          *)
AliasPending(e, v) ==
  ing.pc # "idle" /\ ing.outcome = "auto_match" /\ ing.target = e /\ ing.value = v

(* The aliases of an approved pair; one that was committed since the check *)
(* violates the unique constraint.                                         *)
ApproveMatchCommit(s) ==
  /\ req[s].pc = "read" /\ req[s].op = "approve_match"
  /\ LET p == req[s].on
         new == req[s].copy
     IN /\ \A side \in new : ~AliasPending(Alias(p, side).owner, Alias(p, side).value)
        /\ IF new \subseteq apply_approved_match(p)
           THEN /\ alias' = [r \in AliasRow |->
                               IF r \in {p} \X new THEN Alias(p, r[2]) ELSE alias[r]]
                /\ doc' = [doc EXCEPT ![p] = req[s].decision]
                /\ SetReq(s, [req[s] EXCEPT !.pc = "committed",
                                !.ends = {<<e, "active">> : e \in {p[1], p[2]}}])
                /\ UNCHANGED <<entity, rel, cand, match, successor, reviewed>>
           ELSE Error(s)
  /\ UNCHANGED <<graph, ing>>

(* An edit: the original is superseded and the edited artifact approved,   *)
(* in one transaction.  An equal artifact that is decided already refuses  *)
(* the edit, and one inserted since the lookup violates the unique key.    *)
EditCommit(s) ==
  /\ req[s].pc = "read" /\ req[s].op = "edit"
  /\ LET x == req[s].on
         y == req[s].to
     IN CASE req[s].seen = "none" /\ doc[y] # "none" -> Error(s)
          [] req[s].seen \notin {"none", "pending_review"} ->
               SetReq(s, Idle) /\ UNCHANGED rows
          [] OTHER ->
               /\ doc' = [doc EXCEPT ![x] = "superseded", ![y] = "approved"]
               /\ successor' = IF x = y THEN successor ELSE [successor EXCEPT ![x] = y]
               /\ SetReq(s, Idle)
               /\ UNCHANGED <<entity, alias, rel, cand, match, reviewed>>
  /\ UNCHANGED <<graph, ing>>

-----------------------------------------------------------------------------
(* accept_match and reject_match: only a match in review is decided.       *)

MatchRead(s, m, op) ==
  /\ match[m].status = "review"
  /\ Start(s, [Idle EXCEPT !.pc = "read", !.op = op, !.on = m])

AcceptCommit_matchOnly(s) ==
  /\ req[s].pc = "read" /\ req[s].op = "accept"
  /\ match' = [match EXCEPT ![req[s].on].status = "active"]
  /\ SetReq(s, Idle)
  /\ UNCHANGED <<entity, alias, rel, cand, doc, successor, reviewed, graph, ing>>
AcceptCommit(s) ==
  /\ req[s].pc = "read" /\ req[s].op = "accept"
  /\ LET m == req[s].on IN
     /\ match' = [match EXCEPT ![m].status = "active"]
     /\ cand' = [cand EXCEPT ![m] = [status |-> "auto_match", entity |-> match[m].target]]
  /\ SetReq(s, Idle)
  /\ UNCHANGED <<entity, alias, rel, doc, successor, reviewed, graph, ing>>

(* The candidate's link is left as it is.                                  *)
RejectCommit(s) ==
  /\ req[s].pc = "read" /\ req[s].op = "reject"
  /\ LET m == req[s].on IN
     /\ match' = [match EXCEPT ![m].status = "rejected"]
     /\ cand' = [cand EXCEPT ![m].status = "no_match"]
  /\ SetReq(s, Idle)
  /\ UNCHANGED <<entity, alias, rel, doc, successor, reviewed, graph, ing>>

-----------------------------------------------------------------------------
(* merge_entities: q is absorbed by the primary p.  Only the primary's     *)
(* status is checked.  The copies: the ids of q's aliases, and the ends of *)
(* relationships that are q.                                               *)

MergeRead_anyPrimary(s, p, q) ==
  /\ p # q /\ entity[p].status # "none" /\ entity[q].status # "none"
  /\ Start(s, [Idle EXCEPT !.pc = "read", !.op = "merge", !.on = <<p, q>>,
                 !.copy = {r \in AliasRow : alias[r].owner = q},
                 !.ends = {n \in Rel \X {1, 2} : rel[n[1]][n[2]] = q}])
MergeRead(s, p, q) ==
  /\ p # q /\ entity[p].status = "active" /\ entity[q].status # "none"
  /\ Start(s, [Idle EXCEPT !.pc = "read", !.op = "merge", !.on = <<p, q>>,
                 !.copy = {r \in AliasRow : alias[r].owner = q},
                 !.ends = {n \in Rel \X {1, 2} : rel[n[1]][n[2]] = q}])

MovedAliases(s) ==
  [r \in AliasRow |-> IF r \in req[s].copy
                      THEN [alias[r] EXCEPT !.owner = req[s].on[1]] ELSE alias[r]]
MovedEnds(s) ==
  [r \in Rel |-> [i \in {1, 2} |-> IF <<r, i>> \in req[s].ends
                                   THEN req[s].on[1] ELSE rel[r][i]]]
Pairs(f) == [r \in Rel |-> <<f[r][1], f[r][2]>>]

(* Two aliases of one entity with one value, or two relationships between  *)
(* the same entities, violate a unique constraint.                         *)
Clash(f, none) == \E r, q \in DOMAIN f : r # q /\ f[r] = f[q] /\ f[r] # none

MergeCommit(s) ==
  /\ req[s].pc = "read" /\ req[s].op = "merge"
  /\ LET p == req[s].on[1]
         q == req[s].on[2]
     IN IF Clash(MovedAliases(s), NoAlias) \/ Clash(Pairs(MovedEnds(s)), Nobody)
        THEN Error(s)
        ELSE /\ alias' = MovedAliases(s)
             /\ rel' = Pairs(MovedEnds(s))
             /\ entity' = [entity EXCEPT ![q] = [status |-> "merged", into |-> p]]
             /\ SetReq(s, [req[s] EXCEPT !.pc = "committed", !.copy = {},
                             !.ends = {<<p, "active">>, <<q, "merged">>}])
             /\ UNCHANGED <<cand, match, doc, successor, reviewed>>
  /\ UNCHANGED <<graph, ing>>

-----------------------------------------------------------------------------
(* sync_entities_by_id, after the COMMIT of a merge or an approved pair.   *)
(* The session keeps its copies of the entity rows (ends: entity, status); *)
(* only the aliases are read again.                                        *)

Names(e) == {alias[r].value : r \in {a \in AliasRow : alias[a].owner = e}}

ProjectRead(s) ==
  /\ req[s].pc = "committed"
  /\ SetReq(s, [req[s] EXCEPT !.pc = "project",
                  !.copy = {<<n[1], n[2], Names(n[1])>> : n \in req[s].ends}])
  /\ UNCHANGED <<rows, graph, ing>>

ProjectWrite(s) ==
  /\ req[s].pc = "project"
  /\ graph' = [e \in Value |->
                 IF \E n \in req[s].copy : n[1] = e
                 THEN LET n == CHOOSE n \in req[s].copy : n[1] = e
                      IN [status |-> n[2], aliases |-> n[3]]
                 ELSE graph[e]]
  /\ SetReq(s, Idle)
  /\ UNCHANGED <<rows, ing>>

(* Neo4j fails: the answer says graph_synced: false.                       *)
ProjectFails(s) ==
  /\ req[s].pc \in {"committed", "project"}
  /\ SetReq(s, Idle)
  /\ UNCHANGED <<rows, graph, ing>>

-----------------------------------------------------------------------------
(* The ingestion of a mention: resolve_candidate, the projection of the    *)
(* whole case, and the COMMIT.  What it inserts is invisible to others     *)
(* until then.                                                             *)

(* An active entity of the mention's own value is an exact match; another  *)
(* active entity is matched, proposed for review, or too far away; then an *)
(* entity is created - unless a row of that value exists, whatever its     *)
(* status, which is returned instead.                                      *)
Outcomes(v) ==
  IF entity[v].status = "active" THEN {<<"auto_match", v>>}
  ELSE {<<"no_match", v>>}
       \cup {"auto_match", "review"} \X {t \in Value : entity[t].status = "active"}

Snapshot(v, o) ==
  [e \in Value |->
     [status |-> IF o = <<"no_match", e>> /\ entity[e].status = "none"
                 THEN "active" ELSE entity[e].status,
      aliases |-> IF o[1] # "review" /\ o[2] = e THEN Names(e) \cup {v} ELSE Names(e)]]

resolve_candidate(m, v) ==
  /\ ing.pc = "idle" /\ cand[m].status = "none"
  /\ \E o \in Outcomes(v) :
       ing' = [ pc |-> "project", mention |-> m, value |-> v, outcome |-> o[1],
                target |-> o[2], snapshot |-> Snapshot(v, o) ]
  /\ UNCHANGED <<rows, graph, req>>

IngestProject ==
  /\ ing.pc = "project"
  /\ graph' = [e \in Value |-> IF ing.snapshot[e].status = "none"
                               THEN graph[e] ELSE ing.snapshot[e]]
  /\ ing' = [ing EXCEPT !.pc = "commit", !.snapshot = Quiet.snapshot]
  /\ UNCHANGED <<rows, req>>

IngestCommit ==
  /\ ing.pc = "commit"
  /\ LET m == ing.mention
         t == ing.target
         v == ing.value
         created == ing.outcome = "no_match" /\ entity[t].status = "none"
     IN /\ entity' = IF created THEN [entity EXCEPT ![t].status = "active"] ELSE entity
        /\ alias' = IF ing.outcome = "review" \/ HasAlias(t, v)
                    THEN alias ELSE [alias EXCEPT ![m] = NewAlias(t, v)]
        /\ cand' = [cand EXCEPT ![m] = [status |-> ing.outcome,
                      entity |-> IF ing.outcome = "review" THEN Nobody ELSE t]]
        /\ match' = CASE ing.outcome = "review" ->
                           [match EXCEPT ![m] = [status |-> "review", target |-> t]]
                      [] ing.outcome = "auto_match" ->
                           [match EXCEPT ![m] = [status |-> "active", target |-> t]]
                      [] OTHER -> match
  /\ ing' = Quiet
  /\ UNCHANGED <<rel, doc, successor, reviewed, graph, req>>

-----------------------------------------------------------------------------

Next ==
  \/ \E s \in Reviewer :
       \/ \E x \in Artifact, d \in {"approved", "rejected"} : ReviewRead(s, x, d)
       \/ \E x, y \in Extraction : EditRead(s, x, y)
       \/ \E m \in Mention, op \in {"accept", "reject"} : MatchRead(s, m, op)
       \/ \E p, q \in Value : MergeRead(s, p, q)
       \/ ReviewCommit(s) \/ ApproveMatchCommit(s) \/ EditCommit(s)
       \/ AcceptCommit(s) \/ RejectCommit(s) \/ MergeCommit(s)
       \/ ProjectRead(s) \/ ProjectWrite(s) \/ ProjectFails(s)
  \/ \E m \in Mention, v \in Value : resolve_candidate(m, v)
  \/ IngestProject \/ IngestCommit

Spec == Init /\ [][Next]_vars

-----------------------------------------------------------------------------

TypeOK ==
  /\ entity \in [Value -> EntityRow]
  /\ alias \in [AliasRow -> AliasOf]
  /\ rel \in [Rel -> Value \X Value]
  /\ cand \in [Mention -> Candidate]
  /\ match \in [Mention -> Match]
  /\ doc \in [Artifact -> ArtifactStatus]
  /\ successor \in [Extraction -> Extraction \cup {Nobody}]
  /\ reviewed \subseteq Link \X Reviewer
  /\ graph \in [Value -> Node]
  /\ \A s \in Reviewer : req[s].pc \in {"idle", "error", "read", "committed", "project"}
  /\ ing.pc \in {"idle", "project", "commit"}

(* Merging never closes a circle: from every merged entity, following      *)
(* merged_into_id ends at an entity that is not merged, so nothing that    *)
(* was said about it is out of reach.  (merge_entities checks only the     *)
(* primary; it takes colleagues who keep off each other's entities.)       *)
MergesFormForest ==
  \A S \in (SUBSET Value) \ {{}} :
    \E e \in S : entity[e].status # "merged" \/ entity[e].into \notin S

(* A merged entity keeps no relationship: the merge re-points every row,   *)
(* also when the entity was merged before or its partner is merged next    *)
(* (the rows are those that exist; ingestion adds its own, CaseIngestion). *)
MergedKeepNoRelationship ==
  \A r \in Rel, i \in {1, 2} : entity[rel[r][i]].status = "active"

(* A match and its mention tell the same story: an active match links the  *)
(* mention to its target, a rejected one links it to nothing.              *)
MatchAgreesWithCandidate ==
  \A m \in Mention :
    /\ match[m].status = "active" => cand[m] = [status |-> "auto_match",
                                                entity |-> match[m].target]
    /\ match[m].status = "rejected" => cand[m] = [status |-> "no_match", entity |-> Nobody]

(* "Immutable lineage": a superseded artifact names an edited one, and     *)
(* that one is approved - also when its content existed already, pending   *)
(* or decided.                                                             *)
SupersededHasApprovedEdit ==
  \A x \in Extraction : doc[x] = "superseded" =>
    successor[x] # Nobody /\ doc[successor[x]] = "approved"

(* A rejected proposal has written no alias, and a rejected link no        *)
(* reviewed relationship: an approval's side effects share its fate.       *)
RejectedLeavesNoTrace ==
  /\ \A p \in Proposal : doc[p] = "rejected" =>
       \A i \in {1, 2} : alias[<<p, i>>] = NoAlias
  /\ \A x \in Link : doc[x] = "rejected" => \A s \in Reviewer : <<x, s>> \notin reviewed

(* The projection follows the COMMIT: no node shows a merge that PostgreSQL *)
(* does not hold, also when the merge ended in an error.  (Nodes may lag:  *)
(* sessions project older copies over newer ones.)                         *)
GraphMergesAreCommitted ==
  \A e \in Value : graph[e].status = "merged" => entity[e].status = "merged"

(* What merging leaves behind, and what decisions leave behind, errors     *)
(* included.                                                               *)
MergesAreWhole == MergesFormForest /\ MergedKeepNoRelationship /\ GraphMergesAreCommitted
DecisionsAreWhole ==
  MatchAgreesWithCandidate /\ SupersededHasApprovedEdit /\ RejectedLeavesNoTrace

(* "Decisions are one-shot (no flip-flopping without a new derivation)":   *)
(* a decided artifact keeps its status.  (review_artifact is guarded by    *)
(* the status the route read; colleagues must keep off each other's.)      *)
DecisionsAreOneShot ==
  [][\A x \in Artifact : doc[x] \in {"approved", "rejected", "superseded"} =>
       doc'[x] = doc[x]]_vars


=============================================================================

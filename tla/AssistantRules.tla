---------------------------- MODULE AssistantRules ----------------------------
(***************************************************************************)
(* What the assistant may look up (ai/retrieval.py, ai/ranking.py,         *)
(* ai/tools.py): how a reference of the model becomes a case, what each    *)
(* tool answers, which records a question about a case puts before the     *)
(* model, and how the ids and numbers of its answer are checked.           *)
(*                                                                         *)
(* Ids and texts are numbers, 0 stands for none; rows are in the order of  *)
(* their ids, the newest last; measured numbers are in thousandths.  What  *)
(* a record says beside its ids is left out.                               *)
(***************************************************************************)
EXTENDS Integers, Sequences, FiniteSets, FiniteSetsExt, SequencesExt

CONSTANTS
  Lower(_),       \* lower-case form of a case number or title
  Within(_, _),   \* ILIKE '%needle%'
  SearchLimit,    \* CASE_SEARCH_LIMIT
  OptionLimit,    \* candidates of an ambiguous name
  DigestLimit,    \* EVIDENCE_LIMIT, ENTITIES_LIMIT and the others
  DefaultTop,     \* DEFAULT_TOP_N
  MaxTop,         \* MAX_TOP_N
  PageRank(_)     \* PageRank of an entity

Newest(n, S) == {x \in S : Cardinality({y \in S : y.id > x.id}) < n}
Oldest(n, S) == {x \in S : Cardinality({y \in S : y.id < x.id}) < n}
Ids(S) == {x.id : x \in S}
Refs(type, S) == {<<type, x.id>> : x \in S}

-----------------------------------------------------------------------------
(* Cases in sight, and how a reference finds one of them.                  *)
_visibility_condition(db, user) ==
  {c \in db.cases : user.admin \/ c.owner = user.id \/ user.id \in c.members}

Resolution(status, cases) == [status |-> status, cases |-> cases]

(* By id, by number, by title.  Two numbers that differ in case only make  *)
(* scalar_one_or_none raise, which is an error.                            *)
resolve_case_reference(db, user, ref) ==
  LET scope == _visibility_condition(db, user)
      same == {c \in scope : c.id = ref.id}
      numbered == {c \in scope : Lower(c.number) = Lower(ref.text)}
      named == Oldest(OptionLimit, {c \in scope : Lower(c.title) = Lower(ref.text)})
      Found(S) == Resolution(IF S = {} THEN "not_found" ELSE "found", S)
  IN IF ref.id # 0 THEN Found(same)
     ELSE IF ref.text = 0 \/ Cardinality(numbered) > 1 THEN Resolution("error", {})
     ELSE IF numbered # {} THEN Found(numbered)
     ELSE IF Cardinality(named) > 1 THEN Resolution("ambiguous", named)
     ELSE Found(named)

accessible_cases(db, user, query) ==
  LET scope == _visibility_condition(db, user)
      hit(c) == \/ c.id = query.id /\ query.id # 0
                \/ query.text # 0 /\ (Within(query.text, c.title) \/ Within(query.text, c.number))
  IN Newest(SearchLimit, IF query.id = 0 /\ query.text = 0 THEN scope ELSE {c \in scope : hit(c)})

assert_case_access(user, c) == user.admin \/ c.owner = user.id \/ user.id \in c.members

(* The case of a tool call: the one it names, else the one of the chat.    *)
_lookup_case(db, user, bound, ref) ==
  LET r == resolve_case_reference(db, user, ref)
      Lookup(status, cases, options) == [status |-> status, case |-> cases, options |-> options]
  IN IF ref.id = 0 /\ ref.text = 0 /\ bound # {} THEN Lookup("found", bound, {})
     ELSE CASE r.status = "error"     -> Lookup("lookup_error", {}, {})
            [] r.status = "not_found" -> Lookup("not_accessible", {}, {})
            [] r.status = "ambiguous" -> Lookup("ambiguous", {}, r.cases)
            [] r.status = "found"     ->
                 IF \E c \in r.cases : ~ assert_case_access(user, c)
                 THEN Lookup("not_accessible", {}, {}) ELSE Lookup("found", r.cases, {})

-----------------------------------------------------------------------------
(* The records of a case: what each digest shows and which it cites.       *)
Of(rows, case) == {r \in rows : r.case = case}
Active(db, case) == {e \in Of(db.entities, case) : e.active}
RelationCount(db, case, e) == Cardinality({r \in Of(db.links, case) : e \in {r.source, r.target}})

case_summary(db, case) ==
  [ sources |-> {<<"case", case>>},
    empty |-> Of(db.entities, case) \cup Of(db.evidence, case) \cup Of(db.findings, case)
              \cup Of(db.victims, case) \cup Of(db.events, case) = {} ]
evidence_digest(db, case, limit) == Refs("evidence", Newest(limit, Of(db.evidence, case)))
entities_digest(db, case, limit) ==
  LET before(e, f) == LET m == RelationCount(db, case, e.id)  n == RelationCount(db, case, f.id)
                      IN m > n \/ (m = n /\ e.id > f.id)
  IN Refs("entity", {f \in Active(db, case) : Cardinality({e \in Active(db, case) : before(e, f)}) < limit})
timeline_digest(db, case, limit) == Refs("timeline", Newest(limit, Of(db.events, case)))
findings_digest(db, case, limit) == Refs("finding", Newest(limit, Of(db.findings, case)))
victims_digest(db, case, limit) == Refs("victim", Newest(limit, Of(db.victims, case)))
analytics_digest(db, case, limit) == Refs("metric", Oldest(limit, Of(db.metrics, case)))
graph_relationships_digest(db, case) == IF Of(db.links, case) = {} THEN {} ELSE {<<"graph", case>>}
GraphIds(db, case, limit) == UNION {{r.id, r.source, r.target} : r \in Newest(limit, Of(db.links, case))}
MetricIds(db, case, limit) == {m.entity : m \in Oldest(limit, Of(db.metrics, case))}

(* What a question puts before the model depends on its mode.              *)
include(mode, features) ==
  (IF "evidence" \in features \/ mode \in {"report", "analysis", "hypothesize"} THEN {"evidence"} ELSE {})
  \cup (IF "graph" \in features /\ mode \in {"case", "graph", "copilot", "report", "analysis", "hypothesize"}
        THEN {"graph"} ELSE {})
  \cup (IF mode \in {"case", "copilot", "report", "hypothesize"} THEN {"victims"} ELSE {})
  \cup (IF "graph" \in features /\ mode \in {"graph", "report", "analysis"} THEN {"analytics"} ELSE {})

(* What it prints beside the ids of what it cites: the ends of links and   *)
(* the entities of metrics.                                                *)
build_case_context(db, case, parts) ==
  [ sources |->
      case_summary(db, case).sources \cup entities_digest(db, case, DigestLimit)
      \cup findings_digest(db, case, DigestLimit) \cup timeline_digest(db, case, DigestLimit)
      \cup (IF "evidence" \in parts THEN evidence_digest(db, case, DigestLimit) ELSE {})
      \cup (IF "victims" \in parts THEN victims_digest(db, case, DigestLimit) ELSE {})
      \cup (IF "graph" \in parts THEN graph_relationships_digest(db, case) ELSE {})
      \cup (IF "analytics" \in parts THEN analytics_digest(db, case, DigestLimit) ELSE {}),
    printed |->
      (IF "graph" \in parts THEN GraphIds(db, case, DigestLimit) ELSE {})
      \cup (IF "analytics" \in parts THEN MetricIds(db, case, DigestLimit) ELSE {}) ]

-----------------------------------------------------------------------------
(* Rankings.  Distinct neighbours come from an inner join, which leaves an *)
(* entity without relationships out.                                       *)
_relationship_counts(db, case) == {[entity |-> e.id, value |-> RelationCount(db, case, e.id)] : e \in Active(db, case)}
_neighbor_counts(db, case) ==
  LET touching(e) == {r \in Of(db.links, case) : e \in {r.source, r.target}}
      others(e) == {IF r.source = e THEN r.target ELSE r.source : r \in touching(e)}
  IN {[entity |-> e.id, value |-> Cardinality(others(e.id))] : e \in {f \in Active(db, case) : touching(f.id) # {}}}

_pagerank_scores(db, case) == {[entity |-> e.id, value |-> PageRank(e.id)] : e \in Active(db, case)}

SUPPORTED_METRICS == {"relationship_count", "distinct_neighbors", "degree", "pagerank"}
Values(db, case, metric) ==
  CASE metric = "relationship_count" -> _relationship_counts(db, case)
    [] metric = "pagerank"           -> _pagerank_scores(db, case)
    [] OTHER                         -> _neighbor_counts(db, case)
Ranked(values, top) ==
  LET before(v, w) == v.value > w.value \/ (v.value = w.value /\ v.entity < w.entity)
      ordered == SetToSortSeq(values, before)
  IN SubSeq(ordered, 1, Min({Max({1, Min({top, MaxTop})}), Len(ordered)}))
rank_entities(db, case, metric, top) == Ranked(Values(db, case, metric), top)

-----------------------------------------------------------------------------
(* The tools.                                                              *)
Result(ok, status, sources) == [ok |-> ok, status |-> status, sources |-> sources, options |-> {}, ranking |-> <<>>]
Failed(lookup) == Result(FALSE, lookup.status, {})
TheCase(lookup) == CHOOSE id \in Ids(lookup.case) : TRUE

tool_search_cases(db, user, ref) ==
  LET cases == accessible_cases(db, user, ref)
  IN Result(TRUE, IF cases = {} THEN "not_accessible" ELSE "found", Refs("case", cases))

tool_get_case_summary(db, lookup) ==
  IF lookup.options # {}
  THEN [Result(TRUE, lookup.status, {}) EXCEPT !.options = Ids(lookup.options)]
  ELSE IF lookup.case = {} THEN Failed(lookup)
  ELSE LET s == case_summary(db, TheCase(lookup))
       IN Result(TRUE, IF s.empty THEN "empty" ELSE "found", s.sources)

OnCase(lookup, sources) ==
  IF lookup.case = {} THEN Failed(lookup) ELSE Result(TRUE, "found", sources)
tool_list_evidence(db, lookup) == OnCase(lookup, evidence_digest(db, TheCase(lookup), DigestLimit))
tool_get_timeline(db, lookup) == OnCase(lookup, timeline_digest(db, TheCase(lookup), DigestLimit))
tool_get_analytics_summary(db, lookup) ==
  OnCase(lookup, analytics_digest(db, TheCase(lookup), DigestLimit)
                 \cup graph_relationships_digest(db, TheCase(lookup)))

(* The entity is loaded by its id first, then access to its case checked.  *)
tool_get_entity(db, user, id) ==
  LET hit == {e \in db.entities : e.id = id}
      lookup == _lookup_case(db, user, {}, [id |-> (CHOOSE e \in hit : TRUE).case, text |-> 0])
  IN IF hit = {} THEN Result(FALSE, "none", {})
     ELSE IF lookup.case = {} THEN Failed(lookup)
     ELSE Result(TRUE, "found", Refs("entity", hit))

tool_rank_entities(db, lookup, metric, top) ==
  LET ranking == rank_entities(db, TheCase(lookup), metric, top)
  IN IF lookup.case = {} THEN Failed(lookup)
     ELSE IF metric \notin SUPPORTED_METRICS THEN Result(FALSE, "none", {})
     ELSE [Result(TRUE, "none", {<<"entity", ranking[i].entity>> : i \in DOMAIN ranking})
             EXCEPT !.ranking = ranking]

execute_tool(db, user, bound, call) ==
  LET lookup == _lookup_case(db, user, bound, call.ref)
  IN CASE call.tool = "search_cases"          -> tool_search_cases(db, user, call.ref)
       [] call.tool = "get_case_summary"      -> tool_get_case_summary(db, lookup)
       [] call.tool = "list_evidence"         -> tool_list_evidence(db, lookup)
       [] call.tool = "get_entity"            -> tool_get_entity(db, user, call.ref.id)
       [] call.tool = "get_timeline"          -> tool_get_timeline(db, lookup)
       [] call.tool = "get_analytics_summary" -> tool_get_analytics_summary(db, lookup)
       [] call.tool = "rank_entities"         -> tool_rank_entities(db, lookup, call.metric, DefaultTop)
       [] OTHER                               -> Result(FALSE, "none", {})

-----------------------------------------------------------------------------
(* The check of an answer: ids that were not shown, and numbers that are   *)
(* not what the database says.                                             *)
known_uuids(context) == {s[2] : s \in context.sources} \cup context.printed

Distance(a, b) == IF a > b THEN a - b ELSE b - a
Mismatched(db, case, claim) ==
  LET count == 1000 * RelationCount(db, case, claim.entity)
      rows == {m \in Of(db.metrics, case) : m.name = claim.name /\ m.entity = claim.entity}
      near(m) == \/ Distance(claim.value, m.raw) <= Max({5, m.raw \div 100000})
                 \/ Distance(claim.value, m.score) <= 10
  IN IF claim.name = "relationship_count" THEN Distance(claim.value, count) > 500
     ELSE ~ \E m \in rows : near(m)

validate_cited_claims(db, case, answer, known) ==
  [ unverified |-> answer.ids \ known,
    verified |-> Cardinality(answer.ids) - Cardinality(answer.ids \ known),
    mismatched |-> {c \in answer.claims : Mismatched(db, case, c)} ]

-----------------------------------------------------------------------------
(* A case the user may not read changes no answer: what a tool returns is  *)
(* what it would return had those cases never been there ("a reference     *)
(* that exists but is not accessible resolves exactly like one that does   *)
(* not exist").  Only get_entity says of a hidden entity that its case is  *)
(* out of reach instead of that there is none.                             *)
InSight(db, user) ==
  LET own == Ids(_visibility_condition(db, user))
      keep(rows) == {r \in rows : r.case \in own}
  IN [ cases |-> _visibility_condition(db, user), entities |-> keep(db.entities),
       links |-> keep(db.links), evidence |-> keep(db.evidence), findings |-> keep(db.findings),
       victims |-> keep(db.victims), events |-> keep(db.events), metrics |-> keep(db.metrics) ]
ButStatus(r) == <<r.ok, r.sources, r.options, r.ranking>>
HiddenIsAbsent(db, user, bound, call, said) ==
  LET alone == execute_tool(InSight(db, user), user, bound, call)
  IN IF call.tool = "get_entity" THEN ButStatus(said) = ButStatus(alone) ELSE said = alone

(* The check of an answer is sound: an id it lets pass is a record of the *)
(* case, a relationship count passes exactly when it is the one the        *)
(* ranking tool states ("a true number must never be reported as bad ...   *)
(* and a wrong count still fails"), and a stored metric always passes.     *)
CheckIsSound(db, case, answer, verdict) ==
  LET ranking == rank_entities(db, case, "relationship_count", DefaultTop)
      held == {case} \cup UNION {Ids(Of(rows, case)) : rows \in
                {db.entities, db.links, db.evidence, db.findings, db.victims, db.events, db.metrics}}
      true(c) == \E m \in Of(db.metrics, case) :
                   m.name = c.name /\ m.entity = c.entity /\ c.value \in {m.raw, m.score}
  IN /\ answer.ids \ verdict.unverified \subseteq held
     /\ \A c \in answer.claims :
          /\ \A i \in DOMAIN ranking : ranking[i].entity = c.entity /\ c.name = "relationship_count" =>
               (c \in verdict.mismatched <=> c.value # 1000 * ranking[i].value)
          /\ true(c) => c \notin verdict.mismatched

=============================================================================

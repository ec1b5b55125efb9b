----------------------------- MODULE RuleCalls -----------------------------
(***************************************************************************)
(* The pure rules of the analyses as their runners call them.  A behaviour *)
(* is one call: of which rule, with what, and then its answer.  The rules  *)
(* are those of the modules instantiated here, for any values of their     *)
(* limits, tables and text functions; what each may be called with is what *)
(* the rows of the database can hold.                                      *)
(***************************************************************************)
EXTENDS Integers, FiniteSets

CONSTANTS
  \* of CustodyRules
  Skew, NoDigest, Malformed,
  \* of CrossCaseRules
  Normal(_, _), Domain(_), Invalid, MaxSupportingIds,
  \* of AssistantRules
  Lower(_), Within(_, _), SearchLimit, OptionLimit, DigestLimit, DefaultTop, MaxTop, PageRank(_),
  \* of TimelineRules
  PerDay, MaxEvents, NoTime,
  \* of MatchingRules
  Similarity(_, _), TypePlace(_), ReviewThreshold, AutoThreshold, MaxPerBucket, MaxPairs,
  \* of TriageRules
  UrlFlags(_), Host(_), Scheme(_), MaxObservations, MaxUrls, MaxEntries, MaxLines, Burst, Window,
  \* of ContradictionRules
  Hints(_), MaxPerAnchor, MaxPairEvals, MaxPerPair, MaxTotal, MaxStatements, Extracted,
  MaxLlmPairs,  \* CONTRADICTION_MAX_LLM_PAIRS
  \* of ReportAuditRules
  Unreadable, Passage(_, _), DraftLength, AmountsIn(_), DatesIn(_), StatesTotal(_), TokensIn(_),
  MaxClaims, MaxChecks, MaxCited, MaxMatches, MaxExcerpts

CONSTANTS
  Histories,   \* the requests about one file, its digests, when it is audited
  Scopes,      \* what the cases of a discovery hold, by case
  Readers,     \* who may ask for the candidates
  Deleted,     \* sets of cases that may be gone by then
  Questions,   \* a database, a user, the case of the chat and the tool call
  Timelines,   \* records and artifacts, and the events on the timeline
  Populations, \* the entities of a case
  Exhibits,    \* the records of an evidence file, and the other files
  Dossiers,    \* the records of a case and what was extracted of them
  Reports      \* the claims of a draft, what they may cite, the model's answers

Custody == INSTANCE CustodyRules
CrossCase == INSTANCE CrossCaseRules
Assistant == INSTANCE AssistantRules
Timeline == INSTANCE TimelineRules
Matching == INSTANCE MatchingRules
Triage == INSTANCE TriageRules
Contradiction == INSTANCE ContradictionRules
Audit == INSTANCE ReportAuditRules WITH
  Other <- Unreadable, Draft <- Passage, Amounts <- AmountsIn, Dates <- DatesIn, Tokens <- TokensIn

-----------------------------------------------------------------------------
(* Ids are primary keys, lists are finite, a file is audited after the     *)
(* requests about it; on a timeline the fields of a record are the keys of *)
(* a mapping, none is 101 or 102, under which an artifact's own are kept.  *)
ASSUME HistoriesArePast ==
  /\ Skew \in Int
  /\ \A h \in Histories :
       /\ h.checked \in Int /\ IsFiniteSet(h.requests)
       /\ \A r \in h.requests :
            r.occurred \in Int /\ r.began \in Int /\ r.now \in Int /\ r.now <= h.checked

ASSUME EntityIdsAreKeys ==
  /\ \A q \in Questions : \A e, f \in q.db.entities : e.id = f.id => e = f
  /\ \A p \in Populations :
       /\ IsFiniteSet(p)
       /\ \A e, f \in p : e.id = f.id => e = f
       /\ \A e \in p : e.id \in Int
       /\ \A e, f \in p : Similarity(e.value, f.value) \in Int

ASSUME ThresholdsAreNumbers == ReviewThreshold \in Int /\ AutoThreshold \in Int /\ MaxPairs \in Nat

ASSUME RecordsAreKeyed ==
  \A t \in Timelines :
    /\ IsFiniteSet(t.items)
    /\ \A i \in t.items :
         /\ i.source.file \in Int /\ i.source.record \in Int
         /\ IsFiniteSet(i.fields) /\ IsFiniteSet(DOMAIN i.dates) /\ IsFiniteSet(DOMAIN i.events)
         /\ DOMAIN i.dates \subseteq Int /\ DOMAIN i.events \subseteq Int
         /\ \A f \in i.fields : f.name \in Int \ {101, 102}
         /\ \A f, g \in i.fields : f.name = g.name => f = g
    /\ \A i, j \in t.items :
         i.source.file = j.source.file /\ i.source.record = j.source.record => i = j

ASSUME ExhibitsAreNumbered ==
  /\ MaxObservations \in Nat /\ Burst \in Nat /\ Window \in Nat
  /\ \A x \in Exhibits :
       /\ IsFiniteSet(x.records)
       /\ \A r \in x.records :
            /\ r.no \in Int /\ r.entry.digest \in Int /\ Host(r.visit) \in Int
            /\ DOMAIN r.urls \subseteq Int /\ IsFiniteSet(DOMAIN r.urls)
            /\ DOMAIN r.log \subseteq Int /\ IsFiniteSet(DOMAIN r.log)
            /\ \A i \in DOMAIN r.log : r.log[i].time \in Int

ASSUME DossiersAreKeyed ==
  /\ {MaxPerAnchor, MaxPairEvals, MaxPerPair, MaxTotal, MaxStatements, MaxLlmPairs} \subseteq Nat
  /\ Extracted \in Int
  /\ \A d \in Dossiers :
       /\ IsFiniteSet(d.records) /\ IsFiniteSet(d.extractions)
       /\ \A r, q \in d.records : r.id = q.id => r = q
       /\ \A r \in d.records :
            /\ r.id \in Int /\ DOMAIN r.fields \subseteq Int /\ IsFiniteSet(DOMAIN r.fields)
            /\ \A j \in DOMAIN r.fields : r.fields[j].name \in Int /\ r.fields[j].key \in Int
       /\ \A e \in d.extractions : IsFiniteSet(DOMAIN e.said)

ASSUME DraftsAreRead ==
  /\ MaxChecks \in Nat /\ MaxCited \in Nat
  /\ \A d \in Reports :
       /\ IsFiniteSet(DOMAIN d.raw) /\ DOMAIN d.raw \subseteq Nat \ {0}
       /\ \A r, q \in d.rows : r.kind = q.kind /\ r.id = q.id => r = q
       /\ \A c \in {d.raw[i] : i \in DOMAIN d.raw} :
            /\ c.start \in Int \cup {Unreadable}
            /\ IsFiniteSet(DOMAIN c.cited) /\ DOMAIN c.cited \subseteq Nat \ {0}
            /\ IsFiniteSet(DOMAIN AmountsIn(c.text)) /\ DOMAIN AmountsIn(c.text) \subseteq Nat
            /\ IsFiniteSet(DOMAIN DatesIn(c.text)) /\ DOMAIN DatesIn(c.text) \subseteq Nat
            /\ d.reply[c.text].verdict \in Audit!VERDICTS \cup {"failed"}

VARIABLES
  rule,    \* which one is called
  input,   \* with what
  called,  \* it has answered
  output   \* its answer

-----------------------------------------------------------------------------
RulesInit ==
  /\ called = FALSE /\ output = {}
  /\ \/ rule = "custody" /\ input \in Histories
     \/ rule = "cross_case" /\ input \in Scopes
     \/ rule = "assistant" /\ input \in Questions
     \/ rule = "timeline" /\ input \in Timelines
     \/ rule = "matching" /\ input \in Populations
     \/ rule = "triage" /\ input \in Exhibits
     \/ rule = "contradiction" /\ input \in Dossiers
     \/ rule = "audit" /\ input \in Reports

Call(r) == rule = r /\ ~ called /\ called' = TRUE /\ UNCHANGED <<rule, input>>

(* The rows that the accepted requests left, each told apart by its own.   *)
Snapshot(in) ==
  [ recorded |-> in.recorded, stored |-> in.stored, audits |-> in.audits, checked |-> in.checked,
    events |-> {Custody!EventRow(r, r) : r \in {q \in in.requests : Custody!record_custody_event(q)}} ]
CallCustody == Call("custody") /\ output' = Custody!evaluate_custody(Snapshot(input))

(* The signals of every case of the scope, then the candidates.            *)
Signals(cases) == [c \in DOMAIN cases |-> CrossCase!collect_case_indicators(cases[c])]
CallCrossCase == Call("cross_case") /\ output' = CrossCase!build_candidates(Signals(input))

(* The chat is bound to a case the route has checked, or to none.          *)
BoundCase(in) ==
  {c \in in.db.cases : c.id = in.bound /\ Assistant!assert_case_access(in.user, c)}
CallAssistant ==
  Call("assistant") /\ output' = Assistant!execute_tool(input.db, input.user, BoundCase(input), input.call)

Proposals(in) ==
  UNION { Timeline!drafts_from_record(i.source, i.fields)
          \cup Timeline!drafts_from_artifact(i.source, i.dates, i.events) : i \in in.items }
CallTimeline == Call("timeline") /\ output' = Timeline!annotate_drafts(Proposals(input), input.existing)

CallMatching == Call("matching") /\ output' = Matching!build_candidate_pairs(input)

CallTriage ==
  /\ Call("triage")
  /\ \E available \in Triage!Readings(input.files) :
       LET analysis == Triage!triage_contents(input.records)
           verdicts == Triage!manifest_verdicts(analysis.entries, available)
       IN output' = [ analysis |-> analysis, verdicts |-> verdicts,
                      observed |-> Triage!_record_manifest_observations(analysis, verdicts) ]

(* The deterministic pass, then what is put to the model.                  *)
Statements(in) == Contradiction!collect_statements(in.records, in.extractions)
CallContradiction ==
  /\ Call("contradiction")
  /\ output' = [ conflicts |-> Contradiction!generate_conflicts(input.records),
                 sent |-> Contradiction!semantic_pairs(input.records, Statements(input), MaxLlmPairs) ]

CallAudit ==
  /\ Call("audit")
  /\ output' = Audit!execute_report_audit(input.raw, input.parsed, input.rows, input.case, input.records,
                                          input.events, input.reply)

RulesNext ==
  \/ CallCustody \/ CallCrossCase \/ CallAssistant \/ CallTimeline
  \/ CallMatching \/ CallTriage \/ CallContradiction \/ CallAudit
calls == <<rule, input, called, output>>
RulesSpec == RulesInit /\ [][RulesNext]_calls

Called(r) == rule = r /\ called

-----------------------------------------------------------------------------
(* What is said of the bytes: the audit of the chain of custody agrees     *)
(* with a verification, blames no event the API accepted for what it       *)
(* checked and accounts for every hand-over and receipt; triage calls      *)
(* bytes different only when bytes of that name were read and differ, and  *)
(* finds a burst of failed logins wherever it starts.                      *)
EvidenceIsJudged ==
  /\ Called("custody") =>
       /\ Custody!AgreesWithVerification(Snapshot(input), output)
       /\ Custody!AcceptedEventsAreInOrder(Snapshot(input), output)
       /\ Custody!HandOffsAreAccountedFor(Snapshot(input), output)
  /\ Called("triage") =>
       /\ Triage!BurstIsFound(input.records, output.analysis)
       /\ Triage!VerdictsCiteBytes(input.files, output.verdicts, output.observed)

(* Nobody learns of a case she may not read, neither through a cross-case  *)
(* candidate nor through a tool of the assistant; and a name that two      *)
(* cases share never becomes approvable alone, anything stronger does.     *)
AnswersStayInScope ==
  /\ Called("cross_case") =>
       /\ CrossCase!ApprovableIsIdentified(Signals(input), output)
       /\ \A u \in Readers : \A gone \in Deleted :
            CrossCase!ShownIsOwnScope(u, DOMAIN input \ gone, Signals(input), output)
  /\ Called("assistant") =>
       Assistant!HiddenIsAbsent(input.db, input.user, BoundCase(input), input.call, output)

(* Every pair of entities is proposed, refused or counted as left over, a  *)
(* proposed pair has a value in common or a name alike and no identifiers  *)
(* against it; the proposals of one timeline are marked mutually, and of   *)
(* those that repeat one another exactly one stays clean.                  *)
SuggestionsAreAccountedFor ==
  /\ Called("matching") => Matching!PairsAreAccountedFor(input, output)
  /\ Called("timeline") => Timeline!MarksAreMutual(Proposals(input), output)

(* The conflicts of a case are those the documented matrix allows, and the *)
(* model is asked about each pair of statements once, and about none that  *)
(* the rules compare.                                                      *)
ConflictsMeetTheMatrix ==
  Called("contradiction") =>
    /\ Contradiction!MeetsTheMatrix(input.records, output.conflicts)
    /\ Contradiction!AskedOnce(output.sent, MaxLlmPairs)
    /\ Contradiction!BothPassesComplete(input.records, Statements(input), output.conflicts, output.sent, MaxLlmPairs)

(* What a model says of a report is checked against the rows: a judgement  *)
(* becomes a finding only with a verified quote, what was not validated is *)
(* found, order and currencies are compared, the figures add up.           *)
AuditIsHonest ==
  Called("audit") =>
    /\ Audit!JudgementsAreQuoted(output, input.rows, input.case, input.reply)
    /\ Audit!CleanClaimsWereChecked(output)
    /\ Audit!FiguresAddUp(input.raw, input.parsed, output)
    /\ Audit!OrderAndCurrencyAreFound(output)

=============================================================================

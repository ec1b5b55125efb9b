-------------------------- MODULE ReportAuditRules --------------------------
(***************************************************************************)
(* The audit of a report draft (services/report_audit.py) and the check of *)
(* a citation (services/citations.py).  A draft, a claim's text, ids, days,*)
(* values and currencies are numbers, 0 stands for none or blank; what the *)
(* model sent with another type is Other.  A citation: kind, id, the case  *)
(* it names, the field it names and the value it quotes of a field.        *)
(***************************************************************************)
EXTENDS Integers, Sequences, FiniteSets, SequencesExt

CONSTANTS
  Other,
  Draft(_, _), DraftLength,  \* the text between two positions
  Amounts(_),       \* of a text: a sequence of [value, digits, currency]
  Dates(_),         \* of a text: a sequence of days
  StatesTotal(_),   \* whether it says "total" or "sum"
  Tokens(_),        \* what records are searched for
  MaxClaims, MaxChecks, MaxCited, MaxMatches, MaxExcerpts

CLAIM_CATEGORIES == {"timeline", "factual_statement"}
VERDICTS == {"supported", "partially_supported", "contradicted", "not_established"}  \* ASSESSMENTS
KINDS == {"source_record", "evidence_file", "entity"}

FINDING_SEVERITY(code) ==
  CASE code \in {"partially_supported", "not_established", "assessment_unverified"} -> 2
    [] code = "counter_evidence_candidate" -> 1
    [] OTHER -> 3

-----------------------------------------------------------------------------
(* Citations.  A row: kind, id, the case it is of, its quotable fields and *)
(* its text; ids are unique.                                               *)
preflight(ref) == {c \in {"citation_invalid_id"} : ref.id = Other}
                  \cup {c \in {"citation_unknown_kind"} : ref.kind \notin KINDS}

LocatorCodes(ref, row) ==
  IF ref.kind # "source_record" THEN {c \in {"citation_quote_unsupported"} : ref.quote # <<>>}
  ELSE {c \in {"citation_locator_invalid"} :
          \/ ref.locator # 0 /\ ref.locator \notin DOMAIN row.fields
          \/ ref.quote # <<>> /\ ref.quote[1] \notin DOMAIN row.fields}
       \cup {c \in {"citation_value_mismatch"} :
               /\ ref.quote # <<>> /\ ref.quote[1] \in DOMAIN row.fields
               /\ row.fields[ref.quote[1]] # ref.quote[2]}

(* The codes against a citation; none when it holds.                       *)
validate_citation(rows, visible, case, ref, allow_cross_case) ==
  LET found == {r \in rows : r.kind = ref.kind /\ r.id = ref.id}
      row == CHOOSE r \in found : TRUE
  IN CASE preflight(ref) # {}                              -> preflight(ref)
       [] preflight(ref) = {} /\ found = {}                -> {"citation_record_missing"}
       [] OTHER ->
            CASE ref.case # 0 /\ ref.case # row.case       -> {"citation_case_mismatch"}
              [] /\ ref.case \in {0, row.case} /\ row.case # case
                 /\ ~ allow_cross_case                     -> {"citation_wrong_case"}
              [] /\ ref.case \in {0, row.case} /\ row.case # case
                 /\ allow_cross_case /\ row.case \notin visible -> {"citation_unauthorized"}
              [] OTHER                                     -> LocatorCodes(ref, row)

-----------------------------------------------------------------------------
(* What the model sent, made into claims; nothing is dropped but the rest. *)
Problems(raw, i) ==
  LET c == raw[i]
      span == c.start # Other /\ c.end # Other /\ 0 <= c.start /\ c.start < c.end /\ c.end <= DraftLength
  IN {p \in {"claim_id"} : c.id \in {0, Other} \/ \E j \in 1..(i - 1) : raw[j].id = c.id}
     \cup {p \in {"text"} : c.text = 0}
     \cup {p \in {"char_span"} : ~ span \/ Draft(c.start, c.end) # c.text}
     \cup {p \in {"category"} : c.category \notin CLAIM_CATEGORIES}
     \cup {p \in {"cited_ids"} : ~ c.listed}

normalize_claims(raw) ==
  [ i \in {j \in DOMAIN raw : j <= MaxClaims} |->
      [ index |-> i, text |-> raw[i].text, start |-> raw[i].start, category |-> raw[i].category,
        problems |-> Problems(raw, i),
        cited |-> IF "cited_ids" \in Problems(raw, i) THEN <<>> ELSE raw[i].cited ] ]

check_arithmetic(text) ==
  LET v == [j \in DOMAIN Amounts(text) |-> Amounts(text)[j].value]
  IN ~ StatesTotal(text) \/ Len(v) < 3 \/ FoldLeft(+, 0, Front(v)) = Last(v)

(* A claim without a position cannot be placed; what the others say is     *)
(* taken in the order of the draft, of two at one position as they came.   *)
Placed(claims) == \A c \in claims : c.start # Other
DaysSaid(claims) ==
  UNION {{[claim |-> c, place |-> j, it |-> Dates(c.text)[j]] : j \in DOMAIN Dates(c.text)} : c \in claims}
MoneySaid(claims) ==
  UNION {{[claim |-> c, place |-> j, it |-> Amounts(c.text)[j]] : j \in DOMAIN Amounts(c.text)} : c \in claims}
Before(a, b) ==
  \/ a.claim.start < b.claim.start
  \/ a.claim.start = b.claim.start /\ a.claim.index < b.claim.index
  \/ a.claim.start = b.claim.start /\ a.claim.index = b.claim.index /\ a.place < b.place

(* The claims with a date before one already passed.                       *)
chronology_issues(claims) ==
  LET days == DaysSaid(claims)
  IN {d.claim.index : d \in {e \in days : \E p \in days : Before(p, e) /\ p.it > e.it}}

(* The claims with digits first seen in another currency.                  *)
currency_conflicts(claims) ==
  LET money == {m \in MoneySaid(claims) : m.it.currency # 0}
      first == {m \in money : \A n \in money : n.it.digits = m.it.digits => ~ Before(n, m)}
  IN { m.claim.index : m \in {n \in money : \E f \in first : f.it.digits = n.it.digits
                                                        /\ f.it.currency # n.it.currency} }

-----------------------------------------------------------------------------
(* Citations of the claims, checked one after another within the budget.   *)
Outcome(ref, checked, codes) == [ref |-> ref, checked |-> checked, codes |-> codes]
Resolved(rows, ref) ==
  LET of == {r \in rows : r.id = ref.id}
  IN IF ref.kind # "none" THEN ref
     ELSE [ref EXCEPT !.kind = IF of = {} THEN "none" ELSE (CHOOSE r \in of : TRUE).kind]
Codes(rows, case, ref) ==
  IF ref.kind = "none" THEN {"citation_record_missing"} ELSE validate_citation(rows, {}, case, ref, FALSE)

(* used: how many of the claims before it were checked or over the budget. *)
_citation_outcomes_overBudgetIsFine(rows, case, cited, used) ==
  [ j \in DOMAIN cited |->
      LET ref == Resolved(rows, cited[j])
      IN IF j > MaxCited THEN Outcome(ref, FALSE, {"citation_not_checked"})
         ELSE IF used + j > MaxChecks THEN Outcome(ref, FALSE, {})
         ELSE Outcome(ref, TRUE, Codes(rows, case, ref)) ]
_citation_outcomes(rows, case, cited, used) ==
  [ j \in DOMAIN cited |->
      LET ref == Resolved(rows, cited[j])
      IN IF j > MaxCited THEN Outcome(ref, FALSE, {"citation_not_checked"})
         ELSE IF used + j > MaxChecks THEN Outcome(ref, FALSE, {"citation_budget_exceeded"})
         ELSE Outcome(ref, TRUE, Codes(rows, case, ref)) ]

Budgeted(claims) ==
  UNION {{<<i, j>> : j \in {k \in DOMAIN claims[i].cited : k <= MaxCited}} : i \in DOMAIN claims}
AllOutcomes(rows, case, claims) ==
  [ i \in DOMAIN claims |->
      _citation_outcomes(rows, case, claims[i].cited, Cardinality({p \in Budgeted(claims) : p[1] < i})) ]

(* The text of what a claim cites with good reason, the first of it.       *)
Body(rows, o) == (CHOOSE r \in rows : r.kind = o.ref.kind /\ r.id = o.ref.id).body
_excerpt_bundle(rows, outcomes) ==
  LET good == { j \in DOMAIN outcomes :
                  /\ outcomes[j].codes = {} /\ outcomes[j].ref.kind \in {"evidence_file", "source_record"}
                  /\ Body(rows, outcomes[j]) # 0 }
  IN {Body(rows, outcomes[j]) : j \in {k \in good : Cardinality({h \in good : h < k}) < MaxExcerpts}}

assessment_is_valid(reply, excerpts) ==
  reply.quotes \subseteq excerpts /\ (reply.quotes = {} => reply.verdict = "not_established")

(* A reply: [verdict, quotes]; the verdict "failed" is no usable reply.    *)
Assessment(rows, outcomes, reply) ==
  LET excerpts == _excerpt_bundle(rows, outcomes)
  IN CASE excerpts = {} -> "skipped"
       [] excerpts # {} /\ reply.verdict = "failed" -> "unit_failed"
       [] excerpts # {} /\ reply.verdict # "failed" ->
            IF assessment_is_valid(reply, excerpts) THEN reply.verdict ELSE "assessment_unverified"

(* Records are scanned for one token after another, up to the bound.       *)
_counter_matches(text, records) ==
  LET hits == { h \in (DOMAIN Tokens(text)) \X (DOMAIN records) : Tokens(text)[h[1]] \in records[h[2]].tokens }
      before(h) == {g \in hits : g[1] < h[1] \/ (g[1] = h[1] /\ g[2] < h[2])}
  IN {h \in hits : Cardinality(before(h)) < MaxMatches}

(* The findings on one claim, <<code, place>>; those on a citation are at  *)
(* its place.                                                              *)
Finding(code, place, holds) == {f \in {<<code, place>>} : holds}
Findings(claim, outcomes, assessment, issues, conflicts, matches) ==
  LET codes(j) == outcomes[j].codes
  IN Finding("claim_extraction_invalid", 0, claim.problems # {})
     \cup (UNION { Finding("numeric_mismatch", j, "citation_value_mismatch" \in codes(j))
                   \cup Finding("invalid_citation", j, codes(j) \ {"citation_value_mismatch"} # {}) :
                     j \in DOMAIN outcomes })
     \cup Finding("numeric_mismatch", 0, ~ check_arithmetic(claim.text))
     \cup Finding("timeline_discrepancy", 0, claim.index \in issues)
     \cup Finding("currency_mismatch", 0, claim.index \in conflicts)
     \cup Finding(assessment, 0, assessment \notin {"skipped", "unit_failed", "supported"})
     \cup Finding("counter_evidence_candidate", 0, matches # {})

(* What is kept of one claim: the severity is that of its worst finding.   *)
Reviewed(findings, assessment, matches) ==
  LET levels == {0} \cup {FINDING_SEVERITY(f[1]) : f \in findings}
  IN [ findings |-> findings, assessment |-> assessment, matches |-> matches,
       severity |-> CHOOSE s \in levels : \A t \in levels : t <= s ]

(* The figures of the payload, over the claims that are reviewed.          *)
AllFindings(review) == UNION {{<<i, f>> : f \in review[i].findings} : i \in DOMAIN review}
Assessed(review, as) == Cardinality({i \in DOMAIN review : review[i].assessment \in as})
PayloadFigures(raw, parsed, dated, events, review) ==
  LET severe(level) == Cardinality({f \in AllFindings(review) : FINDING_SEVERITY(f[2][1]) = level})
      days == DaysSaid(dated)
  IN [ findings_summary |->
         [ claims |-> Cardinality(DOMAIN review),
           claims_with_findings |-> Cardinality({i \in DOMAIN review : review[i].findings # {}}),
           high |-> severe(3), medium |-> severe(2), info |-> severe(1) ],
       counter_evidence |-> Cardinality({i \in DOMAIN review : review[i].matches # {}}),
       case_timeline |-> [total |-> Cardinality(days), matched |-> Cardinality({d \in days : d.it \in events})],
       model |->
         [ claims_extracted |-> Cardinality(DOMAIN raw),
           claims_truncated |-> Cardinality(DOMAIN raw) - Cardinality(DOMAIN review), extraction_failed |-> ~ parsed,
           assessments_attempted |-> Cardinality({i \in DOMAIN review : review[i].assessment # "skipped"}),
           assessments_valid |-> Assessed(review, VERDICTS), assessments_invalid |-> Assessed(review, {"assessment_unverified"}) ],
       units_failed |-> Assessed(review, {"unit_failed"}) + IF parsed THEN 0 ELSE 1 ]

(* A whole audit of what the model sent, its claims when it can be parsed; *)
(* reply[t] is its answer on a claim of text t.  The run fails when a      *)
(* claim to be placed has no position.                                     *)
execute_report_audit(sent, parsed, rows, case, records, events, reply) ==
  LET raw == IF parsed THEN sent ELSE <<>>
      claims == normalize_claims(raw)
      outcomes == AllOutcomes(rows, case, claims)
      dated == {c \in Range(claims) : c.category = "timeline" /\ Dates(c.text) # <<>>}
      priced == {c \in Range(claims) : Amounts(c.text) # <<>>}
      reviewed(i) ==
        LET assessment == Assessment(rows, outcomes[i], reply[claims[i].text])
            matches == _counter_matches(claims[i].text, records)
        IN Reviewed(Findings(claims[i], outcomes[i], assessment, chronology_issues(dated),
                             currency_conflicts(priced), matches), assessment, matches)
      review == [i \in DOMAIN claims |-> reviewed(i)]
      figures == PayloadFigures(raw, parsed, dated, events, review)
  IN IF ~ Placed(dated \cup priced)
     THEN [status |-> "failed", claims |-> <<>>, outcomes |-> <<>>, review |-> <<>>]
     ELSE [ status |-> IF figures.units_failed > 0 THEN "partial" ELSE "succeeded",
            claims |-> claims, outcomes |-> outcomes, review |-> review, figures |-> figures ]

-----------------------------------------------------------------------------
(* The model is not trusted: a judgement other than "not established" that *)
(* becomes a finding quotes text of this case which the claim itself cites *)
(* by an id that was checked, within the budget.                           *)
JudgementsAreQuoted(audit, rows, case, reply) ==
  /\ Cardinality({ p \in UNION {{i} \X DOMAIN audit.outcomes[i] : i \in DOMAIN audit.outcomes} :
                     audit.outcomes[p[1]][p[2]].checked }) <= MaxChecks
  /\ \A i \in DOMAIN audit.review :
       (\E f \in audit.review[i].findings : f[1] \in {"contradicted", "partially_supported"}) =>
         LET quotes == reply[audit.claims[i].text].quotes
         IN /\ quotes # {}
            /\ \A q \in quotes : \E o \in Range(audit.outcomes[i]) :
                 o.checked /\ \E r \in rows : r.id = o.ref.id /\ r.case = case /\ r.body = q

(* A claim of the least severity has every structural part in order, and   *)
(* every id it cites was validated.                                        *)
CleanClaimsWereChecked(audit) ==
  \A i \in DOMAIN audit.review : audit.review[i].severity < 3 =>
    /\ audit.claims[i].problems = {}
    /\ \A o \in Range(audit.outcomes[i]) : o.checked /\ o.codes = {}

(* The figures a reader sees first agree with the claims below them: each  *)
(* claim sent is reviewed or counted as left over, each finding is counted *)
(* once, a draft without a high finding has no claim of that severity, and *)
(* a run is called complete only when every question was answered.         *)
FiguresAddUp(sent, parsed, audit) ==
  audit.status # "failed" =>
    LET f == audit.figures
    IN /\ parsed => f.findings_summary.claims + f.model.claims_truncated = Cardinality(DOMAIN sent)
       /\ f.findings_summary.high + f.findings_summary.medium + f.findings_summary.info
            = Cardinality(AllFindings(audit.review))
       /\ f.findings_summary.high > 0 <=> \E i \in DOMAIN audit.review : audit.review[i].severity = 3
       /\ f.case_timeline.matched <= f.case_timeline.total
       /\ audit.status = "succeeded" <=>
            parsed /\ f.model.assessments_attempted = f.model.assessments_valid + f.model.assessments_invalid

(* A date before another one that the draft states earlier is found in the *)
(* claim that states it; and of two claims that give the same digits in    *)
(* different currencies at least one is found.                             *)
OrderAndCurrencyAreFound(audit) ==
  LET flagged(code) == {i \in DOMAIN audit.review : \E f \in audit.review[i].findings : f[1] = code}
      claim(i) == audit.claims[i]
      dated == {i \in DOMAIN audit.claims : claim(i).category = "timeline"}
      backwards(i) ==
        \/ \E j, k \in DOMAIN Dates(claim(i).text) : j < k /\ Dates(claim(i).text)[j] > Dates(claim(i).text)[k]
        \/ \E h \in dated : claim(h).start < claim(i).start /\
             \E d \in Range(Dates(claim(h).text)), e \in Range(Dates(claim(i).text)) : d > e
      priced(i) == {a \in Range(Amounts(claim(i).text)) : a.currency # 0}
  IN /\ \A i \in dated : backwards(i) => i \in flagged("timeline_discrepancy")
     /\ \A h, i \in DOMAIN audit.claims : \A a \in priced(h), b \in priced(i) :
          (a.digits = b.digits /\ a.currency # b.currency) => {h, i} \cap flagged("currency_mismatch") # {}

=============================================================================

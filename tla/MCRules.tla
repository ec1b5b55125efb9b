------------------------------ MODULE MCRules ------------------------------
(***************************************************************************)
(* The rules of RuleCalls and the other pure rules, each called once on    *)
(* every input of a bounded set.                                           *)
(***************************************************************************)
EXTENDS RuleCalls, Sequences, FiniteSetsExt, Functions

-----------------------------------------------------------------------------
(* Custody: up to four requests about one file, and an audit of it.        *)
NoHash == -1
Request(t, o, b, n, p, c) ==
  [type |-> t, occurred |-> o, began |-> b, now |-> n, parties |-> p, claimed |-> c]
Both == {"recipient", "transferor"}
HandOffs == {Request(t, o, 2, 2, Both, 0) : t \in {"transferred", "received"}, o \in 0..3}
Requests ==
  { Request(t, o, b, n, p, 0) : t \in {"transferred", "received"}, o \in 0..4, b \in {1, 2},
                                n \in {2, 3}, p \in {{"recipient"}, Both} }
  \cup {Request("verified", 1, 1, 1, {}, c) : c \in -1..2}
CustodyInput ==
  { [requests |-> r, recorded |-> d, stored |-> s, audits |-> a, checked |-> c] :
      r \in {{}} \cup {{p, q} : <<p, q>> \in Requests \X Requests}, d \in {0, 1}, s \in 0..2, a \in {0}, c \in {3} }
  \cup { [requests |-> r, recorded |-> 1, stored |-> 1, audits |-> a, checked |-> c] :
           r \in SUBSET HandOffs, a \in {1}, c \in {3} }

-----------------------------------------------------------------------------
(* Cross-case discovery: what a case holds is built from items.  An e-mail *)
(* address is written 11 or 12 and normalizes to 1, both lie in domain 5;  *)
(* a phone number 21 or 22 is 2, 23 is no number; names 31 and 32 are 3.   *)
MCNormal(kind, raw) == CASE raw = 23 -> 0 [] raw > 10 -> raw \div 10 [] OTHER -> raw
MCDomain(raw) == 5

Record(id, fields) == [id |-> id, file |-> 0, fields |-> fields]
Field(key, looks, raw) == [key |-> key, looks |-> looks, raw |-> raw]
Case(records, entities, aliases, files) ==
  [records |-> records, entities |-> entities, aliases |-> aliases, files |-> files]
Join(a, b) == Case(a.records \cup b.records, a.entities \cup b.entities,
                   a.aliases \cup b.aliases, a.files \cup b.files)
Person(id, name) == [id |-> id, type |-> "person", values |-> {name}]
Alias(e, looks, raw, reviewed) ==
  [entity |-> e, record |-> 0, looks |-> looks, raw |-> raw, resolution |-> reviewed]
Item ==
  { Case({Record(1, {Field("phone", "none", 21)})}, {}, {}, {}),
    Case({Record(1, {Field("phone", "none", 22)})}, {}, {}, {}),
    Case({Record(1, {Field("phone", "none", 22)}), Record(2, {Field("none", "phone", 21)}),
          Record(3, {Field("phone", "phone", 2)})}, {}, {}, {}),
    Case({Record(1, {Field("none", "email", 11)})}, {}, {}, {}),
    Case({Record(1, {Field("email", "none", 12), Field("device", "none", 7)})}, {}, {}, {}),
    Case({}, {Person(1, 31)}, {}, {}),
    Case({}, {Person(1, 32)}, {Alias(1, "phone", 21, FALSE)}, {}),
    Case({}, {Person(1, 32)}, {Alias(1, "phone", 22, FALSE)}, {}),
    Case({}, {Person(1, 31)}, {Alias(1, "none", 33, TRUE)}, {}),
    Case({}, {[id |-> 2, type |-> "device", values |-> {7}]}, {Alias(2, "none", 33, TRUE)}, {}),
    Case({}, {}, {}, {[id |-> 1, sha256 |-> 6]}) }
TwoItems == {Join(a, b) : <<a, b>> \in Item \X Item}
CrossInput ==
  {<<a, b>> : <<a, b>> \in TwoItems \X TwoItems} \cup {<<a, b, c>> : <<a, b, c>> \in Item \X Item \X Item}
CrossReaders == { [admin |-> a, owns |-> o, joined |-> j] :
               a \in BOOLEAN, o \in SUBSET {1}, j \in SUBSET {2, 3} }

-----------------------------------------------------------------------------
(* Contradictions: two records with an account, a reference and claims, a  *)
(* third that uses one of their identifiers; 0 is an identifier of which   *)
(* nothing is left, written 90 or 91.                                      *)
FieldHints(name) ==
  CASE name = 1 -> {"identifier"} [] name = 2 -> {"identifier", "txn"} [] name = 3 -> {"status"}
    [] name = 4 -> {"amount"} [] name = 5 -> {"date"} [] name = 6 -> {"status", "txn"} [] OTHER -> {}

Stated(name, form, key, raw, gran) ==
  [name |-> name, form |-> form, key |-> key, raw |-> raw, gran |-> gran, long |-> FALSE]
Word(name, key) == Stated(name, "text", key, key, "none")
Sentence(name, key) == [Word(name, key) EXCEPT !.long = TRUE]
Account(id) == {<<Word(1, 1)>>, <<Stated(1, "text", 0, 90 + id, "none")>>}
Reference == {<<>>, <<Word(2, 1)>>, <<Word(2, 2)>>, <<Stated(2, "placeholder", 9, 9, "none")>>}
Claims ==
  { <<Sentence(3, 1), Sentence(8, 1)>>, <<Sentence(3, 2), Stated(4, "number", 10, 10, "none")>>,
    <<Stated(4, "money", 20, 20, "none"), Stated(5, "text", 4, 4, "date"), Sentence(7, 1), Sentence(9, 1), Sentence(8, 2)>>,
    <<Stated(5, "text", 5, 5, "datetime"), Word(6, 1), Sentence(7, 1), Sentence(8, 1)>>,
    <<Stated(5, "text", 7, 7, "datetime"), Word(6, 2), Sentence(7, 2)>>,
    <<Stated(5, "text", 8, 8, "none"), Stated(7, "currency", 1, 1, "none"), Word(3, 2), Sentence(9, 2)>> }
Documents(id, claims) == {[id |-> id, fields |-> a \o r \o c] : a \in Account(id), r \in Reference, c \in claims}
Extracts(record, said) == [record |-> record, said |-> said]
Found ==
  { Extracts(1, <<Sentence(8, 1), Word(8, 2)>>), Extracts(2, <<Word(8, 3), Sentence(8, 3), Sentence(8, 4)>>),
    Extracts(2, <<Sentence(8, 1)>>), Extracts(3, <<Sentence(8, 2)>>), Extracts(4, <<Sentence(8, 5)>>) }
ContradictionInput ==
  { [records |-> {a, b, c}, extractions |-> Found] : a \in Documents(1, Claims), b \in Documents(2, Claims),
      c \in Documents(3, {<<Sentence(7, 3)>>}) }

-----------------------------------------------------------------------------
(* Financial structure: three records and an ownership edge.               *)
Financial == INSTANCE FinancialRules WITH Threshold <- 20, MaxEdges <- 4, MaxSupportingIds <- 2, MaxFacts <- 2

Absent == [kind |-> "absent", value |-> 0, scale |-> 0, hint |-> 0]
Paid(kind, value, scale) == [kind |-> kind, value |-> value, scale |-> scale, hint |-> 1]
Is(class) == [exact |-> {class}, inside |-> {class}]
Raw(id, amount, ref, account, parties, status) ==
  [ id |-> id, amount |-> amount, currency |-> 0, ref |-> ref, account |-> account,
    parties |-> parties, status |-> status, time |-> 0 ]
RawRecord(id) ==
  { Raw(id, Paid("int", 10, 0), 1, 1, <<11>>, Is("completed")),
    Raw(id, Paid("string", 10, 2), 1, 1, <<12>>, Is("reversed")),
    Raw(id, Paid("string", 10, 2), 0, 2, <<11, 12>>, [exact |-> {}, inside |-> {"pending"}]),
    Raw(id, Paid("int", -10, 0), 2, 2, <<12>>, [exact |-> {}, inside |-> {"completed", "reversed"}]),
    Raw(id, Paid("float", 20, 1), 0, 1, <<>>, [exact |-> {}, inside |-> {}]),
    Raw(id, Paid("junk", 0, 0), 1, 0, <<13, 11>>, Is("completed")),
    Raw(id, Absent, 0, 2, <<13>>, [exact |-> {}, inside |-> {}]),
    Raw(id, Absent, 0, 0, <<>>, Is("completed")) }
Owned == {<<>>, <<[source |-> 14, target |-> 2, record |-> 9]>>,
          <<[source |-> 1, target |-> 2, record |-> 0], [source |-> 13, target |-> 14, record |-> 9]>>}
Victim(id, reported, lost) ==
  [ id |-> id, currency |-> 0, incident_date |-> 0,
    amounts |-> [reported_amount |-> reported, amount_lost |-> lost, recovery_amount |-> {}] ]
Victims == {Victim(7, {20}, {30}), Victim(8, {}, {10}), Victim(9, {}, {})}
FinancialInput ==
  { [records |-> r, owns |-> o, victims |-> v, depth |-> d, paths |-> p] :
      r \in {<<a, b, c>> : a \in RawRecord(1), b \in RawRecord(2), c \in RawRecord(3)}
            \cup {<<a, b>> : a \in RawRecord(1), b \in RawRecord(2)},
      o \in Owned, v \in {{}, Victims}, d \in {2, 3}, p \in {1, 3} }

-----------------------------------------------------------------------------
(* Timeline: two records of one file, the first with an artifact.          *)
Never == -1
TimeField(name) ==
  { [name |-> name, hint |-> h, kind |-> k, says |-> s, at |-> s - 1] :
      <<h, k, s>> \in ({"strong"} \X {"scalar"} \X (0..3)) \cup {<<"weak", "scalar", 0>>, <<"weak", "other", 2>>} }
FirstFields == {{f, g} : <<f, g>> \in TimeField(1) \X TimeField(2)} \cup {{}}
Dated == {[says |-> s, at |-> s - 1] : s \in 1..3}
Read(record, fields, dates, events) ==
  [source |-> [file |-> 1, record |-> record], fields |-> fields, dates |-> dates, events |-> events]
TimelineInput ==
  { [items |-> {Read(1, f, d, e), Read(2, g, <<>>, <<>>)}, existing |-> {[file |-> 1, at |-> 2]}] :
      f \in FirstFields, d \in {<<>>} \cup {<<x, y>> : <<x, y>> \in Dated \X Dated},
      e \in {<<>>} \cup {<<x, y>> : <<x, y>> \in {[says |-> 0, at |-> -1], [says |-> 4, at |-> -1]} \X {[says |-> 2, at |-> 1]}},
      g \in {{}} \cup {{f} : f \in TimeField(1)} }

-----------------------------------------------------------------------------
(* Matching: three persons, and a phone number 9 that signals may name.    *)
(* Names 1 and 2 are alike, 1 and 3 much alike.                            *)
Alike(a, b) == CASE {a, b} = {1, 2} -> 85 [] {a, b} = {1, 3} -> 96 [] a = b -> 100 [] OTHER -> 10
ByName(type) == CASE type = "account" -> 1 [] type = "person" -> 2 [] OTHER -> 3

Entity(id, type, value, aliases, key, signals) ==
  [id |-> id, type |-> type, value |-> value, aliases |-> aliases, key |-> key,
   signals |-> signals, records |-> {id}]
PersonEntity(id) ==
  { Entity(id, "person", v, a, k, s) : v \in 1..3, a \in {{}, {3}}, k \in {1, 2}, s \in {{}, {8}, {9}, {8, 9}} }
Identifiers == {Entity(8, "account", 8, {}, 8, {}), Entity(9, "phone", 9, {}, 9, {})}
MatchingInput ==
  {{a, b, c} \cup Identifiers : <<a, b, c>> \in PersonEntity(1) \X PersonEntity(2) \X
      {e \in PersonEntity(3) : e.aliases = {} /\ e.key = 1}}

-----------------------------------------------------------------------------
(* Triage: three records of one file, and the files its manifest names.    *)
Suspect(u) == IF u = 1 THEN {"ip_host", "userinfo"} ELSE {}
HostOf(u) == u \div 10
SchemeOf(u) == IF u % 10 = 1 THEN "http" ELSE "https"

NoMail == [present |-> FALSE, message_id |-> FALSE, return_path |-> 0, from |-> 0]
Mail(id, path, from) == [present |-> TRUE, message_id |-> id, return_path |-> path, from |-> from]
Plain(no) == [no |-> no, email |-> NoMail, urls |-> <<>>, visit |-> 0,
              entry |-> [name |-> 0, digest |-> 0], log |-> <<>>]
Line(t, f) == [time |-> t, failed |-> f]
TriageRecord(no) ==
  { Plain(no), [Plain(no) EXCEPT !.email = Mail(FALSE, 1, 2)], [Plain(no) EXCEPT !.email = Mail(TRUE, 1, 0)],
    [Plain(no) EXCEPT !.urls = <<1, 2, 3>>], [Plain(no) EXCEPT !.urls = <<1>>, !.visit = 51],
    [Plain(no) EXCEPT !.visit = 52], [Plain(no) EXCEPT !.visit = 61] }
  \cup {[Plain(no) EXCEPT !.entry = [name |-> n, digest |-> d]] : n \in 0..2, d \in 1..2}
  \cup {[Plain(no) EXCEPT !.log = <<Line(t, TRUE), Line(u, f)>>] : t \in 1..3, u \in {2, 4, 5}, f \in BOOLEAN}
TriageFiles == [1..2 -> [name : 1..2, digest : 0..2]]
TriageInput ==
  { [records |-> {a, b, c}, files |-> f] :
      <<a, b, c>> \in TriageRecord(1) \X TriageRecord(2) \X {r \in TriageRecord(3) : r.log # <<>> \/ r.entry.digest # 0},
      f \in {{}} }
  \cup { [records |-> {a, b}, files |-> Range(f)] :
      a \in {r \in TriageRecord(1) : r.entry.digest # 0}, b \in TriageRecord(2), f \in TriageFiles }

-----------------------------------------------------------------------------
(* Report audit: a draft of four sentences, each one position long.        *)
ClaimDates(t) == CASE t = 1 -> <<3>> [] t = 2 -> <<2, 4>> [] t = 3 -> <<1>> [] OTHER -> <<>>
Money(v, c) == [value |-> v, digits |-> v, currency |-> c]
ClaimAmounts(t) ==
  CASE t = 2 -> <<Money(5, 1)>> [] t = 3 -> <<Money(5, 2), Money(5, 1)>>
    [] t = 4 -> <<Money(5, 0), Money(2, 0), Money(6, 2)>> [] OTHER -> <<>>
ClaimTokens(t) == [j \in DOMAIN ClaimAmounts(t) |-> ClaimAmounts(t)[j].digits]
NoPosition == -1
OnePosition(s, e) == IF e = s + 1 THEN s ELSE 0
SaysTotal(t) == t = 4

Ref(kind, id) == [kind |-> kind, id |-> id, case |-> 0, locator |-> 0, quote |-> <<>>]
Row(kind, id, case, body) == [kind |-> kind, id |-> id, case |-> case, fields |-> <<>>, body |-> body]
AuditRows == {Row("source_record", 1, 1, 7), Row("source_record", 2, 2, 8), Row("evidence_file", 3, 1, 9),
              Row("entity", 4, 1, 0)}
Cited == {<<>>, <<Ref("source_record", 1)>>, <<Ref("none", 3), Ref("none", 1)>>, <<Ref("source_record", 2)>>,
          <<Ref("entity", 4), Ref("evidence_file", 3), Ref("none", 1)>>, <<Ref("none", 6)>>}
RawClaim(id, text, start, category, cited, listed) ==
  [id |-> id, text |-> text, start |-> start, end |-> start + 1, category |-> category,
   cited |-> cited, listed |-> listed]
RawClaims(id) ==
  {RawClaim(id, t, t, k, c, TRUE) : t \in 1..4, k \in {"timeline", "factual_statement"}, c \in Cited}
Shapeless ==
  { RawClaim(9, 2, 2, "other", <<>>, FALSE), RawClaim(1, 0, 2, "timeline", <<>>, TRUE),
    RawClaim(9, 1, 3, "timeline", <<Ref("none", 1)>>, TRUE) }
Unplaced == {[RawClaim(9, t, 1, "timeline", <<>>, TRUE) EXCEPT !.start = -1] : t \in {1, 4}}
CaseRecords == <<[no |-> 1, tokens |-> {5}], [no |-> 2, tokens |-> {6, 5}]>>
Audited(raw, parsed, p) ==
  [ raw |-> raw, parsed |-> parsed, reply |-> [t \in 0..4 |-> p], rows |-> AuditRows, case |-> 1,
    records |-> CaseRecords, events |-> {2, 3} ]
Replies == { [verdict |-> v, quotes |-> q] :
  <<v, q>> \in {<<"contradicted", {7}>>, <<"contradicted", {}>>, <<"partially_supported", {7, 8}>>,
                <<"not_established", {}>>, <<"supported", {9}>>, <<"failed", {}>>} }
AuditInput ==
  { Audited(r, TRUE, p) :
      r \in {<<a, b>> : <<a, b>> \in RawClaims(1) \X (RawClaims(2) \cup Shapeless)}, p \in Replies }
  \cup { Audited(<<a, b, c>>, TRUE, p) :
            a \in {q \in RawClaims(1) : q.cited = <<>>}, b \in Shapeless, c \in RawClaims(3),
            p \in {q \in Replies : q.verdict = "contradicted"} }
  \cup { Audited(<<a, b>>, k, p) : a \in RawClaims(1), b \in Unplaced, k \in BOOLEAN, p \in Replies }

-----------------------------------------------------------------------------
(* Network analytics: every graph of five entities, two mixes of types.    *)
Network == INSTANCE GraphRules WITH
  Quality <- 0, IdentifierMin <- 3, ConcentrationMin <- 3, MaxPerType <- 2, MaxHypotheses <- 2

EntityTypes ==
  { <<"person", "person", "organization", "phone", "location">>,
    <<"phone", "person", "location", "person", "person">> }
Links == {<<a, b>> \in (1..5) \X (1..5) : a < b}
NetworkInput ==
  [types : EntityTypes, links : {l \cup {<<1, 1>>} : l \in SUBSET Links}, spread : {<<4, 2, 3, 1>>}]
HalfWay == [n \in 1..5 |-> 50]

-----------------------------------------------------------------------------
(* Assistant: three cases of two users, the first with entities 11 to 14   *)
(* of which 14 was merged away; texts are told apart by their last digit.  *)
LastDigit(t) == t % 10
SameDigit(t, u) == t % 10 = u % 10
FallingScore(e) == 300 - e

ThreeCases(number, second, third, members) ==
  { [id |-> 1, number |-> 1, title |-> 5, owner |-> 1, members |-> {}],
    [id |-> 2, number |-> number, title |-> second, owner |-> 2, members |-> members],
    [id |-> 3, number |-> 3, title |-> third, owner |-> 2, members |-> {}] }
Node(id, case, active) == [id |-> id, case |-> case, active |-> active]
Held(ids, case) == {[id |-> i, case |-> case] : i \in ids}
Tie(id, case, a, b) == [id |-> id, case |-> case, source |-> a, target |-> b]
Ties == { {}, {Tie(81, 1, 11, 12)}, {Tie(81, 1, 11, 12), Tie(82, 1, 12, 11)},
          {Tie(81, 1, 11, 12), Tie(82, 1, 13, 13)}, {Tie(81, 1, 11, 14), Tie(82, 1, 12, 13), Tie(83, 1, 13, 11)} }
Measured(id, case, entity, raw, score) ==
  [id |-> id, case |-> case, name |-> "pagerank", entity |-> entity, raw |-> raw, score |-> score]
Rows(cases, links) ==
  [ cases |-> cases, links |-> links \cup {Tie(89, 2, 21, 22)},
    entities |-> {Node(11, 1, TRUE), Node(12, 1, TRUE), Node(13, 1, TRUE), Node(14, 1, FALSE),
                  Node(21, 2, TRUE), Node(22, 2, TRUE), Node(23, 3, TRUE)},
    evidence |-> Held({31, 32, 33}, 1) \cup Held({34}, 2), findings |-> Held({41}, 1) \cup Held({42}, 2),
    victims |-> Held({51}, 1) \cup Held({52}, 2), events |-> Held({61}, 1) \cup Held({62}, 2),
    metrics |-> {Measured(71, 1, 11, 200, 900), Measured(72, 1, 12, 0, 0), Measured(73, 2, 11, 400, 100)} ]
NoRows(cases) ==
  [ cases |-> cases, links |-> {}, entities |-> {}, evidence |-> {}, findings |-> {}, victims |-> {},
    events |-> {}, metrics |-> {} ]
Sight == {ThreeCases(n, s, t, m) : n \in {2, 11}, s \in {6, 15}, t \in {6, 25}, m \in {{}, {1}}}

References == {[id |-> 0, text |-> t] : t \in {0, 1, 12, 15, 6}} \cup {[id |-> i, text |-> 0] : i \in {1, 2, 4}}
ToolCalls ==
  { [tool |-> t, ref |-> r, metric |-> "none"] : r \in References,
      t \in {"search_cases", "get_case_summary", "list_evidence", "get_timeline", "get_analytics_summary"} }
  \cup { [tool |-> "get_entity", ref |-> [id |-> i, text |-> 0], metric |-> "none"] : i \in {0, 11, 21, 23, 29} }
  \cup { [tool |-> "rank_entities", ref |-> r, metric |-> m] : r \in References,
           m \in {"relationship_count", "distinct_neighbors", "pagerank", "fame"} }
Asker(id, admin) == [id |-> id, admin |-> admin]
AssistantInput ==
  [ db : {Rows(c, {Tie(81, 1, 11, 12)}) : c \in Sight} \cup {NoRows(c) : c \in Sight},
    user : {Asker(1, FALSE), Asker(2, FALSE), Asker(1, TRUE)}, bound : {0, 1}, call : ToolCalls ]

Claim(name, entity, value) == [name |-> name, entity |-> entity, value |-> value]
Claims1 ==
  {Claim("relationship_count", e, 1000 * n) : e \in {11, 13, 14, 21}, n \in 0..2}
  \cup {Claim("pagerank", e, v) : e \in {11, 12}, v \in {0, 100, 195, 200, 400, 900}}
GroundingInput ==
  [ db : {Rows(ThreeCases(2, 6, 6, {}), l) : l \in Ties}, mode : {"ask", "case", "graph", "report"},
    features : {{}, {"evidence", "graph"}}, ids : {{}, {1, 11, 31}, {2, 89, 82, 14, 21, 33, 51}}, claim : Claims1 ]
Answer(in) == [ids |-> in.ids, claims |-> {in.claim}]

-----------------------------------------------------------------------------
(* Extraction: token 1 is a number of ten digits, 2 one of twelve, 3 of    *)
(* three; 11 and 12 are words, 13 "Mr", 14 "Ltd", 15 "The".                *)
Extraction == INSTANCE ExtractionRules WITH
  Width <- LAMBDA t : CASE t = 0 -> 1 [] t = 1 -> 10 [] t = 2 -> 12 [] t = 3 -> 3 [] t = 9 -> 2 [] OTHER -> 4,
  IsDigits <- LAMBDA t : t < 10, Honorific <- LAMBDA t : t = 13, Suffix <- LAMBDA t : t = 14,
  The <- 15, Zero <- 0, Country <- 9, FieldType <- LAMBDA h : h, MaxRelationships <- 4

Column(header, value) == [header |-> header, value |-> value]
Columns ==
  { Column("phone", v) : v \in {<<1>>, <<0, 1>>, <<0, 0, 9, 1>>, <<1, 2>>, <<3>>} }
  \cup { Column("person", v) : v \in {<<11, 12>>, <<13, 12>>, <<13>>} }
  \cup { Column("organization", v) : v \in {<<15, 11, 14>>, <<14>>, <<12>>} }
  \cup { Column("document", v) : v \in {<<2>>, <<11, 1>>, <<11, 3>>} }
  \cup { Column("account", <<1, 3>>), Column("vehicle", <<11, 3>>), Column("vehicle", <<3, 3>>),
         Column("location", <<12>>), Column("none", <<1>>) }
NoText == [lengths |-> <<>>, blank |-> {}, apart |-> 1]
Structured ==
  [ fields : {<<a, b, c>> : <<a, b, c>> \in Columns \X Columns \X Columns} \cup
             {<<Column("person", <<11, 12>>), Column("phone", <<1, 2>>), a, Column("organization", <<15, 11, 14>>)>> :
                a \in Columns},
    spots : {<<>>}, text : {NoText}, structured : {TRUE}, unresolved : {"none", "person"} ]

Spot(at, patterns, ner, value, bare) ==
  [start |-> at, end |-> at + 2, patterns |-> patterns, ner |-> ner, value |-> value, bare |-> bare, plus |-> FALSE]
SpotAt(at) ==
  { <<>>, <<Spot(at, {"phone"}, "none", <<1>>, FALSE)>>, <<Spot(at, {"phone", "aadhaar"}, "none", <<2>>, FALSE)>>,
    <<Spot(at, {"phone", "account_label"}, "none", <<2>>, TRUE)>>, <<Spot(at, {}, "person", <<11>>, FALSE)>>,
    <<Spot(at, {}, "person", <<13, 12>>, FALSE)>> }
(* Three sentences of five characters, the second may be blank.            *)
FreeText ==
  UNION { { [ fields |-> f, spots |-> a \o b \o c \o d, structured |-> FALSE, unresolved |-> "none",
              text |-> [lengths |-> <<5, 5, 5>>, blank |-> IF b \o c = <<>> THEN {2} ELSE {}, apart |-> n] ] :
            a \in SpotAt(3), b \in SpotAt(5 + n), c \in SpotAt(8 + n), d \in SpotAt(10 + 2 * n),
            f \in {<<>>, <<Column("phone", <<9, 1>>)>>} } : n \in {1, 2} }
Mentions(in) == Extraction!extract_record_mentions(in.fields, in.spots)
Resolved(in) ==
  {k \in {Extraction!Key(m) : m \in Range(Mentions(in))} : k[1] # in.unresolved}

-----------------------------------------------------------------------------
(* Source check: text 1 is part of 2, 7 is a short part of 2, 3 and 4 read *)
(* as numbers and one is part of the other, 5 and 6 are the same day.      *)
SourceCheck == INSTANCE SourceCheckRules WITH
  None <- -1, Fields <- {"names", "amounts"}, Short <- LAMBDA t : t = 7,
  Within <- LAMBDA t, u : <<t, u>> \in {<<1, 2>>, <<7, 2>>, <<3, 4>>}

Value(kind, text, number, date, items) ==
  [kind |-> kind, text |-> text, number |-> number, date |-> date, items |-> items]
Text(t) == Value("text", t, CASE t = 3 -> 100 [] t = 4 -> 1000 [] OTHER -> -1, IF t \in {5, 6} THEN 1 ELSE -1, <<>>)
Number(n) == Value("number", 0, n, -1, <<>>)
Truth == Value("bool", 0, 1, -1, <<>>)
List(items) == Value("list", 0, -1, -1, items)
Texts == {Text(t) : t \in 0..7}
NameLists == {List(<<>>)} \cup {List(<<a, b>>) : <<a, b>> \in Texts \X Texts}
AmountLists == {List(<<a>>) : a \in Texts \cup {Number(100)}} \cup {Text(3), Value("none", 0, -1, -1, <<>>)}
Objects ==
  {[names |-> n, amounts |-> a] : n \in NameLists, a \in AmountLists}
  \cup {[names |-> n] : n \in NameLists} \cup {[names |-> n, amounts |-> List(<<>>), extra |-> n] : n \in NameLists}
Parsed(o) == [parsed |-> "object", fields |-> o]
Broken == [parsed |-> "broken", fields |-> <<>>]
Other == [parsed |-> "other", fields |-> <<>>]
Reply(whole, fences, span) == [whole |-> whole, fences |-> fences, span |-> span]
Sources ==
  { [note |-> Text(2), paid |-> Text(4)], [note |-> Text(1), paid |-> Number(100)],
    [note |-> List(<<Text(6), Truth>>), paid |-> Number(1000)],
    [note |-> Value("dict", 0, -1, -1, <<Text(3), Text(5)>>), paid |-> Number(1)] }
SourceCheckInput ==
  { [reply |-> r, source |-> s] : s \in Sources,
      r \in {Reply(Parsed(o), <<>>, Parsed(o)) : o \in Objects}
           \cup {Reply(Broken, <<f, Broken>>, Parsed([names |-> List(<<Text(1), Text(3)>>), amounts |-> List(<<>>)])) :
                    f \in {Other, Broken} \cup {Parsed(o) : o \in Objects}}
           \cup {Reply(Other, <<>>, Broken)} }

-----------------------------------------------------------------------------
(* Translation: 1 and 2 are one Latin letter, 3 a Devanagari, 4 another    *)
(* letter, 11 to 13 digits, 21 the Devanagari 11, 31 a comma, 32 a full    *)
(* stop, 33 a slash; 41 to 45 stand for phrases and words.                 *)
Translation == INSTANCE TranslationRules WITH
  Digits <- {11, 12, 13, 21}, IndicDigits <- {21}, Month <- LAMBDA d : d # 13,
  Fold <- LAMBDA c : CASE c = 2 -> 1 [] c = 21 -> 11 [] OTHER -> c,
  Devanagari <- {3}, Latin <- {1, 2}, Other <- {4}, Punctuation <- {31, 32, 33}, Separators <- {31, 32},
  Stops <- {32}, Slashes <- {33}, Instruction <- 41, Reference <- {42}, Negation <- {43},
  Currency <- {44}, Legal <- {45}, MinCore <- 2

Written(characters, length) == UNION {[1..n -> characters] : n \in 0..length}
Complaints == Written({1, 2, 3, 4, 11, 21, 31, 32, 41}, 3) \cup Written({1, 3, 4}, 5)
Readings == Written({1, 2, 11, 21, 31}, 2) \cup {<<11, 21, 11>>, <<32, 1>>}
Originals == Written({11, 12, 21, 31, 42, 43}, 3) \cup {<<a, 33, b, 33, c>> : a, b, c \in {11, 12, 13, 21}}
Translations == Written({11, 21, 31, 42, 43}, 2) \cup {<<11, 33, 12, 33, 13>>, <<11, 12, 13>>, <<12, 11, 13, 43>>, <<44>>, <<45, 44, 11>>}
TranslationInput == {<<o, t>> : o \in Originals, t \in Translations}

-----------------------------------------------------------------------------
Init ==
  \/ RulesInit
  \/ /\ called = FALSE /\ output = {}
     /\ \/ rule = "network" /\ input \in NetworkInput
        \/ rule = "financial" /\ input \in FinancialInput
        \/ rule = "grounding" /\ input \in GroundingInput
        \/ rule = "source_check" /\ input \in SourceCheckInput
        \/ rule = "extraction" /\ input \in Structured \cup FreeText
        \/ rule = "complaint" /\ input \in Complaints
        \/ rule = "translation" /\ input \in TranslationInput

CallFinancial ==
  /\ Call("financial")
  /\ output' = Financial!build_payload(Financial!extract_facts(input.records), input.victims, input.owns)
CallNetwork ==
  Call("network") /\ output' = Network!compute(input.types, input.links, input.spread, HalfWay, HalfWay)
CallGrounding ==
  /\ Call("grounding")
  /\ LET shown == Assistant!build_case_context(input.db, 1, Assistant!include(input.mode, input.features))
     IN output' = Assistant!validate_cited_claims(input.db, 1, Answer(input), Assistant!known_uuids(shown))
CallExtraction ==
  /\ Call("extraction")
  /\ output' = Extraction!extract_relationships(Mentions(input), Resolved(input), input.structured, input.text)
CallSourceCheck ==
  /\ Call("source_check")
  /\ LET result == SourceCheck!parse_structured(input.reply)
     IN output' = [ result |-> result,
                    flagged |-> UNION {SourceCheck!check_fields_against_source(d, input.source, {}) : d \in result.data} ]
CallComplaint ==
  /\ Call("complaint")
  /\ output' = [ script |-> Translation!profile_scripts(input), flags |-> Translation!ambiguity_flags(input) ]
CallTranslation ==
  Call("translation") /\ output' = Translation!_record_translation(input[1], input[2])

Next == RulesNext \/ CallFinancial \/ CallNetwork \/ CallGrounding \/ CallExtraction
        \/ CallSourceCheck \/ CallComplaint \/ CallTranslation

Spec == Init /\ [][Next]_calls

-----------------------------------------------------------------------------
(* Totals do not move when a known transfer is recorded again, and can be  *)
(* redone from the facts that are listed; a trace is the first of the      *)
(* maximal paths, and says when it is not all of them.                     *)
MoneyIsTraced ==
  Called("financial") =>
    LET facts == Financial!extract_facts(input.records)
    IN /\ Financial!ListingExplains(facts, input.victims, output)
       /\ \A f \in Range(facts) : Financial!TotalsReconcile(facts, f)
       /\ \A kind \in {"account", "transaction"} :
            LET answer == Financial!trace_flows(facts, input.owns, kind, 1, "association",
                                                input.depth, input.paths)
            IN /\ (answer.status = "not_found" /\ kind = "account") =>
                    \A f \in Range(facts) : f.account # 1
               /\ answer.start # 0 =>
                    Financial!TraceIsComplete(output.structure_network, answer.start,
                                              input.depth, input.paths, answer.trace)

(* What is read of a text or of the links is there: an id or a number of  *)
(* the assistant passes only when the case has it; an edit of what it      *)
(* extracted keeps values of the record and adds none; what an injected    *)
(* instruction plants is withheld, what a translation drops is seen; two   *)
(* mentions are linked when their record says so; a cut vertex splits the  *)
(* network, no entity would be better off in another community, and a link *)
(* that is proposed does not exist.                                        *)
ReadingsAreTrue ==
  /\ Called("grounding") => Assistant!CheckIsSound(input.db, 1, Answer(input), output)
  /\ Called("source_check") =>
       /\ SourceCheck!EditsOnlyKeep(input.reply, input.source)
       /\ SourceCheck!QuotesAreFound(Texts \cup {Number(100), Truth}, input.source)
  /\ Called("complaint") =>
       /\ \A v \in Readings : Translation!PlantedIsWithheld(input, v)
       /\ \A label \in Translation!_LANGUAGE_LABELS : Translation!LabelFollowsScript(input, label)
  /\ Called("translation") => Translation!FiguresSurvive(input[1], input[2]) /\ Translation!FlagsAreLocal(input[1], input[2])
  /\ Called("extraction") =>
       /\ Extraction!MentionsAreNormal(Mentions(input))
       /\ IF input.structured THEN Extraction!FieldsAreLinked(Mentions(input), Resolved(input), output)
          ELSE Extraction!SentencesAreLinked(Mentions(input), Resolved(input), input.text, output)
  /\ Called("network") =>
       /\ Network!CutsSplitTheNetwork(output)
       /\ Network!CommunitiesAreStable(output)
       /\ Network!LinksAreMissing(output)

=============================================================================

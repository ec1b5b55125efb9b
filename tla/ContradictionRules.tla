------------------------- MODULE ContradictionRules -------------------------
(***************************************************************************)
(* The deterministic half of contradiction detection (services/            *)
(* contradiction_detection.py): the claims a record makes, the identifiers *)
(* that anchor two records to one subject, and the comparison matrix that  *)
(* says which of their claims may be compared.  Values are abstract:       *)
(*   form  what the value reads as: "empty", "currency", "number",         *)
(*         "money" (a number behind a currency sign), "text" or            *)
(*         "placeholder" (TBD, n/a, ...)                                   *)
(*   key   what the comparison keeps of it; 0 when folding case and        *)
(*         dropping all but ASCII letters and digits leaves nothing        *)
(*   raw   what is written, case and punctuation aside                     *)
(*   gran  "datetime" or "date" when it parses as a timestamp, else "none";*)
(*         then key is the instant and key \div 2 its day                  *)
(*   long  a string of MIN_STATEMENT_CHARS characters or more              *)
(***************************************************************************)
EXTENDS Integers, FiniteSets

CONSTANTS
  Hints(_),       \* the hint lists that a normalized field name meets, a set
  MaxPerAnchor,   \* CONTRADICTION_MAX_RECORDS_PER_ANCHOR
  MaxPairEvals,   \* CONTRADICTION_MAX_PAIR_EVALS
  MaxPerPair,     \* MAX_CONFLICTS_PER_PAIR
  MaxTotal,       \* MAX_TOTAL_CONFLICTS
  MaxStatements,  \* MAX_STATEMENTS_PER_RECORD
  Extracted       \* the name "statements" of what an extraction found

(* Tuples of numbers in the order of Python's sort.                        *)
Before(s, t) == \E j \in DOMAIN s : s[j] < t[j] /\ \A h \in 1..(j - 1) : s[h] = t[h]
Rank(x, S) == Cardinality({y \in S : Before(y, x)})
FirstOf(n, S) == {x \in S : Rank(x, S) < n}

-----------------------------------------------------------------------------
(* Claims.                                                                 *)

Is(hint, field) == hint \in Hints(field.name)

classify_field(f) ==
  CASE f.form = "empty" -> "none"
    [] f.form = "currency" -> "currency"
    [] f.form = "money" \/ (f.form = "number" /\ Is("amount", f)) -> "amount"
    [] f.gran # "none" -> "date"
    [] Is("date", f) -> "none"
    [] f.form # "number" /\ Is("status", f) -> "status"
    [] Is("identifier", f) /\ f.form # "placeholder" -> "identifier"
    [] OTHER -> "none"

(* The first comparable value under each name.                             *)
record_claims(record) ==
  LET f == record.fields
      comparable == {j \in DOMAIN f : classify_field(f[j]) # "none"}
  IN { [ record |-> record.id, name |-> f[j].name, cls |-> classify_field(f[j]),
         key |-> f[j].key, raw |-> f[j].raw, gran |-> f[j].gran,
         txn |-> "txn" \in Hints(f[j].name) ] :
         j \in {h \in comparable : \A g \in comparable : f[g].name = f[h].name => h <= g} }

-----------------------------------------------------------------------------
(* Anchors.                                                                *)

identifier_index(claims) ==
  LET ids == {c \in claims : c.cls = "identifier"}
  IN [ value \in {c.key : c \in ids} |->
         { <<c.record, IF c.txn THEN "transaction" ELSE "entity">> :
             c \in {d \in ids : d.key = value} } ]

anchor_scope(members) ==
  IF \E m \in members : m[2] = "transaction" THEN "transaction" ELSE "entity"

(* The pairs to compare, <<anchor value, record, record>>, bounded first   *)
(* within each anchor and then over all of them.                           *)
Records(members) == FirstOf(MaxPerAnchor, {<<m[1]>> : m \in members})
AnchoredPairs(index) ==
  UNION { UNION { {<<value, a[1], b[1]>> : b \in {c \in Records(index[value]) : a[1] < c[1]}} :
                  a \in Records(index[value]) } : value \in DOMAIN index }
EvaluatedPairs(index) ==
  FirstOf(MaxPairEvals, AnchoredPairs(index))

-----------------------------------------------------------------------------
(* The matrix.                                                             *)

Agree(a, b) ==
  IF a.cls = "date" /\ "date" \in {a.gran, b.gran}
  THEN a.key \div 2 = b.key \div 2
  ELSE a.key = b.key

Comparable_anyScope(cls, txn, scope) == cls \in {"status", "identifier"} \/ scope = "transaction"
Comparable(cls, txn, scope) ==
  scope = "transaction" \/ (cls \in {"status", "identifier"} /\ ~ txn)

(* Names on which one anchored pair is in conflict, the first few of them. *)
compare_record_pair(mine, theirs, scope) ==
  LET names == { c.name : c \in {d \in mine : \E e \in theirs :
                    /\ e.name = d.name /\ e.cls = d.cls
                    /\ Comparable(d.cls, d.txn, scope)
                    /\ ~ Agree(d, e)} }
  IN {n[1] : n \in FirstOf(MaxPerPair, {<<name>> : name \in names})}

(* Conflicts <<anchor, record, record, name>>: each name of a pair once,   *)
(* under the first anchor that allows it.                                  *)
RecordOf(id, claims) == {c \in claims : c.record = id}
Pair(c) == <<c[2], c[3], c[4]>>
generate_conflicts(records) ==
  LET claims == UNION {record_claims(r) : r \in records}
      index == identifier_index(claims)
      names(p) == compare_record_pair(RecordOf(p[2], claims), RecordOf(p[3], claims), anchor_scope(index[p[1]]))
      raised == UNION {{<<p[1], p[2], p[3], n>> : n \in names(p)} : p \in EvaluatedPairs(index)}
  IN FirstOf(MaxTotal, {c \in raised : \A d \in raised : Pair(d) = Pair(c) => c[1] <= d[1]})

-----------------------------------------------------------------------------
(* Statements: the first long texts of a record that no rule reads, and    *)
(* those among the first sentences that an extraction of it found.         *)
IsStatement(f) == f.long /\ classify_field(f) = "none"

Says(record, name, text) == [record |-> record, name |-> name, text |-> text]
OwnStatements(r) ==
  LET said == {j \in DOMAIN r.fields : IsStatement(r.fields[j])}
  IN { Says(r.id, r.fields[j].name, r.fields[j].raw) :
         j \in {h \in said : Cardinality({g \in said : g < h}) < MaxStatements} }
FoundStatements(e) ==
  {Says(e.record, Extracted, e.said[j].raw) : j \in {h \in DOMAIN e.said : h <= MaxStatements /\ e.said[h].long}}
collect_statements(records, extractions) ==
  (UNION {OwnStatements(r) : r \in records})
  \cup UNION {FoundStatements(e) : e \in {x \in extractions : \E r \in records : r.id = x.record}}

(* The statements sent to the model, <<anchor, record, record, name>>: of  *)
(* each anchored pair the first name under which it says something else    *)
(* than the other and which was not sent under an anchor before.           *)
Differ(a, b, statements) ==
  { s.name : s \in {t \in statements : t.record = a /\ \E u \in statements :
                       u.record = b /\ u.name = t.name /\ u.text # t.text} }
Speaking(records, statements) == {r \in records : \E s \in statements : s.record = r.id}
semantic_pairs(records, statements, limit) ==
  LET pairs == AnchoredPairs(identifier_index(UNION {record_claims(r) : r \in Speaking(records, statements)}))
      before(p) == {q \in pairs : q[2] = p[2] /\ q[3] = p[3] /\ q[1] < p[1]}
      names(p) == Differ(p[2], p[3], statements)
      next(p) == {n \in names(p) : Cardinality({m \in names(p) : m < n}) = Cardinality(before(p))}
  IN FirstOf(limit, UNION {{<<p[1], p[2], p[3], n>> : n \in next(p)} : p \in pairs})

-----------------------------------------------------------------------------
(* The documented matrix, as the anchors under which a class of claim may  *)
(* be compared, by what the name of its field is about; and the pairs that *)
(* name one identifier.                                                    *)
Matrix(cls, about) ==
  IF cls \in {"status", "identifier"} /\ about = "entity"
  THEN {"transaction", "entity"} ELSE {"transaction"}
JointScopes(claims, a, b) ==
  LET ids == {c \in claims : c.cls = "identifier"}
      keys(r) == {i.key : i \in {j \in ids : j.record = r}}
  IN { IF \E i \in ids : i.key = k /\ i.txn THEN "transaction" ELSE "entity" : k \in keys(a) \cap keys(b) }
Disagreements(claims) ==
  LET subject(c) == IF c.txn THEN "transaction" ELSE "entity"
  IN { <<p[1].record, p[2].record, p[1].name>> : p \in
         { q \in claims \X claims :
             /\ q[1].record < q[2].record /\ q[1].name = q[2].name /\ q[1].cls = q[2].cls
             /\ IF "date" \in {q[1].gran, q[2].gran} /\ q[1].cls = "date"
                THEN q[1].key \div 2 # q[2].key \div 2
                ELSE q[1].key # q[2].key
             /\ Matrix(q[1].cls, subject(q[1])) \cap JointScopes(claims, q[1].record, q[2].record) # {} } }

(* No bound is met: not in an anchor, a pair, or over all of them.         *)
NoBoundMet(claims) ==
  LET index == identifier_index(claims)
  IN /\ \A k \in DOMAIN index : Cardinality({m[1] : m \in index[k]}) <= MaxPerAnchor
     /\ Cardinality(AnchoredPairs(index)) <= MaxPairEvals
     /\ \A a, b \in {c.record : c \in claims} : Cardinality({c.name : c \in RecordOf(a, claims)}) <= MaxPerPair
     /\ Cardinality(Disagreements(claims)) <= MaxTotal

(* What is reported disagrees and the matrix allows it; when no bound is   *)
(* met it is all that does, and each pair of records is blamed once for a  *)
(* name.                                                                   *)
MeetsTheMatrix(records, conflicts) ==
  LET claims == UNION {record_claims(r) : r \in records}
      blamed == {Pair(c) : c \in conflicts}
  IN /\ blamed \subseteq Disagreements(claims)
     /\ NoBoundMet(claims) => Disagreements(claims) \subseteq blamed
     /\ Cardinality(conflicts) <= MaxTotal
     /\ \A c, d \in conflicts : Pair(c) = Pair(d) => c = d

(* The model is asked about a pair of statements once, whatever number of  *)
(* identifiers the records share, and never beyond the limit.              *)
AskedOnce(sent, limit) ==
  /\ Cardinality(sent) <= limit
  /\ \A p, q \in sent : Pair(p) = Pair(q) => p = q

(* What the rules compare the model is not asked about, unless a record    *)
(* says two things under one name; below the limits it is asked about      *)
(* every two records that name one subject and say different things under  *)
(* one name.                                                               *)
SaysTwice(r, name) ==
  \/ name = Extracted
  \/ \E i, j \in DOMAIN r.fields : i # j /\ r.fields[i].name = name /\ r.fields[j].name = name
BothPassesComplete(records, statements, conflicts, sent, limit) ==
  LET names(r) == {c.key : c \in {d \in record_claims(r) : d.cls = "identifier"}}
      naming(k) == {r.id : r \in {q \in records : k \in names(q)}}
      differ(a, b) == \E t, u \in statements : t.record = a.id /\ u.record = b.id
                                              /\ t.name = u.name /\ t.text # u.text
  IN /\ \A c \in conflicts : \A q \in sent : Pair(c) = Pair(q) =>
          \E r \in records : r.id = c[2] /\ SaysTwice(r, c[4])
     /\ (Cardinality(sent) < limit /\ \A r \in records : \A k \in names(r) : Cardinality(naming(k)) <= MaxPerAnchor) =>
          \A a, b \in records :
            a.id < b.id /\ names(a) \cap names(b) # {} /\ differ(a, b) =>
              \E q \in sent : q[2] = a.id /\ q[3] = b.id

=============================================================================

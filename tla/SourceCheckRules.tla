--------------------------- MODULE SourceCheckRules ---------------------------
(***************************************************************************)
(* What survives of a model's structured reply                             *)
(* (services/structured_extraction.py): the JSON object found in it, the   *)
(* schema it has to satisfy, and the search of each of its values in the   *)
(* record it was derived from; and how an edit of it is checked again      *)
(* (validate_edited_fields).                                               *)
(*                                                                         *)
(* A value tells its kind, its text up to case and spaces (0 is blank),    *)
(* the number and the day its text reads as (None when it reads as none),  *)
(* and the items of a list or an object.                                   *)
(***************************************************************************)
EXTENDS Integers, Sequences, FiniteSets, SequencesExt

CONSTANTS
  None,            \* no number, no day
  Fields,          \* fields of the extraction schema, all required
  Within(_, _),    \* one text is part of another
  Short(_)         \* a text of less than _MIN_SUBSTRING_LEN characters

as_decimal(v) == IF v.kind \in {"number", "text"} THEN v.number ELSE None
as_date(v) == IF v.kind \in {"date", "text"} THEN v.date ELSE None
SameNumber(v, w) == as_decimal(v) # None /\ as_decimal(v) = as_decimal(w)
SameDay(v, w) == as_date(v) # None /\ as_date(v) = as_date(w)
SameText(v, w) == v.kind = "text" /\ w.kind = "text" /\ v.text = w.text

(* The strict comparison of citation quotes.                               *)
values_equal(expected, actual) ==
  CASE "bool" \in {expected.kind, actual.kind} -> expected = actual
    [] as_decimal(expected) # None /\ as_decimal(actual) # None -> SameNumber(expected, actual)
    [] as_date(expected) # None /\ as_date(actual) # None -> SameDay(expected, actual)
    [] expected.kind = "text" /\ actual.kind = "text" -> SameText(expected, actual)
    [] OTHER -> expected = actual

(* The search for a value: a text may be a part of a longer one.           *)
TextFound(v, s) ==
  s.kind = "text" /\ (v.text = s.text \/ (~ Short(v.text) /\ Within(v.text, s.text)))
ScalarFound(v, sources) ==
  CASE v.kind = "none"   -> TRUE
    [] v.kind = "dict"   -> FALSE
    [] v.kind = "number" -> \E s \in sources : SameNumber(v, s)
    [] v.kind = "text"   -> v.text # 0 /\ \E s \in sources : TextFound(v, s) \/ SameNumber(v, s) \/ SameDay(v, s)
    [] OTHER             -> v \in sources
value_matches_source(v, sources) ==
  IF v.kind = "list" THEN \A i \in DOMAIN v.items : ScalarFound(v.items[i], sources)
  ELSE ScalarFound(v, sources)

_flatten(source) ==
  UNION { IF source[f].kind \in {"list", "dict"} THEN ToSet(source[f].items) ELSE {source[f]} : f \in DOMAIN source }

(* Every problem of every field is reported.                               *)
FieldIssue(field, code) == [field |-> field, code |-> code]
check_fields_against_source(data, source, locators) ==
  {FieldIssue(l.name, "locator_invalid") : l \in {k \in locators : k.name \in DOMAIN data /\ k.field \notin DOMAIN source}}
  \cup {FieldIssue(f, "unsupported_field_type") : f \in {g \in DOMAIN data : data[g].kind = "dict"}}
  \cup { FieldIssue(f, "value_not_in_source") :
           f \in {g \in DOMAIN data : data[g].kind # "dict" /\ ~ value_matches_source(data[g], _flatten(source))} }

-----------------------------------------------------------------------------
(* The reply: the first candidate that is a JSON object, of the whole text,*)
(* its fenced blocks and what lies between the outermost braces.           *)
parse_json_object(reply) ==
  LET objects == SelectSeq(<<reply.whole>> \o reply.fences \o <<reply.span>>, LAMBDA c : c.parsed = "object")
  IN IF objects = <<>> THEN {} ELSE {objects[1].fields}

EvidenceExtractionSchema(v) == v.kind = "list" /\ \A i \in DOMAIN v.items : v.items[i].kind = "text"
parse_structured(reply) ==
  LET found == parse_json_object(reply)
      object == CHOOSE o \in found : TRUE
      issues == IF found = {} THEN {FieldIssue("", "malformed_json")}
                ELSE {FieldIssue(f, "unknown_field") : f \in DOMAIN object \ Fields}
                     \cup { FieldIssue(f, "schema_error") : f \in
                              {g \in Fields : g \notin DOMAIN object \/ ~ EvidenceExtractionSchema(object[g])} }
  IN [data |-> IF issues = {} THEN found ELSE {}, issues |-> issues]

(* An edited payload passes both checks or is refused.                     *)
Plain(fields) == [parsed |-> "object", fields |-> fields]
validate_edited_fields(fields, source) ==
  LET result == parse_structured([whole |-> Plain(fields), fences |-> <<>>, span |-> Plain(fields)])
  IN IF \E d \in result.data : check_fields_against_source(d, source, {}) = {} THEN result.data ELSE {}

-----------------------------------------------------------------------------
(* "Editing can change which values are kept, never which values exist":   *)
(* of an edit of what the model said every choice of items is accepted     *)
(* that holds none of the values the check objected to, and no other; and  *)
(* a reply that is not the whole schema leaves nothing to edit.            *)
EditsOnlyKeep(reply, source) ==
  \A data \in parse_structured(reply).data :
    LET bad == {f \in Fields : ~ value_matches_source(data[f], _flatten(source))}
        Keep(f, i) == [data EXCEPT ![f].items = <<data[f].items[i]>>]
        Without(f) == [data EXCEPT ![f].items = <<>>]
    IN /\ DOMAIN data = Fields
       /\ (validate_edited_fields(data, source) # {}) <=> check_fields_against_source(data, source, {}) = {}
       /\ \A f \in Fields : (validate_edited_fields(Without(f), source) # {}) <=> bad \subseteq {f}
       /\ \A f \in Fields : \A i \in DOMAIN data[f].items :
            validate_edited_fields(data, source) # {} => validate_edited_fields(Keep(f, i), source) # {}

(* A quote the strict comparison accepts is found by the search: no value  *)
(* is citable and at the same time "not in the source".                    *)
QuotesAreFound(values, source) ==
  \A v \in values : \A s \in _flatten(source) :
    values_equal(v, s) /\ v.text # 0 => value_matches_source(v, _flatten(source))
=============================================================================

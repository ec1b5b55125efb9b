---------------------------- MODULE CustodyRules ----------------------------
(***************************************************************************)
(* The chain of custody of one evidence file (services/custody.py and      *)
(* services/integrity.py): which custody events the API accepts, what the  *)
(* audit says of the accepted ones, and what a verification says of the    *)
(* bytes.  The rules are pure, so they are operators; the bytes, the clock *)
(* and the requests are their arguments.                                   *)
(***************************************************************************)
EXTENDS Integers, FiniteSets

CONSTANTS
  Skew,     \* CUSTODY_FUTURE_SKEW_SECONDS, tolerance of both sides
  NoDigest, \* a digest that is not recorded, or bytes that cannot be read
  Malformed \* a claimed digest that is no SHA-256

CUSTODY_EVENT_TYPES ==
  { "collected", "transferred", "received", "sealed", "unsealed", "verified",
    "accessed", "exported", "restored", "disposed" }

CUSTODY_REQUIRED_FIELDS ==
  [ t \in CUSTODY_EVENT_TYPES |->
      CASE t = "collected"   -> {"collector"}
        [] t = "transferred" -> {"transferor", "recipient"}
        [] t = "received"    -> {"recipient"}
        [] OTHER             -> {} ]

RULE_SEVERITY(rule) ==
  CASE rule \in {"hash_mismatch", "recorded_hash_mismatch"} -> "critical"
    [] rule \in {"hash_missing", "no_documented_custody"}   -> "info"
    [] OTHER                                                -> "warning"

-----------------------------------------------------------------------------
(* Recording.  A request carries the type, the time it claims, the parties *)
(* it names, a digest (malformed, none, or some digest), the start of its  *)
(* transaction and the later moment at which its handler reads the clock.  *)
record_custody_event(r) ==
  /\ r.type \in CUSTODY_EVENT_TYPES
  /\ r.occurred <= r.now + Skew
  /\ CUSTODY_REQUIRED_FIELDS[r.type] \subseteq r.parties
  /\ r.claimed # Malformed

(* The row of an accepted request: created_at is the database's now(), the *)
(* start of the transaction.                                               *)
EventRow(id, r) ==
  [ id |-> id, type |-> r.type, occurred |-> r.occurred, recorded |-> r.began,
    parties |-> r.parties, claimed |-> r.claimed ]

-----------------------------------------------------------------------------
(* The audit.  A snapshot: the digest recorded at upload, the digest of the*)
(* stored bytes, the rows, the number of audit entries and the time.       *)
Of(s, type) == {e \in s.events : e.type = type}
Issue(rule, ids) == [rule |-> rule, events |-> ids]

(* Findings about the file as a whole.                                     *)
FileIssues(s) ==
  LET rules ==
        {r \in {"hash_missing"} : s.recorded = NoDigest}
        \cup {r \in {"hash_mismatch"} : NoDigest \notin {s.stored, s.recorded} /\ s.stored # s.recorded}
        \cup {r \in {"source_missing"} : s.stored = NoDigest}
        \cup {r \in {"no_documented_custody"} : s.events = {} /\ s.audits = 0}
  IN {Issue(rule, {}) : rule \in rules}

(* Findings about one event.                                               *)
Acknowledged_strictly(s, e) == \E r \in Of(s, "received") : r.occurred > e.occurred
Acknowledged(s, e) == \E r \in Of(s, "received") : r.occurred >= e.occurred
BeforeEveryTransfer(s, e) ==
  /\ Of(s, "transferred") # {}
  /\ \A t \in Of(s, "transferred") : e.occurred < t.occurred

EventIssues(s, e) ==
  LET rules ==
        { r \in {"recorded_hash_mismatch"} :
            NoDigest \notin {s.stored, e.claimed} /\ e.claimed # s.stored }
        \cup {r \in {"missing_required_field"} : ~ CUSTODY_REQUIRED_FIELDS[e.type] \subseteq e.parties}
        \cup {r \in {"chronology_future"} : e.occurred > s.checked + Skew}
        \cup {r \in {"chronology_recorded_before_occurred"} : e.recorded + Skew < e.occurred}
        \cup { r \in {"chronology_received_before_transfer"} :
                  e.type = "received" /\ BeforeEveryTransfer(s, e) }
        \cup {r \in {"unacknowledged_transfer"} : e.type = "transferred" /\ ~ Acknowledged(s, e)}
  IN {Issue(rule, {e.id}) : rule \in rules}

(* Events of one type at one moment.                                       *)
Duplicates(s) ==
  LET same(e) == {f \in s.events : f.type = e.type /\ f.occurred = e.occurred}
  IN { Issue("duplicate_event", {f.id : f \in same(e)}) :
         e \in {g \in s.events : Cardinality(same(g)) > 1} }

evaluate_custody(s) ==
  FileIssues(s) \cup Duplicates(s) \cup UNION {EventIssues(s, e) : e \in s.events}

(* A verification on request.                                              *)
compare_hashes(expected, calculated) ==
  IF calculated = NoDigest THEN "missing_source"
  ELSE IF expected = NoDigest THEN "missing_expected"
  ELSE IF expected = calculated THEN "match" ELSE "mismatch"

-----------------------------------------------------------------------------
Says(issues, rule) == \E i \in issues : i.rule = rule

(* The audit and the verification agree on the bytes whatever the events   *)
(* are, and only bytes that were read again are ever called critical.      *)
AgreesWithVerification(s, issues) ==
  LET status == compare_hashes(s.recorded, s.stored)
  IN /\ Says(issues, "hash_mismatch") <=> status = "mismatch"
     /\ Says(issues, "source_missing") <=> status = "missing_source"
     /\ (\E i \in issues : RULE_SEVERITY(i.rule) = "critical") =>
          /\ s.stored # NoDigest
          /\ \E d \in {s.recorded} \cup {e.claimed : e \in s.events} : d # s.stored

(* An event the API accepted is never reported as lacking a party or as    *)
(* lying in the future, however late the audit; it is reported as          *)
(* documented before it occurred only when it claims a time that the start *)
(* of its own transaction would not have allowed.                          *)
AcceptedEventsAreInOrder(s, issues) ==
  /\ ~ Says(issues, "missing_required_field")
  /\ ~ Says(issues, "chronology_future")
  /\ \A e \in s.events :
       Issue("chronology_recorded_before_occurred", {e.id}) \in issues
         => e.occurred - e.recorded > Skew

(* The hand-offs, against a reading of the whole chain: what is unanswered *)
(* is what was handed over after the last receipt, what was received too   *)
(* early is what was received before the first hand-over.                  *)
HandOffsAreAccountedFor(s, issues) ==
  LET last == {r \in Of(s, "received") : \A q \in Of(s, "received") : q.occurred <= r.occurred}
      open == {t \in Of(s, "transferred") : \A r \in last : t.occurred > r.occurred}
      first == {t \in Of(s, "transferred") : \A q \in Of(s, "transferred") : t.occurred <= q.occurred}
      early == {r \in Of(s, "received") : \E t \in first : r.occurred < t.occurred}
  IN /\ {i \in issues : i.rule = "unacknowledged_transfer"}
          = {Issue("unacknowledged_transfer", {t.id}) : t \in open}
     /\ {i \in issues : i.rule = "chronology_received_before_transfer"}
          = {Issue("chronology_received_before_transfer", {r.id}) : r \in early}

=============================================================================

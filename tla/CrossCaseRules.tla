--------------------------- MODULE CrossCaseRules ---------------------------
(***************************************************************************)
(* Cross-case discovery (services/cross_case.py): the signals a case       *)
(* yields, the candidates that several cases of a scope share, and who may *)
(* see a candidate.  Raw values, entities, records and files are numbers,  *)
(* 0 stands for none; Normal(kind, raw) is the documented normalization,   *)
(* Invalid when the raw value is no valid value of the kind.               *)
(***************************************************************************)
EXTENDS Integers, Sequences, FiniteSets, FiniteSetsExt

CONSTANTS
  Normal(_, _),
  Domain(_),          \* the host inside a raw e-mail address or URL
  Invalid,
  MaxSupportingIds    \* CROSSCASE_MAX_SUPPORTING_IDS: ids listed on one side

IDENTIFIER_KINDS ==
  << "account_ref", "device", "domain", "email", "evidence_hash", "phone",
     "txn_id", "url" >>
Identifier == {IDENTIFIER_KINDS[j] : j \in DOMAIN IDENTIFIER_KINDS}

ENTITY_KIND_BY_TYPE(type) ==
  CASE type \in {"person", "organization"} -> "name"
    [] type = "phone"                      -> "phone"
    [] type = "account"                    -> "account_ref"
    [] OTHER                               -> "none"

-----------------------------------------------------------------------------
(* Signals.  Where one comes from: an entity, a record, a file.            *)
Emit(kind, raw, from, reviewed) ==
  IF Normal(kind, raw) = Invalid THEN {}
  ELSE { [ kind |-> kind, value |-> Normal(kind, raw), original |-> raw,
           entity |-> from.entity, record |-> from.record, file |-> from.file,
           reviewed |-> reviewed ] }

(* A field of a record: the kind its key documents, else the kind its whole*)
(* value looks like.  An address, and a link under a documented key, also  *)
(* yield their host.                                                       *)
extract_record_indicators(record) ==
  LET from == [entity |-> 0, record |-> record.id, file |-> record.file]
      kind(f) == IF f.key # "none" THEN f.key ELSE f.looks
      host(f) == IF kind(f) = "email" \/ f.key = "url"
                 THEN Emit("domain", Domain(f.raw), from, FALSE) ELSE {}
  IN UNION { Emit(kind(f), f.raw, from, FALSE) \cup host(f) :
               f \in {g \in record.fields : kind(g) # "none"} }

extract_entity_indicators(entity) ==
  IF ENTITY_KIND_BY_TYPE(entity.type) = "none" THEN {}
  ELSE UNION { Emit(ENTITY_KIND_BY_TYPE(entity.type), raw,
                    [entity |-> entity.id, record |-> 0, file |-> 0], FALSE) :
                 raw \in entity.values }

(* An alias that a reviewer confirmed is a signal of its own and marks the *)
(* others it yields as reviewed.                                           *)
extract_alias_indicators(alias, entity) ==
  LET from == [entity |-> entity.id, record |-> alias.record, file |-> 0]
      natural == ENTITY_KIND_BY_TYPE(entity.type)
      kinds == {alias.looks, natural} \ {"none"}
  IN (IF alias.resolution THEN Emit("reviewed_alias", alias.raw, from, TRUE) ELSE {})
     \cup UNION {Emit(kind, alias.raw, from, alias.resolution) : kind \in kinds}

(* Only active entities are read; an alias of another entity yields none.  *)
collect_case_indicators(case) ==
  (UNION {extract_record_indicators(r) : r \in case.records})
  \cup (UNION {extract_entity_indicators(e) : e \in case.entities})
  \cup (UNION { extract_alias_indicators(p[1], p[2]) :
                  p \in {q \in case.aliases \X case.entities : q[1].entity = q[2].id} })
  \cup UNION { Emit("evidence_hash", f.sha256, [entity |-> 0, record |-> 0, file |-> f.id], FALSE) :
                 f \in case.files }

-----------------------------------------------------------------------------
(* One candidate.                                                          *)

Capped(S) == {x \in S : Cardinality({y \in S : y < x}) < MaxSupportingIds}
Named(S) == Capped(S \ {0})

(* The key signals of a side and all that the same entity, record or file  *)
(* carries.                                                                *)
contributing(keys, all) ==
  keys \cup { i \in all : \E k \in keys :
                \/ k.entity # 0 /\ k.entity = i.entity
                \/ k.record # 0 /\ k.record = i.record
                \/ k.file # 0 /\ k.file = i.file }

Side(c, keys, all) ==
  LET near == contributing(keys, all)
  IN [ case |-> c,
       originals |-> Capped({i.original : i \in keys}),
       entities |-> Named({i.entity : i \in near}),
       records |-> Named({i.record : i \in near}),
       files |-> Named({i.file : i \in near}),
       reviewed |-> \E i \in keys : i.reviewed,
       values |-> [k \in Identifier |-> {i.value : i \in {j \in near : j.kind = k}}] ]

(* The first kind in the order of the table.                               *)
FirstKind(kinds) ==
  IDENTIFIER_KINDS[Min({j \in DOMAIN IDENTIFIER_KINDS : IDENTIFIER_KINDS[j] \in kinds})]
SameText(kind, sides, shared) ==
  \A s, t \in sides :
    IF kind \in Identifier THEN s.originals = t.originals
    ELSE s.values[FirstKind(shared)] = t.values[FirstKind(shared)]

classify(kind, sides, shared) ==
  IF kind = "reviewed_alias" \/ \E s \in sides : s.reviewed THEN "reviewed_alias"
  ELSE IF kind \notin Identifier /\ shared = {} THEN "similarity_name_only"
  ELSE IF SameText(kind, sides, shared) THEN "exact_identifier"
  ELSE "normalized_identifier"

BASE_SCORE(class) ==
  CASE class = "exact_identifier"      -> 60
    [] class = "reviewed_alias"        -> 55
    [] class = "normalized_identifier" -> 45
    [] OTHER                           -> 15
LesserOf(a, b) == IF a < b THEN a ELSE b

(* Supporting records and files count beyond one for each side.            *)
Breadth(sides) ==
  LET support == MapThenSumSet(LAMBDA s : Cardinality(s.records) + Cardinality(s.files), sides)
  IN LesserOf(15, 3 * Max({0, support - Cardinality(sides)}))
Score(class, shared, sides) ==
  BASE_SCORE(class) + LesserOf(20, 5 * Cardinality(shared)) + Breadth(sides)

(* The kinds every side states beside the key, and those among them of     *)
(* which the sides have a value in common.                                 *)
Stated(kind, sides) == {k \in Identifier \ {kind} : \A s \in sides : s.values[k] # {}}
Shared(kind, sides) ==
  { k \in Stated(kind, sides) : \E v \in UNION {s.values[k] : s \in sides} :
                                  \A s \in sides : v \in s.values[k] }

(* `of` maps each case of the group to its key signals, `all` each case of *)
(* the scope to its signals.                                               *)
build_candidate(kind, value, of, all) ==
  LET sides == {Side(c, of[c], all[c]) : c \in DOMAIN of}
      shared == Shared(kind, sides)
      class == classify(kind, sides, shared)
  IN [ kind |-> kind, value |-> value, cases |-> DOMAIN of, class |-> class,
       shared |-> shared, conflicts |-> Stated(kind, sides) \ shared,
       score |-> Score(class, shared, sides),
       reviewable |-> class # "similarity_name_only" ]

(* Every key that at least two cases carry.                                *)
WithKey(all, key, c) == {i \in all[c] : <<i.kind, i.value>> = key}
Group(all, key) ==
  [c \in {d \in DOMAIN all : WithKey(all, key, d) # {}} |-> WithKey(all, key, c)]
Keys(all) == {<<i.kind, i.value>> : i \in UNION {all[c] : c \in DOMAIN all}}

build_candidates(all) ==
  { build_candidate(k[1], k[2], Group(all, k), all) :
      k \in {q \in Keys(all) : \E c, d \in DOMAIN Group(all, q) : c # d} }

-----------------------------------------------------------------------------
(* Who may see a candidate.  A user: the cases of which she is the owner,  *)
(* those of which she is a member, and whether she is an administrator.    *)
visible_case_ids(user, cases, existing) ==
  IF user.admin THEN cases \cap existing
  ELSE cases \cap existing \cap (user.owns \cup user.joined)

verify_scope(user, cases, existing) == visible_case_ids(user, cases, existing) = cases

visible_candidates_anySide(user, stored, existing) ==
  {c \in stored : visible_case_ids(user, c.cases, existing) # {}}
visible_candidates(user, stored, existing) ==
  {c \in stored : c.cases # {} /\ visible_case_ids(user, c.cases, existing) = c.cases}

(* The guard of the routes that show or decide one candidate; `anchor` is  *)
(* the case it is stored under.                                            *)
guard_cross_case_artifact(user, c, anchor, existing) ==
  /\ c.cases \ {anchor} # {}
  /\ verify_scope(user, c.cases \cup {anchor}, existing)

assert_candidate_decision_allowed(c, decision) == decision = "approved" => c.reviewable

-----------------------------------------------------------------------------
(* The signals of case d that carry the shared value of candidate c, and   *)
(* the identifiers found beside them.                                      *)
Carrying(all, c, d) == {i \in all[d] : i.kind = c.kind /\ i.value = c.value}
IdentifiersBeside(all, c, d) ==
  { <<i.kind, i.value>> : i \in {j \in contributing(Carrying(all, c, d), all[d]) :
                                   j.kind \in Identifier} }

(* A candidate can be approved exactly when something stronger than a name *)
(* joins all its cases: an identifier that each of them carries beside the *)
(* shared value or as it, or an alias a reviewer confirmed.                *)
ApprovableIsIdentified(all, candidates) ==
  \A c \in candidates :
    assert_candidate_decision_allowed(c, "approved") <=>
      \/ c.kind = "reviewed_alias"
      \/ \E d \in c.cases : \E i \in Carrying(all, c, d) : i.reviewed
      \/ \E v \in UNION {IdentifiersBeside(all, c, d) : d \in c.cases} :
           \A d \in c.cases : v \in IdentifiersBeside(all, c, d)

(* A reader who cannot see every case of a candidate learns nothing of it: *)
(* what she is shown is what a scope of only her cases could have yielded, *)
(* the list of the ids of the scope it was found in apart, which the stored*)
(* payload carries beside the candidate and a candidate here does not.     *)
ShownIsOwnScope(user, existing, all, candidates) ==
  LET hers == visible_case_ids(user, DOMAIN all, existing)
      shown == visible_candidates(user, candidates, existing)
  IN /\ \A c \in shown : \A a \in c.cases :
          guard_cross_case_artifact(user, c, a, existing)
     /\ shown \subseteq build_candidates([c \in hers |-> all[c]])

=============================================================================

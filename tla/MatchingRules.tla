--------------------------- MODULE MatchingRules ---------------------------
(***************************************************************************)
(* Candidate generation of entity resolution (services/                    *)
(* entity_matching.py): which pairs of entities of a case are put to a     *)
(* reviewer, on what grounds, and what is counted of the rest.  An entity: *)
(* id, type, canonical value, aliases, blocking key, the identifiers among *)
(* its context signals and its source records; all are numbers.            *)
(***************************************************************************)
EXTENDS Integers, FiniteSets, FiniteSetsExt

CONSTANTS
  Similarity(_, _),  \* of two canonical values
  TypePlace(_),      \* the place of a type in the order of their names
  ReviewThreshold, AutoThreshold,
  MaxPerBucket,      \* ER_MAX_PAIRS_PER_BUCKET
  MaxPairs           \* ER_MAX_PAIRS

IDENTIFIER_TYPES == {"phone", "account", "vehicle", "document"}

(* The signals that are the value of an identifier entity of this case.    *)
_identifier_signals(e, entities) ==
  e.signals \cap {i.value : i \in {j \in entities : j.type \in IDENTIFIER_TYPES}}

Values(e) == {e.value} \cup e.aliases

(* Pairs <<a, b>> by id that have a value in common.                       *)
Ids(pairs) == {<<p[1].id, p[2].id>> : p \in pairs}
Exact(entities) ==
  Ids({ p \in entities \X entities : /\ p[1].id < p[2].id /\ p[1].type = p[2].type
                                     /\ Values(p[1]) \cap Values(p[2]) # {} })

(* A pair has a place in the order of evaluation: the exact ones by what   *)
(* they have in common, then those of the buckets.                         *)
Place(a, b, exact) ==
  IF exact THEN <<0, TypePlace(a.type), Min(Values(a) \cap Values(b)), a.id, b.id>>
  ELSE <<1, TypePlace(a.type), a.key, a.id, b.id>>
Before(p, q) == \E i \in 1..5 : p[i] < q[i] /\ \A h \in 1..(i - 1) : p[h] = q[h]

(* The pairs of one bucket, the first few that are not exact ones.         *)
Bucket(key, entities) ==
  Ids({ p \in entities \X entities : /\ p[1].id < p[2].id
                                     /\ <<p[1].type, p[1].key>> = key
                                     /\ <<p[2].type, p[2].key>> = key })
Blocked(entities) ==
  LET first(S) == { p \in S : Cardinality({ q \in S : q[1] < p[1] \/ (q[1] = p[1] /\ q[2] < p[2]) }) < MaxPerBucket }
  IN UNION { first(Bucket(<<e.type, e.key>>, entities) \ Exact(entities)) : e \in entities }

(* The grounds on which one pair is proposed, or why it is not.            *)
Method_sharedAlone(a, b, exact, entities) ==
  LET mine == _identifier_signals(a, entities)
      theirs == _identifier_signals(b, entities)
      shared == mine \cap theirs # {}
      disjoint == mine # {} /\ theirs # {} /\ ~ shared
      similar == Similarity(a.value, b.value) >= ReviewThreshold
  IN CASE exact                                          -> "exact_alias"
       [] ~ exact /\ shared                              -> "exact_identifier"
       [] ~ exact /\ ~ shared /\ similar                 -> "name_similarity"
       [] ~ exact /\ ~ similar /\ disjoint               -> "conflicting_identifiers"
       [] ~ exact /\ ~ similar /\ ~ shared /\ ~ disjoint -> "weak_similarity"
Method(a, b, exact, entities) ==
  LET mine == _identifier_signals(a, entities)
      theirs == _identifier_signals(b, entities)
      shared == mine \cap theirs # {}
      disjoint == mine # {} /\ theirs # {} /\ ~ shared
      similar == Similarity(a.value, b.value) >= ReviewThreshold
  IN CASE exact                                          -> "exact_alias"
       [] ~ exact /\ similar /\ shared                   -> "exact_identifier"
       [] ~ exact /\ similar /\ ~ shared /\ ~ disjoint   -> "name_similarity"
       [] ~ exact /\ disjoint                            -> "conflicting_identifiers"
       [] ~ exact /\ ~ similar /\ ~ disjoint             -> "weak_similarity"

CandidatePair(a, b, method, entities) ==
  LET mine == _identifier_signals(a, entities)
      theirs == _identifier_signals(b, entities)
      conflict == mine \ theirs # {} /\ theirs \ mine # {}
      score == IF method = "exact_alias" THEN 100 ELSE Similarity(a.value, b.value)
  IN [ pair |-> <<a.id, b.id>>, method |-> method, strong |-> score >= AutoThreshold,
       conflict |-> conflict, union |-> a.records \cup b.records,
       codes |-> {c \in {"no_identifier_evidence"} : method = "name_similarity"}
                 \cup {c \in {"conflicting_identifiers"} : conflict /\ method = "exact_alias"},
       llm_eligible |-> method = "name_similarity" /\ score < AutoThreshold ]

(* Exact pairs are evaluated first; proposals stop at the bound, and the   *)
(* pairs that were then not evaluated are counted as capped.               *)
build_candidate_pairs(entities) ==
  LET by(id) == CHOOSE e \in entities : e.id = id
      exact == Exact(entities)
      raw == exact \cup Blocked(entities)
      method(p) == Method(by(p[1]), by(p[2]), p \in exact, entities)
      place(p) == Place(by(p[1]), by(p[2]), p \in exact)
      fit == {p \in raw : method(p) \notin {"conflicting_identifiers", "weak_similarity"}}
      evaluated == {p \in raw : Cardinality({q \in fit : Before(place(q), place(p))}) < MaxPairs}
      refused(why) == Cardinality({p \in evaluated : method(p) = why})
  IN [ generated |-> Cardinality(raw),
       proposed |-> {CandidatePair(by(p[1]), by(p[2]), method(p), entities) : p \in evaluated \cap fit},
       conflicting |-> refused("conflicting_identifiers"), weak |-> refused("weak_similarity"),
       capped |-> Cardinality(raw \ evaluated) ]

-----------------------------------------------------------------------------
(* Every pair generated is accounted for once.  Two entities with a value  *)
(* in common are proposed before any others are; disjoint identifiers keep *)
(* other pairs out; sharing an identifier without a similar name proposes  *)
(* nothing; the model is asked only where there is no identifier.          *)
PairsAreAccountedFor(entities, out) ==
  LET pairs == {c.pair : c \in out.proposed}
      by(id) == CHOOSE e \in entities : e.id = id
      common(p) == Values(by(p[1])) \cap Values(by(p[2])) # {}
      known(id) == by(id).signals \cap {e.value : e \in {f \in entities : f.type \in IDENTIFIER_TYPES}}
  IN /\ out.generated = Cardinality(pairs) + out.conflicting + out.weak + out.capped
     /\ (\E p \in pairs : ~ common(p)) =>
          \A a, b \in entities :
            (a.id < b.id /\ a.type = b.type /\ common(<<a.id, b.id>>)) => <<a.id, b.id>> \in pairs
     /\ \A p \in pairs : common(p) \/
          /\ Similarity(by(p[1]).value, by(p[2]).value) >= ReviewThreshold
          /\ (known(p[1]) # {} /\ known(p[2]) # {}) => known(p[1]) \cap known(p[2]) # {}
     /\ \A c \in out.proposed : c.llm_eligible =>
          ~ c.strong /\ known(c.pair[1]) \cap known(c.pair[2]) = {}

=============================================================================

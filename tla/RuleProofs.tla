----------------------------- MODULE RuleProofs -----------------------------
(***************************************************************************)
(* Proofs about RuleCalls for any input and any values of the limits and   *)
(* tables: what each of the seven rules answers, then what the answers     *)
(* have in common as a specification.                                      *)
(***************************************************************************)
EXTENDS RuleCalls, Functions, FiniteSetTheorems, TLAPS

-----------------------------------------------------------------------------
(* Finite sets in an order.  An order is a set of pairs, so that the facts *)
(* about it can be cited for any.                                          *)

Strict(S, R) ==
  /\ \A x \in S : <<x, x>> \notin R
  /\ \A x, y, z \in S : <<x, y>> \in R /\ <<y, z>> \in R => <<x, z>> \in R
Total(S, R) == \A x, y \in S : x = y \/ <<x, y>> \in R \/ <<y, x>> \in R
Under(x, S, R) == {y \in S : <<y, x>> \in R}
Foremost(n, S, R) == {x \in S : Cardinality(Under(x, S, R)) < n}

(* A part of a finite set is finite, and smaller when it leaves one out.   *)
LEMMA Part ==
  ASSUME NEW S, IsFiniteSet(S), NEW T \in SUBSET S
  PROVE  /\ IsFiniteSet(T) /\ Cardinality(T) \in Nat /\ Cardinality(S) \in Nat
         /\ Cardinality(T) <= Cardinality(S)
         /\ \A x \in S \ T : Cardinality(T) < Cardinality(S)
<1>1. IsFiniteSet(T) /\ Cardinality(T) <= Cardinality(S) /\ (Cardinality(S) = Cardinality(T) => S = T)
  BY FS_Subset
<1>2. Cardinality(T) \in Nat /\ Cardinality(S) \in Nat
  BY <1>1, FS_CardinalityType
<1>3. QED
  BY <1>1, <1>2

(* The values of a function on a finite set, and as many when it keeps its *)
(* arguments apart.                                                        *)
LEMMA ImageIs ==
  ASSUME NEW S, IsFiniteSet(S), NEW f, f = [x \in S |-> f[x]], NEW T, T = {f[x] : x \in S}
  PROVE  /\ IsFiniteSet(T)
         /\ Cardinality(T) <= Cardinality(S)
         /\ (\A x, y \in S : f[x] = f[y] => x = y) => Cardinality(T) = Cardinality(S)
<1>1. f \in Surjection(S, T)
  BY DEF Surjection
<1>2. (\A x, y \in S : f[x] = f[y] => x = y) => f \in Injection(S, T)
  BY <1>1 DEF Surjection, Injection, IsInjective
<1>3. QED
  BY <1>1, <1>2, FS_Surjection

(* A finite set that is not empty has a member with none before it.        *)
LEMMA FirstExists ==
  ASSUME NEW S, IsFiniteSet(S), S # {}, NEW R, Strict(S, R)
  PROVE  \E x \in S : \A y \in S : <<y, x>> \notin R
<1> DEFINE B == {Under(x, S, R) : x \in S}
           Q == StrictSubsetOrdering(S)
<1>1. IsWellFoundedOn(Q, SUBSET S)
  BY FS_StrictSubsetOrderingWellFounded, FS_FiniteSubsetsOfFinite
<1>2. B \subseteq SUBSET S
  BY DEF Under
<1>3. PICK x0 : x0 \in S
  OBVIOUS
<1>4. Under(x0, S, R) \in B
  BY <1>3
<1>5. PICK A \in B : \A Y \in B : ~ (<<Y, A>> \in Q)
  <2> HIDE DEF Q, B
  <2> QED
    BY <1>1, <1>2, <1>4, WFMin
<1>6. PICK x \in S : A = Under(x, S, R)
  BY <1>5
<1>7. ASSUME NEW y \in S, <<y, x>> \in R
      PROVE  FALSE
  <2>1. Under(y, S, R) \in B
    BY <1>7
  <2>2. y \in Under(x, S, R) /\ y \notin Under(y, S, R)
    BY <1>7 DEF Under, Strict
  <2>3. Under(y, S, R) \subseteq Under(x, S, R)
    BY <1>7 DEF Under, Strict
  <2>4. <<Under(y, S, R), A>> \in Q
    BY <1>2, <1>6, <2>1, <2>2, <2>3 DEF StrictSubsetOrdering
  <2>5. QED
    BY <1>5, <2>1, <2>4
<1>8. QED
  BY <1>7

LEMMA LastExists ==
  ASSUME NEW S, IsFiniteSet(S), S # {}, NEW R, Strict(S, R)
  PROVE  \E x \in S : \A y \in S : <<x, y>> \notin R
<1> DEFINE C == {p \in S \X S : <<p[2], p[1]>> \in R}
<1>1. \A x, y \in S : <<x, y>> \in C <=> <<y, x>> \in R
  OBVIOUS
<1>2. Strict(S, C)
  <2> HIDE DEF C
  <2> QED
    BY <1>1 DEF Strict
<1>3. PICK x \in S : \A y \in S : <<y, x>> \notin C
  <2> HIDE DEF C
  <2> QED
    BY <1>2, FirstExists
<1>4. QED
  BY <1>1, <1>3

(* The first n: all when there are no more, or when fewer than n are first;*)
(* never more than n when the order is total.                              *)
LEMMA AllAreForemost ==
  ASSUME NEW S, IsFiniteSet(S), NEW R, \A x \in S : <<x, x>> \notin R,
         NEW n \in Int, Cardinality(S) <= n
  PROVE  Foremost(n, S, R) = S
<1>1. ASSUME NEW x \in S
      PROVE  Cardinality(Under(x, S, R)) < n
  <2>1. Under(x, S, R) \in SUBSET S /\ x \in S \ Under(x, S, R)
    BY DEF Under
  <2>2. /\ Cardinality(Under(x, S, R)) < Cardinality(S)
        /\ Cardinality(Under(x, S, R)) \in Nat /\ Cardinality(S) \in Nat
    BY <2>1, Part
  <2>3. QED
    BY <2>2
<1>2. QED
  BY <1>1 DEF Foremost

LEMMA FewAreForemost ==
  ASSUME NEW S, IsFiniteSet(S), NEW R, Strict(S, R),
         NEW n \in Int, Cardinality(Foremost(n, S, R)) < n
  PROVE  Foremost(n, S, R) = S
<1> DEFINE F == Foremost(n, S, R)
<1>1. F \in SUBSET S
  BY DEF Foremost
<1>2. SUFFICES ASSUME S \ F # {}
               PROVE  FALSE
  BY <1>1
<1>3. IsFiniteSet(S \ F) /\ IsFiniteSet(F) /\ Strict(S \ F, R)
  <2>1. S \ F \in SUBSET S
    OBVIOUS
  <2>2. QED
    BY <1>1, <2>1, Part DEF Strict
<1>4. PICK x \in S \ F : \A y \in S \ F : <<y, x>> \notin R
  <2> HIDE DEF F
  <2> QED
    BY <1>2, <1>3, FirstExists
<1>5. Under(x, S, R) \in SUBSET F
  BY <1>4 DEF Under
<1>6. /\ Cardinality(Under(x, S, R)) <= Cardinality(F)
      /\ Cardinality(Under(x, S, R)) \in Nat /\ Cardinality(F) \in Nat
  <2> HIDE DEF F
  <2> QED
    BY <1>3, <1>5, Part
<1>7. x \in F
  BY <1>4, <1>6 DEF Foremost
<1>8. QED
  BY <1>4, <1>7

LEMMA ForemostAreFew ==
  ASSUME NEW S, IsFiniteSet(S), NEW R, Strict(S, R), Total(S, R), NEW n \in Nat
  PROVE  Cardinality(Foremost(n, S, R)) <= n
<1> DEFINE F == Foremost(n, S, R)
<1>1. F \in SUBSET S /\ IsFiniteSet(F)
  <2>1. F \in SUBSET S
    BY DEF Foremost
  <2>2. QED
    BY <2>1, Part
<1>2. CASE F = {}
  BY <1>2, FS_EmptySet
<1>3. CASE F # {}
  <2>1. PICK x \in F : \A y \in F : <<x, y>> \notin R
    <3>1. Strict(F, R)
      BY <1>1 DEF Strict
    <3> HIDE DEF F
    <3>2. QED
      BY <1>1, <1>3, <3>1, LastExists
  <2>2. F \ {x} \in SUBSET Under(x, S, R) /\ Under(x, S, R) \in SUBSET S
    BY <1>1, <2>1 DEF Under, Total
  <2>3. /\ Cardinality(F \ {x}) <= Cardinality(Under(x, S, R))
        /\ Cardinality(F \ {x}) \in Nat /\ Cardinality(Under(x, S, R)) \in Nat
    <3>1. IsFiniteSet(Under(x, S, R))
      BY <2>2, Part
    <3>2. QED
      BY <2>2, <3>1, Part
  <2>4. Cardinality(F \ {x}) = Cardinality(F) - 1 /\ Cardinality(F) \in Nat
    <3> HIDE DEF F
    <3> QED
      BY <1>1, <2>1, FS_RemoveElement, FS_CardinalityType
  <2>5. Cardinality(Under(x, S, R)) < n
    BY <2>1 DEF Foremost
  <2>6. QED
    BY <2>3, <2>4, <2>5
<1>4. QED
  BY <1>2, <1>3

(* The cardinality of the modules is that of finite sets.                  *)
LEMMA Counted ==
  /\ \A S : Triage!Cardinality(S) = Cardinality(S)
  /\ \A S : Matching!Cardinality(S) = Cardinality(S)
  /\ \A S : Contradiction!Cardinality(S) = Cardinality(S)
  /\ \A S : Audit!Cardinality(S) = Cardinality(S)
  BY DEF Triage!Cardinality, Matching!Cardinality, Contradiction!Cardinality, Audit!Cardinality, Cardinality

-----------------------------------------------------------------------------
(* The chain of custody of one file: what the audit of any snapshot says.  *)

(* What the API leaves of a file: rows with a key of their own, each of a  *)
(* request that was accepted no later than the audit.                      *)
Accepted(s) ==
  /\ Skew \in Int /\ s.checked \in Int /\ IsFiniteSet(s.events)
  /\ \A e \in s.events :
       /\ \E r : /\ r.occurred \in Int /\ r.began \in Int /\ r.now \in Int
                 /\ Custody!record_custody_event(r) /\ r.now <= s.checked
                 /\ e = Custody!EventRow(e.id, r)
       /\ \A f \in s.events : e.id = f.id => e = f

(* The rules that name the file, an event, or several events.              *)
LEMMA FileIssue ==
  ASSUME NEW s, NEW i
  PROVE  i \in Custody!FileIssues(s) <=>
           \/ i = Custody!Issue("hash_missing", {}) /\ s.recorded = NoDigest
           \/ i = Custody!Issue("hash_mismatch", {}) /\ s.stored # NoDigest
                /\ s.recorded # NoDigest /\ s.stored # s.recorded
           \/ i = Custody!Issue("source_missing", {}) /\ s.stored = NoDigest
           \/ i = Custody!Issue("no_documented_custody", {}) /\ s.events = {} /\ s.audits = 0
  BY DEF Custody!FileIssues

LEMMA EventIssue ==
  ASSUME NEW s, NEW e, NEW i
  PROVE  i \in Custody!EventIssues(s, e) <=>
           \/ /\ i = Custody!Issue("recorded_hash_mismatch", {e.id})
              /\ s.stored # NoDigest /\ e.claimed # NoDigest /\ e.claimed # s.stored
           \/ /\ i = Custody!Issue("missing_required_field", {e.id})
              /\ ~ Custody!CUSTODY_REQUIRED_FIELDS[e.type] \subseteq e.parties
           \/ i = Custody!Issue("chronology_future", {e.id}) /\ e.occurred > s.checked + Skew
           \/ /\ i = Custody!Issue("chronology_recorded_before_occurred", {e.id})
              /\ e.recorded + Skew < e.occurred
           \/ /\ i = Custody!Issue("chronology_received_before_transfer", {e.id})
              /\ e.type = "received" /\ Custody!BeforeEveryTransfer(s, e)
           \/ /\ i = Custody!Issue("unacknowledged_transfer", {e.id})
              /\ e.type = "transferred" /\ ~ Custody!Acknowledged(s, e)
  BY DEF Custody!EventIssues

LEMMA DocumentedEarly ==
  ASSUME NEW s, NEW e, NEW i \in Custody!EventIssues(s, e),
         i.rule = "chronology_recorded_before_occurred"
  PROVE  i.events = {e.id} /\ e.recorded + Skew < e.occurred
  BY EventIssue DEF Custody!Issue

LEMMA Unacknowledged ==
  ASSUME NEW s, NEW e, NEW i \in Custody!EventIssues(s, e), i.rule = "unacknowledged_transfer"
  PROVE  /\ i = Custody!Issue("unacknowledged_transfer", {e.id})
         /\ e.type = "transferred" /\ ~ Custody!Acknowledged(s, e)
  BY EventIssue DEF Custody!Issue

LEMMA ReceivedEarly ==
  ASSUME NEW s, NEW e, NEW i \in Custody!EventIssues(s, e),
         i.rule = "chronology_received_before_transfer"
  PROVE  /\ i = Custody!Issue("chronology_received_before_transfer", {e.id})
         /\ e.type = "received" /\ Custody!BeforeEveryTransfer(s, e)
  BY EventIssue DEF Custody!Issue

LEMMA DuplicateIssue ==
  ASSUME NEW s, NEW i \in Custody!Duplicates(s)
  PROVE  i.rule = "duplicate_event"
<1> DEFINE same(e) == {f \in s.events : f.type = e.type /\ f.occurred = e.occurred}
<1>1. PICK e \in s.events : i = Custody!Issue("duplicate_event", {f.id : f \in same(e)})
  BY DEF Custody!Duplicates
<1>2. QED
  BY <1>1 DEF Custody!Issue

(* What the audit says, rule by rule.                                      *)
LEMMA AuditSays ==
  ASSUME NEW s, NEW i
  PROVE  i \in Custody!evaluate_custody(s) <=>
           \/ i \in Custody!FileIssues(s)
           \/ i \in Custody!Duplicates(s)
           \/ \E e \in s.events : i \in Custody!EventIssues(s, e)
  BY DEF Custody!evaluate_custody

(* What names the bytes names no event.                                    *)
LEMMA BytesAreFileIssues ==
  ASSUME NEW s, NEW i \in Custody!evaluate_custody(s), i.rule \in {"hash_mismatch", "source_missing"}
  PROVE  i = Custody!Issue(i.rule, {}) /\ i \in Custody!FileIssues(s)
<1>1. CASE i \in Custody!FileIssues(s)
  BY <1>1, FileIssue DEF Custody!Issue
<1>2. i \notin Custody!Duplicates(s)
  BY DuplicateIssue
<1>3. ASSUME NEW e \in s.events
      PROVE  i \notin Custody!EventIssues(s, e)
  BY EventIssue DEF Custody!Issue
<1>4. QED
  BY <1>1, <1>2, <1>3, AuditSays

(* The bytes: the audit calls the file changed or gone exactly when a      *)
(* verification does, and calls nothing critical but bytes it read that    *)
(* differ from a digest on record.                                         *)
THEOREM AuditAgreesWithVerification ==
  ASSUME NEW s
  PROVE  Custody!AgreesWithVerification(s, Custody!evaluate_custody(s))
<1> DEFINE issues == Custody!evaluate_custody(s)
           status == Custody!compare_hashes(s.recorded, s.stored)
<1>1. Custody!Says(issues, "hash_mismatch") <=> status = "mismatch"
  <2>1. Custody!Says(issues, "hash_mismatch") <=>
          s.stored # NoDigest /\ s.recorded # NoDigest /\ s.stored # s.recorded
    <3> DEFINE it == Custody!Issue("hash_mismatch", {})
    <3>1. it \in issues <=> it \in Custody!FileIssues(s)
      BY BytesAreFileIssues, AuditSays DEF Custody!Issue
    <3>2. Custody!Says(issues, "hash_mismatch") <=> it \in issues
      BY BytesAreFileIssues DEF Custody!Says, Custody!Issue
    <3>3. it \in Custody!FileIssues(s) <=>
            s.stored # NoDigest /\ s.recorded # NoDigest /\ s.stored # s.recorded
      BY FileIssue DEF Custody!Issue
    <3>4. QED
      BY <3>1, <3>2, <3>3
  <2>2. QED
    BY <2>1 DEF Custody!compare_hashes
<1>2. Custody!Says(issues, "source_missing") <=> status = "missing_source"
  <2> DEFINE it == Custody!Issue("source_missing", {})
  <2>1. it \in issues <=> it \in Custody!FileIssues(s)
    BY BytesAreFileIssues, AuditSays DEF Custody!Issue
  <2>2. Custody!Says(issues, "source_missing") <=> it \in issues
    BY BytesAreFileIssues DEF Custody!Says, Custody!Issue
  <2>3. it \in Custody!FileIssues(s) <=> s.stored = NoDigest
    BY FileIssue DEF Custody!Issue
  <2>4. QED
    BY <2>1, <2>2, <2>3 DEF Custody!compare_hashes
<1>3. ASSUME NEW i \in issues, Custody!RULE_SEVERITY(i.rule) = "critical"
      PROVE  /\ s.stored # NoDigest
             /\ \E d \in {s.recorded} \cup {e.claimed : e \in s.events} : d # s.stored
  <2>1. i.rule \in {"hash_mismatch", "recorded_hash_mismatch"}
    BY <1>3 DEF Custody!RULE_SEVERITY
  <2>2. CASE i \in Custody!FileIssues(s)
    BY <2>1, <2>2, FileIssue DEF Custody!Issue
  <2>3. i \notin Custody!Duplicates(s)
    BY <2>1, DuplicateIssue
  <2>4. ASSUME NEW e \in s.events, i \in Custody!EventIssues(s, e)
        PROVE  s.stored # NoDigest /\ e.claimed # s.stored
    BY <2>1, <2>4, EventIssue DEF Custody!Issue
  <2>5. QED
    BY <2>2, <2>3, <2>4, AuditSays
<1>4. QED
  BY <1>1, <1>2, <1>3 DEF Custody!AgreesWithVerification

(* An event of a chain of custody that the API accepted.                   *)
LEMMA AcceptedEvent ==
  ASSUME NEW s, Accepted(s), NEW e \in s.events
  PROVE  /\ e.occurred \in Int /\ e.recorded \in Int
         /\ Custody!CUSTODY_REQUIRED_FIELDS[e.type] \subseteq e.parties
         /\ e.occurred <= s.checked + Skew
<1>1. PICK r : /\ r.occurred \in Int /\ r.began \in Int /\ r.now \in Int
               /\ Custody!record_custody_event(r) /\ r.now <= s.checked
               /\ e = Custody!EventRow(e.id, r)
  BY DEF Accepted
<1>2. e.type = r.type /\ e.occurred = r.occurred /\ e.recorded = r.began /\ e.parties = r.parties
  BY <1>1 DEF Custody!EventRow
<1>3. /\ r.occurred <= r.now + Skew
      /\ Custody!CUSTODY_REQUIRED_FIELDS[r.type] \subseteq r.parties
  BY <1>1 DEF Custody!record_custody_event
<1>4. r.occurred <= s.checked + Skew
  BY <1>1, <1>2, <1>3 DEF Accepted
<1>5. QED
  BY <1>1, <1>2, <1>3, <1>4

(* What the API accepted the audit never blames for a party or a time that *)
(* the API checked.                                                        *)
THEOREM AcceptedChainIsInOrder ==
  ASSUME NEW s, Accepted(s)
  PROVE  Custody!AcceptedEventsAreInOrder(s, Custody!evaluate_custody(s))
<1> DEFINE issues == Custody!evaluate_custody(s)
<1>1. ASSUME NEW i \in issues
      PROVE  i.rule \notin {"missing_required_field", "chronology_future"}
  <2>1. CASE i \in Custody!FileIssues(s)
    BY <2>1, FileIssue DEF Custody!Issue
  <2>2. CASE i \in Custody!Duplicates(s)
    BY <2>2, DuplicateIssue
  <2>3. ASSUME NEW e \in s.events, i \in Custody!EventIssues(s, e)
        PROVE  i.rule \notin {"missing_required_field", "chronology_future"}
    <3>1. /\ Custody!CUSTODY_REQUIRED_FIELDS[e.type] \subseteq e.parties
          /\ ~ (e.occurred > s.checked + Skew)
      BY AcceptedEvent DEF Accepted
    <3>2. QED
      BY <2>3, <3>1, EventIssue DEF Custody!Issue
  <2>4. QED
    BY <2>1, <2>2, <2>3, AuditSays
<1>2. ASSUME NEW e \in s.events,
             Custody!Issue("chronology_recorded_before_occurred", {e.id}) \in issues
      PROVE  e.occurred - e.recorded > Skew
  <2> DEFINE i == Custody!Issue("chronology_recorded_before_occurred", {e.id})
  <2>1. i.rule = "chronology_recorded_before_occurred" /\ i.events = {e.id}
    BY DEF Custody!Issue
  <2>2. i \notin Custody!FileIssues(s) /\ i \notin Custody!Duplicates(s)
    BY <2>1, FileIssue, DuplicateIssue DEF Custody!Issue
  <2>3. PICK f \in s.events : i \in Custody!EventIssues(s, f)
    BY <1>2, <2>2, AuditSays
  <2>4. i.events = {f.id} /\ f.recorded + Skew < f.occurred
    <3> HIDE DEF i
    <3>1. QED
      BY <2>1, <2>3, DocumentedEarly
  <2>5. f = e
    <3>1. f.id = e.id
      BY <2>1, <2>4
    <3>2. QED
      BY <3>1 DEF Accepted
  <2>6. QED
    BY <2>4, <2>5, AcceptedEvent DEF Accepted
<1>3. QED
  BY <1>1, <1>2 DEF Custody!AcceptedEventsAreInOrder, Custody!Says

(* Of finitely many numbers one is the largest and one the smallest.       *)
LEMMA LargestIs ==
  ASSUME NEW S \in SUBSET Int, IsFiniteSet(S), S # {}
  PROVE  \E x \in S : \A y \in S : y <= x
<1> DEFINE Above(x) == {y \in S : y >= x}
           B == {Above(x) : x \in S}
           R == StrictSubsetOrdering(S)
<1>1. IsWellFoundedOn(R, SUBSET S)
  BY FS_StrictSubsetOrderingWellFounded, FS_FiniteSubsetsOfFinite
<1>2. B \subseteq SUBSET S
  OBVIOUS
<1>3. PICK x0 : x0 \in S
  OBVIOUS
<1>4. Above(x0) \in B
  BY <1>3
<1>5. PICK A \in B : \A Y \in B : ~ (<<Y, A>> \in R)
  <2> HIDE DEF R, B
  <2> QED
    BY <1>1, <1>2, <1>4, WFMin
<1>6. PICK x \in S : A = Above(x)
  BY <1>5
<1>7. ASSUME NEW y \in S, ~ (y <= x)
      PROVE  FALSE
  <2>0. x \in Int /\ y \in Int /\ y > x /\ x <= y
    BY <1>7
  <2>1. Above(y) \in B
    BY <1>7
  <2>2. x \in Above(x) /\ x \notin Above(y)
    BY <2>0
  <2>3. ASSUME NEW z \in Above(y)
        PROVE  z \in Above(x)
    <3>1. z \in S /\ z \in Int /\ z >= y
      BY <2>3
    <3>2. z >= x
      BY <2>0, <3>1
    <3>3. QED
      BY <3>1, <3>2
  <2>4. <<Above(y), A>> \in R
    BY <1>2, <1>6, <2>1, <2>2, <2>3 DEF StrictSubsetOrdering
  <2>5. QED
    BY <1>5, <2>1, <2>4
<1>8. QED
  BY <1>7

LEMMA SmallestIs ==
  ASSUME NEW S \in SUBSET Int, IsFiniteSet(S), S # {}
  PROVE  \E x \in S : \A y \in S : x <= y
<1> DEFINE N == {-x : x \in S}
<1>1. N \in SUBSET Int /\ N # {}
  <2>1. \A x \in S : x \in Int /\ -x \in Int
    OBVIOUS
  <2>2. PICK x \in S : TRUE
    OBVIOUS
  <2>3. -x \in N
    BY <2>2
  <2>4. QED
    BY <2>1, <2>3
<1>2. IsFiniteSet(N)
  <2> DEFINE f == [x \in S |-> -x]
  <2>1. f \in Surjection(S, N)
    BY DEF Surjection
  <2>2. QED
    BY <2>1, FS_Surjection
<1>3. PICK n \in N : \A y \in N : y <= n
  <2> HIDE DEF N
  <2> QED
    BY <1>1, <1>2, LargestIs
<1>4. PICK x \in S : n = -x
  BY <1>3
<1>5. ASSUME NEW y \in S
      PROVE  x <= y
  <2>1. -y <= -x
    BY <1>3, <1>4
  <2>2. QED
    BY <2>1
<1>6. QED
  BY <1>5

(* Of the accepted events of one type one is the latest, one the earliest. *)
LEMMA LatestAndEarliest ==
  ASSUME NEW s, Accepted(s), NEW type, Custody!Of(s, type) # {}
  PROVE  /\ \E r \in Custody!Of(s, type) : \A q \in Custody!Of(s, type) : q.occurred <= r.occurred
         /\ \E t \in Custody!Of(s, type) : \A q \in Custody!Of(s, type) : t.occurred <= q.occurred
<1> DEFINE E == Custody!Of(s, type)
           N == {e.occurred : e \in E}
           f == [e \in E |-> e.occurred]
<1>1. E \subseteq s.events
  BY DEF Custody!Of
<1>2. IsFiniteSet(E)
  BY <1>1, FS_Subset DEF Accepted
<1>3. f \in Surjection(E, N)
  <2> HIDE DEF E
  <2> QED
    BY DEF Surjection
<1>4. IsFiniteSet(N)
  <2> HIDE DEF E, N, f
  <2> QED
    BY <1>2, <1>3, FS_Surjection
<1>5. N \in SUBSET Int /\ N # {}
  <2>1. \A e \in E : e.occurred \in Int
    BY <1>1, AcceptedEvent
  <2>2. PICK e \in E : TRUE
    OBVIOUS
  <2> HIDE DEF E
  <2>3. e.occurred \in N
    BY <2>2
  <2>4. QED
    BY <2>1, <2>3
<1>6. (\E x \in N : \A y \in N : y <= x) /\ (\E x \in N : \A y \in N : x <= y)
  <2> HIDE DEF N
  <2> QED
    BY <1>4, <1>5, LargestIs, SmallestIs
<1>7. QED
  <2> HIDE DEF E
  <2>1. PICK x \in N : \A y \in N : y <= x
    BY <1>6
  <2>2. PICK z \in N : \A y \in N : z <= y
    BY <1>6
  <2>3. PICK r \in E : x = r.occurred
    BY <2>1
  <2>4. PICK t \in E : z = t.occurred
    BY <2>2
  <2>5. \A q \in E : q.occurred <= r.occurred /\ t.occurred <= q.occurred
    BY <2>1, <2>2, <2>3, <2>4
  <2>6. QED
    BY <2>5 DEF E

(* A hand-over is unanswered exactly when it lies after the latest receipt;*)
(* a receipt is early exactly when it lies before the first hand-over.     *)
THEOREM HandOffsAreReadOffTheChain ==
  ASSUME NEW s, Accepted(s)
  PROVE  Custody!HandOffsAreAccountedFor(s, Custody!evaluate_custody(s))
<1> DEFINE issues == Custody!evaluate_custody(s)
           R == Custody!Of(s, "received")
           T == Custody!Of(s, "transferred")
           last == {r \in R : \A q \in R : q.occurred <= r.occurred}
           open == {t \in T : \A r \in last : t.occurred > r.occurred}
           first == {t \in T : \A q \in T : t.occurred <= q.occurred}
           early == {r \in R : \E t \in first : r.occurred < t.occurred}
<1>1. /\ \A e \in R \cup T : e \in s.events /\ e.occurred \in Int
      /\ \A e \in s.events : (e \in R <=> e.type = "received") /\ (e \in T <=> e.type = "transferred")
  BY AcceptedEvent DEF Custody!Of
<1>2. (R # {} => last # {}) /\ (T # {} => first # {})
  BY LatestAndEarliest
<1>3. ASSUME NEW t \in T
      PROVE  t \in open <=> ~ Custody!Acknowledged(s, t)
  <2>1. Custody!Acknowledged(s, t) <=> \E r \in R : r.occurred >= t.occurred
    BY DEF Custody!Acknowledged
  <2> HIDE DEF R, T
  <2>2. ASSUME NEW r \in R, r.occurred >= t.occurred, t \in open
        PROVE  FALSE
    <3>1. PICK x \in last : TRUE
      BY <1>2, <2>2
    <3>2. r.occurred <= x.occurred /\ t.occurred > x.occurred /\ x \in R
      BY <2>2, <3>1
    <3>3. QED
      BY <1>1, <2>2, <3>2
  <2>3. ASSUME \A r \in R : ~ (r.occurred >= t.occurred)
        PROVE  t \in open
    <3>1. \A r \in R : t.occurred > r.occurred
      BY <1>1, <2>3
    <3>2. QED
      BY <3>1
  <2>4. QED
    BY <2>1, <2>2, <2>3
<1>4. ASSUME NEW r \in R
      PROVE  r \in early <=> Custody!BeforeEveryTransfer(s, r)
  <2>1. Custody!BeforeEveryTransfer(s, r) <=> T # {} /\ \A t \in T : r.occurred < t.occurred
    BY DEF Custody!BeforeEveryTransfer
  <2> HIDE DEF R, T
  <2>2. ASSUME r \in early
        PROVE  T # {} /\ \A t \in T : r.occurred < t.occurred
    <3>1. PICK x \in first : r.occurred < x.occurred
      BY <2>2
    <3>2. x \in T /\ \A t \in T : x.occurred <= t.occurred
      BY <3>1
    <3>3. QED
      BY <1>1, <3>1, <3>2
  <2>3. ASSUME T # {}, \A t \in T : r.occurred < t.occurred
        PROVE  r \in early
    BY <1>2, <2>3
  <2>4. QED
    BY <2>1, <2>2, <2>3
<1>5. ASSUME NEW i \in issues, i.rule \in {"unacknowledged_transfer", "chronology_received_before_transfer"}
      PROVE  \E e \in s.events : i \in Custody!EventIssues(s, e)
  <2>1. i \notin Custody!FileIssues(s)
    BY <1>5, FileIssue DEF Custody!Issue
  <2>2. i \notin Custody!Duplicates(s)
    BY <1>5, DuplicateIssue
  <2>3. QED
    BY <2>1, <2>2, AuditSays
<1>6. {i \in issues : i.rule = "unacknowledged_transfer"}
        = {Custody!Issue("unacknowledged_transfer", {t.id}) : t \in open}
  <2>1. ASSUME NEW i \in issues, i.rule = "unacknowledged_transfer"
        PROVE  \E t \in open : i = Custody!Issue("unacknowledged_transfer", {t.id})
    <3>1. PICK e \in s.events : i \in Custody!EventIssues(s, e)
      BY <1>5, <2>1
    <3>2. /\ i = Custody!Issue("unacknowledged_transfer", {e.id})
          /\ e.type = "transferred" /\ ~ Custody!Acknowledged(s, e)
      BY <2>1, <3>1, Unacknowledged
    <3>3. e \in T
      BY <1>1, <3>2
    <3>4. e \in open
      BY <1>3, <3>2, <3>3
    <3>5. QED
      BY <3>2, <3>4
  <2>2. ASSUME NEW t \in open
        PROVE  /\ Custody!Issue("unacknowledged_transfer", {t.id}) \in issues
               /\ Custody!Issue("unacknowledged_transfer", {t.id}).rule = "unacknowledged_transfer"
    <3>1. t \in T
      OBVIOUS
    <3>2. t \in s.events /\ t.type = "transferred" /\ ~ Custody!Acknowledged(s, t)
      BY <1>1, <1>3, <3>1
    <3>3. Custody!Issue("unacknowledged_transfer", {t.id}) \in Custody!EventIssues(s, t)
      BY <3>2, EventIssue
    <3>4. QED
      BY <3>2, <3>3, AuditSays DEF Custody!Issue
  <2> HIDE DEF issues, open
  <2>3. QED
    BY <2>1, <2>2
<1>7. {i \in issues : i.rule = "chronology_received_before_transfer"}
        = {Custody!Issue("chronology_received_before_transfer", {r.id}) : r \in early}
  <2>1. ASSUME NEW i \in issues, i.rule = "chronology_received_before_transfer"
        PROVE  \E r \in early : i = Custody!Issue("chronology_received_before_transfer", {r.id})
    <3>1. PICK e \in s.events : i \in Custody!EventIssues(s, e)
      BY <1>5, <2>1
    <3>2. /\ i = Custody!Issue("chronology_received_before_transfer", {e.id})
          /\ e.type = "received" /\ Custody!BeforeEveryTransfer(s, e)
      BY <2>1, <3>1, ReceivedEarly
    <3>3. e \in R
      BY <1>1, <3>2
    <3>4. e \in early
      BY <1>4, <3>2, <3>3
    <3>5. QED
      BY <3>2, <3>4
  <2>2. ASSUME NEW r \in early
        PROVE  /\ Custody!Issue("chronology_received_before_transfer", {r.id}) \in issues
               /\ Custody!Issue("chronology_received_before_transfer", {r.id}).rule
                    = "chronology_received_before_transfer"
    <3>1. r \in R
      OBVIOUS
    <3>2. r \in s.events /\ r.type = "received" /\ Custody!BeforeEveryTransfer(s, r)
      BY <1>1, <1>4, <3>1
    <3>3. Custody!Issue("chronology_received_before_transfer", {r.id}) \in Custody!EventIssues(s, r)
      BY <3>2, EventIssue
    <3>4. QED
      BY <3>2, <3>3, AuditSays DEF Custody!Issue
  <2> HIDE DEF issues, early
  <2>3. QED
    BY <2>1, <2>2
<1>8. QED
  BY <1>6, <1>7 DEF Custody!HandOffsAreAccountedFor

-----------------------------------------------------------------------------
(* The proposals of a timeline reconstruction, for any records.            *)

(* The proposals of any records and artifacts: each has its own place.    *)
Placed(drafts) ==
  /\ IsFiniteSet(drafts)
  /\ \A d \in drafts : /\ d.file \in Int /\ d.record \in Int /\ d.field \in Int /\ d.index \in Int
                       /\ d.origin \in {"record", "artifact"}
  /\ \A d, e \in drafts : Timeline!Key(d) = Timeline!Key(e) => d = e

LEMMA EarlierIs ==
  ASSUME NEW d, NEW e
  PROVE  Timeline!Earlier(d, e) <=>
           \/ d.file < e.file
           \/ d.file = e.file /\ d.record < e.record
           \/ d.file = e.file /\ d.record = e.record /\ d.field < e.field
           \/ d.file = e.file /\ d.record = e.record /\ d.field = e.field /\ d.index < e.index
<1>1. 1..4 = {1, 2, 3, 4} /\ 1..(1 - 1) = {} /\ 1..(2 - 1) = {1} /\ 1..(3 - 1) = {1, 2}
      /\ 1..(4 - 1) = {1, 2, 3}
  OBVIOUS
<1>2. /\ \A x : Timeline!Key(x)[1] = x.file /\ Timeline!Key(x)[2] = x.record
      /\ \A x : Timeline!Key(x)[3] = x.field /\ Timeline!Key(x)[4] = x.index
  BY DEF Timeline!Key
<1> DEFINE At(j) == Timeline!Key(d)[j] < Timeline!Key(e)[j]
                      /\ \A h \in 1..(j - 1) : Timeline!Key(d)[h] = Timeline!Key(e)[h]
<1>3. Timeline!Earlier(d, e) <=> At(1) \/ At(2) \/ At(3) \/ At(4)
  <2>1. Timeline!Earlier(d, e) <=> \E j \in {1, 2, 3, 4} : At(j)
    BY <1>1 DEF Timeline!Earlier
  <2> HIDE DEF At
  <2>2. QED
    BY <2>1
<1>4. At(1) <=> d.file < e.file
  BY <1>1, <1>2
<1>5. At(2) <=> d.file = e.file /\ d.record < e.record
  BY <1>1, <1>2
<1>6. At(3) <=> d.file = e.file /\ d.record = e.record /\ d.field < e.field
  BY <1>1, <1>2
<1>7. At(4) <=> d.file = e.file /\ d.record = e.record /\ d.field = e.field /\ d.index < e.index
  BY <1>1, <1>2
<1>8. QED
  <2> HIDE DEF At
  <2>1. QED
    BY <1>3, <1>4, <1>5, <1>6, <1>7

(* The order of the keys is strict and total.                              *)
LEMMA EarlierOrders ==
  ASSUME NEW drafts, Placed(drafts)
  PROVE  /\ \A d \in drafts : ~ Timeline!Earlier(d, d)
         /\ \A d, e, f \in drafts :
              Timeline!Earlier(d, e) /\ Timeline!Earlier(e, f) => Timeline!Earlier(d, f)
         /\ \A d, e \in drafts : d = e \/ Timeline!Earlier(d, e) \/ Timeline!Earlier(e, d)
<1>1. \A d \in drafts : d.file \in Int /\ d.record \in Int /\ d.field \in Int /\ d.index \in Int
  BY DEF Placed
<1>2. \A d \in drafts : ~ Timeline!Earlier(d, d)
  BY <1>1, EarlierIs
<1>3. ASSUME NEW d \in drafts, NEW e \in drafts, NEW f \in drafts,
             Timeline!Earlier(d, e), Timeline!Earlier(e, f)
      PROVE  Timeline!Earlier(d, f)
  BY <1>1, <1>3, EarlierIs
<1>4. ASSUME NEW d \in drafts, NEW e \in drafts, ~ Timeline!Earlier(d, e), ~ Timeline!Earlier(e, d)
      PROVE  d = e
  <2>1. d.file = e.file /\ d.record = e.record /\ d.field = e.field /\ d.index = e.index
    BY <1>1, <1>4, EarlierIs
  <2>2. Timeline!Key(d) = Timeline!Key(e)
    BY <2>1 DEF Timeline!Key
  <2>3. QED
    BY <2>2 DEF Placed
<1>5. QED
  BY <1>2, <1>3, <1>4

LEMMA EarliestIs ==
  ASSUME NEW drafts, Placed(drafts), NEW C \in SUBSET drafts, C # {}
  PROVE  \E e \in C : \A f \in C : ~ Timeline!Earlier(f, e)
<1> DEFINE Before(x) == {y \in C : Timeline!Earlier(y, x)}
           B == {Before(x) : x \in C}
           R == StrictSubsetOrdering(C)
<1>1. IsFiniteSet(C)
  BY FS_Subset DEF Placed
<1>2. IsWellFoundedOn(R, SUBSET C)
  BY <1>1, FS_StrictSubsetOrderingWellFounded, FS_FiniteSubsetsOfFinite
<1>3. B \subseteq SUBSET C
  OBVIOUS
<1>4. PICK x0 : x0 \in C
  OBVIOUS
<1>5. Before(x0) \in B
  BY <1>4
<1>6. PICK A \in B : \A Y \in B : ~ (<<Y, A>> \in R)
  <2> HIDE DEF R, B
  <2> QED
    BY <1>2, <1>3, <1>5, WFMin
<1>7. PICK x \in C : A = Before(x)
  BY <1>6
<1>8. ASSUME NEW y \in C, Timeline!Earlier(y, x)
      PROVE  FALSE
  <2>1. Before(y) \in B
    BY <1>8
  <2>2. y \in Before(x) /\ y \notin Before(y)
    BY <1>8, EarlierOrders
  <2>3. Before(y) \subseteq Before(x)
    BY <1>8, EarlierOrders
  <2>4. <<Before(y), A>> \in R
    BY <1>3, <1>7, <2>1, <2>2, <2>3 DEF StrictSubsetOrdering
  <2>5. QED
    BY <1>6, <2>1, <2>4
<1>9. QED
  BY <1>8

LEMMA Disagrees ==
  ASSUME NEW drafts, NEW d \in drafts, NEW e, Placed(drafts), d.at # NoTime,
         e \in Timeline!Disagreeing(d, drafts)
  PROVE  /\ e \in drafts /\ e.at # NoTime /\ e.record = d.record
         /\ Timeline!Day(d.at) # Timeline!Day(e.at) /\ d \in Timeline!Disagreeing(e, drafts)
<1> DEFINE of(r, origin) == {x \in Timeline!Timed(drafts) : x.record = r /\ x.origin = origin}
           days(r, origin) == {Timeline!Day(x.at) : x \in of(r, origin)}
           other(x) == IF x.origin = "record" THEN "artifact" ELSE "record"
<1>1. \A x : Timeline!Disagreeing(x, drafts)
               = IF days(x.record, "record") \cap days(x.record, "artifact") = {}
                 THEN of(x.record, other(x)) ELSE {}
  BY DEF Timeline!Disagreeing
<1>2. e \in of(d.record, other(d)) /\ days(d.record, "record") \cap days(d.record, "artifact") = {}
  <2> HIDE DEF of, days, other
  <2> QED
    BY <1>1
<1>3. e \in drafts /\ e.at # NoTime /\ e.record = d.record /\ e.origin = other(d)
  BY <1>2 DEF Timeline!Timed
<1>4. d \in of(e.record, d.origin) /\ d.origin = other(e)
  BY <1>3 DEF Timeline!Timed, Placed
<1>5. d \in Timeline!Disagreeing(e, drafts)
  <2> HIDE DEF of, days, other
  <2> QED
    BY <1>1, <1>2, <1>3, <1>4
<1>6. Timeline!Day(d.at) \in days(d.record, d.origin) /\ Timeline!Day(e.at) \in days(d.record, other(d))
  <2>1. d \in of(d.record, d.origin)
    BY <1>3, <1>4
  <2> HIDE DEF of
  <2>2. QED
    BY <1>2, <2>1
<1>7. Timeline!Day(d.at) # Timeline!Day(e.at)
  <2>1. d.origin \in {"record", "artifact"}
    BY DEF Placed
  <2> HIDE DEF days
  <2>2. QED
    BY <1>2, <1>6, <2>1
<1>8. QED
  BY <1>3, <1>5, <1>7

(* The marks of a timed proposal.                                          *)
LEMMA MarksAre ==
  ASSUME NEW drafts, NEW existing, NEW d \in drafts
  PROVE  LET mark == Timeline!annotate_drafts(drafts, existing)[d]
         IN /\ d.at = NoTime => mark.flags = {} /\ mark.with = {}
            /\ d.at # NoTime =>
                 /\ mark.with = Timeline!Disagreeing(d, drafts)
                 /\ "duplicate_proposal" \in mark.flags <=> Timeline!DuplicateOf(d, drafts) # {}
  BY DEF Timeline!annotate_drafts

LEMMA MarksOfProposals ==
  ASSUME NEW drafts, NEW existing, Placed(drafts)
  PROVE  Timeline!MarksAreMutual(drafts, Timeline!annotate_drafts(drafts, existing))
<1> DEFINE marks == Timeline!annotate_drafts(drafts, existing)
           T == Timeline!Timed(drafts)
           Alike(d) == {e \in T : e.file = d.file /\ e.at = d.at /\ e.title = d.title}
           Clean(d) == { e \in T : /\ e.file = d.file /\ e.at = d.at /\ e.title = d.title
                                   /\ "duplicate_proposal" \notin marks[e].flags }
<1>1. ASSUME NEW d \in drafts, NEW e \in marks[d].with
      PROVE  d \in marks[e].with /\ Timeline!Day(d.at) # Timeline!Day(e.at) /\ d.record = e.record
  <2>1. d.at # NoTime /\ e \in Timeline!Disagreeing(d, drafts)
    BY MarksAre
  <2>2. /\ e \in drafts /\ e.at # NoTime /\ e.record = d.record
        /\ Timeline!Day(d.at) # Timeline!Day(e.at) /\ d \in Timeline!Disagreeing(e, drafts)
    BY <2>1, Disagrees
  <2>3. marks[e].with = Timeline!Disagreeing(e, drafts)
    BY <2>2, MarksAre
  <2>4. QED
    BY <2>2, <2>3
<1>2. ASSUME NEW d \in T
      PROVE  \E e \in T : Clean(d) = {e}
  <2>1. Alike(d) \in SUBSET drafts /\ d \in Alike(d)
    BY DEF Timeline!Timed
  <2>2. PICK e \in Alike(d) : \A f \in Alike(d) : ~ Timeline!Earlier(f, e)
    <3> HIDE DEF Alike
    <3>1. QED
      BY <2>1, EarliestIs
  <2>3. ASSUME NEW x \in Alike(d)
        PROVE  x \in Clean(d) <=> \A f \in Alike(d) : ~ Timeline!Earlier(f, x)
    <3>1. x \in drafts /\ x.at # NoTime /\ x.file = d.file /\ x.at = d.at /\ x.title = d.title /\ x \in T
      BY DEF Timeline!Timed
    <3>2. Timeline!DuplicateOf(x, drafts) = {f \in Alike(d) : Timeline!Earlier(f, x)}
      BY <3>1 DEF Timeline!DuplicateOf
    <3>3. "duplicate_proposal" \in marks[x].flags <=> Timeline!DuplicateOf(x, drafts) # {}
      BY <3>1, MarksAre
    <3>4. x \in Clean(d) <=> ~ ("duplicate_proposal" \in marks[x].flags)
      BY <3>1
    <3>5. QED
      BY <3>2, <3>3, <3>4
  <2>4. \A x \in Clean(d) : x \in Alike(d)
    OBVIOUS
  <2>5. Clean(d) = {e}
    <3> HIDE DEF Clean, Alike
    <3>1. e \in Clean(d)
      BY <2>2, <2>3
    <3>2. ASSUME NEW x \in Clean(d)
          PROVE  x = e
      <4>1. x \in Alike(d) /\ ~ Timeline!Earlier(e, x) /\ ~ Timeline!Earlier(x, e)
        BY <2>2, <2>3, <2>4
      <4>2. QED
        BY <2>1, <2>2, <4>1, EarlierOrders
    <3>3. QED
      BY <3>1, <3>2
  <2>6. QED
    BY <2>2, <2>5
<1>3. \A d \in drafts : d.at = NoTime => marks[d].flags = {}
  BY MarksAre
<1>4. QED
  BY <1>1, <1>2, <1>3 DEF Timeline!MarksAreMutual

(* Records of any files, each with its fields and its extraction artifact: *)
(* a field name occurs once in a record and is none of the two names under *)
(* which the statements of an artifact are kept.                           *)
Records(items) ==
  /\ IsFiniteSet(items)
  /\ \A i \in items :
       /\ i.source.file \in Int /\ i.source.record \in Int
       /\ IsFiniteSet(i.fields) /\ IsFiniteSet(DOMAIN i.dates) /\ IsFiniteSet(DOMAIN i.events)
       /\ DOMAIN i.dates \subseteq Int /\ DOMAIN i.events \subseteq Int
       /\ \A f \in i.fields : f.name \in Int \ {101, 102}
       /\ \A f, g \in i.fields : f.name = g.name => f = g
  /\ \A i, j \in items :
       i.source.file = j.source.file /\ i.source.record = j.source.record => i = j

DraftsOf(i) ==
  Timeline!drafts_from_record(i.source, i.fields)
  \cup Timeline!drafts_from_artifact(i.source, i.dates, i.events)
Drafts(items) == UNION {DraftsOf(i) : i \in items}

(* Where a draft comes from.                                               *)
FieldDraft(i, f) == Timeline!Draft("record", i.source, f.name, 0, f.says, f.at, <<f.name, f.says>>)
DateDraft(i, j) ==
  Timeline!Draft("artifact", i.source, 101, j, i.dates[j].says, i.dates[j].at, <<101, i.dates[j].says>>)
EventDraft(i, j) ==
  Timeline!Draft("artifact", i.source, 102, j, i.events[j].says, i.events[j].at, <<102, i.events[j].says>>)

LEMMA DraftIs ==
  ASSUME NEW i, NEW d \in DraftsOf(i)
  PROVE  \/ \E f \in i.fields : d = FieldDraft(i, f)
         \/ \E j \in DOMAIN i.dates : d = DateDraft(i, j)
         \/ \E j \in DOMAIN i.events : d = EventDraft(i, j)
<1>1. CASE d \in Timeline!drafts_from_record(i.source, i.fields)
  BY <1>1 DEF Timeline!drafts_from_record, FieldDraft
<1>2. CASE d \in Timeline!drafts_from_artifact(i.source, i.dates, i.events)
  BY <1>2 DEF Timeline!drafts_from_artifact, DateDraft, EventDraft
<1>3. QED
  BY <1>1, <1>2 DEF DraftsOf

LEMMA DraftFields ==
  ASSUME NEW origin, NEW source, NEW field, NEW index, NEW original, NEW at, NEW title
  PROVE  LET d == Timeline!Draft(origin, source, field, index, original, at, title)
         IN /\ d.origin = origin /\ d.file = source.file /\ d.record = source.record
            /\ d.field = field /\ d.index = index
            /\ Timeline!Key(d) = <<source.file, source.record, field, index>>
  BY DEF Timeline!Draft, Timeline!Key

LEMMA DraftsOfAreFinite ==
  ASSUME NEW items, Records(items), NEW i \in items
  PROVE  IsFiniteSet(DraftsOf(i))
<1> DEFINE F == {FieldDraft(i, f) : f \in i.fields}
           D == {DateDraft(i, j) : j \in DOMAIN i.dates}
           E == {EventDraft(i, j) : j \in DOMAIN i.events}
<1>1. IsFiniteSet(F)
  <2> DEFINE g == [f \in i.fields |-> FieldDraft(i, f)]
  <2>1. g \in Surjection(i.fields, F)
    BY DEF Surjection
  <2>2. IsFiniteSet(i.fields)
    BY DEF Records
  <2> HIDE DEF g, F
  <2>3. QED
    BY <2>1, <2>2, FS_Surjection
<1>2. IsFiniteSet(D)
  <2> DEFINE g == [j \in DOMAIN i.dates |-> DateDraft(i, j)]
  <2>1. g \in Surjection(DOMAIN i.dates, D)
    BY DEF Surjection
  <2>2. IsFiniteSet(DOMAIN i.dates)
    BY DEF Records
  <2> HIDE DEF g, D
  <2>3. QED
    BY <2>1, <2>2, FS_Surjection
<1>3. IsFiniteSet(E)
  <2> DEFINE g == [j \in DOMAIN i.events |-> EventDraft(i, j)]
  <2>1. g \in Surjection(DOMAIN i.events, E)
    BY DEF Surjection
  <2>2. IsFiniteSet(DOMAIN i.events)
    BY DEF Records
  <2> HIDE DEF g, E
  <2>3. QED
    BY <2>1, <2>2, FS_Surjection
<1>4. DraftsOf(i) \subseteq F \cup D \cup E
  <2>1. ASSUME NEW d \in DraftsOf(i)
        PROVE  d \in F \cup D \cup E
    BY DraftIs
  <2>2. QED
    BY <2>1
<1>5. IsFiniteSet(F \cup D \cup E)
  <2> HIDE DEF F, D, E
  <2>1. QED
    BY <1>1, <1>2, <1>3, FS_Union
<1>6. QED
  BY <1>4, <1>5, FS_Subset

LEMMA DraftsAreProposals ==
  ASSUME NEW items, Records(items)
  PROVE  Placed(Drafts(items))
<1>1. IsFiniteSet(Drafts(items))
  <2> DEFINE S == {DraftsOf(i) : i \in items}
             g == [i \in items |-> DraftsOf(i)]
  <2>1. g \in Surjection(items, S)
    BY DEF Surjection
  <2>2. IsFiniteSet(S)
    <3> HIDE DEF S, g
    <3>1. QED
      BY <2>1, FS_Surjection DEF Records
  <2>3. \A T \in S : IsFiniteSet(T)
    BY DraftsOfAreFinite
  <2> HIDE DEF S
  <2>4. IsFiniteSet(UNION S)
    BY <2>2, <2>3, FS_UNION
  <2>5. QED
    BY <2>4 DEF Drafts, S
<1>2. ASSUME NEW i \in items, NEW d \in DraftsOf(i)
      PROVE  /\ d.file = i.source.file /\ d.record = i.source.record
             /\ d.file \in Int /\ d.record \in Int /\ d.field \in Int /\ d.index \in Int
             /\ d.origin \in {"record", "artifact"}
  <2>1. i.source.file \in Int /\ i.source.record \in Int
    BY DEF Records
  <2>2. CASE \E f \in i.fields : d = FieldDraft(i, f)
    BY <2>1, <2>2, DraftFields DEF Records, FieldDraft
  <2>3. CASE \E j \in DOMAIN i.dates : d = DateDraft(i, j)
    BY <2>1, <2>3, DraftFields DEF Records, DateDraft
  <2>4. CASE \E j \in DOMAIN i.events : d = EventDraft(i, j)
    BY <2>1, <2>4, DraftFields DEF Records, EventDraft
  <2>5. QED
    BY <2>2, <2>3, <2>4, DraftIs
<1>3. ASSUME NEW i \in items, NEW d \in DraftsOf(i), NEW e \in DraftsOf(i),
             d.field = e.field, d.index = e.index
      PROVE  d = e
  <2>1. \A f \in i.fields : /\ FieldDraft(i, f).field = f.name /\ f.name \notin {101, 102}
                            /\ \A g \in i.fields : f.name = g.name => f = g
    BY DraftFields DEF Records, FieldDraft
  <2>2. \A j : DateDraft(i, j).field = 101 /\ DateDraft(i, j).index = j
    BY DraftFields DEF DateDraft
  <2>3. \A j : EventDraft(i, j).field = 102 /\ EventDraft(i, j).index = j
    BY DraftFields DEF EventDraft
  <2>4. QED
    BY <1>3, <2>1, <2>2, <2>3, DraftIs
<1>4. ASSUME NEW d \in Drafts(items), NEW e \in Drafts(items), Timeline!Key(d) = Timeline!Key(e)
      PROVE  d = e
  <2>1. PICK i \in items : d \in DraftsOf(i)
    BY DEF Drafts
  <2>2. PICK j \in items : e \in DraftsOf(j)
    BY DEF Drafts
  <2>3. d.file = e.file /\ d.record = e.record /\ d.field = e.field /\ d.index = e.index
    BY <1>4 DEF Timeline!Key
  <2>4. i = j
    BY <1>2, <2>1, <2>2, <2>3 DEF Records
  <2>5. QED
    BY <1>3, <2>1, <2>2, <2>3, <2>4
<1>5. \A d \in Drafts(items) : \E i \in items : d \in DraftsOf(i)
  BY DEF Drafts
<1>6. QED
  BY <1>1, <1>2, <1>4, <1>5 DEF Placed

(* Whatever records and artifacts are read and whatever the timeline holds *)
(* already: the proposals disagree mutually, and of those that repeat one  *)
(* another exactly one stays clean.                                        *)
THEOREM MarksAreAlwaysMutual ==
  ASSUME NEW items, NEW existing, Records(items)
  PROVE  Timeline!MarksAreMutual(Drafts(items), Timeline!annotate_drafts(Drafts(items), existing))
BY DraftsAreProposals, MarksOfProposals

-----------------------------------------------------------------------------
(* Cross-case discovery: what a reader sees of the candidates of any scope.*)

(* A candidate is built from the signals of its own cases alone.           *)
LEMMA OwnCasesOnly ==
  ASSUME NEW kind, NEW value, NEW of, NEW all, NEW some,
         \A c \in DOMAIN of : all[c] = some[c]
  PROVE  CrossCase!build_candidate(kind, value, of, all)
           = CrossCase!build_candidate(kind, value, of, some)
<1> DEFINE Sides(a) == {CrossCase!Side(c, of[c], a[c]) : c \in DOMAIN of}
<1>1. Sides(all) = Sides(some)
  OBVIOUS
<1>2. QED
  <2> HIDE DEF Sides
  <2> QED
    BY <1>1 DEF CrossCase!build_candidate, Sides

LEMMA CandidateFields ==
  ASSUME NEW kind, NEW value, NEW of, NEW all, NEW c,
         c = CrossCase!build_candidate(kind, value, of, all)
  PROVE  c.kind = kind /\ c.value = value /\ c.cases = DOMAIN of
  BY DEF CrossCase!build_candidate

LEMMA Reviewable ==
  ASSUME NEW kind, NEW value, NEW of, NEW all, NEW sides,
         sides = {CrossCase!Side(d, of[d], all[d]) : d \in DOMAIN of}
  PROVE  CrossCase!build_candidate(kind, value, of, all).reviewable <=>
           CrossCase!classify(kind, sides, CrossCase!Shared(kind, sides)) # "similarity_name_only"
  BY DEF CrossCase!build_candidate

LEMMA SideFields ==
  ASSUME NEW c, NEW keys, NEW all
  PROVE  LET s == CrossCase!Side(c, keys, all)
         IN /\ s.reviewed <=> \E i \in keys : i.reviewed
            /\ \A k \in CrossCase!Identifier : \A v :
                 v \in s.values[k] <=>
                   \E i \in CrossCase!contributing(keys, all) : i.kind = k /\ v = i.value
  BY DEF CrossCase!Side

(* The signals that carry a key, and the group that shares it.             *)
LEMMA Grouped ==
  ASSUME NEW all, NEW key
  PROVE  /\ DOMAIN CrossCase!Group(all, key) \subseteq DOMAIN all
         /\ \A d \in DOMAIN CrossCase!Group(all, key) :
              /\ CrossCase!Group(all, key)[d] = CrossCase!WithKey(all, key, d)
              /\ CrossCase!WithKey(all, key, d) # {}
         /\ \A d \in DOMAIN all :
              CrossCase!WithKey(all, key, d) # {} => d \in DOMAIN CrossCase!Group(all, key)
  BY DEF CrossCase!Group

LEMMA CandidateOf ==
  ASSUME NEW all, NEW c \in CrossCase!build_candidates(all)
  PROVE  \E key \in CrossCase!Keys(all) :
           /\ key = <<c.kind, c.value>>
           /\ c = CrossCase!build_candidate(c.kind, c.value, CrossCase!Group(all, key), all)
           /\ c.cases = DOMAIN CrossCase!Group(all, key)
           /\ \E d, e \in c.cases : d # e
<1>1. PICK key \in CrossCase!Keys(all) :
           /\ \E d, e \in DOMAIN CrossCase!Group(all, key) : d # e
           /\ c = CrossCase!build_candidate(key[1], key[2], CrossCase!Group(all, key), all)
  BY DEF CrossCase!build_candidates
<1>2. key = <<key[1], key[2]>>
  BY DEF CrossCase!Keys
<1>3. c.kind = key[1] /\ c.value = key[2] /\ c.cases = DOMAIN CrossCase!Group(all, key)
  BY <1>1, CandidateFields
<1>4. QED
  BY <1>1, <1>2, <1>3

(* What a reader is shown of the candidates of any scope is what the same  *)
(* discovery, run over the cases she may read alone, would have found: no  *)
(* count, score or entity of a hidden case shows (cross_case.py).          *)
THEOREM ShownIsFoundInOwnScope ==
  ASSUME NEW user, NEW existing, NEW all
  PROVE  CrossCase!ShownIsOwnScope(user, existing, all, CrossCase!build_candidates(all))
<1> DEFINE found == CrossCase!build_candidates(all)
           hers == CrossCase!visible_case_ids(user, DOMAIN all, existing)
           shown == CrossCase!visible_candidates(user, found, existing)
           own == [c \in hers |-> all[c]]
<1>1. ASSUME NEW c \in shown
      PROVE  /\ c \in found /\ c.cases # {}
             /\ CrossCase!visible_case_ids(user, c.cases, existing) = c.cases
  BY DEF CrossCase!visible_candidates
<1>2. ASSUME NEW c \in shown, NEW a \in c.cases
      PROVE  CrossCase!guard_cross_case_artifact(user, c, a, existing)
  <2>1. PICK key \in CrossCase!Keys(all) :
           c.cases = DOMAIN CrossCase!Group(all, key) /\ \E d, e \in c.cases : d # e
    BY <1>1, CandidateOf
  <2>2. c.cases \ {a} # {} /\ c.cases \cup {a} = c.cases
    BY <2>1
  <2> HIDE DEF shown
  <2>3. QED
    BY <1>1, <2>2 DEF CrossCase!guard_cross_case_artifact, CrossCase!verify_scope
<1>3. ASSUME NEW c \in shown
      PROVE  c \in CrossCase!build_candidates(own)
  <2>1. PICK key \in CrossCase!Keys(all) :
           /\ key = <<c.kind, c.value>>
           /\ c = CrossCase!build_candidate(c.kind, c.value, CrossCase!Group(all, key), all)
           /\ c.cases = DOMAIN CrossCase!Group(all, key)
           /\ \E d, e \in c.cases : d # e
    <3> HIDE DEF shown
    <3>1. QED
      BY <1>1, CandidateOf
  <2> DEFINE of == CrossCase!Group(all, key)
  <2>2. c.cases \subseteq hers /\ hers \subseteq DOMAIN all
    <3>1. c.cases \subseteq DOMAIN all
      BY <2>1, Grouped
    <3>2. CrossCase!visible_case_ids(user, c.cases, existing) = c.cases
      BY <1>1
    <3>3. QED
      BY <3>1, <3>2 DEF CrossCase!visible_case_ids
  <2>3. CrossCase!Group(own, key) = of
    <3>1. \A d \in hers : CrossCase!WithKey(own, key, d) = CrossCase!WithKey(all, key, d)
      BY DEF CrossCase!WithKey
    <3>2. {d \in hers : CrossCase!WithKey(own, key, d) # {}} = DOMAIN of
      <4>1. \A d \in DOMAIN of : d \in hers /\ CrossCase!WithKey(all, key, d) # {}
        BY <2>1, <2>2, Grouped
      <4>2. \A d \in hers : CrossCase!WithKey(all, key, d) # {} => d \in DOMAIN of
        BY <2>2, Grouped
      <4> HIDE DEF hers, own, of
      <4>3. QED
        BY <3>1, <4>1, <4>2
    <3>3. \A d \in DOMAIN of : CrossCase!WithKey(own, key, d) = of[d]
      BY <2>1, <2>2, <3>1, Grouped
    <3>4. of = [d \in DOMAIN of |-> of[d]]
      BY DEF CrossCase!Group
    <3>5. CrossCase!Group(own, key)
            = [d \in {d \in hers : CrossCase!WithKey(own, key, d) # {}} |-> CrossCase!WithKey(own, key, d)]
      BY DEF CrossCase!Group
    <3>6. QED
      <4> HIDE DEF of, own, hers
      <4>1. QED
        BY <3>2, <3>3, <3>4, <3>5
  <2>4. c = CrossCase!build_candidate(c.kind, c.value, of, own)
    <3>1. \A d \in DOMAIN of : all[d] = own[d]
      BY <2>1, <2>2
    <3>2. CrossCase!build_candidate(c.kind, c.value, of, all)
            = CrossCase!build_candidate(c.kind, c.value, of, own)
      <4> HIDE DEF of, own
      <4>1. QED
        BY <3>1, OwnCasesOnly
    <3>3. QED
      BY <2>1, <3>2
  <2>5. key \in CrossCase!Keys(own)
    <3>1. PICK d \in c.cases : TRUE
      BY <1>1
    <3>2. d \in hers /\ of[d] = CrossCase!WithKey(all, key, d) /\ of[d] # {}
      BY <2>1, <2>2, <3>1, Grouped
    <3>3. PICK i \in all[d] : key = <<i.kind, i.value>>
      BY <3>2 DEF CrossCase!WithKey
    <3>4. i \in UNION {own[e] : e \in DOMAIN own}
      <4> HIDE DEF hers
      <4>1. QED
        BY <3>2, <3>3
    <3>5. QED
      BY <3>3, <3>4 DEF CrossCase!Keys
  <2>6. key[1] = c.kind /\ key[2] = c.value
    BY <2>1
  <2>7. QED
    <3> HIDE DEF own, hers, shown
    <3>1. \E d, e \in DOMAIN CrossCase!Group(own, key) : d # e
      BY <2>1, <2>3
    <3>2. c = CrossCase!build_candidate(key[1], key[2], CrossCase!Group(own, key), own)
      BY <2>3, <2>4, <2>6
    <3>3. QED
      BY <2>5, <3>1, <3>2 DEF CrossCase!build_candidates
<1>4. QED
  BY <1>2, <1>3 DEF CrossCase!ShownIsOwnScope

(* A side of the group of a key: what the two texts of a candidate read of *)
(* it.                                                                     *)
Beside(all, key, d) ==
  CrossCase!contributing(CrossCase!WithKey(all, key, d), all[d])

(* An identifier that every side carries besides the key, or as the key.   *)
Joined(all, key, cases) ==
  \E k \in CrossCase!Identifier : \E v :
    \A d \in cases : \E i \in Beside(all, key, d) : i.kind = k /\ i.value = v

LEMMA JoinedIsShared ==
  ASSUME NEW all, NEW key, NEW kind, NEW value, key = <<kind, value>>, NEW cases, NEW sides,
         sides = {CrossCase!Side(d, CrossCase!WithKey(all, key, d), all[d]) : d \in cases},
         cases # {}, \A d \in cases : CrossCase!WithKey(all, key, d) # {}
  PROVE  Joined(all, key, cases) <=>
           kind \in CrossCase!Identifier \/ CrossCase!Shared(kind, sides) # {}
<1> DEFINE S(d) == CrossCase!Side(d, CrossCase!WithKey(all, key, d), all[d])
<1>1. ASSUME NEW d \in cases, NEW k \in CrossCase!Identifier, NEW v
      PROVE  v \in S(d).values[k] <=> \E i \in Beside(all, key, d) : i.kind = k /\ i.value = v
  BY SideFields DEF Beside
<1>2. ASSUME NEW d \in cases
      PROVE  \E i \in Beside(all, key, d) : i.kind = kind /\ i.value = value
  <2>1. PICK i \in CrossCase!WithKey(all, key, d) : TRUE
    OBVIOUS
  <2>2. i.kind = kind /\ i.value = value
    BY <2>1 DEF CrossCase!WithKey
  <2>3. QED
    BY <2>1, <2>2 DEF Beside, CrossCase!contributing
<1>3. CASE kind \in CrossCase!Identifier
  BY <1>2, <1>3 DEF Joined
<1>4. CASE kind \notin CrossCase!Identifier
  <2>0. \A s \in sides : \E d \in cases : s = S(d)
    OBVIOUS
  <2>00. \A d \in cases : S(d) \in sides
    OBVIOUS
  <2> HIDE DEF S
  <2>1. ASSUME NEW k \in CrossCase!Identifier, NEW v,
               \A d \in cases : \E i \in Beside(all, key, d) : i.kind = k /\ i.value = v
        PROVE  k \in CrossCase!Shared(kind, sides)
    <3>1. \A d \in cases : v \in S(d).values[k]
      BY <1>1, <2>1
    <3>2. \A s \in sides : v \in s.values[k]
      BY <2>0, <3>1
    <3>3. PICK d \in cases : TRUE
      OBVIOUS
    <3>4. S(d) \in sides /\ v \in S(d).values[k]
      BY <2>00, <3>1
    <3>5. v \in UNION {s.values[k] : s \in sides}
      BY <3>4
    <3>6. k # kind
      BY <1>4
    <3>7. QED
      BY <3>2, <3>5, <3>6 DEF CrossCase!Shared, CrossCase!Stated
  <2>2. ASSUME NEW k \in CrossCase!Shared(kind, sides)
        PROVE  Joined(all, key, cases)
    <3>1. PICK v : \A s \in sides : v \in s.values[k]
      BY DEF CrossCase!Shared
    <3>2. k \in CrossCase!Identifier
      BY DEF CrossCase!Shared, CrossCase!Stated
    <3>3. \A d \in cases : v \in S(d).values[k]
      BY <2>00, <3>1
    <3>4. QED
      BY <1>1, <3>2, <3>3 DEF Joined
  <2>3. QED
    BY <1>4, <2>1, <2>2 DEF Joined
<1>5. QED
  BY <1>3, <1>4

(* A candidate can be approved exactly when something stronger than a name *)
(* joins its cases, whatever the cases hold (cross_case.py).               *)
THEOREM ApprovableIsJoined ==
  ASSUME NEW all
  PROVE  CrossCase!ApprovableIsIdentified(all, CrossCase!build_candidates(all))
<1> SUFFICES ASSUME NEW c \in CrossCase!build_candidates(all)
             PROVE  CrossCase!ApprovableIsIdentified(all, {c})
  BY DEF CrossCase!ApprovableIsIdentified
<1>1. PICK key \in CrossCase!Keys(all) :
           /\ key = <<c.kind, c.value>>
           /\ c = CrossCase!build_candidate(c.kind, c.value, CrossCase!Group(all, key), all)
           /\ c.cases = DOMAIN CrossCase!Group(all, key)
           /\ \E d, e \in c.cases : d # e
  BY CandidateOf
<1> DEFINE carries(d) == CrossCase!Carrying(all, c, d)
           beside(d) == CrossCase!IdentifiersBeside(all, c, d)
           sides == {CrossCase!Side(d, CrossCase!WithKey(all, key, d), all[d]) : d \in c.cases}
           reviewed == c.kind = "reviewed_alias" \/ \E d \in c.cases : \E i \in carries(d) : i.reviewed
<1>2. \A d : carries(d) = CrossCase!WithKey(all, key, d)
  BY <1>1 DEF CrossCase!WithKey, CrossCase!Carrying
<1>3. c.cases # {} /\ \A d \in c.cases : CrossCase!WithKey(all, key, d) # {}
  BY <1>1, Grouped
<1>4. c.reviewable <=> reviewed \/ c.kind \in CrossCase!Identifier \/ CrossCase!Shared(c.kind, sides) # {}
  <2>1. sides = {CrossCase!Side(d, CrossCase!Group(all, key)[d], all[d]) :
                   d \in DOMAIN CrossCase!Group(all, key)}
    BY <1>1, Grouped
  <2>2. c.reviewable <=>
          CrossCase!classify(c.kind, sides, CrossCase!Shared(c.kind, sides)) # "similarity_name_only"
    <3> HIDE DEF sides
    <3>1. QED
      BY <1>1, <2>1, Reviewable
  <2>3. (\E s \in sides : s.reviewed) <=> \E d \in c.cases : \E i \in carries(d) : i.reviewed
    <3>1. \A d \in c.cases :
            CrossCase!Side(d, CrossCase!WithKey(all, key, d), all[d]).reviewed
              <=> \E i \in carries(d) : i.reviewed
      <4> HIDE DEF carries
      <4>1. QED
        BY <1>2, SideFields
    <3> HIDE DEF carries
    <3>2. QED
      BY <3>1
  <2> HIDE DEF sides, carries
  <2>4. QED
    BY <2>2, <2>3 DEF CrossCase!classify
<1>5. Joined(all, key, c.cases) <=>
        \E v \in UNION {beside(d) : d \in c.cases} : \A d \in c.cases : v \in beside(d)
  <2>1. ASSUME NEW d \in c.cases, NEW k \in CrossCase!Identifier, NEW v
        PROVE  <<k, v>> \in beside(d) <=> \E i \in Beside(all, key, d) : i.kind = k /\ i.value = v
    <3>1. CrossCase!contributing(carries(d), all[d]) = Beside(all, key, d)
      BY <1>2 DEF Beside
    <3> HIDE DEF carries
    <3>2. QED
      BY <3>1 DEF CrossCase!IdentifiersBeside, carries
  <2>2. ASSUME NEW d \in c.cases, NEW p \in beside(d)
        PROVE  \E k \in CrossCase!Identifier : \E v : p = <<k, v>>
    BY DEF CrossCase!IdentifiersBeside
  <2>3. PICK d0 \in c.cases : TRUE
    BY <1>3
  <2> HIDE DEF beside
  <2>4. ASSUME Joined(all, key, c.cases)
        PROVE  \E v \in UNION {beside(d) : d \in c.cases} : \A d \in c.cases : v \in beside(d)
    <3>1. PICK k, v : /\ k \in CrossCase!Identifier
                      /\ \A d \in c.cases :
                           \E i \in Beside(all, key, d) : i.kind = k /\ i.value = v
      BY <2>4 DEF Joined
    <3>2. \A d \in c.cases : <<k, v>> \in beside(d)
      BY <2>1, <3>1
    <3>3. QED
      BY <2>3, <3>2
  <2>5. ASSUME NEW p, \A d \in c.cases : p \in beside(d)
        PROVE  Joined(all, key, c.cases)
    <3>1. PICK k, v : k \in CrossCase!Identifier /\ p = <<k, v>>
      BY <2>2, <2>3, <2>5
    <3>2. QED
      BY <2>1, <2>5, <3>1 DEF Joined
  <2>6. QED
    BY <2>4, <2>5
<1>6. Joined(all, key, c.cases) <=>
        c.kind \in CrossCase!Identifier \/ CrossCase!Shared(c.kind, sides) # {}
  <2> HIDE DEF sides
  <2>1. sides = {CrossCase!Side(d, CrossCase!WithKey(all, key, d), all[d]) : d \in c.cases}
    BY DEF sides
  <2>2. key = <<c.kind, c.value>>
    BY <1>1
  <2>3. QED
    BY <1>3, <2>1, <2>2, JoinedIsShared
<1>7. QED
  <2>1. CrossCase!assert_candidate_decision_allowed(c, "approved") <=> c.reviewable
    BY DEF CrossCase!assert_candidate_decision_allowed
  <2>2. CrossCase!assert_candidate_decision_allowed(c, "approved") <=>
          \/ c.kind = "reviewed_alias"
          \/ \E d \in c.cases : \E i \in carries(d) : i.reviewed
          \/ \E v \in UNION {beside(d) : d \in c.cases} : \A d \in c.cases : v \in beside(d)
    <3> HIDE DEF carries, beside, sides
    <3>1. QED
      BY <1>4, <1>5, <1>6, <2>1
  <2>3. QED
    BY <2>2 DEF CrossCase!ApprovableIsIdentified

-----------------------------------------------------------------------------
(* The tools of the assistant, for any database, user and call.            *)

Seen(db, user) == Assistant!_visibility_condition(db, user)

LEMMA SightIsKept ==
  ASSUME NEW db, NEW user
  PROVE  Seen(Assistant!InSight(db, user), user) = Seen(db, user)
<1> DEFINE kept == Assistant!InSight(db, user)
<1>1. kept.cases = Seen(db, user)
  BY DEF Assistant!InSight, Seen
<1>2. Seen(kept, user) = {c \in kept.cases : user.admin \/ c.owner = user.id \/ user.id \in c.members}
  BY DEF Assistant!_visibility_condition, Seen
<1>3. Seen(db, user) = {c \in db.cases : user.admin \/ c.owner = user.id \/ user.id \in c.members}
  BY DEF Assistant!_visibility_condition, Seen
<1> HIDE DEF kept
<1> HIDE DEF kept
<1>4. \A c \in Seen(db, user) : user.admin \/ c.owner = user.id \/ user.id \in c.members
  BY <1>3
<1>5. \A c : c \in Seen(kept, user) <=> c \in Seen(db, user)
  BY <1>1, <1>2, <1>4
<1>6. QED
  BY <1>5 DEF kept

LEMMA RowsAreKept ==
  ASSUME NEW db, NEW user, NEW case \in Assistant!Ids(Seen(db, user))
  PROVE  LET kept == Assistant!InSight(db, user)
         IN /\ Assistant!Of(kept.entities, case) = Assistant!Of(db.entities, case)
            /\ Assistant!Of(kept.links, case) = Assistant!Of(db.links, case)
            /\ Assistant!Of(kept.evidence, case) = Assistant!Of(db.evidence, case)
            /\ Assistant!Of(kept.findings, case) = Assistant!Of(db.findings, case)
            /\ Assistant!Of(kept.victims, case) = Assistant!Of(db.victims, case)
            /\ Assistant!Of(kept.events, case) = Assistant!Of(db.events, case)
            /\ Assistant!Of(kept.metrics, case) = Assistant!Of(db.metrics, case)
<1> DEFINE own == Assistant!Ids(Seen(db, user))
           keep(rows) == {r \in rows : r.case \in own}
<1>1. \A rows : Assistant!Of(keep(rows), case) = Assistant!Of(rows, case)
  BY DEF Assistant!Of
<1>2. LET kept == Assistant!InSight(db, user)
      IN /\ kept.entities = keep(db.entities) /\ kept.links = keep(db.links)
         /\ kept.evidence = keep(db.evidence) /\ kept.findings = keep(db.findings)
         /\ kept.victims = keep(db.victims) /\ kept.events = keep(db.events)
         /\ kept.metrics = keep(db.metrics)
  BY DEF Assistant!InSight, Seen
<1> HIDE DEF keep
<1>3. QED
  BY <1>1, <1>2

LEMMA SameLookup ==
  ASSUME NEW db, NEW kept, NEW user, NEW bound, NEW ref, Seen(kept, user) = Seen(db, user)
  PROVE  /\ Assistant!resolve_case_reference(kept, user, ref)
              = Assistant!resolve_case_reference(db, user, ref)
         /\ Assistant!_lookup_case(kept, user, bound, ref)
              = Assistant!_lookup_case(db, user, bound, ref)
         /\ Assistant!accessible_cases(kept, user, ref) = Assistant!accessible_cases(db, user, ref)
<1>1. Assistant!resolve_case_reference(kept, user, ref)
        = Assistant!resolve_case_reference(db, user, ref)
  BY DEF Assistant!resolve_case_reference, Seen
<1>2. Assistant!_lookup_case(kept, user, bound, ref)
              = Assistant!_lookup_case(db, user, bound, ref)
  BY <1>1 DEF Assistant!_lookup_case
<1>3. Assistant!accessible_cases(kept, user, ref) = Assistant!accessible_cases(db, user, ref)
  BY DEF Assistant!accessible_cases, Seen
<1>4. QED
  BY <1>1, <1>2, <1>3

LEMMA FoundIsSeen ==
  ASSUME NEW db, NEW user, NEW bound, NEW ref, bound \subseteq Seen(db, user)
  PROVE  Assistant!_lookup_case(db, user, bound, ref).case \subseteq Seen(db, user)
<1> DEFINE r == Assistant!resolve_case_reference(db, user, ref)
<1>1. r.status \in {"error", "not_found", "found", "ambiguous"}
  BY DEF Assistant!resolve_case_reference, Assistant!Resolution
<1>2. r.status = "found" => r.cases \subseteq Seen(db, user)
  BY DEF Assistant!resolve_case_reference, Assistant!Resolution, Seen, Assistant!Oldest
<1> HIDE DEF r
<1>3. QED
  BY <1>1, <1>2 DEF Assistant!_lookup_case, r

LEMMA TheCaseIsOwn ==
  ASSUME NEW db, NEW user, NEW lookup, lookup.case \subseteq Seen(db, user), lookup.case # {}
  PROVE  Assistant!TheCase(lookup) \in Assistant!Ids(Seen(db, user))
  BY DEF Assistant!TheCase, Assistant!Ids

LEMMA SameDigests ==
  ASSUME NEW db, NEW kept, NEW case, NEW limit,
         Assistant!Of(kept.entities, case) = Assistant!Of(db.entities, case),
         Assistant!Of(kept.links, case) = Assistant!Of(db.links, case),
         Assistant!Of(kept.evidence, case) = Assistant!Of(db.evidence, case),
         Assistant!Of(kept.findings, case) = Assistant!Of(db.findings, case),
         Assistant!Of(kept.victims, case) = Assistant!Of(db.victims, case),
         Assistant!Of(kept.events, case) = Assistant!Of(db.events, case),
         Assistant!Of(kept.metrics, case) = Assistant!Of(db.metrics, case)
  PROVE  /\ Assistant!case_summary(kept, case) = Assistant!case_summary(db, case)
         /\ Assistant!evidence_digest(kept, case, limit) = Assistant!evidence_digest(db, case, limit)
         /\ Assistant!timeline_digest(kept, case, limit) = Assistant!timeline_digest(db, case, limit)
         /\ Assistant!analytics_digest(kept, case, limit) = Assistant!analytics_digest(db, case, limit)
         /\ Assistant!graph_relationships_digest(kept, case)
              = Assistant!graph_relationships_digest(db, case)
         /\ \A metric, top : Assistant!rank_entities(kept, case, metric, top)
                               = Assistant!rank_entities(db, case, metric, top)
<1>1. /\ Assistant!case_summary(kept, case) = Assistant!case_summary(db, case)
      /\ Assistant!evidence_digest(kept, case, limit) = Assistant!evidence_digest(db, case, limit)
      /\ Assistant!timeline_digest(kept, case, limit) = Assistant!timeline_digest(db, case, limit)
      /\ Assistant!analytics_digest(kept, case, limit) = Assistant!analytics_digest(db, case, limit)
      /\ Assistant!graph_relationships_digest(kept, case)
           = Assistant!graph_relationships_digest(db, case)
  BY DEF Assistant!case_summary, Assistant!evidence_digest, Assistant!timeline_digest,
         Assistant!analytics_digest, Assistant!graph_relationships_digest
<1>2. /\ Assistant!Active(kept, case) = Assistant!Active(db, case)
      /\ \A e : Assistant!RelationCount(kept, case, e) = Assistant!RelationCount(db, case, e)
  BY DEF Assistant!Active, Assistant!RelationCount
<1>3. Assistant!_relationship_counts(kept, case) = Assistant!_relationship_counts(db, case)
  BY <1>2 DEF Assistant!_relationship_counts
<1>4. Assistant!_pagerank_scores(kept, case) = Assistant!_pagerank_scores(db, case)
  BY <1>2 DEF Assistant!_pagerank_scores
<1>5. Assistant!_neighbor_counts(kept, case) = Assistant!_neighbor_counts(db, case)
  BY <1>2 DEF Assistant!_neighbor_counts
<1>6. \A metric : Assistant!Values(kept, case, metric) = Assistant!Values(db, case, metric)
  BY <1>3, <1>4, <1>5 DEF Assistant!Values
<1>7. QED
  BY <1>1, <1>6 DEF Assistant!rank_entities

LEMMA SameAnswer ==
  ASSUME NEW db, NEW user, NEW bound, NEW call, bound \subseteq Seen(db, user),
         call.tool # "get_entity"
  PROVE  Assistant!execute_tool(Assistant!InSight(db, user), user, bound, call)
           = Assistant!execute_tool(db, user, bound, call)
<1> DEFINE kept == Assistant!InSight(db, user)
           lookup == Assistant!_lookup_case(db, user, bound, call.ref)
           the == Assistant!TheCase(lookup)
<1>1. Seen(kept, user) = Seen(db, user)
  BY SightIsKept
<1>2. /\ Assistant!_lookup_case(kept, user, bound, call.ref) = lookup
      /\ Assistant!accessible_cases(kept, user, call.ref) = Assistant!accessible_cases(db, user, call.ref)
  BY <1>1, SameLookup
<1>3. CASE lookup.case = {}
  <2>1. lookup.options # {} \/ lookup.options = {}
    OBVIOUS
  <2> HIDE DEF kept, lookup
  <2>2. /\ Assistant!tool_search_cases(kept, user, call.ref) = Assistant!tool_search_cases(db, user, call.ref)
        /\ Assistant!tool_get_case_summary(kept, lookup) = Assistant!tool_get_case_summary(db, lookup)
        /\ Assistant!tool_list_evidence(kept, lookup) = Assistant!tool_list_evidence(db, lookup)
        /\ Assistant!tool_get_timeline(kept, lookup) = Assistant!tool_get_timeline(db, lookup)
        /\ Assistant!tool_get_analytics_summary(kept, lookup) = Assistant!tool_get_analytics_summary(db, lookup)
        /\ Assistant!tool_rank_entities(kept, lookup, call.metric, DefaultTop)
             = Assistant!tool_rank_entities(db, lookup, call.metric, DefaultTop)
    BY <1>2, <1>3 DEF Assistant!tool_search_cases, Assistant!tool_get_case_summary,
       Assistant!tool_list_evidence, Assistant!tool_get_timeline, Assistant!OnCase,
       Assistant!tool_get_analytics_summary, Assistant!tool_rank_entities
  <2>3. QED
    BY <1>2, <2>2 DEF Assistant!execute_tool, lookup, kept
<1>4. CASE lookup.case # {}
  <2>1. the \in Assistant!Ids(Seen(db, user))
    BY <1>4, FoundIsSeen, TheCaseIsOwn
  <2>2. /\ Assistant!case_summary(kept, the) = Assistant!case_summary(db, the)
        /\ Assistant!evidence_digest(kept, the, DigestLimit) = Assistant!evidence_digest(db, the, DigestLimit)
        /\ Assistant!timeline_digest(kept, the, DigestLimit) = Assistant!timeline_digest(db, the, DigestLimit)
        /\ Assistant!analytics_digest(kept, the, DigestLimit) = Assistant!analytics_digest(db, the, DigestLimit)
        /\ Assistant!graph_relationships_digest(kept, the) = Assistant!graph_relationships_digest(db, the)
        /\ Assistant!rank_entities(kept, the, call.metric, DefaultTop)
             = Assistant!rank_entities(db, the, call.metric, DefaultTop)
    <3> HIDE DEF lookup, the
    <3>1. QED
      BY <2>1, RowsAreKept, SameDigests
  <2> HIDE DEF kept, lookup
  <2>3. /\ Assistant!tool_search_cases(kept, user, call.ref) = Assistant!tool_search_cases(db, user, call.ref)
        /\ Assistant!tool_get_case_summary(kept, lookup) = Assistant!tool_get_case_summary(db, lookup)
        /\ Assistant!tool_list_evidence(kept, lookup) = Assistant!tool_list_evidence(db, lookup)
        /\ Assistant!tool_get_timeline(kept, lookup) = Assistant!tool_get_timeline(db, lookup)
        /\ Assistant!tool_get_analytics_summary(kept, lookup) = Assistant!tool_get_analytics_summary(db, lookup)
        /\ Assistant!tool_rank_entities(kept, lookup, call.metric, DefaultTop)
             = Assistant!tool_rank_entities(db, lookup, call.metric, DefaultTop)
    BY <1>2, <2>2 DEF Assistant!tool_search_cases, Assistant!tool_get_case_summary,
       Assistant!tool_list_evidence, Assistant!tool_get_timeline,
       Assistant!tool_get_analytics_summary, Assistant!tool_rank_entities
  <2>4. QED
    BY <1>2, <2>3 DEF Assistant!execute_tool, lookup, kept
<1>5. QED
  BY <1>3, <1>4

LEMMA StatusAlone ==
  ASSUME NEW ok, NEW one, NEW other, NEW sources
  PROVE  Assistant!ButStatus(Assistant!Result(ok, one, sources))
           = Assistant!ButStatus(Assistant!Result(ok, other, sources))
  BY DEF Assistant!Result, Assistant!ButStatus

(* get_entity of an entity whose case is out of sight fails as it fails of *)
(* one that does not exist, the wording of the status apart.               *)
LEMMA SameEntity ==
  ASSUME NEW db, NEW user, NEW id, \A e, f \in db.entities : e.id = f.id => e = f
  PROVE  Assistant!ButStatus(Assistant!tool_get_entity(db, user, id))
           = Assistant!ButStatus(Assistant!tool_get_entity(Assistant!InSight(db, user), user, id))
<1> DEFINE kept == Assistant!InSight(db, user)
           own == Assistant!Ids(Seen(db, user))
           hit == {e \in db.entities : e.id = id}
           seen == {e \in kept.entities : e.id = id}
           said == Assistant!tool_get_entity(db, user, id)
           alone == Assistant!tool_get_entity(kept, user, id)
           looked(h, d) == Assistant!_lookup_case(d, user, {}, [id |-> (CHOOSE e \in h : TRUE).case, text |-> 0])
<1>1. seen = {e \in hit : e.case \in own}
  <2>1. kept.entities = {e \in db.entities : e.case \in own}
    BY DEF Assistant!InSight, Seen
  <2> HIDE DEF kept, own
  <2>2. QED
    BY <2>1
<1>2. said = IF hit = {} THEN Assistant!Result(FALSE, "none", {})
             ELSE IF looked(hit, db).case = {} THEN Assistant!Failed(looked(hit, db))
             ELSE Assistant!Result(TRUE, "found", Assistant!Refs("entity", hit))
  BY DEF Assistant!tool_get_entity
<1>3. alone = IF seen = {} THEN Assistant!Result(FALSE, "none", {})
              ELSE IF looked(seen, kept).case = {} THEN Assistant!Failed(looked(seen, kept))
              ELSE Assistant!Result(TRUE, "found", Assistant!Refs("entity", seen))
  BY DEF Assistant!tool_get_entity
<1>4. looked(seen, kept) = looked(seen, db)
  <2>1. Seen(kept, user) = Seen(db, user)
    BY SightIsKept
  <2> HIDE DEF kept, seen
  <2>2. QED
    BY <2>1, SameLookup
<1> HIDE DEF kept, own, seen, said, alone, looked
<1>5. CASE hit = {}
  <2>1. seen = {}
    BY <1>1, <1>5
  <2>2. said = alone
    BY <1>2, <1>3, <1>5, <2>1
  <2>3. QED
    BY <2>2 DEF said, alone, kept
<1>6. CASE hit # {} /\ seen # {}
  <2>1. seen = hit
    <3>1. PICK e \in seen : TRUE
      BY <1>6
    <3>2. e \in hit /\ \A f \in hit : f = e
      BY <1>1
    <3>3. seen \subseteq hit
      BY <1>1
    <3> HIDE DEF hit
    <3>4. QED
      BY <3>1, <3>2, <3>3
  <2>2. said = alone
    <3> HIDE DEF hit
    <3>1. QED
      BY <1>2, <1>3, <1>4, <1>6, <2>1
  <2>3. QED
    BY <2>2 DEF said, alone, kept
<1>7. CASE hit # {} /\ seen = {}
  <2>1. looked(hit, db).case = {}
    <3> DEFINE e == CHOOSE x \in hit : TRUE
    <3>1. e \in hit /\ e.case \notin own
      BY <1>1, <1>7
    <3>2. looked(hit, db) = Assistant!_lookup_case(db, user, {}, [id |-> e.case, text |-> 0])
      BY DEF looked
    <3> HIDE DEF e, hit
    <3>3. \A c \in Seen(db, user) : c.id # e.case
      BY <3>1 DEF own, Assistant!Ids
    <3> DEFINE r == Assistant!resolve_case_reference(db, user, [id |-> e.case, text |-> 0])
    <3>4. r.status \in {"error", "not_found"}
      BY <3>3 DEF Assistant!resolve_case_reference, Assistant!Resolution, Seen
    <3> HIDE DEF r
    <3>5. QED
      BY <3>2, <3>4 DEF Assistant!_lookup_case, r
  <2>2. said = Assistant!Failed(looked(hit, db))
    BY <1>2, <1>7, <2>1
  <2>3. alone = Assistant!Result(FALSE, "none", {})
    BY <1>3, <1>7
  <2> HIDE DEF hit
  <2>4. Assistant!ButStatus(said) = Assistant!ButStatus(alone)
    BY <2>2, <2>3, StatusAlone DEF Assistant!Failed
  <2>5. QED
    BY <2>4 DEF said, alone, kept
<1>8. QED
  BY <1>5, <1>6, <1>7 DEF said, alone, kept

(* No tool of the assistant answers differently for what its user cannot   *)
(* see: a database without the hidden cases gives the same answer - of     *)
(* get_entity the same but for the status, which tells "not found" from    *)
(* "denied" (ai/tools.py).                                                 *)
THEOREM ToolsNeverTellOfHiddenCases ==
  ASSUME NEW db, NEW user, NEW bound, NEW call, bound \subseteq Seen(db, user),
         \A e, f \in db.entities : e.id = f.id => e = f
  PROVE  Assistant!HiddenIsAbsent(db, user, bound, call,
                                  Assistant!execute_tool(db, user, bound, call))
<1>1. CASE call.tool = "get_entity"
  <2>1. \A d : Assistant!execute_tool(d, user, bound, call)
                 = Assistant!tool_get_entity(d, user, call.ref.id)
    BY <1>1 DEF Assistant!execute_tool
  <2>2. Assistant!ButStatus(Assistant!execute_tool(db, user, bound, call))
          = Assistant!ButStatus(Assistant!execute_tool(Assistant!InSight(db, user), user, bound, call))
    BY <2>1, SameEntity
  <2>3. QED
    BY <1>1, <2>2 DEF Assistant!HiddenIsAbsent
<1>2. CASE call.tool # "get_entity"
  BY <1>2, SameAnswer DEF Assistant!HiddenIsAbsent
<1>3. QED
  BY <1>1, <1>2

-----------------------------------------------------------------------------
(* The pairs of entities proposed for a case.  A pair is four things: it   *)
(* is proposed, refused on one of two grounds, or left over at the bound.  *)

(* A finite set in four parts has as many members as they have together.   *)
LEMMA FourParts ==
  ASSUME NEW S, IsFiniteSet(S), NEW A, NEW B, NEW C, NEW D,
         S = A \cup B \cup C \cup D,
         A \cap B = {}, A \cap C = {}, A \cap D = {}, B \cap C = {}, B \cap D = {}, C \cap D = {}
  PROVE  Cardinality(S) = Cardinality(A) + Cardinality(B) + Cardinality(C) + Cardinality(D)
<1>1. /\ A \in SUBSET S /\ B \in SUBSET S /\ C \in SUBSET S /\ D \in SUBSET S
      /\ IsFiniteSet(A) /\ IsFiniteSet(B) /\ IsFiniteSet(C) /\ IsFiniteSet(D)
  <2>1. A \in SUBSET S /\ B \in SUBSET S /\ C \in SUBSET S /\ D \in SUBSET S
    OBVIOUS
  <2>2. QED
    BY <2>1, Part
<1>2. /\ Cardinality(A) \in Nat /\ Cardinality(B) \in Nat /\ Cardinality(C) \in Nat
      /\ Cardinality(D) \in Nat
  BY <1>1, FS_CardinalityType
<1>3. ASSUME NEW X, NEW Y, IsFiniteSet(X), IsFiniteSet(Y), X \cap Y = {}
      PROVE  /\ IsFiniteSet(X \cup Y)
             /\ Cardinality(X \cup Y) = Cardinality(X) + Cardinality(Y)
  <2>1. Cardinality(X \cap Y) = 0
    BY <1>3, FS_EmptySet
  <2>2. /\ IsFiniteSet(X \cup Y)
        /\ Cardinality(X \cup Y) = Cardinality(X) + Cardinality(Y) - Cardinality(X \cap Y)
        /\ Cardinality(X) \in Nat /\ Cardinality(Y) \in Nat
    BY <1>3, FS_Union, FS_CardinalityType
  <2>3. QED
    BY <2>1, <2>2
<1>4. IsFiniteSet(A \cup B) /\ Cardinality(A \cup B) = Cardinality(A) + Cardinality(B)
  BY <1>1, <1>3
<1>5. IsFiniteSet(C \cup D) /\ Cardinality(C \cup D) = Cardinality(C) + Cardinality(D)
  BY <1>1, <1>3
<1>6. (A \cup B) \cap (C \cup D) = {} /\ S = (A \cup B) \cup (C \cup D)
  OBVIOUS
<1>7. Cardinality(S) = Cardinality(A \cup B) + Cardinality(C \cup D)
  BY <1>3, <1>4, <1>5, <1>6
<1>8. QED
  BY <1>2, <1>4, <1>5, <1>7

(* The entities of a case, and the pairs of them as their ids name them.   *)
Population(entities) ==
  /\ IsFiniteSet(entities)
  /\ \A e, f \in entities : e.id = f.id => e = f
  /\ \A e \in entities : e.id \in Int
  /\ \A e, f \in entities : Similarity(e.value, f.value) \in Int

Paired(p, entities) == \E a, b \in entities : p = <<a.id, b.id>>
Alike(p, entities) ==
  \E a, b \in entities : p = <<a.id, b.id>> /\ Matching!Values(a) \cap Matching!Values(b) # {}
Signed(e, entities) == Matching!_identifier_signals(e, entities)

(* The grounds of a proposal: a pair that is not exact has similar names,  *)
(* and identifiers that do not speak against it.                           *)
LEMMA MethodIs ==
  ASSUME NEW a, NEW b, NEW exact \in BOOLEAN, NEW entities
  PROVE  LET method == Matching!Method(a, b, exact, entities)
             similar == Similarity(a.value, b.value) >= ReviewThreshold
             mine == Signed(a, entities)
             theirs == Signed(b, entities)
         IN /\ method \in { "exact_alias", "exact_identifier", "name_similarity",
                            "conflicting_identifiers", "weak_similarity" }
            /\ exact => method = "exact_alias"
            /\ method = "exact_alias" => exact
            /\ method = "exact_identifier" => similar /\ mine \cap theirs # {}
            /\ method = "name_similarity" =>
                 similar /\ mine \cap theirs = {} /\ ~ (mine # {} /\ theirs # {})
<1> DEFINE similar == Similarity(a.value, b.value) >= ReviewThreshold
           shared == Signed(a, entities) \cap Signed(b, entities) # {}
           disjoint == Signed(a, entities) # {} /\ Signed(b, entities) # {} /\ ~ shared
<1>1. Matching!Method(a, b, exact, entities)
        = CASE exact                                        -> "exact_alias"
            [] ~ exact /\ similar /\ shared                 -> "exact_identifier"
            [] ~ exact /\ similar /\ ~ shared /\ ~ disjoint -> "name_similarity"
            [] ~ exact /\ disjoint                          -> "conflicting_identifiers"
            [] ~ exact /\ ~ similar /\ ~ disjoint           -> "weak_similarity"
  BY DEF Matching!Method, Signed
<1>2. CASE exact
  BY <1>1, <1>2
<1>3. CASE ~ exact
  BY <1>1, <1>3
<1>4. QED
  BY <1>2, <1>3

(* The pairs that are generated: of entities of the case, finitely many,   *)
(* the exact ones are all those that have a value in common.               *)
LEMMA PairsAre ==
  ASSUME NEW entities, Population(entities)
  PROVE  /\ IsFiniteSet(Matching!Exact(entities) \cup Matching!Blocked(entities))
         /\ \A p \in Matching!Exact(entities) \cup Matching!Blocked(entities) : Paired(p, entities)
         /\ \A p \in Matching!Exact(entities) : Alike(p, entities)
         /\ \A a, b \in entities :
              (/\ a.id < b.id /\ a.type = b.type
               /\ Matching!Values(a) \cap Matching!Values(b) # {}) => <<a.id, b.id>> \in Matching!Exact(entities)
<1> DEFINE ids == {e.id : e \in entities}
           exact == Matching!Exact(entities)
           raw == exact \cup Matching!Blocked(entities)
<1>1. IsFiniteSet(ids)
  <2> DEFINE f == [e \in entities |-> e.id]
  <2>1. ids = {f[e] : e \in entities} /\ f = [e \in entities |-> f[e]] /\ IsFiniteSet(entities)
    BY DEF Population
  <2> HIDE DEF f, ids
  <2>2. QED
    BY <2>1, ImageIs DEF Population
<1>2. \A p \in exact : \E a, b \in entities :
        p = <<a.id, b.id>> /\ Matching!Values(a) \cap Matching!Values(b) # {}
  BY DEF Matching!Exact, Matching!Ids
<1>3. \A p \in Matching!Blocked(entities) : \E a, b \in entities : p = <<a.id, b.id>>
  <2>1. ASSUME NEW key
        PROVE  \A p \in Matching!Bucket(key, entities) : \E a, b \in entities : p = <<a.id, b.id>>
    BY DEF Matching!Bucket, Matching!Ids
  <2> DEFINE first(S) ==
        { p \in S : Matching!Cardinality({ q \in S : q[1] < p[1] \/ (q[1] = p[1] /\ q[2] < p[2]) }) < MaxPerBucket }
  <2>2. Matching!Blocked(entities)
          = UNION { first(Matching!Bucket(<<e.type, e.key>>, entities) \ exact) : e \in entities }
    BY DEF Matching!Blocked
  <2>3. \A S : first(S) \subseteq S
    OBVIOUS
  <2>4. ASSUME NEW p \in Matching!Blocked(entities)
        PROVE  \E key : p \in Matching!Bucket(key, entities)
    <3> HIDE DEF first, exact
    <3>1. PICK e \in entities : p \in first(Matching!Bucket(<<e.type, e.key>>, entities) \ exact)
      BY <2>2, <2>4
    <3>2. QED
      BY <2>3, <3>1
  <2>5. QED
    BY <2>1, <2>4
<1>4. \A a, b \in entities :
        (/\ a.id < b.id /\ a.type = b.type
         /\ Matching!Values(a) \cap Matching!Values(b) # {}) => <<a.id, b.id>> \in exact
  <2> SUFFICES ASSUME NEW a \in entities, NEW b \in entities, a.id < b.id, a.type = b.type,
                      Matching!Values(a) \cap Matching!Values(b) # {}
               PROVE  <<a.id, b.id>> \in exact
    OBVIOUS
  <2>1. <<a, b>> \in entities \X entities /\ <<a, b>>[1] = a /\ <<a, b>>[2] = b
    OBVIOUS
  <2>2. QED
    BY <2>1 DEF Matching!Exact, Matching!Ids
<1>5. IsFiniteSet(raw)
  <2>1. raw \in SUBSET (ids \X ids)
    <3> HIDE DEF exact
    <3> QED
      BY <1>2, <1>3
  <2>2. QED
    BY <1>1, <2>1, FS_Product, FS_Subset
<1>6. QED
  <2>1. \A p \in exact : Alike(p, entities)
    BY <1>2 DEF Alike
  <2>2. \A p \in raw : Paired(p, entities)
    <3> HIDE DEF exact
    <3> QED
      BY <1>2, <1>3 DEF Paired
  <2>3. QED
    BY <1>4, <1>5, <2>1, <2>2

(* Before the place of an exact pair are exact pairs only, and every exact *)
(* pair is before the place of any other.                                  *)
LEMMA ExactComeFirst ==
  ASSUME NEW q, NEW e, NEW p, q[1] \in {0, 1}, e[1] = 0, p[1] = 1, Matching!Before(q, e)
  PROVE  Matching!Before(q, p)
<1>1. PICK j \in 1..5 : q[j] < e[j] /\ \A h \in 1..(j - 1) : q[h] = e[h]
  BY DEF Matching!Before
<1>2. q[1] = 0
  <2>1. CASE j = 1
    BY <1>1, <2>1
  <2>2. CASE j # 1
    <3>1. 1 \in 1..(j - 1)
      BY <2>2
    <3>2. QED
      BY <1>1, <3>1
  <2>3. QED
    BY <2>1, <2>2
<1>3. q[1] < p[1] /\ 1 \in 1..5 /\ \A h \in 1..(1 - 1) : q[h] = p[h]
  BY <1>2
<1>4. QED
  BY <1>3 DEF Matching!Before

(* Whatever the entities of a case: every pair generated is counted once,  *)
(* those with a value in common come before all others, and a proposed     *)
(* pair has a value in common or similar names and no identifiers against  *)
(* it (entity_matching.py).                                                *)
THEOREM EveryPairIsAccountedFor ==
  ASSUME NEW entities, Population(entities), ReviewThreshold \in Int, AutoThreshold \in Int, MaxPairs \in Nat
  PROVE  Matching!PairsAreAccountedFor(entities, Matching!build_candidate_pairs(entities))
<1> DEFINE by(id) == CHOOSE e \in entities : e.id = id
           exact == Matching!Exact(entities)
           raw == exact \cup Matching!Blocked(entities)
           method(p) == Matching!Method(by(p[1]), by(p[2]), p \in exact, entities)
           place(p) == Matching!Place(by(p[1]), by(p[2]), p \in exact)
           fit == {p \in raw : method(p) \notin {"conflicting_identifiers", "weak_similarity"}}
           before(p) == {q \in fit : Matching!Before(place(q), place(p))}
           evaluated == {p \in raw : Cardinality(before(p)) < MaxPairs}
           refused(why) == {p \in evaluated : method(p) = why}
           of(p) == Matching!CandidatePair(by(p[1]), by(p[2]), method(p), entities)
           out == Matching!build_candidate_pairs(entities)
           pairs == {c.pair : c \in out.proposed}
           common(p) == Matching!Values(by(p[1])) \cap Matching!Values(by(p[2])) # {}
           known(id) == by(id).signals \cap {e.value : e \in {f \in entities : f.type \in Matching!IDENTIFIER_TYPES}}
<1>1. out = [ generated |-> Cardinality(raw), proposed |-> {of(p) : p \in evaluated \cap fit},
              conflicting |-> Cardinality(refused("conflicting_identifiers")),
              weak |-> Cardinality(refused("weak_similarity")),
              capped |-> Cardinality(raw \ evaluated) ]
  BY Counted DEF Matching!build_candidate_pairs
<1>2. \A e \in entities : by(e.id) = e
  BY DEF Population
<1>0. (\A p \in raw : Paired(p, entities)) /\ (\A p \in exact : Alike(p, entities))
  BY PairsAre
<1>3. \A p \in raw : by(p[1]) \in entities /\ by(p[2]) \in entities /\ p = <<by(p[1]).id, by(p[2]).id>>
  <2> HIDE DEF by, raw
  <2>1. SUFFICES ASSUME NEW p \in raw
                 PROVE  by(p[1]) \in entities /\ by(p[2]) \in entities /\ p = <<by(p[1]).id, by(p[2]).id>>
    OBVIOUS
  <2>2. PICK a \in entities, b \in entities : p = <<a.id, b.id>>
    BY <1>0, <2>1 DEF Paired, Alike
  <2>3. by(p[1]) = a /\ by(p[2]) = b
    BY <1>2, <2>2
  <2>4. QED
    BY <2>2, <2>3
<1>14. \A p \in exact : common(p)
  <2> HIDE DEF by, exact
  <2>1. SUFFICES ASSUME NEW p \in exact
                 PROVE  common(p)
    OBVIOUS
  <2>2. PICK a \in entities, b \in entities :
          p = <<a.id, b.id>> /\ Matching!Values(a) \cap Matching!Values(b) # {}
    BY <1>0, <2>1 DEF Paired, Alike
  <2>3. by(p[1]) = a /\ by(p[2]) = b
    BY <1>2, <2>2
  <2>4. QED
    BY <2>2, <2>3
<1>4. \A id : known(id) = Signed(by(id), entities)
  BY DEF Signed, Matching!_identifier_signals
<1>5. \A p \in raw :
        /\ method(p) \in { "exact_alias", "exact_identifier", "name_similarity",
                           "conflicting_identifiers", "weak_similarity" }
        /\ p \in exact => method(p) = "exact_alias"
        /\ method(p) = "exact_alias" => p \in exact
        /\ method(p) \in {"exact_identifier", "name_similarity"} =>
             /\ Similarity(by(p[1]).value, by(p[2]).value) >= ReviewThreshold
             /\ (known(p[1]) # {} /\ known(p[2]) # {}) => known(p[1]) \cap known(p[2]) # {}
        /\ method(p) = "name_similarity" => known(p[1]) \cap known(p[2]) = {}
  <2> SUFFICES ASSUME NEW p \in raw
               PROVE  /\ method(p) \in { "exact_alias", "exact_identifier", "name_similarity",
                                         "conflicting_identifiers", "weak_similarity" }
                      /\ p \in exact => method(p) = "exact_alias"
                      /\ method(p) = "exact_alias" => p \in exact
                      /\ method(p) \in {"exact_identifier", "name_similarity"} =>
                           /\ Similarity(by(p[1]).value, by(p[2]).value) >= ReviewThreshold
                           /\ (known(p[1]) # {} /\ known(p[2]) # {}) => known(p[1]) \cap known(p[2]) # {}
                      /\ method(p) = "name_similarity" => known(p[1]) \cap known(p[2]) = {}
    OBVIOUS
  <2> HIDE DEF by, raw, exact, known
  <2>1. (p \in exact) \in BOOLEAN
    OBVIOUS
  <2>2. QED
    BY <1>4, <2>1, MethodIs
<1>6. \A p \in raw : of(p).pair = p
  <2> HIDE DEF by, raw, method
  <2> QED
    BY <1>3 DEF Matching!CandidatePair
<1>7. pairs = evaluated \cap fit
  <2>1. evaluated \cap fit \subseteq raw
    OBVIOUS
  <2> HIDE DEF of, out, evaluated, fit, raw
  <2>2. pairs = {of(p).pair : p \in evaluated \cap fit}
    BY <1>1
  <2>3. QED
    BY <1>6, <2>1, <2>2
<1>8. IsFiniteSet(raw) /\ IsFiniteSet(fit)
  <2>1. IsFiniteSet(raw)
    BY PairsAre
  <2>2. fit \in SUBSET raw
    OBVIOUS
  <2> HIDE DEF raw, fit
  <2>3. QED
    BY <2>1, <2>2, FS_Subset
<1>9. out.generated = Cardinality(pairs) + out.conflicting + out.weak + out.capped
  <2> DEFINE A == evaluated \cap fit
             B == refused("conflicting_identifiers")
             C == refused("weak_similarity")
             D == raw \ evaluated
  <2>1. raw = A \cup B \cup C \cup D
    <3> HIDE DEF raw, method, before
    <3> QED
      OBVIOUS
  <2>2. /\ A \cap B = {} /\ A \cap C = {} /\ A \cap D = {} /\ B \cap C = {} /\ B \cap D = {} /\ C \cap D = {}
    <3> HIDE DEF raw, method, before
    <3> QED
      OBVIOUS
  <2>3. Cardinality(raw) = Cardinality(A) + Cardinality(B) + Cardinality(C) + Cardinality(D)
    <3> HIDE DEF A, B, C, D, raw
    <3> QED
      BY <1>8, <2>1, <2>2, FourParts
  <2>4. /\ out.generated = Cardinality(raw) /\ pairs = A /\ out.conflicting = Cardinality(B)
        /\ out.weak = Cardinality(C) /\ out.capped = Cardinality(D)
    <3> HIDE DEF out, raw, evaluated, fit, refused, of, pairs
    <3> QED
      BY <1>1, <1>7
  <2>5. QED
    <3> HIDE DEF A, B, C, D, raw, out, pairs
    <3> QED
      BY <2>3, <2>4
<1>10. ASSUME NEW p \in pairs, ~ common(p), NEW a \in entities, NEW b \in entities,
              a.id < b.id, a.type = b.type, common(<<a.id, b.id>>)
       PROVE  <<a.id, b.id>> \in pairs
  <2> DEFINE e == <<a.id, b.id>>
  <2>1. by(e[1]) = a /\ by(e[2]) = b
    <3> HIDE DEF by
    <3> QED
      BY <1>2
  <2>2. e \in exact
    <3> HIDE DEF by, exact
    <3> QED
      BY <1>10, <2>1, PairsAre DEF exact
  <2>3. p \in raw /\ p \notin exact
    <3>1. p \in raw
      BY <1>7
    <3>2. QED
      BY <1>10, <1>14, <3>1
  <2>4. e \in raw /\ e \in fit
    <3>1. e \in raw
      BY <2>2
    <3> HIDE DEF raw, exact, method
    <3>2. QED
      BY <1>5, <2>2, <3>1
  <2>5. /\ \A q \in raw : place(q)[1] \in {0, 1}
        /\ place(e)[1] = 0 /\ place(p)[1] = 1
    <3> HIDE DEF by, exact, raw, e
    <3> QED
      BY <2>2, <2>3 DEF Matching!Place
  <2>6. before(e) \subseteq before(p)
    <3> SUFFICES ASSUME NEW q \in fit, Matching!Before(place(q), place(e))
                 PROVE  Matching!Before(place(q), place(p))
      OBVIOUS
    <3>1. q \in raw
      OBVIOUS
    <3> HIDE DEF place, raw, fit, e
    <3>2. QED
      BY <2>5, <3>1, ExactComeFirst
  <2>7. /\ Cardinality(before(e)) <= Cardinality(before(p))
        /\ Cardinality(before(e)) \in Nat /\ Cardinality(before(p)) \in Nat
    <3>1. before(p) \in SUBSET fit
      OBVIOUS
    <3> HIDE DEF before, fit
    <3>2. IsFiniteSet(before(p))
      BY <1>8, <3>1, Part
    <3>3. before(e) \in SUBSET before(p)
      BY <2>6
    <3>4. QED
      BY <3>2, <3>3, Part
  <2>8. Cardinality(before(p)) < MaxPairs
    BY <1>7
  <2>9. e \in evaluated
    <3> HIDE DEF before, raw, e
    <3> QED
      BY <2>4, <2>7, <2>8
  <2>10. QED
    BY <1>7, <2>4, <2>9
<1>11. ASSUME NEW p \in pairs
       PROVE  common(p) \/
          /\ Similarity(by(p[1]).value, by(p[2]).value) >= ReviewThreshold
          /\ (known(p[1]) # {} /\ known(p[2]) # {}) => known(p[1]) \cap known(p[2]) # {}
  <2>1. p \in raw /\ method(p) \notin {"conflicting_identifiers", "weak_similarity"}
    BY <1>7
  <2>2. CASE p \in exact
    BY <1>14, <2>2
  <2>3. CASE p \notin exact
    <3> HIDE DEF raw, exact, method, known, by
    <3> QED
      BY <1>5, <2>1, <2>3
  <2>4. QED
    BY <2>2, <2>3
<1>12. ASSUME NEW c \in out.proposed, c.llm_eligible
       PROVE  ~ c.strong /\ known(c.pair[1]) \cap known(c.pair[2]) = {}
  <2>1. PICK p \in raw : c = of(p)
    <3> HIDE DEF of, raw, out, fit
    <3>1. out.proposed = {of(p) : p \in evaluated \cap fit}
      BY <1>1
    <3>2. evaluated \subseteq raw
      OBVIOUS
    <3>3. QED
      BY <1>12, <3>1, <3>2
  <2>2. c.pair = p
    BY <1>6, <2>1
  <2>3. Similarity(by(p[1]).value, by(p[2]).value) \in Int
    <3> HIDE DEF by, raw
    <3> QED
      BY <1>3 DEF Population
  <2>4. method(p) = "name_similarity" /\ ~ c.strong
    <3> HIDE DEF by, method, raw
    <3> DEFINE score == IF method(p) = "exact_alias" THEN 100 ELSE Similarity(by(p[1]).value, by(p[2]).value)
    <3>1. /\ c.strong = (score >= AutoThreshold)
          /\ c.llm_eligible = (method(p) = "name_similarity" /\ score < AutoThreshold)
      BY <2>1 DEF Matching!CandidatePair
    <3>2. method(p) = "name_similarity" /\ score < AutoThreshold
      BY <1>12, <3>1
    <3>3. ~ (score >= AutoThreshold)
      BY <2>3, <3>2
    <3>4. QED
      BY <3>1, <3>2, <3>3
  <2>5. QED
    <3> HIDE DEF raw, method, known
    <3> QED
      BY <1>5, <2>1, <2>2, <2>4
<1>13. QED
  <2>1. /\ out.generated = Cardinality(pairs) + out.conflicting + out.weak + out.capped
        /\ (\E p \in pairs : ~ common(p)) =>
             \A a, b \in entities :
               (a.id < b.id /\ a.type = b.type /\ common(<<a.id, b.id>>)) => <<a.id, b.id>> \in pairs
        /\ \A p \in pairs : common(p) \/
             /\ Similarity(by(p[1]).value, by(p[2]).value) >= ReviewThreshold
             /\ (known(p[1]) # {} /\ known(p[2]) # {}) => known(p[1]) \cap known(p[2]) # {}
        /\ \A c \in out.proposed : c.llm_eligible => ~ c.strong /\ known(c.pair[1]) \cap known(c.pair[2]) = {}
    BY <1>9, <1>10, <1>11, <1>12
  <2>2. QED
    BY ONLY <2>1, Counted DEF Matching!PairsAreAccountedFor

-----------------------------------------------------------------------------
(* The triage of a file.  Every place and every observation is made of     *)
(* finitely many numbers, so that there are finitely many of them and they *)
(* are in the order of a dictionary.                                       *)

LEMMA BeforeIs ==
  ASSUME NEW p, NEW q
  PROVE  Triage!Before(p, q) <=>
           \/ p[1] < q[1]
           \/ p[1] = q[1] /\ p[2] < q[2]
           \/ p[1] = q[1] /\ p[2] = q[2] /\ p[3] < q[3]
           \/ p[1] = q[1] /\ p[2] = q[2] /\ p[3] = q[3] /\ p[4] < q[4]
<1> DEFINE At(j) == p[j] < q[j] /\ \A h \in 1..(j - 1) : p[h] = q[h]
<1>1. 1..4 = {1, 2, 3, 4} /\ 1..(1 - 1) = {} /\ 1..(2 - 1) = {1} /\ 1..(3 - 1) = {1, 2}
      /\ 1..(4 - 1) = {1, 2, 3}
  OBVIOUS
<1>2. Triage!Before(p, q) <=> At(1) \/ At(2) \/ At(3) \/ At(4)
  <2>1. Triage!Before(p, q) <=> \E j \in {1, 2, 3, 4} : At(j)
    BY <1>1 DEF Triage!Before
  <2> HIDE DEF At
  <2>2. QED
    BY <2>1
<1>3. QED
  BY <1>1, <1>2

Numbered(S) == \A x \in S : \A i \in 1..4 : x.place[i] \in Int
PlaceOrder(S) == {p \in S \X S : Triage!Before(p[1].place, p[2].place)}

LEMMA PlacesAreOrdered ==
  ASSUME NEW S, Numbered(S)
  PROVE  Strict(S, PlaceOrder(S))
<1>1. \A x \in S : x.place[1] \in Int /\ x.place[2] \in Int /\ x.place[3] \in Int /\ x.place[4] \in Int
  BY DEF Numbered
<1>2. \A x, y \in S : <<x, y>> \in PlaceOrder(S) <=> Triage!Before(x.place, y.place)
  BY DEF PlaceOrder
<1>3. \A x \in S : ~ Triage!Before(x.place, x.place)
  BY <1>1, BeforeIs
<1>4. ASSUME NEW x \in S, NEW y \in S, NEW z \in S,
             Triage!Before(x.place, y.place), Triage!Before(y.place, z.place)
      PROVE  Triage!Before(x.place, z.place)
  BY <1>1, <1>4, BeforeIs
<1>5. QED
  BY <1>2, <1>3, <1>4 DEF Strict

LEMMA FirstIsForemost ==
  ASSUME NEW S, NEW n
  PROVE  Triage!First(n, S) = Foremost(n, S, PlaceOrder(S))
<1>1. ASSUME NEW x \in S
      PROVE  Triage!Ahead(x, S) = Under(x, S, PlaceOrder(S))
  BY DEF Triage!Ahead, Under, PlaceOrder
<1>2. QED
  BY <1>1, Counted DEF Triage!First, Foremost

(* What one exhibit is made of.                                            *)
Exhibit(records) ==
  /\ IsFiniteSet(records)
  /\ \A r \in records :
       /\ r.no \in Int /\ Host(r.visit) \in Int
       /\ DOMAIN r.urls \subseteq Int /\ IsFiniteSet(DOMAIN r.urls)
       /\ DOMAIN r.log \subseteq Int /\ IsFiniteSet(DOMAIN r.log)
       /\ \A i \in DOMAIN r.log : r.log[i].time \in Int

Numbers(records) ==
  (0..6) \cup {r.no : r \in records} \cup {Host(r.visit) : r \in records}
  \cup (UNION {DOMAIN r.urls : r \in records}) \cup (UNION {DOMAIN r.log : r \in records})

LEMMA NumbersAreFew ==
  ASSUME NEW records, Exhibit(records)
  PROVE  IsFiniteSet(Numbers(records)) /\ Numbers(records) \subseteq Int
<1>1. IsFiniteSet(records)
  BY DEF Exhibit
<1>2. IsFiniteSet({r.no : r \in records})
  <2> DEFINE f == [r \in records |-> r.no]
  <2>1. {r.no : r \in records} = {f[r] : r \in records} /\ f = [r \in records |-> f[r]]
    OBVIOUS
  <2> HIDE DEF f
  <2>2. QED
    BY <1>1, <2>1, ImageIs
<1>3. IsFiniteSet({Host(r.visit) : r \in records})
  <2> DEFINE f == [r \in records |-> Host(r.visit)]
  <2>1. {Host(r.visit) : r \in records} = {f[r] : r \in records} /\ f = [r \in records |-> f[r]]
    OBVIOUS
  <2> HIDE DEF f
  <2>2. QED
    BY <1>1, <2>1, ImageIs
<1>4. IsFiniteSet(UNION {DOMAIN r.urls : r \in records})
  <2> DEFINE f == [r \in records |-> DOMAIN r.urls]
             T == {f[r] : r \in records}
  <2>1. {DOMAIN r.urls : r \in records} = T /\ f = [r \in records |-> f[r]] /\ \A t \in T : IsFiniteSet(t)
    BY DEF Exhibit
  <2> HIDE DEF f
  <2>2. IsFiniteSet(T)
    BY <1>1, <2>1, ImageIs
  <2> HIDE DEF T
  <2>3. QED
    BY <2>1, <2>2, FS_UNION
<1>5. IsFiniteSet(UNION {DOMAIN r.log : r \in records})
  <2> DEFINE f == [r \in records |-> DOMAIN r.log]
             T == {f[r] : r \in records}
  <2>1. {DOMAIN r.log : r \in records} = T /\ f = [r \in records |-> f[r]] /\ \A t \in T : IsFiniteSet(t)
    BY DEF Exhibit
  <2> HIDE DEF f
  <2>2. IsFiniteSet(T)
    BY <1>1, <2>1, ImageIs
  <2> HIDE DEF T
  <2>3. QED
    BY <2>1, <2>2, FS_UNION
<1>6. IsFiniteSet(0..6)
  <2>1. 0 \in Int /\ 6 \in Int
    OBVIOUS
  <2>2. QED
    BY <2>1, FS_Interval
<1>7. 0..6 \subseteq Int
  OBVIOUS
<1>8. {r.no : r \in records} \subseteq Int /\ {Host(r.visit) : r \in records} \subseteq Int
  BY DEF Exhibit
<1>9. UNION {DOMAIN r.urls : r \in records} \subseteq Int /\ UNION {DOMAIN r.log : r \in records} \subseteq Int
  BY DEF Exhibit
<1> DEFINE A == 0..6
           B == {r.no : r \in records}
           C == {Host(r.visit) : r \in records}
           D == UNION {DOMAIN r.urls : r \in records}
           E == UNION {DOMAIN r.log : r \in records}
<1>10. Numbers(records) = A \cup B \cup C \cup D \cup E
  BY DEF Numbers
<1>11. QED
  <2> HIDE DEF A, B, C, D, E
  <2>1. IsFiniteSet(A \cup B \cup C \cup D \cup E)
    BY <1>2, <1>3, <1>4, <1>5, <1>6, FS_Union DEF A, B, C, D, E
  <2>2. A \subseteq Int /\ B \subseteq Int /\ C \subseteq Int /\ D \subseteq Int /\ E \subseteq Int
    BY <1>7, <1>8, <1>9 DEF A, B, C, D, E
  <2>3. QED
    BY <1>10, <2>1, <2>2

Places(records) ==
  Numbers(records) \X Numbers(records) \X Numbers(records) \X Numbers(records)
RuleNames ==
  { "missing_message_id", "return_path_mismatch", "userinfo", "ip_host", "punycode", "nonstandard_port",
    "cross_scheme", "auth_failure_burst", "hash_mismatch", "entry_missing" }
Possible(records) ==
  {Triage!Observation(t[1], t[2], t[3]) : t \in RuleNames \X Numbers(records) \X Places(records)}

LEMMA RuleNamesAreFew == IsFiniteSet(RuleNames)
<1> DEFINE a == {"missing_message_id"} \cup {"return_path_mismatch"} \cup {"userinfo"} \cup {"ip_host"} \cup {"punycode"}
           b == {"nonstandard_port"} \cup {"cross_scheme"} \cup {"auth_failure_burst"} \cup {"hash_mismatch"} \cup {"entry_missing"}
<1>1. RuleNames = a \cup b
  BY DEF RuleNames
<1>2. \A x, S : IsFiniteSet(S) => IsFiniteSet(S \cup {x})
  BY FS_AddElement
<1>3. IsFiniteSet(a)
  BY <1>2, FS_Singleton
<1>4. IsFiniteSet(b)
  BY <1>2, FS_Singleton
<1>5. QED
  <2> HIDE DEF a, b
  <2> QED
    BY <1>1, <1>3, <1>4, FS_Union

LEMMA PossibleAreFew ==
  ASSUME NEW records, Exhibit(records)
  PROVE  IsFiniteSet(Possible(records)) /\ Numbered(Possible(records))
<1> DEFINE N == Numbers(records)
           D == RuleNames \X N \X Places(records)
           f == [t \in D |-> Triage!Observation(t[1], t[2], t[3])]
<1>1. IsFiniteSet(N) /\ N \subseteq Int
  BY NumbersAreFew
<1>2. IsFiniteSet(Places(records))
  <2> DEFINE two == N \X N
             three == two \X N
             four == three \X N
             g == [t \in four |-> <<t[1][1][1], t[1][1][2], t[1][2], t[2]>>]
  <2>1. IsFiniteSet(four)
    <3> HIDE DEF N
    <3> QED
      BY <1>1, FS_Product
  <2>2. ASSUME NEW p \in Places(records)
        PROVE  \E t \in four : p = g[t]
    <3>1. /\ p = <<p[1], p[2], p[3], p[4]>>
          /\ p[1] \in N /\ p[2] \in N /\ p[3] \in N /\ p[4] \in N
      BY DEF Places
    <3>2. <<<<<<p[1], p[2]>>, p[3]>>, p[4]>> \in four
      BY <3>1
    <3>3. g[<<<<<<p[1], p[2]>>, p[3]>>, p[4]>>] = <<p[1], p[2], p[3], p[4]>>
      BY <3>2
    <3>4. QED
      BY <3>1, <3>2, <3>3
  <2>3. Places(records) \subseteq {g[t] : t \in four}
    <3> HIDE DEF g, four
    <3> QED
      BY <2>2
  <2>4. IsFiniteSet({g[t] : t \in four})
    <3>1. g = [t \in four |-> g[t]]
      OBVIOUS
    <3> HIDE DEF g, four
    <3>2. QED
      BY <2>1, <3>1, ImageIs
  <2>5. QED
    BY <2>3, <2>4, FS_Subset
<1>3. IsFiniteSet(D)
  <2> DEFINE E == RuleNames \X N
             h == [t \in E \X Places(records) |-> <<t[1][1], t[1][2], t[2]>>]
  <2>1. IsFiniteSet(E \X Places(records))
    <3> HIDE DEF N
    <3> QED
      BY <1>1, <1>2, RuleNamesAreFew, FS_Product
  <2>2. ASSUME NEW p \in D
        PROVE  \E t \in E \X Places(records) : p = h[t]
    <3>1. p = <<p[1], p[2], p[3]>> /\ p[1] \in RuleNames /\ p[2] \in N /\ p[3] \in Places(records)
      OBVIOUS
    <3> HIDE DEF N
    <3>2. <<<<p[1], p[2]>>, p[3]>> \in E \X Places(records)
      BY <3>1
    <3>3. h[<<<<p[1], p[2]>>, p[3]>>] = <<p[1], p[2], p[3]>>
      BY <3>2
    <3>4. QED
      BY <3>1, <3>2, <3>3
  <2>3. D \subseteq {h[t] : t \in E \X Places(records)}
    <3> HIDE DEF h, D, E
    <3> QED
      BY <2>2
  <2>4. IsFiniteSet({h[t] : t \in E \X Places(records)})
    <3>1. h = [t \in E \X Places(records) |-> h[t]]
      OBVIOUS
    <3> HIDE DEF h, E
    <3>2. QED
      BY <2>1, <3>1, ImageIs
  <2>5. QED
    <3> HIDE DEF D, h, E
    <3> QED
      BY <2>3, <2>4, FS_Subset
<1>4. IsFiniteSet(Possible(records))
  <2>1. Possible(records) = {f[t] : t \in D} /\ f = [t \in D |-> f[t]]
    BY DEF Possible
  <2> HIDE DEF f, D
  <2>2. QED
    BY <1>3, <2>1, ImageIs
<1>5. Numbered(Possible(records))
  <2>1. ASSUME NEW x \in Possible(records), NEW i \in 1..4
        PROVE  x.place[i] \in Int
    <3>1. PICK t \in D : x = Triage!Observation(t[1], t[2], t[3])
      BY DEF Possible
    <3>2. x.place = t[3] /\ t[3] \in Places(records)
      BY <3>1 DEF Triage!Observation
    <3>3. x.place[i] \in N
      <4>1. i = 1 \/ i = 2 \/ i = 3 \/ i = 4
        OBVIOUS
      <4>2. QED
        BY <3>2, <4>1 DEF Places
    <3>4. QED
      BY <1>1, <3>3
  <2>2. QED
    BY <2>1 DEF Numbered
<1>6. QED
  BY <1>4, <1>5

(* The rules observe nothing else.                                         *)
LEMMA Observable ==
  ASSUME NEW records, NEW name \in RuleNames, NEW no \in Numbers(records),
         NEW a \in Numbers(records), NEW b \in Numbers(records),
         NEW c \in Numbers(records), NEW d \in Numbers(records)
  PROVE  Triage!Observation(name, no, <<a, b, c, d>>) \in Possible(records)
<1>1. <<a, b, c, d>> \in Places(records)
  BY DEF Places
<1>2. <<name, no, <<a, b, c, d>>>> \in RuleNames \X Numbers(records) \X Places(records)
  BY <1>1
<1>3. QED
  BY <1>2 DEF Possible

LEMMA NumbersAre ==
  ASSUME NEW records
  PROVE  /\ \A n \in 0..6 : n \in Numbers(records)
         /\ \A r \in records :
              /\ r.no \in Numbers(records) /\ Host(r.visit) \in Numbers(records)
              /\ \A i \in DOMAIN r.urls : i \in Numbers(records)
              /\ \A i \in DOMAIN r.log : i \in Numbers(records)
  BY DEF Numbers

LEMMA HeadersArePossible ==
  ASSUME NEW records, NEW o \in Triage!HeaderObservations(records)
  PROVE  o \in Possible(records) /\ o.rule # "auth_failure_burst"
<1>1. PICK r \in records :
        \/ o = Triage!Observation("missing_message_id", r.no, <<1, r.no, 1, 0>>)
        \/ o = Triage!Observation("return_path_mismatch", r.no, <<1, r.no, 2, 0>>)
  BY DEF Triage!HeaderObservations
<1>2. "missing_message_id" \in RuleNames /\ "return_path_mismatch" \in RuleNames
  BY DEF RuleNames
<1>3. r.no \in Numbers(records) /\ 0 \in Numbers(records) /\ 1 \in Numbers(records) /\ 2 \in Numbers(records)
  BY NumbersAre
<1>4. o \in Possible(records)
  BY <1>1, <1>2, <1>3, Observable
<1>5. QED
  BY <1>1, <1>4 DEF Triage!Observation

LEMMA UrlsArePossible ==
  ASSUME NEW records, NEW o \in Triage!UrlObservations(records)
  PROVE  o \in Possible(records) /\ o.rule # "auth_failure_burst"
<1>1. PICK u \in Triage!seen_urls(records), k \in DOMAIN Triage!UrlRules :
        o = Triage!Observation(Triage!UrlRules[k], u.record, [u.place EXCEPT ![4] = k])
  BY DEF Triage!UrlObservations
<1>2. PICK r \in records : \E i \in DOMAIN r.urls :
        u = [url |-> r.urls[i], record |-> r.no, place |-> <<2, r.no, i, 0>>]
  BY DEF Triage!seen_urls, Triage!First
<1>2a. PICK i \in DOMAIN r.urls : u = [url |-> r.urls[i], record |-> r.no, place |-> <<2, r.no, i, 0>>]
  BY <1>2
<1>3. k \in 1..4 /\ Triage!UrlRules[k] \in RuleNames /\ Triage!UrlRules[k] # "auth_failure_burst"
  <2>1. DOMAIN Triage!UrlRules = 1..4
    BY DEF Triage!UrlRules
  <2>2. k = 1 \/ k = 2 \/ k = 3 \/ k = 4
    BY <2>1
  <2>3. QED
    BY <2>1, <2>2 DEF Triage!UrlRules, RuleNames
<1>4. [u.place EXCEPT ![4] = k] = <<2, r.no, i, k>>
  BY <1>2a, <1>3
<1>5. k \in Numbers(records)
  BY <1>3, NumbersAre
<1>6. QED
  <2>1. o = Triage!Observation(Triage!UrlRules[k], r.no, <<2, r.no, i, k>>)
    BY <1>1, <1>2a, <1>4
  <2>2. o.rule = Triage!UrlRules[k]
    BY <2>1 DEF Triage!Observation
  <2>3. r.no \in Numbers(records) /\ 2 \in Numbers(records) /\ i \in Numbers(records)
    BY NumbersAre
  <2>4. Triage!UrlRules[k] \in RuleNames
    BY <1>3
  <2>5. Triage!Observation(Triage!UrlRules[k], r.no, <<2, r.no, i, k>>) \in Possible(records)
    BY <1>5, <2>3, <2>4, Observable
  <2>6. QED
    BY <1>3, <2>1, <2>2, <2>5

LEMMA VisitsArePossible ==
  ASSUME NEW records, NEW o \in Triage!summarize_history(records)
  PROVE  o \in Possible(records) /\ o.rule # "auth_failure_burst"
<1> DEFINE visits == {r \in records : r.visit # 0}
           to(h) == {r \in visits : Host(r.visit) = h}
           crossed == {h \in {Host(r.visit) : r \in visits} : {"http", "https"} \subseteq {Scheme(r.visit) : r \in to(h)}}
           first(h) == {r \in to(h) : \A q \in to(h) : r.no <= q.no}
<1>1. Triage!summarize_history(records)
        = UNION {{Triage!Observation("cross_scheme", r.no, <<3, h, 0, 0>>) : r \in first(h)} : h \in crossed}
  BY DEF Triage!summarize_history
<1>2. PICK h \in crossed : \E r \in first(h) : o = Triage!Observation("cross_scheme", r.no, <<3, h, 0, 0>>)
  <2> HIDE DEF crossed, first
  <2> QED
    BY <1>1
<1>2a. PICK r \in first(h) : o = Triage!Observation("cross_scheme", r.no, <<3, h, 0, 0>>)
  <2> HIDE DEF crossed, first
  <2> QED
    BY <1>2
<1>3. PICK q \in records : h = Host(q.visit)
  OBVIOUS
<1>4. r \in records
  OBVIOUS
<1>5. h \in Numbers(records) /\ r.no \in Numbers(records) /\ "cross_scheme" \in RuleNames
  <2> HIDE DEF crossed, first
  <2> QED
    BY <1>3, <1>4, NumbersAre DEF RuleNames
<1>6. QED
  <2> HIDE DEF crossed, first
  <2> QED
    BY <1>2a, <1>5, NumbersAre, Observable DEF Triage!Observation

(* The log lines: what one is, and that there are finitely many.           *)
LogLine(r, i) ==
  [time |-> r.log[i].time, failed |-> r.log[i].failed, no |-> r.no, place |-> <<5, r.no, i, 0>>]

LEMMA LinesAre ==
  ASSUME NEW records, NEW l \in Triage!log_lines(records)
  PROVE  \E r \in records : \E i \in DOMAIN r.log : l = LogLine(r, i)
  BY DEF Triage!log_lines, Triage!First, LogLine

LEMMA EventsAreFew ==
  ASSUME NEW records, Exhibit(records)
  PROVE  LET events == Triage!auth_events(records)
         IN /\ IsFiniteSet(events) /\ Numbered(events)
            /\ \A e \in events : e.time \in Int /\ e.no \in Numbers(records)
<1> DEFINE events == Triage!auth_events(records)
           f == [r \in records |-> {LogLine(r, i) : i \in DOMAIN r.log}]
           T == {f[r] : r \in records}
<1>1. ASSUME NEW r \in records
      PROVE  IsFiniteSet(f[r])
  <2> DEFINE g == [i \in DOMAIN r.log |-> LogLine(r, i)]
  <2>1. f[r] = {g[i] : i \in DOMAIN r.log} /\ g = [i \in DOMAIN r.log |-> g[i]]
    OBVIOUS
  <2>2. IsFiniteSet(DOMAIN r.log)
    BY DEF Exhibit
  <2> HIDE DEF g, f
  <2>3. QED
    BY <2>1, <2>2, ImageIs
<1>2. IsFiniteSet(T)
  <2>1. f = [r \in records |-> f[r]] /\ IsFiniteSet(records)
    BY DEF Exhibit
  <2> HIDE DEF f
  <2>2. QED
    BY <2>1, ImageIs
<1>3. IsFiniteSet(UNION T)
  <2>1. \A t \in T : IsFiniteSet(t)
    <3> HIDE DEF f
    <3> QED
      BY <1>1
  <2> HIDE DEF T
  <2>2. QED
    BY <1>2, <2>1, FS_UNION
<1>4. ASSUME NEW e \in events
      PROVE  /\ e \in UNION T /\ e.time \in Int /\ e.no \in Numbers(records)
             /\ \A i \in 1..4 : e.place[i] \in Int
  <2>0. PICK r \in records : \E i \in DOMAIN r.log : e = LogLine(r, i)
    BY LinesAre DEF Triage!auth_events
  <2>1. PICK i \in DOMAIN r.log : e = LogLine(r, i)
    BY <2>0
  <2>2. e \in f[r]
    BY <2>1
  <2>3. e \in UNION T
    BY <2>2
  <2>4. e.time = r.log[i].time /\ e.no = r.no /\ e.place = <<5, r.no, i, 0>>
    BY <2>1 DEF LogLine
  <2>5. r.log[i].time \in Int /\ r.no \in Int /\ i \in Int
    BY DEF Exhibit
  <2>6. QED
    BY <2>3, <2>4, <2>5, NumbersAre
<1>5. events \subseteq UNION T
  <2> HIDE DEF events, T
  <2> QED
    BY <1>4
<1>6. IsFiniteSet(events)
  <2> HIDE DEF events, T
  <2> QED
    BY <1>3, <1>5, FS_Subset
<1>7. Numbered(events)
  BY <1>4 DEF Numbered
<1>8. QED
  BY <1>4, <1>6, <1>7

LEMMA ObservedArePossible ==
  ASSUME NEW records, Exhibit(records)
  PROVE  /\ Triage!Observed(records) \subseteq Possible(records)
         /\ (\E o \in Triage!Observed(records) : o.rule = "auth_failure_burst")
              <=> Triage!auth_failure_burst(Triage!auth_events(records)) # {}
<1> DEFINE nos == Triage!auth_failure_burst(Triage!auth_events(records))
           B == {Triage!Observation("auth_failure_burst", no, <<5, 0, 0, 0>>) : no \in nos}
<1>1. Triage!Observed(records)
        = Triage!HeaderObservations(records) \cup Triage!UrlObservations(records)
          \cup Triage!summarize_history(records) \cup B
  BY DEF Triage!Observed
<1>2. ASSUME NEW o \in B
      PROVE  o \in Possible(records) /\ o.rule = "auth_failure_burst"
  <2>1. PICK no \in nos : o = Triage!Observation("auth_failure_burst", no, <<5, 0, 0, 0>>)
    OBVIOUS
  <2>2. no \in Numbers(records)
    BY <2>1, EventsAreFew DEF Triage!auth_failure_burst
  <2>3. "auth_failure_burst" \in RuleNames
    BY DEF RuleNames
  <2>4. QED
    BY <2>1, <2>2, <2>3, NumbersAre, Observable DEF Triage!Observation
<1>3. nos # {} <=> B # {}
  OBVIOUS
<1>4. QED
  <2> HIDE DEF B, nos
  <2> QED
    BY <1>1, <1>2, <1>3, HeadersArePossible, UrlsArePossible, VisitsArePossible DEF nos

(* The events in the order in which the burst is looked for.               *)
Sooner(e, f) == e.time < f.time \/ (e.time = f.time /\ Triage!Before(e.place, f.place))
EventOrder(S) == {p \in S \X S : Sooner(p[1], p[2])}
WindowOf(e, events) == {f \in events : ~ Sooner(f, e) /\ f.time - e.time <= Window}
Starts(events) == {e \in events : Cardinality(WindowOf(e, events)) >= Burst}

LEMMA EventsAreOrdered ==
  ASSUME NEW S, Numbered(S), \A e \in S : e.time \in Int
  PROVE  Strict(S, EventOrder(S))
<1>1. \A x, y \in S : <<x, y>> \in PlaceOrder(S) <=> Triage!Before(x.place, y.place)
  BY DEF PlaceOrder
<1>2. \A x, y \in S : <<x, y>> \in EventOrder(S) <=> Sooner(x, y)
  BY DEF EventOrder
<1>3. /\ \A x \in S : ~ Triage!Before(x.place, x.place)
      /\ \A x, y, z \in S : Triage!Before(x.place, y.place) /\ Triage!Before(y.place, z.place)
                               => Triage!Before(x.place, z.place)
  BY <1>1, PlacesAreOrdered DEF Strict
<1>4. \A x \in S : ~ Sooner(x, x)
  BY <1>3 DEF Sooner
<1>5. ASSUME NEW x \in S, NEW y \in S, NEW z \in S, Sooner(x, y), Sooner(y, z)
      PROVE  Sooner(x, z)
  <2>1. x.time \in Int /\ y.time \in Int /\ z.time \in Int
    OBVIOUS
  <2>2. QED
    BY <1>3, <1>5, <2>1 DEF Sooner
<1>6. QED
  BY <1>2, <1>4, <1>5 DEF Strict

LEMMA BurstIs ==
  ASSUME NEW events
  PROVE  Triage!auth_failure_burst(events)
           = {e.no : e \in {s \in Starts(events) : \A r \in Starts(events) : ~ Sooner(r, s)}}
<1> DEFINE earlier(e, f) == e.time < f.time \/ (e.time = f.time /\ Triage!Before(e.place, f.place))
           window(e) == {f \in events : ~ earlier(f, e) /\ f.time - e.time <= Window}
           starts == {e \in events : Triage!Cardinality(window(e)) >= Burst}
<1>1. \A e, f : earlier(e, f) <=> Sooner(e, f)
  BY DEF Sooner
<1>2. \A e : window(e) = WindowOf(e, events)
  BY <1>1 DEF WindowOf
<1>3. starts = Starts(events)
  <2> HIDE DEF window
  <2> QED
    BY <1>2, Counted DEF Starts
<1>4. Triage!auth_failure_burst(events) = {e.no : e \in {s \in starts : \A r \in starts : ~ earlier(r, s)}}
  BY DEF Triage!auth_failure_burst
<1>5. QED
  <2> HIDE DEF earlier, starts
  <2> QED
    BY <1>1, <1>3, <1>4

(* There is a burst exactly when enough events lie within one window.      *)
LEMMA BurstIsTogether ==
  ASSUME NEW events, IsFiniteSet(events), Numbered(events), \A e \in events : e.time \in Int,
         Burst \in Nat, Window \in Nat
  PROVE  Triage!auth_failure_burst(events) # {} <=>
           \E from \in {e.time : e \in events} :
             Cardinality({e \in events : e.time >= from /\ e.time <= from + Window}) >= Burst
<1> DEFINE Near(from) == {e \in events : e.time >= from /\ e.time <= from + Window}
<1>1. Triage!auth_failure_burst(events) # {} <=> Starts(events) # {}
  <2>1. IsFiniteSet(Starts(events)) /\ Strict(Starts(events), EventOrder(events))
    <3>1. Starts(events) \in SUBSET events
      BY DEF Starts
    <3>2. QED
      BY <3>1, Part, EventsAreOrdered DEF Strict
  <2>2. ASSUME Starts(events) # {}
        PROVE  \E s \in Starts(events) : \A r \in Starts(events) : ~ Sooner(r, s)
    <3>1. PICK s \in Starts(events) : \A r \in Starts(events) : <<r, s>> \notin EventOrder(events)
      BY <2>1, <2>2, FirstExists
    <3>2. QED
      BY <3>1 DEF EventOrder, Starts
  <2>3. QED
    BY <2>2, BurstIs
<1>2. \A T \in SUBSET events : /\ IsFiniteSet(T) /\ Cardinality(T) \in Nat
                               /\ \A U \in SUBSET T : Cardinality(U) \in Nat /\ Cardinality(U) <= Cardinality(T)
  BY Part
<1>3. ASSUME NEW s \in Starts(events)
      PROVE  Cardinality(Near(s.time)) >= Burst /\ s \in events
  <2>1. s \in events /\ Cardinality(WindowOf(s, events)) >= Burst
    BY DEF Starts
  <2>2. ASSUME NEW f \in WindowOf(s, events)
        PROVE  f \in Near(s.time)
    <3>1. f \in events /\ ~ (f.time < s.time) /\ f.time - s.time <= Window
      BY DEF WindowOf, Sooner
    <3>2. f.time \in Int /\ s.time \in Int
      BY <2>1, <3>1
    <3>3. QED
      BY <3>1, <3>2
  <2>3. WindowOf(s, events) \in SUBSET Near(s.time) /\ Near(s.time) \in SUBSET events
    BY <2>2
  <2> HIDE DEF Near
  <2>4. Cardinality(WindowOf(s, events)) \in Nat /\ Cardinality(Near(s.time)) \in Nat
        /\ Cardinality(WindowOf(s, events)) <= Cardinality(Near(s.time))
    BY <1>2, <2>3
  <2>5. QED
    BY <2>1, <2>4
<1>4. ASSUME NEW e0 \in events, Cardinality(Near(e0.time)) >= Burst
      PROVE  Starts(events) # {}
  <2>1. Near(e0.time) \in SUBSET events /\ e0 \in Near(e0.time)
    <3>1. e0.time \in Int
      OBVIOUS
    <3>2. QED
      BY <3>1
  <2>2. PICK s \in Near(e0.time) : \A f \in Near(e0.time) : <<f, s>> \notin EventOrder(events)
    <3> HIDE DEF Near
    <3>1. Strict(Near(e0.time), EventOrder(events))
      BY <2>1, EventsAreOrdered DEF Strict
    <3>2. QED
      BY <1>2, <2>1, <3>1, FirstExists
  <2>3. s \in events /\ s.time >= e0.time
    OBVIOUS
  <2>4. ASSUME NEW f \in Near(e0.time)
        PROVE  f \in WindowOf(s, events)
    <3>1. f \in events /\ f.time <= e0.time + Window
      OBVIOUS
    <3>2. ~ Sooner(f, s)
      BY <2>2, <2>3, <3>1 DEF EventOrder
    <3>3. f.time \in Int /\ s.time \in Int /\ e0.time \in Int
      BY <2>3, <3>1
    <3>4. QED
      BY <2>3, <3>1, <3>2, <3>3 DEF WindowOf
  <2>5. WindowOf(s, events) \in SUBSET events /\ Near(e0.time) \in SUBSET WindowOf(s, events)
    BY <2>4 DEF WindowOf
  <2> HIDE DEF Near
  <2>6. /\ Cardinality(Near(e0.time)) \in Nat /\ Cardinality(WindowOf(s, events)) \in Nat
        /\ Cardinality(Near(e0.time)) <= Cardinality(WindowOf(s, events))
    BY <1>2, <2>1, <2>5
  <2>7. s \in Starts(events)
    BY <1>4, <2>3, <2>6 DEF Starts
  <2>8. QED
    BY <2>7
<1>5. QED
  <2> HIDE DEF Near
  <2>1. Starts(events) # {} <=> \E from \in {e.time : e \in events} : Cardinality(Near(from)) >= Burst
    BY <1>3, <1>4
  <2>2. QED
    BY <1>1, <2>1 DEF Near

(* A burst is reported exactly when there is one, unless the bound on      *)
(* observations cut it off and says so; it is not reported as missing      *)
(* (forensic_triage.py).                                                   *)
THEOREM BurstsAreFound ==
  ASSUME NEW records, Exhibit(records), MaxObservations \in Nat, Burst \in Nat, Window \in Nat
  PROVE  Triage!BurstIsFound(records, Triage!triage_contents(records))
<1> DEFINE events == Triage!auth_events(records)
           all == Triage!Observed(records)
           analysis == Triage!triage_contents(records)
           Near(from) == {e \in events : e.time >= from /\ e.time <= from + Window}
           together == \E from \in {e.time : e \in events} : Cardinality(Near(from)) >= Burst
           reported == \E o \in analysis.observations : o.rule = "auth_failure_burst"
<1>1. /\ analysis.observations = Foremost(MaxObservations, all, PlaceOrder(all))
      /\ analysis.truncated <=> Cardinality(all) > MaxObservations
      /\ analysis.missing_information = Triage!missing_information(records)
  BY Counted, FirstIsForemost DEF Triage!triage_contents
<1>2. IsFiniteSet(all) /\ Numbered(all)
  <2>1. all \in SUBSET Possible(records) /\ IsFiniteSet(Possible(records)) /\ Numbered(Possible(records))
    BY ObservedArePossible, PossibleAreFew
  <2>2. QED
    BY <2>1, Part DEF Numbered
<1>3. together <=> \E o \in all : o.rule = "auth_failure_burst"
  BY BurstIsTogether, EventsAreFew, ObservedArePossible
<1>4. reported => together
  <2>1. analysis.observations \subseteq all
    BY <1>1 DEF Foremost
  <2>2. QED
    BY <1>3, <2>1
<1>5. ASSUME ~ analysis.truncated
      PROVE  analysis.observations = all
  <2>1. Cardinality(all) <= MaxObservations
    <3>1. Cardinality(all) \in Nat
      BY <1>2, FS_CardinalityType
    <3>2. QED
      BY <1>1, <1>5, <3>1
  <2>2. \A x \in all : <<x, x>> \notin PlaceOrder(all)
    BY <1>2, PlacesAreOrdered DEF Strict
  <2>3. QED
    <3> HIDE DEF all
    <3> QED
      BY <1>1, <1>2, <2>1, <2>2, AllAreForemost
<1>6. ASSUME together
      PROVE  "burst" \notin analysis.missing_information
  <2>1. PICK from : Cardinality(Near(from)) >= Burst
    BY <1>6
  <2>2. Near(from) \in SUBSET events /\ IsFiniteSet(events)
    BY EventsAreFew
  <2>3. /\ Cardinality(Near(from)) <= Cardinality(events)
        /\ Cardinality(Near(from)) \in Nat /\ Cardinality(events) \in Nat
    <3> HIDE DEF Near, events
    <3> QED
      BY <2>2, Part
  <2>4. ~ (Triage!Cardinality(events) < Burst)
    BY <2>1, <2>3, Counted
  <2>5. "burst" \notin Triage!missing_information(records)
    BY <2>4 DEF Triage!missing_information
  <2>6. QED
    BY <1>1, <2>5
<1>7. together => reported \/ analysis.truncated
  BY <1>3, <1>5
<1>8. together => "burst" \notin analysis.missing_information
  BY <1>6
<1>9. QED
  BY ONLY <1>4, <1>7, <1>8, Counted DEF Triage!BurstIsFound

(* A verdict that compares bytes compares those of a file of that name.    *)
LEMMA VerdictIs ==
  ASSUME NEW e, NEW available
  PROVE  /\ Triage!Verdict(e, available) \in {"match", "mismatch"} =>
              /\ e.name \in DOMAIN available /\ available[e.name] # 0
              /\ available[e.name] = e.digest <=> Triage!Verdict(e, available) = "match"
         /\ Triage!Verdict(e, available) \in {"missing", "object_unavailable", "match", "mismatch"}
  BY DEF Triage!Verdict

(* Whatever the manifest lists and whatever files are stored: bytes are    *)
(* called the same or different only of a file of that name whose bytes    *)
(* were read, and what does not match is observed unless the bound on      *)
(* observations is reached (forensic_triage.py).                           *)
THEOREM VerdictsCiteWhatWasRead ==
  ASSUME NEW records, Exhibit(records), MaxObservations \in Nat,
         NEW files, NEW available \in Triage!Readings(files)
  PROVE  LET analysis == Triage!triage_contents(records)
             verdicts == Triage!manifest_verdicts(analysis.entries, available)
         IN Triage!VerdictsCiteBytes(files, verdicts, Triage!_record_manifest_observations(analysis, verdicts))
<1> DEFINE analysis == Triage!triage_contents(records)
           verdicts == Triage!manifest_verdicts(analysis.entries, available)
           observed == Triage!_record_manifest_observations(analysis, verdicts)
           ruleOf(v) == IF v.verdict = "mismatch" THEN "hash_mismatch" ELSE "entry_missing"
           new == {Triage!Observation(ruleOf(v), v.entry.no, <<6, v.entry.no, 0, 0>>) :
                     v \in {w \in verdicts : w.verdict # "match"}}
           all == analysis.observations \cup new
<1>1. \A v \in verdicts : v.entry \in Triage!manifest_entries(records) /\ v.verdict = Triage!Verdict(v.entry, available)
  BY DEF Triage!manifest_verdicts, Triage!triage_contents
<1>2. ASSUME NEW v \in verdicts, v.verdict \in {"match", "mismatch"}
      PROVE  \E f \in files : /\ f.name = v.entry.name /\ f.digest # 0
                              /\ (f.digest = v.entry.digest) <=> v.verdict = "match"
  <2> DEFINE names == {f.name : f \in files}
  <2>1. PICK g \in [names -> files] : /\ \A n \in names : g[n].name = n
                                      /\ available = [n \in names |-> g[n].digest]
    BY DEF Triage!Readings
  <2>2. /\ v.entry.name \in DOMAIN available /\ available[v.entry.name] # 0
        /\ available[v.entry.name] = v.entry.digest <=> v.verdict = "match"
    <3> HIDE DEF verdicts
    <3> QED
      BY <1>1, <1>2, VerdictIs
  <2>3. v.entry.name \in names /\ available[v.entry.name] = g[v.entry.name].digest
    BY <2>1, <2>2
  <2>4. g[v.entry.name] \in files /\ g[v.entry.name].name = v.entry.name
    BY <2>1, <2>3
  <2>5. QED
    BY <2>2, <2>3, <2>4
<1>3. \A v \in verdicts : v.entry.no \in Numbers(records)
  <2>1. \A e \in Triage!manifest_entries(records) : e.no \in {r.no : r \in records}
    BY DEF Triage!manifest_entries, Triage!First
  <2> HIDE DEF verdicts
  <2>2. QED
    BY <1>1, <2>1 DEF Numbers
<1>4. new \in SUBSET Possible(records)
  <2>1. SUFFICES ASSUME NEW v \in verdicts
                 PROVE  Triage!Observation(ruleOf(v), v.entry.no, <<6, v.entry.no, 0, 0>>) \in Possible(records)
    OBVIOUS
  <2>2. ruleOf(v) \in RuleNames
    BY DEF RuleNames
  <2>3. 6 \in Numbers(records) /\ 0 \in Numbers(records)
    BY NumbersAre DEF Numbers
  <2> HIDE DEF ruleOf, verdicts
  <2>4. QED
    BY <1>3, <2>1, <2>2, <2>3, Observable DEF Triage!Observation
<1>5. IsFiniteSet(all) /\ Numbered(all)
  <2>1. analysis.observations \subseteq Triage!Observed(records)
    BY DEF Triage!triage_contents, Triage!First
  <2>2. all \in SUBSET Possible(records)
    <3> HIDE DEF new, analysis
    <3> QED
      BY <1>4, <2>1, ObservedArePossible
  <2>3. QED
    <3> HIDE DEF all
    <3> QED
      BY <2>2, PossibleAreFew, Part DEF Numbered
<1>6. observed = Foremost(MaxObservations, all, PlaceOrder(all))
  <2>1. observed = Triage!First(MaxObservations, all)
    BY DEF Triage!_record_manifest_observations
  <2>2. QED
    BY <2>1, FirstIsForemost
<1>7. ASSUME Cardinality(observed) < MaxObservations, NEW v \in verdicts, v.verdict # "match"
      PROVE  \E o \in observed : o.record = v.entry.no /\ o.rule \in {"hash_mismatch", "entry_missing"}
  <2>1. observed = all
    <3> HIDE DEF all, observed
    <3> QED
      BY <1>5, <1>6, <1>7, PlacesAreOrdered, FewAreForemost
  <2>2. Triage!Observation(ruleOf(v), v.entry.no, <<6, v.entry.no, 0, 0>>) \in observed
    BY <1>7, <2>1
  <2>3. ruleOf(v) \in {"hash_mismatch", "entry_missing"}
    OBVIOUS
  <2>4. QED
    <3> HIDE DEF ruleOf, observed, verdicts
    <3> QED
      BY <2>2, <2>3 DEF Triage!Observation
<1>8. QED
  <2> HIDE DEF verdicts, observed
  <2>1. QED
    BY <1>2, <1>7, Counted DEF Triage!VerdictsCiteBytes, verdicts, observed

-----------------------------------------------------------------------------
(* Conflicts.  Tuples of one, three or four numbers are in a total order,  *)
(* and there are finitely many over finite sets.                           *)
Ordered(S) ==
  \/ S \subseteq {<<x>> : x \in Int}
  \/ S \subseteq Int \X Int \X Int
  \/ S \subseteq Int \X Int \X Int \X Int
TupleOrder(S) == {p \in S \X S : Contradiction!Before(p[1], p[2])}

LEMMA SmallIntervals == 1..(1 - 1) = {} /\ 1..(2 - 1) = {1} /\ 1..(3 - 1) = {1, 2} /\ 1..(4 - 1) = {1, 2, 3}
OBVIOUS

LEMMA BeforeOfOne ==
  ASSUME NEW x \in Int, NEW y \in Int
  PROVE  Contradiction!Before(<<x>>, <<y>>) <=> x < y
<1>1. DOMAIN <<x>> = {1} /\ <<x>>[1] = x /\ <<y>>[1] = y
  OBVIOUS
<1>2. QED
  BY <1>1, SmallIntervals DEF Contradiction!Before

LEMMA BeforeOfThree ==
  ASSUME NEW s \in Int \X Int \X Int, NEW t \in Int \X Int \X Int
  PROVE  Contradiction!Before(s, t) <=>
           s[1] < t[1] \/ (s[1] = t[1] /\ (s[2] < t[2] \/ (s[2] = t[2] /\ s[3] < t[3])))
<1> DEFINE At(j) == s[j] < t[j] /\ \A h \in 1..(j - 1) : s[h] = t[h]
<1>1. DOMAIN s = {1, 2, 3}
  OBVIOUS
<1>2. Contradiction!Before(s, t) <=> At(1) \/ At(2) \/ At(3)
  <2>1. Contradiction!Before(s, t) <=> \E j \in {1, 2, 3} : At(j)
    BY <1>1 DEF Contradiction!Before
  <2> HIDE DEF At
  <2>2. QED
    BY <2>1
<1>3. QED
  BY <1>2, SmallIntervals

LEMMA BeforeOfFour ==
  ASSUME NEW s \in Int \X Int \X Int \X Int, NEW t \in Int \X Int \X Int \X Int
  PROVE  Contradiction!Before(s, t) <=>
           \/ s[1] < t[1]
           \/ s[1] = t[1] /\ s[2] < t[2]
           \/ s[1] = t[1] /\ s[2] = t[2] /\ s[3] < t[3]
           \/ s[1] = t[1] /\ s[2] = t[2] /\ s[3] = t[3] /\ s[4] < t[4]
<1> DEFINE At(j) == s[j] < t[j] /\ \A h \in 1..(j - 1) : s[h] = t[h]
<1>1. DOMAIN s = {1, 2, 3, 4}
  OBVIOUS
<1>2. Contradiction!Before(s, t) <=> At(1) \/ At(2) \/ At(3) \/ At(4)
  <2>1. Contradiction!Before(s, t) <=> \E j \in {1, 2, 3, 4} : At(j)
    BY <1>1 DEF Contradiction!Before
  <2> HIDE DEF At
  <2>2. QED
    BY <2>1
<1>3. QED
  BY <1>2, SmallIntervals

LEMMA TuplesAreOrdered ==
  ASSUME NEW S, Ordered(S)
  PROVE  Strict(S, TupleOrder(S)) /\ Total(S, TupleOrder(S))
<1>1. \A x, y \in S : <<x, y>> \in TupleOrder(S) <=> Contradiction!Before(x, y)
  BY DEF TupleOrder
<1>2. SUFFICES /\ \A x \in S : ~ Contradiction!Before(x, x)
               /\ \A x, y, z \in S : Contradiction!Before(x, y) /\ Contradiction!Before(y, z)
                                       => Contradiction!Before(x, z)
               /\ \A x, y \in S : x = y \/ Contradiction!Before(x, y) \/ Contradiction!Before(y, x)
  BY <1>1 DEF Strict, Total
<1>3. CASE S \subseteq {<<x>> : x \in Int}
  <2>1. \A s \in S : s[1] \in Int /\ s = <<s[1]>>
    BY <1>3
  <2>2. \A s, t \in S : Contradiction!Before(s, t) <=> s[1] < t[1]
    <3>1. SUFFICES ASSUME NEW s \in S, NEW t \in S
                   PROVE  Contradiction!Before(<<s[1]>>, <<t[1]>>) <=> s[1] < t[1]
      BY <2>1
    <3>2. QED
      BY <2>1, BeforeOfOne
  <2>3. \A s, t \in S : s[1] = t[1] => s = t
    BY <2>1
  <2>4. QED
    BY <2>1, <2>2, <2>3
<1>4. CASE S \subseteq Int \X Int \X Int
  <2>1. \A s, t \in S : Contradiction!Before(s, t) <=>
           s[1] < t[1] \/ (s[1] = t[1] /\ (s[2] < t[2] \/ (s[2] = t[2] /\ s[3] < t[3])))
    BY <1>4, BeforeOfThree
  <2>2. \A s \in S : s[1] \in Int /\ s[2] \in Int /\ s[3] \in Int
    BY <1>4
  <2>3. \A s, t \in S : s[1] = t[1] /\ s[2] = t[2] /\ s[3] = t[3] => s = t
    BY <1>4
  <2>4. QED
    BY <2>1, <2>2, <2>3
<1>5. CASE S \subseteq Int \X Int \X Int \X Int
  <2>1. \A s, t \in S : Contradiction!Before(s, t) <=>
           \/ s[1] < t[1]
           \/ s[1] = t[1] /\ s[2] < t[2]
           \/ s[1] = t[1] /\ s[2] = t[2] /\ s[3] < t[3]
           \/ s[1] = t[1] /\ s[2] = t[2] /\ s[3] = t[3] /\ s[4] < t[4]
    BY <1>5, BeforeOfFour
  <2>2. \A s \in S : s[1] \in Int /\ s[2] \in Int /\ s[3] \in Int /\ s[4] \in Int
    BY <1>5
  <2>3. \A s, t \in S : s[1] = t[1] /\ s[2] = t[2] /\ s[3] = t[3] /\ s[4] = t[4] => s = t
    BY <1>5
  <2>4. QED
    BY <2>1, <2>2, <2>3
<1>6. QED
  BY <1>3, <1>4, <1>5 DEF Ordered

(* The first n tuples of a finite set: no more than n, all when there are  *)
(* no more, and all when fewer come out.                                   *)
LEMMA FirstOfIs ==
  ASSUME NEW S, IsFiniteSet(S), Ordered(S), NEW n \in Nat
  PROVE  /\ Contradiction!FirstOf(n, S) \subseteq S
         /\ Cardinality(Contradiction!FirstOf(n, S)) <= n
         /\ Cardinality(S) <= n => Contradiction!FirstOf(n, S) = S
         /\ Cardinality(Contradiction!FirstOf(n, S)) < n => Contradiction!FirstOf(n, S) = S
<1>1. Contradiction!FirstOf(n, S) = Foremost(n, S, TupleOrder(S))
  <2>1. ASSUME NEW x \in S
        PROVE  Contradiction!Rank(x, S) = Cardinality(Under(x, S, TupleOrder(S)))
    <3>1. {y \in S : Contradiction!Before(y, x)} = Under(x, S, TupleOrder(S))
      BY DEF Under, TupleOrder
    <3>2. QED
      BY <3>1, Counted DEF Contradiction!Rank
  <2>2. QED
    BY <2>1 DEF Contradiction!FirstOf, Foremost
<1>2. Strict(S, TupleOrder(S)) /\ Total(S, TupleOrder(S))
  BY TuplesAreOrdered
<1>3. \A x \in S : <<x, x>> \notin TupleOrder(S)
  BY <1>2 DEF Strict
<1>4. Foremost(n, S, TupleOrder(S)) \subseteq S
  BY DEF Foremost
<1>5. Cardinality(Foremost(n, S, TupleOrder(S))) <= n
  BY <1>2, ForemostAreFew
<1>6. Cardinality(S) <= n => Foremost(n, S, TupleOrder(S)) = S
  BY <1>3, AllAreForemost
<1>7. Cardinality(Foremost(n, S, TupleOrder(S))) < n => Foremost(n, S, TupleOrder(S)) = S
  BY <1>2, FewAreForemost
<1>8. QED
  BY <1>1, <1>4, <1>5, <1>6, <1>7

LEMMA ProductsAreFinite ==
  ASSUME NEW A, NEW B, NEW C, NEW D,
         IsFiniteSet(A), IsFiniteSet(B), IsFiniteSet(C), IsFiniteSet(D)
  PROVE  IsFiniteSet(A \X B \X C) /\ IsFiniteSet(A \X B \X C \X D)
<1> DEFINE two == A \X B
           three == two \X C
           four == three \X D
<1>1. IsFiniteSet(three) /\ IsFiniteSet(four)
  BY FS_Product
<1>2. IsFiniteSet(A \X B \X C)
  <2> DEFINE f == [t \in three |-> <<t[1][1], t[1][2], t[2]>>]
             T == {f[t] : t \in three}
  <2>1. f = [t \in three |-> f[t]]
    OBVIOUS
  <2>2. A \X B \X C \in SUBSET T
    <3>1. SUFFICES ASSUME NEW x \in A \X B \X C
                   PROVE  x \in T
      OBVIOUS
    <3>2. <<<<x[1], x[2]>>, x[3]>> \in three /\ x = <<x[1], x[2], x[3]>>
      OBVIOUS
    <3>3. f[<<<<x[1], x[2]>>, x[3]>>] = x
      BY <3>2
    <3>4. QED
      BY <3>2, <3>3
  <2> HIDE DEF f, three
  <2>3. IsFiniteSet(T)
    BY <1>1, <2>1, ImageIs
  <2>4. QED
    BY <2>2, <2>3, FS_Subset
<1>3. IsFiniteSet(A \X B \X C \X D)
  <2> DEFINE f == [t \in four |-> <<t[1][1][1], t[1][1][2], t[1][2], t[2]>>]
             T == {f[t] : t \in four}
  <2>1. f = [t \in four |-> f[t]]
    OBVIOUS
  <2>2. A \X B \X C \X D \in SUBSET T
    <3>1. SUFFICES ASSUME NEW x \in A \X B \X C \X D
                   PROVE  x \in T
      OBVIOUS
    <3>2. <<<<<<x[1], x[2]>>, x[3]>>, x[4]>> \in four /\ x = <<x[1], x[2], x[3], x[4]>>
      OBVIOUS
    <3>3. f[<<<<<<x[1], x[2]>>, x[3]>>, x[4]>>] = x
      BY <3>2
    <3>4. QED
      BY <3>2, <3>3
  <2> HIDE DEF f, four
  <2>3. IsFiniteSet(T)
    BY <1>1, <2>1, ImageIs
  <2>4. QED
    BY <2>2, <2>3, FS_Subset
<1>4. QED
  BY <1>2, <1>3

(* What a dossier is made of, and the claims of its records.               *)
Filed(records) ==
  /\ IsFiniteSet(records)
  /\ \A r, q \in records : r.id = q.id => r = q
  /\ \A r \in records :
       /\ r.id \in Int /\ DOMAIN r.fields \subseteq Int /\ IsFiniteSet(DOMAIN r.fields)
       /\ \A j \in DOMAIN r.fields : r.fields[j].name \in Int /\ r.fields[j].key \in Int

Claims(records) == UNION {Contradiction!record_claims(r) : r \in records}
Countable(claims) ==
  /\ IsFiniteSet(claims)
  /\ \A c \in claims : c.record \in Int /\ c.name \in Int /\ c.key \in Int

(* A claim is a field of its record, one that the rules read.              *)
LEMMA ClaimIs ==
  ASSUME NEW records, NEW c \in Claims(records)
  PROVE  \E r \in records : \E j \in DOMAIN r.fields :
           /\ c = [ record |-> r.id, name |-> r.fields[j].name,
                    cls |-> Contradiction!classify_field(r.fields[j]),
                    key |-> r.fields[j].key, raw |-> r.fields[j].raw, gran |-> r.fields[j].gran,
                    txn |-> "txn" \in Hints(r.fields[j].name) ]
           /\ Contradiction!classify_field(r.fields[j]) # "none"
<1>1. PICK r \in records : c \in Contradiction!record_claims(r)
  BY DEF Claims
<1> DEFINE f == r.fields
           comparable == {j \in DOMAIN f : Contradiction!classify_field(f[j]) # "none"}
           first == {h \in comparable : \A g \in comparable : f[g].name = f[h].name => h <= g}
           claim(j) == [ record |-> r.id, name |-> f[j].name, cls |-> Contradiction!classify_field(f[j]),
                         key |-> f[j].key, raw |-> f[j].raw, gran |-> f[j].gran,
                         txn |-> "txn" \in Hints(f[j].name) ]
<1>2. Contradiction!record_claims(r) = {claim(j) : j \in first}
  BY DEF Contradiction!record_claims
<1>3. first \subseteq DOMAIN f /\ \A j \in first : Contradiction!classify_field(f[j]) # "none"
  OBVIOUS
<1>4. PICK j \in first : c = claim(j)
  <2> HIDE DEF first, claim
  <2> QED
    BY <1>1, <1>2
<1>5. j \in DOMAIN f /\ Contradiction!classify_field(f[j]) # "none" /\ c = claim(j)
  BY <1>3, <1>4
<1>6. QED
  BY <1>5

LEMMA ClaimsAreCountable ==
  ASSUME NEW records, Filed(records)
  PROVE  Countable(Claims(records))
<1>1. ASSUME NEW r \in records
      PROVE  IsFiniteSet(Contradiction!record_claims(r))
  <2> DEFINE f == r.fields
             comparable == {j \in DOMAIN f : Contradiction!classify_field(f[j]) # "none"}
             first == {h \in comparable : \A g \in comparable : f[g].name = f[h].name => h <= g}
             claim == [j \in first |->
                         [ record |-> r.id, name |-> f[j].name, cls |-> Contradiction!classify_field(f[j]),
                           key |-> f[j].key, raw |-> f[j].raw, gran |-> f[j].gran,
                           txn |-> "txn" \in Hints(f[j].name) ]]
  <2>1. Contradiction!record_claims(r) = {claim[j] : j \in first} /\ claim = [j \in first |-> claim[j]]
    BY DEF Contradiction!record_claims
  <2>2. IsFiniteSet(first)
    <3>1. first \in SUBSET DOMAIN f /\ IsFiniteSet(DOMAIN f)
      BY DEF Filed
    <3>2. QED
      BY <3>1, FS_Subset
  <2> HIDE DEF first, claim
  <2>3. QED
    BY <2>1, <2>2, ImageIs
<1>2. IsFiniteSet(Claims(records))
  <2> DEFINE f == [r \in records |-> Contradiction!record_claims(r)]
             T == {f[r] : r \in records}
  <2>1. Claims(records) = UNION T /\ (\A t \in T : IsFiniteSet(t)) /\ IsFiniteSet(records)
    BY <1>1 DEF Claims, Filed
  <2>2. f = [r \in records |-> f[r]]
    OBVIOUS
  <2> HIDE DEF f
  <2>3. IsFiniteSet(T)
    BY <2>1, <2>2, ImageIs
  <2>4. QED
    BY <2>1, <2>3, FS_UNION
<1>3. ASSUME NEW c \in Claims(records)
      PROVE  c.record \in Int /\ c.name \in Int /\ c.key \in Int
  <2>1. PICK r \in records : \E j \in DOMAIN r.fields :
          c.record = r.id /\ c.name = r.fields[j].name /\ c.key = r.fields[j].key
    BY ClaimIs
  <2>2. QED
    BY <2>1 DEF Filed
<1>4. QED
  BY <1>2, <1>3 DEF Countable

-----------------------------------------------------------------------------
(* Anchors.  A record names a value when it has an identifier claim of it. *)
IdsOf(claims) == {c \in claims : c.cls = "identifier"}
Naming(claims, v, a) == \E c \in IdsOf(claims) : c.key = v /\ c.record = a
Namers(claims, v) == {c.record : c \in {d \in IdsOf(claims) : d.key = v}}
ScopeOf(claims, v) == IF \E i \in IdsOf(claims) : i.key = v /\ i.txn THEN "transaction" ELSE "entity"

LEMMA IndexIs ==
  ASSUME NEW claims
  PROVE  LET index == Contradiction!identifier_index(claims)
         IN /\ DOMAIN index = {c.key : c \in IdsOf(claims)}
            /\ \A v \in DOMAIN index : {m[1] : m \in index[v]} = Namers(claims, v)
            /\ \A v \in DOMAIN index : Contradiction!anchor_scope(index[v]) = ScopeOf(claims, v)
<1> DEFINE index == Contradiction!identifier_index(claims)
           keys == {c.key : c \in IdsOf(claims)}
           of(v) == {d \in IdsOf(claims) : d.key = v}
           member(c) == <<c.record, IF c.txn THEN "transaction" ELSE "entity">>
<1>1. index = [v \in keys |-> {member(c) : c \in of(v)}]
  BY DEF Contradiction!identifier_index, IdsOf
<1>2. DOMAIN index = keys /\ \A v \in keys : index[v] = {member(c) : c \in of(v)}
  BY <1>1
<1>3. ASSUME NEW v \in keys
      PROVE  {m[1] : m \in index[v]} = Namers(claims, v)
  <2>1. \A c \in of(v) : member(c)[1] = c.record
    OBVIOUS
  <2>2. index[v] = {member(c) : c \in of(v)}
    BY <1>2
  <2> HIDE DEF member, index, keys
  <2>3. QED
    BY <2>1, <2>2 DEF Namers
<1>4. ASSUME NEW v \in keys
      PROVE  Contradiction!anchor_scope(index[v]) = ScopeOf(claims, v)
  <2>1. \A c \in of(v) : member(c)[2] = "transaction" <=> c.txn
    OBVIOUS
  <2>2. index[v] = {member(c) : c \in of(v)}
    BY <1>2
  <2>3. (\E m \in index[v] : m[2] = "transaction") <=> \E i \in IdsOf(claims) : i.key = v /\ i.txn
    <3> HIDE DEF member, index, keys
    <3> QED
      BY <2>1, <2>2
  <2>4. QED
    BY <2>3 DEF Contradiction!anchor_scope, ScopeOf
<1>5. QED
  BY <1>2, <1>3, <1>4

Anchored(claims) == Contradiction!AnchoredPairs(Contradiction!identifier_index(claims))

(* The pairs to compare: of two records that name the value, in the order  *)
(* of their ids; all of them when no more name it than the bound allows.   *)
LEMMA AnchoredAre ==
  ASSUME NEW claims, Countable(claims), MaxPerAnchor \in Nat
  PROVE  /\ IsFiniteSet(Anchored(claims)) /\ Anchored(claims) \subseteq Int \X Int \X Int
         /\ \A p \in Anchored(claims) :
              p[2] < p[3] /\ Naming(claims, p[1], p[2]) /\ Naming(claims, p[1], p[3])
         /\ \A v, a, b : (/\ Cardinality(Namers(claims, v)) <= MaxPerAnchor
                          /\ Naming(claims, v, a) /\ Naming(claims, v, b) /\ a < b)
                         => <<v, a, b>> \in Anchored(claims)
<1> DEFINE index == Contradiction!identifier_index(claims)
           keys == {c.key : c \in IdsOf(claims)}
           ids == {c.record : c \in claims}
           single(v) == {<<m[1]>> : m \in index[v]}
           few(v) == Contradiction!Records(index[v])
<1>1. IsFiniteSet(claims) /\ ids \subseteq Int /\ keys \subseteq Int
  BY DEF Countable, IdsOf
<1>2. IsFiniteSet(ids)
  <2> DEFINE f == [c \in claims |-> c.record]
  <2>1. ids = {f[c] : c \in claims} /\ f = [c \in claims |-> f[c]]
    OBVIOUS
  <2> HIDE DEF f, ids
  <2>2. QED
    BY <1>1, <2>1, ImageIs
<1>3. IsFiniteSet(keys)
  <2> DEFINE f == [c \in IdsOf(claims) |-> c.key]
  <2>1. keys = {f[c] : c \in IdsOf(claims)} /\ f = [c \in IdsOf(claims) |-> f[c]]
    OBVIOUS
  <2>2. IsFiniteSet(IdsOf(claims))
    BY <1>1, FS_Subset DEF IdsOf
  <2> HIDE DEF f, keys
  <2>3. QED
    BY <2>1, <2>2, ImageIs
<1>4. DOMAIN index = keys /\ \A v \in keys : {m[1] : m \in index[v]} = Namers(claims, v)
  BY IndexIs
<1>5. ASSUME NEW v \in keys
      PROVE  /\ single(v) = {<<a>> : a \in Namers(claims, v)}
             /\ Namers(claims, v) \subseteq ids /\ IsFiniteSet(Namers(claims, v))
             /\ IsFiniteSet(single(v)) /\ Ordered(single(v))
             /\ Cardinality(single(v)) <= Cardinality(Namers(claims, v))
  <2>1. single(v) = {<<a>> : a \in Namers(claims, v)}
    <3>1. {m[1] : m \in index[v]} = Namers(claims, v)
      BY <1>4
    <3> HIDE DEF index
    <3>2. QED
      BY <3>1
  <2>2. Namers(claims, v) \in SUBSET ids
    BY DEF Namers, IdsOf
  <2>3. IsFiniteSet(Namers(claims, v))
    <3> HIDE DEF ids
    <3> QED
      BY <1>2, <2>2, FS_Subset
  <2>4. Ordered(single(v))
    <3>1. \A a \in Namers(claims, v) : a \in Int
      BY <1>1, <2>2
    <3> HIDE DEF single
    <3>2. QED
      BY <2>1, <3>1 DEF Ordered
  <2>5. IsFiniteSet(single(v)) /\ Cardinality(single(v)) <= Cardinality(Namers(claims, v))
    <3> DEFINE f == [a \in Namers(claims, v) |-> <<a>>]
    <3>1. {<<a>> : a \in Namers(claims, v)} = {f[a] : a \in Namers(claims, v)}
      OBVIOUS
    <3>2. f = [a \in Namers(claims, v) |-> f[a]]
      OBVIOUS
    <3> HIDE DEF f, single
    <3>3. QED
      BY <2>1, <2>3, <3>1, <3>2, ImageIs
  <2>6. QED
    BY <2>1, <2>2, <2>3, <2>4, <2>5
<1>6. ASSUME NEW v \in keys
      PROVE  /\ few(v) \subseteq single(v)
             /\ Cardinality(Namers(claims, v)) <= MaxPerAnchor => few(v) = single(v)
  <2>1. few(v) = Contradiction!FirstOf(MaxPerAnchor, single(v))
    BY DEF Contradiction!Records
  <2>2. Cardinality(single(v)) \in Nat /\ Cardinality(Namers(claims, v)) \in Nat
    BY <1>5, FS_CardinalityType
  <2> HIDE DEF few, single, keys
  <2>3. QED
    BY <1>5, <2>1, <2>2, FirstOfIs
<1>7. \A p : p \in Anchored(claims) <=>
         \E v \in keys : \E x, y \in few(v) : x[1] < y[1] /\ p = <<v, x[1], y[1]>>
  <2>1. Anchored(claims) = UNION { UNION { {<<v, x[1], y[1]>> : y \in {z \in few(v) : x[1] < z[1]}} :
                                           x \in few(v) } : v \in keys }
    BY <1>4 DEF Anchored, Contradiction!AnchoredPairs
  <2> HIDE DEF few, keys
  <2>2. QED
    BY <2>1
<1>8. \A v \in keys : \A x \in few(v) : x[1] \in ids /\ Naming(claims, v, x[1]) /\ x = <<x[1]>>
  <2>1. SUFFICES ASSUME NEW v \in keys, NEW x \in few(v)
                 PROVE  x[1] \in ids /\ Naming(claims, v, x[1]) /\ x = <<x[1]>>
    OBVIOUS
  <2>2. PICK a \in Namers(claims, v) : x = <<a>>
    <3> HIDE DEF few, single, keys
    <3> QED
      BY <1>5, <1>6, <2>1
  <2>3. Naming(claims, v, a) /\ a \in ids
    BY DEF Namers, Naming, IdsOf
  <2>4. x[1] = a
    BY <2>2
  <2>5. QED
    BY <2>2, <2>3, <2>4
<1>9. /\ Anchored(claims) \in SUBSET (keys \X ids \X ids)
      /\ \A p \in Anchored(claims) :
           p[2] < p[3] /\ Naming(claims, p[1], p[2]) /\ Naming(claims, p[1], p[3])
  <2> HIDE DEF few, keys, ids
  <2>1. SUFFICES ASSUME NEW p \in Anchored(claims)
                 PROVE  /\ p \in keys \X ids \X ids
                        /\ p[2] < p[3] /\ Naming(claims, p[1], p[2]) /\ Naming(claims, p[1], p[3])
    OBVIOUS
  <2>2. PICK v \in keys : \E x, y \in few(v) : x[1] < y[1] /\ p = <<v, x[1], y[1]>>
    BY <1>7, <2>1
  <2>3. PICK x \in few(v), y \in few(v) : x[1] < y[1] /\ p = <<v, x[1], y[1]>>
    BY <2>2
  <2>4. /\ x[1] \in ids /\ Naming(claims, v, x[1])
        /\ y[1] \in ids /\ Naming(claims, v, y[1])
    BY <1>8
  <2>5. p[1] = v /\ p[2] = x[1] /\ p[3] = y[1]
    BY <2>3
  <2>6. QED
    BY <2>3, <2>4, <2>5
<1>10. ASSUME NEW v, NEW a, NEW b, Cardinality(Namers(claims, v)) <= MaxPerAnchor,
              Naming(claims, v, a), Naming(claims, v, b), a < b
       PROVE  <<v, a, b>> \in Anchored(claims)
  <2>1. v \in keys /\ a \in Namers(claims, v) /\ b \in Namers(claims, v)
    BY <1>10 DEF Naming, Namers
  <2>2. <<a>> \in few(v) /\ <<b>> \in few(v)
    <3>1. <<a>> \in single(v) /\ <<b>> \in single(v)
      <4> HIDE DEF single, keys
      <4> QED
        BY <1>5, <2>1
    <3> HIDE DEF few, single, keys
    <3>2. QED
      BY <1>6, <1>10, <2>1, <3>1
  <2>3. <<a>>[1] = a /\ <<b>>[1] = b
    OBVIOUS
  <2> HIDE DEF few, keys
  <2>4. QED
    BY <1>7, <1>10, <2>1, <2>2, <2>3
<1>11. IsFiniteSet(Anchored(claims)) /\ Anchored(claims) \subseteq Int \X Int \X Int
  <2> HIDE DEF keys, ids
  <2>1. IsFiniteSet(keys \X ids \X ids)
    BY <1>2, <1>3, ProductsAreFinite
  <2>2. QED
    BY <1>1, <1>9, <2>1, FS_Subset
<1>12. QED
  BY <1>9, <1>10, <1>11

-----------------------------------------------------------------------------
(* The names on which an anchored pair is in conflict.                     *)
Disputed(mine, theirs, scope) ==
  { c.name : c \in {d \in mine : \E e \in theirs :
      /\ e.name = d.name /\ e.cls = d.cls
      /\ Contradiction!Comparable(d.cls, d.txn, scope)
      /\ ~ Contradiction!Agree(d, e)} }

LEMMA ComparedAre ==
  ASSUME NEW mine, NEW theirs, NEW scope, IsFiniteSet(mine), \A c \in mine : c.name \in Int,
         MaxPerPair \in Nat
  PROVE  /\ Contradiction!compare_record_pair(mine, theirs, scope) \subseteq Disputed(mine, theirs, scope)
         /\ Cardinality({c.name : c \in mine}) <= MaxPerPair =>
              Contradiction!compare_record_pair(mine, theirs, scope) = Disputed(mine, theirs, scope)
<1> DEFINE names == Disputed(mine, theirs, scope)
           single == {<<n>> : n \in names}
           all == {c.name : c \in mine}
<1>1. Contradiction!compare_record_pair(mine, theirs, scope)
        = {n[1] : n \in Contradiction!FirstOf(MaxPerPair, single)}
  BY DEF Contradiction!compare_record_pair, Disputed
<1>2. IsFiniteSet(all) /\ Cardinality(all) \in Nat
  <2> DEFINE f == [c \in mine |-> c.name]
  <2>1. all = {f[c] : c \in mine} /\ f = [c \in mine |-> f[c]]
    OBVIOUS
  <2> HIDE DEF f, all
  <2>2. QED
    BY <2>1, ImageIs, FS_CardinalityType
<1>3. names \in SUBSET all /\ all \subseteq Int
  BY DEF Disputed
<1>4. IsFiniteSet(names) /\ Cardinality(names) <= Cardinality(all)
  <2> HIDE DEF names, all
  <2> QED
    BY <1>2, <1>3, Part
<1>5. IsFiniteSet(single) /\ Cardinality(single) <= Cardinality(names) /\ Cardinality(single) \in Nat
      /\ Cardinality(names) \in Nat
  <2> DEFINE f == [n \in names |-> <<n>>]
  <2>1. single = {f[n] : n \in names} /\ f = [n \in names |-> f[n]]
    OBVIOUS
  <2> HIDE DEF f, single, names
  <2>2. QED
    BY <1>4, <2>1, ImageIs, FS_CardinalityType
<1>6. Ordered(single)
  <2>1. \A n \in names : n \in Int
    BY <1>3
  <2> HIDE DEF names
  <2>2. QED
    BY <2>1 DEF Ordered
<1>7. /\ Contradiction!FirstOf(MaxPerPair, single) \subseteq single
      /\ Cardinality(single) <= MaxPerPair => Contradiction!FirstOf(MaxPerPair, single) = single
  <2> HIDE DEF single
  <2> QED
    BY <1>5, <1>6, FirstOfIs
<1>8. \A n \in single : n[1] \in names
  <2> HIDE DEF names
  <2> QED
    OBVIOUS
<1>9. names = {n[1] : n \in single}
  <2>1. \A n \in names : <<n>> \in single /\ <<n>>[1] = n
    OBVIOUS
  <2> HIDE DEF names, single
  <2>2. QED
    BY <1>8, <2>1
<1>10. QED
  <2> HIDE DEF names, single, all
  <2>1. Contradiction!compare_record_pair(mine, theirs, scope) \subseteq names
    BY <1>1, <1>7, <1>8
  <2>2. Cardinality(all) <= MaxPerPair => Contradiction!FirstOf(MaxPerPair, single) = single
    BY <1>2, <1>4, <1>5, <1>7
  <2>3. QED
    BY <1>1, <1>9, <2>1, <2>2 DEF names, all

(* A pair of claims disagrees in the sense of the matrix when, under some  *)
(* anchor that both records name, the rules compare them and they differ.  *)
Subject(c) == IF c.txn THEN "transaction" ELSE "entity"
Rivals(claims) ==
  { q \in claims \X claims :
      /\ q[1].record < q[2].record /\ q[1].name = q[2].name /\ q[1].cls = q[2].cls
      /\ IF "date" \in {q[1].gran, q[2].gran} /\ q[1].cls = "date"
         THEN q[1].key \div 2 # q[2].key \div 2
         ELSE q[1].key # q[2].key
      /\ Contradiction!Matrix(q[1].cls, Subject(q[1]))
           \cap Contradiction!JointScopes(claims, q[1].record, q[2].record) # {} }

LEMMA ScopesAre ==
  ASSUME NEW claims, NEW a, NEW b, NEW s
  PROVE  s \in Contradiction!JointScopes(claims, a, b) <=>
           \E v : Naming(claims, v, a) /\ Naming(claims, v, b) /\ s = ScopeOf(claims, v)
<1> DEFINE ids == IdsOf(claims)
           keys(r) == {i.key : i \in {j \in ids : j.record = r}}
<1>1. Contradiction!JointScopes(claims, a, b) = {ScopeOf(claims, v) : v \in keys(a) \cap keys(b)}
  BY DEF Contradiction!JointScopes, ScopeOf, IdsOf
<1>2. \A r, v : v \in keys(r) <=> Naming(claims, v, r)
  BY DEF Naming
<1>3. QED
  <2> HIDE DEF keys
  <2> QED
    BY <1>1, <1>2

LEMMA MatrixIs ==
  ASSUME NEW c, NEW d, NEW claims, NEW v
  PROVE  /\ Contradiction!Comparable(c.cls, c.txn, ScopeOf(claims, v))
              <=> ScopeOf(claims, v) \in Contradiction!Matrix(c.cls, Subject(c))
         /\ c.cls = d.cls =>
              ((~ Contradiction!Agree(c, d)) <=>
                 IF "date" \in {c.gran, d.gran} /\ c.cls = "date"
                 THEN c.key \div 2 # d.key \div 2
                 ELSE c.key # d.key)
<1>1. ScopeOf(claims, v) \in {"transaction", "entity"}
  BY DEF ScopeOf
<1>2. Contradiction!Comparable(c.cls, c.txn, ScopeOf(claims, v))
        <=> ScopeOf(claims, v) \in Contradiction!Matrix(c.cls, Subject(c))
  BY <1>1 DEF Contradiction!Comparable, Contradiction!Matrix, Subject
<1>3. c.cls = d.cls =>
        ((~ Contradiction!Agree(c, d)) <=>
           IF "date" \in {c.gran, d.gran} /\ c.cls = "date"
           THEN c.key \div 2 # d.key \div 2
           ELSE c.key # d.key)
  BY DEF Contradiction!Agree
<1>4. QED
  BY <1>2, <1>3

(* So a disagreement is a name that some anchor of two records disputes.   *)
Raised(claims) ==
  UNION { {<<p[1], p[2], p[3], n>> :
             n \in Contradiction!compare_record_pair(
                     Contradiction!RecordOf(p[2], claims), Contradiction!RecordOf(p[3], claims),
                     ScopeOf(claims, p[1]))} :
          p \in Contradiction!EvaluatedPairs(Contradiction!identifier_index(claims)) }

LEMMA DisagreementIs ==
  ASSUME NEW claims, NEW x
  PROVE  x \in Contradiction!Disagreements(claims) <=>
           \E v, a, b, n : /\ x = <<a, b, n>> /\ a < b
                           /\ Naming(claims, v, a) /\ Naming(claims, v, b)
                           /\ n \in Disputed(Contradiction!RecordOf(a, claims),
                                             Contradiction!RecordOf(b, claims), ScopeOf(claims, v))
<1>1. Contradiction!Disagreements(claims)
        = {<<p[1].record, p[2].record, p[1].name>> : p \in Rivals(claims)}
  BY DEF Contradiction!Disagreements, Rivals, Subject
<1>2. ASSUME x \in Contradiction!Disagreements(claims)
      PROVE  \E v, a, b, n : /\ x = <<a, b, n>> /\ a < b
                             /\ Naming(claims, v, a) /\ Naming(claims, v, b)
                             /\ n \in Disputed(Contradiction!RecordOf(a, claims),
                                               Contradiction!RecordOf(b, claims), ScopeOf(claims, v))
  <2>1. PICK p \in Rivals(claims) : x = <<p[1].record, p[2].record, p[1].name>>
    BY <1>1, <1>2
  <2> DEFINE c == p[1]
             d == p[2]
  <2>2. /\ c \in claims /\ d \in claims /\ c.record < d.record /\ c.name = d.name /\ c.cls = d.cls
        /\ IF "date" \in {c.gran, d.gran} /\ c.cls = "date"
           THEN c.key \div 2 # d.key \div 2
           ELSE c.key # d.key
        /\ Contradiction!Matrix(c.cls, Subject(c)) \cap Contradiction!JointScopes(claims, c.record, d.record) # {}
    BY DEF Rivals
  <2> HIDE DEF c, d
  <2>3. PICK s \in Contradiction!Matrix(c.cls, Subject(c)) : s \in Contradiction!JointScopes(claims, c.record, d.record)
    BY <2>2
  <2>4. PICK v : Naming(claims, v, c.record) /\ Naming(claims, v, d.record) /\ s = ScopeOf(claims, v)
    BY <2>3, ScopesAre
  <2>5. Contradiction!Comparable(c.cls, c.txn, ScopeOf(claims, v)) /\ ~ Contradiction!Agree(c, d)
    BY <2>2, <2>3, <2>4, MatrixIs
  <2>6. c \in Contradiction!RecordOf(c.record, claims) /\ d \in Contradiction!RecordOf(d.record, claims)
    BY <2>2 DEF Contradiction!RecordOf
  <2>7. c.name \in Disputed(Contradiction!RecordOf(c.record, claims),
                            Contradiction!RecordOf(d.record, claims), ScopeOf(claims, v))
    BY <2>2, <2>5, <2>6 DEF Disputed
  <2>8. x = <<c.record, d.record, c.name>>
    BY <2>1 DEF c, d
  <2>9. QED
    BY <2>2, <2>4, <2>7, <2>8
<1>3. ASSUME NEW v, NEW a, NEW b, NEW n, x = <<a, b, n>>, a < b, Naming(claims, v, a), Naming(claims, v, b),
             n \in Disputed(Contradiction!RecordOf(a, claims), Contradiction!RecordOf(b, claims), ScopeOf(claims, v))
      PROVE  x \in Contradiction!Disagreements(claims)
  <2>1. PICK c \in Contradiction!RecordOf(a, claims) :
          /\ n = c.name
          /\ \E e \in Contradiction!RecordOf(b, claims) :
               /\ e.name = c.name /\ e.cls = c.cls
               /\ Contradiction!Comparable(c.cls, c.txn, ScopeOf(claims, v)) /\ ~ Contradiction!Agree(c, e)
    BY <1>3 DEF Disputed
  <2>2. PICK d \in Contradiction!RecordOf(b, claims) :
          /\ d.name = c.name /\ d.cls = c.cls
          /\ Contradiction!Comparable(c.cls, c.txn, ScopeOf(claims, v)) /\ ~ Contradiction!Agree(c, d)
    BY <2>1
  <2>3. c \in claims /\ c.record = a /\ d \in claims /\ d.record = b
    BY DEF Contradiction!RecordOf
  <2>4. ScopeOf(claims, v) \in Contradiction!Matrix(c.cls, Subject(c)) \cap Contradiction!JointScopes(claims, a, b)
    BY <1>3, <2>2, MatrixIs, ScopesAre
  <2>5. IF "date" \in {c.gran, d.gran} /\ c.cls = "date"
        THEN c.key \div 2 # d.key \div 2
        ELSE c.key # d.key
    BY <2>2, MatrixIs
  <2>6. <<c, d>> \in Rivals(claims)
    <3>1. <<c, d>>[1] = c /\ <<c, d>>[2] = d /\ <<c, d>> \in claims \X claims
      BY <2>3
    <3>2. /\ c.record < d.record /\ c.name = d.name /\ c.cls = d.cls
          /\ Contradiction!Matrix(c.cls, Subject(c)) \cap Contradiction!JointScopes(claims, c.record, d.record) # {}
      BY <1>3, <2>2, <2>3, <2>4
    <3>3. QED
      BY <2>5, <3>1, <3>2 DEF Rivals
  <2>7. QED
    <3> DEFINE at(q) == <<q[1].record, q[2].record, q[1].name>>
    <3>1. at(<<c, d>>) = x
      BY <1>3, <2>1, <2>3
    <3>2. Contradiction!Disagreements(claims) = {at(q) : q \in Rivals(claims)}
      BY <1>1
    <3> HIDE DEF at
    <3>3. QED
      BY <2>6, <3>1, <3>2
<1>4. QED
  BY <1>2, <1>3

(* The limits are numbers.                                                 *)
Bounded == {MaxPerAnchor, MaxPairEvals, MaxPerPair, MaxTotal, MaxStatements, MaxLlmPairs} \subseteq Nat

LEMMA ValuesAreFinite ==
  ASSUME NEW claims, Countable(claims)
  PROVE  /\ IsFiniteSet({c.key : c \in claims}) /\ {c.key : c \in claims} \subseteq Int
         /\ IsFiniteSet({c.record : c \in claims}) /\ {c.record : c \in claims} \subseteq Int
         /\ IsFiniteSet({c.name : c \in claims}) /\ {c.name : c \in claims} \subseteq Int
<1> DEFINE K == {c.key : c \in claims}
           R == {c.record : c \in claims}
           N == {c.name : c \in claims}
<1>1. IsFiniteSet(claims) /\ K \subseteq Int /\ R \subseteq Int /\ N \subseteq Int
  BY DEF Countable
<1>2. IsFiniteSet(K)
  <2> DEFINE f == [c \in claims |-> c.key]
  <2>1. K = {f[c] : c \in claims} /\ f = [c \in claims |-> f[c]]
    OBVIOUS
  <2> HIDE DEF f, K
  <2>2. QED
    BY <1>1, <2>1, ImageIs
<1>3. IsFiniteSet(R)
  <2> DEFINE f == [c \in claims |-> c.record]
  <2>1. R = {f[c] : c \in claims} /\ f = [c \in claims |-> f[c]]
    OBVIOUS
  <2> HIDE DEF f, R
  <2>2. QED
    BY <1>1, <2>1, ImageIs
<1>4. IsFiniteSet(N)
  <2> DEFINE f == [c \in claims |-> c.name]
  <2>1. N = {f[c] : c \in claims} /\ f = [c \in claims |-> f[c]]
    OBVIOUS
  <2> HIDE DEF f, N
  <2>2. QED
    BY <1>1, <2>1, ImageIs
<1>5. QED
  BY <1>1, <1>2, <1>3, <1>4

Evaluated(claims) == Contradiction!EvaluatedPairs(Contradiction!identifier_index(claims))
Compared(claims, v, a, b) ==
  Contradiction!compare_record_pair(Contradiction!RecordOf(a, claims), Contradiction!RecordOf(b, claims),
                                    ScopeOf(claims, v))

LEMMA EvaluatedAre ==
  ASSUME NEW claims, Countable(claims), Bounded
  PROVE  /\ Evaluated(claims) \subseteq Anchored(claims)
         /\ Cardinality(Anchored(claims)) <= MaxPairEvals => Evaluated(claims) = Anchored(claims)
<1>1. IsFiniteSet(Anchored(claims)) /\ Ordered(Anchored(claims)) /\ MaxPairEvals \in Nat
  BY AnchoredAre DEF Ordered, Bounded
<1>2. Evaluated(claims) = Contradiction!FirstOf(MaxPairEvals, Anchored(claims))
  BY DEF Evaluated, Contradiction!EvaluatedPairs, Anchored
<1>3. QED
  BY <1>1, <1>2, FirstOfIs

LEMMA RaisedIs ==
  ASSUME NEW claims, Countable(claims), Bounded, NEW x
  PROVE  x \in Raised(claims) <=>
           \E p \in Evaluated(claims) : \E n \in Compared(claims, p[1], p[2], p[3]) :
             x = <<p[1], p[2], p[3], n>>
  BY DEF Raised, Evaluated, Compared

LEMMA ComparedIs ==
  ASSUME NEW claims, Countable(claims), Bounded, NEW v, NEW a, NEW b
  PROVE  LET disputed == Disputed(Contradiction!RecordOf(a, claims), Contradiction!RecordOf(b, claims),
                                  ScopeOf(claims, v))
         IN /\ Compared(claims, v, a, b) \subseteq disputed
            /\ disputed \subseteq {c.name : c \in Contradiction!RecordOf(a, claims)}
            /\ Cardinality({c.name : c \in Contradiction!RecordOf(a, claims)}) <= MaxPerPair =>
                 Compared(claims, v, a, b) = disputed
<1>1. Contradiction!RecordOf(a, claims) \in SUBSET claims
  BY DEF Contradiction!RecordOf
<1>2. /\ IsFiniteSet(Contradiction!RecordOf(a, claims)) /\ MaxPerPair \in Nat
      /\ \A c \in Contradiction!RecordOf(a, claims) : c.name \in Int
  BY <1>1, FS_Subset DEF Countable, Bounded
<1>3. /\ Compared(claims, v, a, b) \subseteq Disputed(Contradiction!RecordOf(a, claims),
                                                     Contradiction!RecordOf(b, claims), ScopeOf(claims, v))
      /\ Cardinality({c.name : c \in Contradiction!RecordOf(a, claims)}) <= MaxPerPair =>
           Compared(claims, v, a, b) = Disputed(Contradiction!RecordOf(a, claims),
                                                Contradiction!RecordOf(b, claims), ScopeOf(claims, v))
  BY <1>2, ComparedAre DEF Compared
<1>4. Disputed(Contradiction!RecordOf(a, claims), Contradiction!RecordOf(b, claims), ScopeOf(claims, v))
        \subseteq {c.name : c \in Contradiction!RecordOf(a, claims)}
  BY DEF Disputed
<1>5. QED
  BY <1>3, <1>4

(* What is raised: finitely many, each a disagreement; when no bound is    *)
(* met, every disagreement.                                                *)
LEMMA RaisedAre ==
  ASSUME NEW claims, Countable(claims), Bounded
  PROVE  /\ IsFiniteSet(Raised(claims)) /\ Raised(claims) \subseteq Int \X Int \X Int \X Int
         /\ \A c \in Raised(claims) : Contradiction!Pair(c) \in Contradiction!Disagreements(claims)
<1> DEFINE K == {c.key : c \in claims}
           R == {c.record : c \in claims}
           N == {c.name : c \in claims}
<1>1. \A v, a : Naming(claims, v, a) => v \in K /\ a \in R
  BY DEF Naming, IdsOf
<1>2. ASSUME NEW x \in Raised(claims)
      PROVE  x \in K \X R \X R \X N /\ Contradiction!Pair(x) \in Contradiction!Disagreements(claims)
  <2>1. PICK p \in Evaluated(claims) : \E n \in Compared(claims, p[1], p[2], p[3]) :
          x = <<p[1], p[2], p[3], n>>
    BY <1>2, RaisedIs
  <2>2. PICK n \in Compared(claims, p[1], p[2], p[3]) : x = <<p[1], p[2], p[3], n>>
    BY <2>1
  <2>3. p[2] < p[3] /\ Naming(claims, p[1], p[2]) /\ Naming(claims, p[1], p[3])
    <3>1. p \in Anchored(claims) /\ MaxPerAnchor \in Nat
      BY EvaluatedAre DEF Bounded
    <3>2. QED
      BY <3>1, AnchoredAre
  <2>4. n \in Disputed(Contradiction!RecordOf(p[2], claims), Contradiction!RecordOf(p[3], claims),
                       ScopeOf(claims, p[1]))
    BY ComparedIs
  <2>5. n \in N
    BY <2>4 DEF Disputed, Contradiction!RecordOf
  <2>6. Contradiction!Pair(x) = <<p[2], p[3], n>>
    BY <2>2 DEF Contradiction!Pair
  <2>7. Contradiction!Pair(x) \in Contradiction!Disagreements(claims)
    BY <2>3, <2>4, <2>6, DisagreementIs
  <2>8. p[1] \in K /\ p[2] \in R /\ p[3] \in R
    BY <1>1, <2>3
  <2>9. x \in K \X R \X R \X N
    <3> HIDE DEF K, R, N
    <3> QED
      BY <2>2, <2>5, <2>8
  <2>10. QED
    BY <2>7, <2>9
<1>3. /\ IsFiniteSet(K) /\ IsFiniteSet(R) /\ IsFiniteSet(N)
      /\ K \subseteq Int /\ R \subseteq Int /\ N \subseteq Int
  BY ValuesAreFinite
<1>4. QED
  <2> HIDE DEF K, R, N
  <2>1. IsFiniteSet(K \X R \X R \X N)
    BY <1>3, ProductsAreFinite
  <2>2. Raised(claims) \in SUBSET (K \X R \X R \X N)
    BY <1>2
  <2>3. IsFiniteSet(Raised(claims))
    BY <2>1, <2>2, FS_Subset
  <2>4. Raised(claims) \subseteq Int \X Int \X Int \X Int
    BY <1>3, <2>2
  <2>5. QED
    BY <1>2, <2>3, <2>4

LEMMA RaisedAreAll ==
  ASSUME NEW claims, Countable(claims), Bounded, Contradiction!NoBoundMet(claims),
         NEW x \in Contradiction!Disagreements(claims)
  PROVE  \E c \in Raised(claims) : Contradiction!Pair(c) = x
<1> DEFINE index == Contradiction!identifier_index(claims)
           namesOf(r) == {c.name : c \in Contradiction!RecordOf(r, claims)}
<1>1. PICK v, a, b, n : /\ x = <<a, b, n>> /\ a < b
                        /\ Naming(claims, v, a) /\ Naming(claims, v, b)
                        /\ n \in Disputed(Contradiction!RecordOf(a, claims),
                                          Contradiction!RecordOf(b, claims), ScopeOf(claims, v))
  BY DisagreementIs
<1>2. /\ \A k \in DOMAIN index : Cardinality({m[1] : m \in index[k]}) <= MaxPerAnchor
      /\ Cardinality(Anchored(claims)) <= MaxPairEvals
      /\ \A r \in {c.record : c \in claims} : Cardinality(namesOf(r)) <= MaxPerPair
  BY Counted DEF Contradiction!NoBoundMet, Anchored
<1>3. v \in DOMAIN index /\ a \in {c.record : c \in claims}
  <2>1. v \in {c.key : c \in IdsOf(claims)} /\ a \in {c.record : c \in claims}
    BY <1>1 DEF Naming, IdsOf
  <2>2. QED
    BY <2>1, IndexIs
<1>4. Cardinality(Namers(claims, v)) <= MaxPerAnchor
  <2>1. {m[1] : m \in index[v]} = Namers(claims, v)
    BY <1>3, IndexIs
  <2> HIDE DEF index
  <2>2. QED
    BY <1>2, <1>3, <2>1
<1>5. <<v, a, b>> \in Evaluated(claims)
  <2>1. MaxPerAnchor \in Nat
    BY DEF Bounded
  <2>2. <<v, a, b>> \in Anchored(claims)
    BY <1>1, <1>4, <2>1, AnchoredAre
  <2>3. QED
    BY <1>2, <2>2, EvaluatedAre
<1>6. n \in Compared(claims, v, a, b)
  <2>1. Cardinality(namesOf(a)) <= MaxPerPair
    <3> HIDE DEF namesOf
    <3> QED
      BY <1>2, <1>3
  <2>2. QED
    BY <1>1, <2>1, ComparedIs
<1>7. <<v, a, b, n>> \in Raised(claims)
  <2>1. <<v, a, b>>[1] = v /\ <<v, a, b>>[2] = a /\ <<v, a, b>>[3] = b
    OBVIOUS
  <2>2. QED
    BY <1>5, <1>6, <2>1, RaisedIs
<1>8. Contradiction!Pair(<<v, a, b, n>>) = x
  BY <1>1 DEF Contradiction!Pair
<1>9. QED
  BY <1>7, <1>8

-----------------------------------------------------------------------------
(* A finite set of tuples of numbers that is not empty has one with the    *)
(* least first number.                                                     *)
LEMMA LeastExists ==
  ASSUME NEW S, IsFiniteSet(S), S # {}, \A x \in S : x[1] \in Int
  PROVE  \E x \in S : \A y \in S : x[1] <= y[1]
<1> DEFINE Q == {p \in S \X S : p[1][1] < p[2][1]}
<1>1. \A x, y \in S : <<x, y>> \in Q <=> x[1] < y[1]
  OBVIOUS
<1>2. Strict(S, Q)
  <2> HIDE DEF Q
  <2> QED
    BY <1>1 DEF Strict
<1>3. PICK x \in S : \A y \in S : <<y, x>> \notin Q
  <2> HIDE DEF Q
  <2> QED
    BY <1>2, FirstExists
<1>4. \A y \in S : x[1] <= y[1]
  <2> HIDE DEF Q
  <2>1. SUFFICES ASSUME NEW y \in S
                 PROVE  x[1] <= y[1]
    OBVIOUS
  <2>2. ~ (y[1] < x[1]) /\ x[1] \in Int /\ y[1] \in Int
    BY <1>1, <1>3
  <2>3. QED
    BY <2>2
<1>5. QED
  BY <1>4

Least(S) == {c \in S : \A d \in S : Contradiction!Pair(d) = Contradiction!Pair(c) => c[1] <= d[1]}

LEMMA ConflictsAre ==
  ASSUME NEW records, Filed(records), Bounded
  PROVE  Contradiction!generate_conflicts(records) = Contradiction!FirstOf(MaxTotal, Least(Raised(Claims(records))))
<1> DEFINE claims == Claims(records)
           index == Contradiction!identifier_index(claims)
           names(p) == Contradiction!compare_record_pair(
                         Contradiction!RecordOf(p[2], claims), Contradiction!RecordOf(p[3], claims),
                         Contradiction!anchor_scope(index[p[1]]))
           raised == UNION {{<<p[1], p[2], p[3], n>> : n \in names(p)} : p \in Contradiction!EvaluatedPairs(index)}
<1>1. Contradiction!generate_conflicts(records) = Contradiction!FirstOf(MaxTotal, Least(raised))
  BY DEF Contradiction!generate_conflicts, Claims, Least
<1>2. \A p \in Evaluated(claims) : names(p) = Compared(claims, p[1], p[2], p[3])
  <2> SUFFICES ASSUME NEW p \in Evaluated(claims)
               PROVE  names(p) = Compared(claims, p[1], p[2], p[3])
    OBVIOUS
  <2>1. Countable(claims) /\ MaxPerAnchor \in Nat
    BY ClaimsAreCountable DEF Bounded
  <2>2. Naming(claims, p[1], p[2])
    <3> HIDE DEF claims
    <3> QED
      BY <2>1, EvaluatedAre, AnchoredAre
  <2>3. p[1] \in {c.key : c \in IdsOf(claims)}
    BY <2>2 DEF Naming
  <2>4. Contradiction!anchor_scope(index[p[1]]) = ScopeOf(claims, p[1])
    BY <2>3, IndexIs
  <2>5. QED
    BY <2>4 DEF Compared
<1>3. raised = Raised(claims)
  <2>1. raised = UNION {{<<p[1], p[2], p[3], n>> : n \in names(p)} : p \in Evaluated(claims)}
    BY DEF Evaluated
  <2>2. Raised(claims)
          = UNION {{<<p[1], p[2], p[3], n>> : n \in Compared(claims, p[1], p[2], p[3])} : p \in Evaluated(claims)}
    BY DEF Raised, Evaluated, Compared
  <2> HIDE DEF raised, names, claims
  <2>3. QED
    BY <1>2, <2>1, <2>2
<1>4. QED
  BY <1>1, <1>3

LEMMA LeastIs ==
  ASSUME NEW S, IsFiniteSet(S), S \subseteq Int \X Int \X Int \X Int
  PROVE  /\ Least(S) \subseteq S /\ IsFiniteSet(Least(S)) /\ Ordered(Least(S))
         /\ \A c, d \in Least(S) : Contradiction!Pair(c) = Contradiction!Pair(d) => c = d
         /\ \A c \in S : \E d \in Least(S) : Contradiction!Pair(d) = Contradiction!Pair(c)
<1>1. Least(S) \in SUBSET S
  BY DEF Least
<1>2. IsFiniteSet(Least(S)) /\ Ordered(Least(S))
  BY <1>1, FS_Subset DEF Ordered
<1>3. ASSUME NEW c \in Least(S), NEW d \in Least(S), Contradiction!Pair(c) = Contradiction!Pair(d)
      PROVE  c = d
  <2>1. c \in Int \X Int \X Int \X Int /\ d \in Int \X Int \X Int \X Int
    BY <1>1
  <2>2. c[1] <= d[1] /\ d[1] <= c[1]
    BY <1>1, <1>3 DEF Least
  <2>3. c[2] = d[2] /\ c[3] = d[3] /\ c[4] = d[4]
    <3>1. <<c[2], c[3], c[4]>> = <<d[2], d[3], d[4]>>
      BY <1>3 DEF Contradiction!Pair
    <3>2. QED
      BY <3>1
  <2>4. c[1] = d[1]
    BY <2>1, <2>2
  <2>5. QED
    BY <2>1, <2>3, <2>4
<1>4. ASSUME NEW c \in S
      PROVE  \E d \in Least(S) : Contradiction!Pair(d) = Contradiction!Pair(c)
  <2> DEFINE T == {x \in S : Contradiction!Pair(x) = Contradiction!Pair(c)}
  <2>1. T \in SUBSET S /\ T # {} /\ \A x \in T : x[1] \in Int
    OBVIOUS
  <2>2. PICK d \in T : \A y \in T : d[1] <= y[1]
    <3> HIDE DEF T
    <3>1. IsFiniteSet(T)
      BY <2>1, FS_Subset
    <3>2. QED
      BY <2>1, <3>1, LeastExists
  <2>3. d \in S /\ Contradiction!Pair(d) = Contradiction!Pair(c)
    OBVIOUS
  <2>4. ASSUME NEW x \in S, Contradiction!Pair(x) = Contradiction!Pair(d)
        PROVE  d[1] <= x[1]
    BY <2>2, <2>3, <2>4
  <2>5. d \in Least(S)
    BY <2>3, <2>4 DEF Least
  <2>6. QED
    BY <2>3, <2>5
<1>5. QED
  BY <1>1, <1>2, <1>3, <1>4

(* Whatever the records of a case: the conflicts reported are disagreements*)
(* under an anchor that the matrix allows, each pair and name once and no  *)
(* more than the bound; and all of them when no bound is met               *)
(* (contradiction_detection.py).                                           *)
THEOREM ConflictsMeetIt ==
  ASSUME NEW records, Filed(records), Bounded
  PROVE  Contradiction!MeetsTheMatrix(records, Contradiction!generate_conflicts(records))
<1> DEFINE claims == Claims(records)
           conflicts == Contradiction!generate_conflicts(records)
           least == Least(Raised(claims))
           wrong == Contradiction!Disagreements(claims)
           pair == [c \in least |-> Contradiction!Pair(c)]
<1>1. Countable(claims) /\ MaxTotal \in Nat
  BY ClaimsAreCountable DEF Bounded
<1>2. /\ IsFiniteSet(Raised(claims)) /\ Raised(claims) \subseteq Int \X Int \X Int \X Int
      /\ \A c \in Raised(claims) : Contradiction!Pair(c) \in wrong
  <2> HIDE DEF claims
  <2> QED
    BY <1>1, RaisedAre DEF wrong
<1>3. /\ least \subseteq Raised(claims) /\ IsFiniteSet(least) /\ Ordered(least)
      /\ \A c, d \in least : Contradiction!Pair(c) = Contradiction!Pair(d) => c = d
      /\ \A c \in Raised(claims) : \E d \in least : Contradiction!Pair(d) = Contradiction!Pair(c)
  <2> HIDE DEF claims
  <2> QED
    BY <1>2, LeastIs
<1>4. /\ conflicts \subseteq least /\ Cardinality(conflicts) <= MaxTotal
      /\ Cardinality(least) <= MaxTotal => conflicts = least
  <2>1. conflicts = Contradiction!FirstOf(MaxTotal, least)
    BY ConflictsAre
  <2> HIDE DEF least, conflicts
  <2>2. QED
    BY <1>1, <1>3, <2>1, FirstOfIs
<1>5. {Contradiction!Pair(c) : c \in conflicts} \subseteq wrong
  <2> HIDE DEF least, conflicts, wrong, claims
  <2> QED
    BY <1>2, <1>3, <1>4
<1>6. ASSUME Contradiction!NoBoundMet(claims)
      PROVE  wrong \subseteq {Contradiction!Pair(c) : c \in conflicts}
  <2> DEFINE named == {pair[c] : c \in least}
  <2>1. \A x \in wrong : \E c \in Raised(claims) : Contradiction!Pair(c) = x
    <3> HIDE DEF claims
    <3> QED
      BY <1>1, <1>6, RaisedAreAll DEF wrong
  <2>2. named = wrong
    <3>1. \A c \in least : pair[c] = Contradiction!Pair(c)
      OBVIOUS
    <3> HIDE DEF least, wrong, claims, pair
    <3>2. QED
      BY <1>2, <1>3, <2>1, <3>1
  <2>3. Cardinality(named) = Cardinality(least)
    <3>1. /\ pair = [c \in least |-> pair[c]]
          /\ \A c, d \in least : pair[c] = pair[d] => c = d
      BY <1>3
    <3> HIDE DEF least, pair
    <3>2. QED
      BY <1>3, <3>1, ImageIs
  <2>4. Cardinality(wrong) <= MaxTotal
    BY <1>6, Counted DEF Contradiction!NoBoundMet
  <2>5. conflicts = least
    <3> HIDE DEF named, least, wrong, conflicts
    <3> QED
      BY <1>4, <2>2, <2>3, <2>4
  <2>6. \A c \in least : pair[c] = Contradiction!Pair(c)
    OBVIOUS
  <2>7. QED
    <3> HIDE DEF least, wrong, conflicts, pair
    <3> QED
      BY <2>2, <2>5, <2>6
<1>7. \A c, d \in conflicts : Contradiction!Pair(c) = Contradiction!Pair(d) => c = d
  <2> HIDE DEF least, conflicts
  <2> QED
    BY <1>3, <1>4
<1>8. QED
  BY <1>4, <1>5, <1>6, <1>7, Counted DEF Contradiction!MeetsTheMatrix, Claims

-----------------------------------------------------------------------------
(* Statements: finitely many, each a text of a record that no rule reads,  *)
(* or one that an extraction found.                                        *)
Spoken(statements) == IsFiniteSet(statements) /\ \A s \in statements : s.name \in Int

LEMMA StatementIs ==
  ASSUME NEW records, NEW extractions, NEW s \in Contradiction!collect_statements(records, extractions)
  PROVE  \E r \in records :
           /\ r.id = s.record
           /\ \/ s.name = Extracted
              \/ \E j \in DOMAIN r.fields :
                   s.name = r.fields[j].name /\ Contradiction!classify_field(r.fields[j]) = "none"
<1>1. s \in UNION {Contradiction!OwnStatements(r) : r \in records}
      \/ s \in UNION {Contradiction!FoundStatements(e) :
                        e \in {x \in extractions : \E r \in records : r.id = x.record}}
  BY DEF Contradiction!collect_statements
<1>2. CASE s \in UNION {Contradiction!OwnStatements(r) : r \in records}
  <2>1. PICK r \in records : s \in Contradiction!OwnStatements(r)
    BY <1>2
  <2>2. PICK j \in DOMAIN r.fields :
          /\ Contradiction!IsStatement(r.fields[j])
          /\ s = Contradiction!Says(r.id, r.fields[j].name, r.fields[j].raw)
    BY <2>1 DEF Contradiction!OwnStatements
  <2>3. Contradiction!classify_field(r.fields[j]) = "none" /\ s.record = r.id /\ s.name = r.fields[j].name
    BY <2>2 DEF Contradiction!IsStatement, Contradiction!Says
  <2>4. QED
    BY <2>3
<1>3. CASE s \in UNION {Contradiction!FoundStatements(e) :
                          e \in {x \in extractions : \E r \in records : r.id = x.record}}
  <2>1. PICK e \in extractions : (\E r \in records : r.id = e.record) /\ s \in Contradiction!FoundStatements(e)
    BY <1>3
  <2>2. s.record = e.record /\ s.name = Extracted
    BY <2>1 DEF Contradiction!FoundStatements, Contradiction!Says
  <2>3. QED
    BY <2>1, <2>2
<1>4. QED
  BY <1>1, <1>2, <1>3

LEMMA StatementsAreFew ==
  ASSUME NEW records, Filed(records), Extracted \in Int,
         NEW extractions, IsFiniteSet(extractions), \A e \in extractions : IsFiniteSet(DOMAIN e.said)
  PROVE  Spoken(Contradiction!collect_statements(records, extractions))
<1>1. ASSUME NEW r \in records
      PROVE  IsFiniteSet(Contradiction!OwnStatements(r))
  <2> DEFINE said == {j \in DOMAIN r.fields : Contradiction!IsStatement(r.fields[j])}
             first == {h \in said : Contradiction!Cardinality({g \in said : g < h}) < MaxStatements}
             f == [j \in first |-> Contradiction!Says(r.id, r.fields[j].name, r.fields[j].raw)]
  <2>1. Contradiction!OwnStatements(r) = {f[j] : j \in first} /\ f = [j \in first |-> f[j]]
    BY DEF Contradiction!OwnStatements
  <2>2. IsFiniteSet(first)
    <3>1. first \in SUBSET DOMAIN r.fields /\ IsFiniteSet(DOMAIN r.fields)
      BY DEF Filed
    <3>2. QED
      BY <3>1, FS_Subset
  <2> HIDE DEF f, first
  <2>3. QED
    BY <2>1, <2>2, ImageIs
<1>2. ASSUME NEW e \in extractions
      PROVE  IsFiniteSet(Contradiction!FoundStatements(e))
  <2> DEFINE first == {h \in DOMAIN e.said : h <= MaxStatements /\ e.said[h].long}
             f == [j \in first |-> Contradiction!Says(e.record, Extracted, e.said[j].raw)]
  <2>1. Contradiction!FoundStatements(e) = {f[j] : j \in first} /\ f = [j \in first |-> f[j]]
    BY DEF Contradiction!FoundStatements
  <2>2. IsFiniteSet(first)
    <3>1. first \in SUBSET DOMAIN e.said
      OBVIOUS
    <3>2. QED
      BY <3>1, FS_Subset
  <2> HIDE DEF f, first
  <2>3. QED
    BY <2>1, <2>2, ImageIs
<1> DEFINE own == [r \in records |-> Contradiction!OwnStatements(r)]
           Own == {own[r] : r \in records}
           heard == {x \in extractions : \E r \in records : r.id = x.record}
           found == [e \in heard |-> Contradiction!FoundStatements(e)]
           Found == {found[e] : e \in heard}
<1>3. IsFiniteSet(UNION Own)
  <2>1. \A t \in Own : IsFiniteSet(t)
    BY <1>1
  <2>2. own = [r \in records |-> own[r]] /\ IsFiniteSet(records)
    BY DEF Filed
  <2> HIDE DEF own
  <2>3. IsFiniteSet(Own)
    BY <2>2, ImageIs
  <2>4. QED
    BY <2>1, <2>3, FS_UNION
<1>4. IsFiniteSet(UNION Found)
  <2>1. \A t \in Found : IsFiniteSet(t)
    BY <1>2
  <2>2. found = [e \in heard |-> found[e]] /\ IsFiniteSet(heard)
    <3>1. heard \in SUBSET extractions
      OBVIOUS
    <3>2. IsFiniteSet(heard)
      BY <3>1, FS_Subset
    <3>3. QED
      BY <3>2
  <2> HIDE DEF found, heard
  <2>3. IsFiniteSet(Found)
    BY <2>2, ImageIs
  <2>4. QED
    BY <2>1, <2>3, FS_UNION
<1>5. Contradiction!collect_statements(records, extractions) = (UNION Own) \cup (UNION Found)
  BY DEF Contradiction!collect_statements
<1>6. IsFiniteSet(Contradiction!collect_statements(records, extractions))
  <2> DEFINE A == UNION Own
             B == UNION Found
  <2>1. IsFiniteSet(A) /\ IsFiniteSet(B)
    BY <1>3, <1>4
  <2> HIDE DEF A, B
  <2>2. IsFiniteSet(A \cup B)
    BY <2>1, FS_Union
  <2>3. QED
    BY <1>5, <2>2 DEF A, B
<1>7. \A s \in Contradiction!collect_statements(records, extractions) : s.name \in Int
  BY StatementIs DEF Filed
<1>8. QED
  BY <1>6, <1>7 DEF Spoken

-----------------------------------------------------------------------------
(* What is put to the model: of each anchored pair of records that say     *)
(* something, the name whose turn it is.                                   *)
Put(records, statements) == Anchored(Claims(Contradiction!Speaking(records, statements)))
Earlier(p, pairs) == {q \in pairs : q[2] = p[2] /\ q[3] = p[3] /\ q[1] < p[1]}
LessThan(n, names) == {m \in names : m < n}
Turns(p, pairs, statements) ==
  {n \in Contradiction!Differ(p[2], p[3], statements) :
     Cardinality(LessThan(n, Contradiction!Differ(p[2], p[3], statements))) = Cardinality(Earlier(p, pairs))}
Asked(records, statements) ==
  UNION { {<<p[1], p[2], p[3], n>> : n \in Turns(p, Put(records, statements), statements)} :
          p \in Put(records, statements) }

LEMMA SentIs ==
  ASSUME NEW records, NEW statements, NEW limit
  PROVE  Contradiction!semantic_pairs(records, statements, limit)
           = Contradiction!FirstOf(limit, Asked(records, statements))
<1> DEFINE pairs == Put(records, statements)
           names(p) == Contradiction!Differ(p[2], p[3], statements)
           next(p) == {n \in names(p) : Contradiction!Cardinality({m \in names(p) : m < n})
                                          = Contradiction!Cardinality({q \in pairs : q[2] = p[2] /\ q[3] = p[3] /\ q[1] < p[1]})}
<1>1. Contradiction!semantic_pairs(records, statements, limit)
        = Contradiction!FirstOf(limit, UNION {{<<p[1], p[2], p[3], n>> : n \in next(p)} : p \in pairs})
  BY DEF Contradiction!semantic_pairs, Put, Anchored, Claims
<1>2. \A p : next(p) = Turns(p, pairs, statements)
  BY Counted DEF Turns, Earlier, LessThan
<1>3. Asked(records, statements) = UNION {{<<p[1], p[2], p[3], n>> : n \in Turns(p, pairs, statements)} : p \in pairs}
  BY DEF Asked
<1>4. QED
  <2> HIDE DEF pairs, next
  <2> QED
    BY <1>1, <1>2, <1>3

LEMMA DifferIs ==
  ASSUME NEW statements, Spoken(statements), NEW a, NEW b
  PROVE  IsFiniteSet(Contradiction!Differ(a, b, statements)) /\ Contradiction!Differ(a, b, statements) \subseteq Int
<1> DEFINE N == {s.name : s \in statements}
           f == [s \in statements |-> s.name]
<1>1. N = {f[s] : s \in statements} /\ f = [s \in statements |-> f[s]] /\ IsFiniteSet(statements)
  BY DEF Spoken
<1>2. IsFiniteSet(N)
  <2> HIDE DEF f, N
  <2> QED
    BY <1>1, ImageIs
<1>3. Contradiction!Differ(a, b, statements) \in SUBSET N /\ N \subseteq Int
  BY DEF Contradiction!Differ, Spoken
<1>4. QED
  <2> HIDE DEF N
  <2> QED
    BY <1>2, <1>3, FS_Subset

LEMMA AskedAre ==
  ASSUME NEW records, Filed(records), Bounded, NEW statements, Spoken(statements)
  PROVE  /\ IsFiniteSet(Put(records, statements)) /\ Put(records, statements) \subseteq Int \X Int \X Int
         /\ IsFiniteSet(Asked(records, statements)) /\ Ordered(Asked(records, statements))
         /\ Asked(records, statements) \subseteq Int \X Int \X Int \X Int
<1> DEFINE speaking == Contradiction!Speaking(records, statements)
           pairs == Put(records, statements)
           asked == Asked(records, statements)
<1>1. Filed(speaking)
  <2>1. speaking \in SUBSET records
    BY DEF Contradiction!Speaking
  <2>2. QED
    BY <2>1, FS_Subset DEF Filed
<1>2. IsFiniteSet(pairs) /\ pairs \subseteq Int \X Int \X Int
  <2>1. Countable(Claims(speaking)) /\ MaxPerAnchor \in Nat
    BY <1>1, ClaimsAreCountable DEF Bounded
  <2>2. QED
    BY <2>1, AnchoredAre DEF Put
<1>3. asked \subseteq Int \X Int \X Int \X Int
  <2>1. SUFFICES ASSUME NEW x \in asked
                 PROVE  x \in Int \X Int \X Int \X Int
    OBVIOUS
  <2>2. PICK p \in pairs : \E n \in Turns(p, pairs, statements) : x = <<p[1], p[2], p[3], n>>
    BY DEF Asked
  <2>3. PICK n \in Turns(p, pairs, statements) : x = <<p[1], p[2], p[3], n>>
    BY <2>2
  <2>4. n \in Int
    BY DifferIs DEF Turns
  <2>5. p \in Int \X Int \X Int
    BY <1>2
  <2>6. QED
    BY <2>3, <2>4, <2>5
<1>4. IsFiniteSet(asked)
  <2> DEFINE of == [p \in pairs |-> {<<p[1], p[2], p[3], n>> : n \in Turns(p, pairs, statements)}]
             T == {of[p] : p \in pairs}
  <2>1. asked = UNION T /\ of = [p \in pairs |-> of[p]]
    BY DEF Asked
  <2>2. ASSUME NEW p \in pairs
        PROVE  IsFiniteSet(of[p])
    <3> DEFINE turns == Turns(p, pairs, statements)
               f == [n \in turns |-> <<p[1], p[2], p[3], n>>]
    <3>1. of[p] = {f[n] : n \in turns} /\ f = [n \in turns |-> f[n]]
      OBVIOUS
    <3>2. turns \in SUBSET Contradiction!Differ(p[2], p[3], statements)
      BY DEF Turns
    <3> HIDE DEF f, turns, of
    <3>3. IsFiniteSet(turns)
      BY <3>2, DifferIs, FS_Subset
    <3>4. QED
      BY <3>1, <3>3, ImageIs
  <2>3. \A t \in T : IsFiniteSet(t)
    <3> HIDE DEF of
    <3> QED
      BY <2>2
  <2> HIDE DEF of, pairs
  <2>4. IsFiniteSet(T)
    BY <1>2, <2>1, ImageIs DEF pairs
  <2>5. QED
    BY <2>1, <2>3, <2>4, FS_UNION
<1>5. QED
  BY <1>2, <1>3, <1>4 DEF Ordered

(* Of a pair of records one name is put under each anchor, another one     *)
(* under each: as many names are less than it as anchors are before.       *)
LEMMA AskedAreApart ==
  ASSUME NEW records, Filed(records), Bounded, NEW statements, Spoken(statements),
         NEW x \in Asked(records, statements), NEW y \in Asked(records, statements),
         Contradiction!Pair(x) = Contradiction!Pair(y)
  PROVE  x = y
<1> DEFINE pairs == Put(records, statements)
<1>1. IsFiniteSet(pairs) /\ pairs \subseteq Int \X Int \X Int
  BY AskedAre
<1>2. ASSUME NEW z \in Asked(records, statements)
      PROVE  /\ <<z[1], z[2], z[3]>> \in pairs /\ z = <<z[1], z[2], z[3], z[4]>>
             /\ Cardinality(LessThan(z[4], Contradiction!Differ(z[2], z[3], statements)))
                  = Cardinality(Earlier(<<z[1], z[2], z[3]>>, pairs))
  <2>1. PICK p \in pairs : \E n \in Turns(p, pairs, statements) : z = <<p[1], p[2], p[3], n>>
    BY DEF Asked
  <2>2. PICK n \in Turns(p, pairs, statements) : z = <<p[1], p[2], p[3], n>>
    BY <2>1
  <2>3. p = <<p[1], p[2], p[3]>>
    BY <1>1
  <2>4. z[1] = p[1] /\ z[2] = p[2] /\ z[3] = p[3] /\ z[4] = n
    BY <2>2
  <2>5. Cardinality(LessThan(n, Contradiction!Differ(p[2], p[3], statements))) = Cardinality(Earlier(p, pairs))
    BY DEF Turns
  <2> HIDE DEF pairs
  <2>6. QED
    BY <2>2, <2>3, <2>4, <2>5
<1> DEFINE p == <<x[1], x[2], x[3]>>
           q == <<y[1], y[2], y[3]>>
<1>3. x[2] = y[2] /\ x[3] = y[3] /\ x[4] = y[4]
  <2>1. <<x[2], x[3], x[4]>> = <<y[2], y[3], y[4]>>
    BY DEF Contradiction!Pair
  <2>2. QED
    BY <2>1
<1>4. p \in pairs /\ q \in pairs /\ Cardinality(Earlier(p, pairs)) = Cardinality(Earlier(q, pairs))
  <2> HIDE DEF pairs
  <2> QED
    BY <1>2, <1>3
<1>5. p[1] = x[1] /\ p[2] = x[2] /\ p[3] = x[3] /\ q[1] = y[1] /\ q[2] = y[2] /\ q[3] = y[3]
  OBVIOUS
<1>6. ASSUME NEW s \in pairs, NEW t \in pairs, s[2] = t[2], s[3] = t[3], s[1] < t[1]
      PROVE  Cardinality(Earlier(s, pairs)) # Cardinality(Earlier(t, pairs))
  <2>1. Earlier(t, pairs) \in SUBSET pairs
    BY DEF Earlier
  <2>2. IsFiniteSet(Earlier(t, pairs))
    <3> HIDE DEF pairs
    <3> QED
      BY <1>1, <2>1, FS_Subset
  <2>3. s[1] \in Int /\ t[1] \in Int /\ \A u \in pairs : u[1] \in Int
    BY <1>1
  <2> HIDE DEF pairs
  <2>4. Earlier(s, pairs) \in SUBSET Earlier(t, pairs) /\ s \in Earlier(t, pairs) \ Earlier(s, pairs)
    BY <1>6, <2>3 DEF Earlier
  <2>5. /\ Cardinality(Earlier(s, pairs)) < Cardinality(Earlier(t, pairs))
        /\ Cardinality(Earlier(s, pairs)) \in Nat /\ Cardinality(Earlier(t, pairs)) \in Nat
    BY <2>2, <2>4, Part
  <2>6. QED
    BY <2>5
<1>7. p[1] = q[1]
  <2>1. p[1] \in Int /\ q[1] \in Int
    BY <1>1, <1>4
  <2>2. p[2] = q[2] /\ p[3] = q[3]
    BY <1>3, <1>5
  <2> HIDE DEF p, q, pairs
  <2>3. ~ (p[1] < q[1]) /\ ~ (q[1] < p[1])
    BY <1>4, <1>6, <2>2
  <2>4. QED
    BY <2>1, <2>3
<1>8. QED
  <2>1. x = <<x[1], x[2], x[3], x[4]>> /\ y = <<y[1], y[2], y[3], y[4]>>
    BY <1>2
  <2>2. QED
    BY <1>3, <1>5, <1>7, <2>1

(* The model is asked about a pair of records and a name once, however     *)
(* many identifiers the records share, and never beyond the limit          *)
(* (contradiction_detection.py).                                           *)
THEOREM EachIsAskedOnce ==
  ASSUME NEW records, Filed(records), Bounded, NEW statements, Spoken(statements), NEW limit \in Nat
  PROVE  Contradiction!AskedOnce(Contradiction!semantic_pairs(records, statements, limit), limit)
<1> DEFINE sent == Contradiction!semantic_pairs(records, statements, limit)
<1>1. sent \subseteq Asked(records, statements) /\ Cardinality(sent) <= limit
  BY SentIs, AskedAre, FirstOfIs
<1>2. \A p, q \in sent : Contradiction!Pair(p) = Contradiction!Pair(q) => p = q
  BY <1>1, AskedAreApart
<1>3. QED
  BY <1>1, <1>2, Counted DEF Contradiction!AskedOnce

-----------------------------------------------------------------------------
(* A name that both passes take up is one under which a record says two    *)
(* things: a claim is what the rules read of it, a statement what they do  *)
(* not.                                                                    *)
LEMMA BothTakeUpTwo ==
  ASSUME NEW records, Filed(records), Bounded, NEW extractions, NEW limit \in Nat,
         Spoken(Contradiction!collect_statements(records, extractions)),
         NEW c \in Contradiction!generate_conflicts(records),
         NEW q \in Contradiction!semantic_pairs(records, Contradiction!collect_statements(records, extractions), limit),
         Contradiction!Pair(c) = Contradiction!Pair(q)
  PROVE  \E r \in records : r.id = c[2] /\ Contradiction!SaysTwice(r, c[4])
<1> DEFINE claims == Claims(records)
           statements == Contradiction!collect_statements(records, extractions)
<1>1. c[2] = q[2] /\ c[3] = q[3] /\ c[4] = q[4]
  <2>1. <<c[2], c[3], c[4]>> = <<q[2], q[3], q[4]>>
    BY DEF Contradiction!Pair
  <2>2. QED
    BY <2>1
<1>2. PICK d \in claims : d.record = c[2] /\ d.name = c[4]
  <2>1. Countable(claims) /\ MaxTotal \in Nat
    BY ClaimsAreCountable DEF Bounded
  <2>2. /\ IsFiniteSet(Raised(claims)) /\ Raised(claims) \subseteq Int \X Int \X Int \X Int
        /\ \A x \in Raised(claims) : Contradiction!Pair(x) \in Contradiction!Disagreements(claims)
    <3> HIDE DEF claims
    <3> QED
      BY <2>1, RaisedAre
  <2>3. c \in Raised(claims)
    <3>1. Least(Raised(claims)) \subseteq Raised(claims) /\ IsFiniteSet(Least(Raised(claims)))
          /\ Ordered(Least(Raised(claims)))
      BY <2>2, LeastIs
    <3>2. c \in Contradiction!FirstOf(MaxTotal, Least(Raised(claims)))
      BY ConflictsAre
    <3> HIDE DEF claims
    <3>3. QED
      BY <2>1, <3>1, <3>2, FirstOfIs
  <2>4. Contradiction!Pair(c) \in Contradiction!Disagreements(claims)
    BY <2>2, <2>3
  <2>5. PICK v, a, b, n : /\ Contradiction!Pair(c) = <<a, b, n>>
                          /\ n \in Disputed(Contradiction!RecordOf(a, claims),
                                            Contradiction!RecordOf(b, claims), ScopeOf(claims, v))
    BY <2>4, DisagreementIs
  <2>6. c[2] = a /\ c[4] = n
    <3>1. <<c[2], c[3], c[4]>> = <<a, b, n>>
      BY <2>5 DEF Contradiction!Pair
    <3>2. QED
      BY <3>1
  <2>7. QED
    BY <2>5, <2>6 DEF Disputed, Contradiction!RecordOf
<1>3. PICK r \in records : \E j \in DOMAIN r.fields :
        /\ d.record = r.id /\ d.name = r.fields[j].name
        /\ Contradiction!classify_field(r.fields[j]) # "none"
  BY ClaimIs
<1>4. PICK i \in DOMAIN r.fields :
        /\ d.record = r.id /\ d.name = r.fields[i].name
        /\ Contradiction!classify_field(r.fields[i]) # "none"
  BY <1>3
<1>5. PICK s \in statements : s.record = q[2] /\ s.name = q[4]
  <2>1. q \in Asked(records, statements)
    BY SentIs, AskedAre, FirstOfIs
  <2>2. PICK p \in Put(records, statements) :
          \E n \in Turns(p, Put(records, statements), statements) : q = <<p[1], p[2], p[3], n>>
    BY <2>1 DEF Asked
  <2>3. PICK n \in Contradiction!Differ(p[2], p[3], statements) : q = <<p[1], p[2], p[3], n>>
    BY <2>2 DEF Turns
  <2>4. q[2] = p[2] /\ q[4] = n
    BY <2>3
  <2> HIDE DEF statements
  <2>5. QED
    BY <2>4 DEF Contradiction!Differ
<1>6. PICK o \in records :
        /\ o.id = s.record
        /\ \/ s.name = Extracted
           \/ \E j \in DOMAIN o.fields :
                s.name = o.fields[j].name /\ Contradiction!classify_field(o.fields[j]) = "none"
  BY StatementIs
<1>7. o = r /\ r.id = c[2] /\ s.name = c[4] /\ r.fields[i].name = c[4]
  <2>1. o.id = r.id /\ r.id = c[2]
    BY <1>1, <1>2, <1>4, <1>5, <1>6
  <2>2. o = r
    BY <2>1 DEF Filed
  <2>3. QED
    BY <1>1, <1>2, <1>4, <1>5, <2>1, <2>2
<1>8. Contradiction!SaysTwice(r, c[4])
  <2>1. CASE s.name = Extracted
    BY <1>7, <2>1 DEF Contradiction!SaysTwice
  <2>2. CASE \E j \in DOMAIN o.fields :
               s.name = o.fields[j].name /\ Contradiction!classify_field(o.fields[j]) = "none"
    <3>1. PICK j \in DOMAIN r.fields :
            c[4] = r.fields[j].name /\ Contradiction!classify_field(r.fields[j]) = "none"
      BY <1>7, <2>2
    <3>2. i # j
      BY <1>4, <3>1
    <3>3. QED
      BY <1>7, <3>1, <3>2 DEF Contradiction!SaysTwice
  <2>3. QED
    BY <1>6, <2>1, <2>2
<1>9. QED
  BY <1>7, <1>8

(* Of two records that name one value and differ in what they say, some    *)
(* name is put: the least one, under the first of their anchors.           *)
LEMMA DifferingAreAsked ==
  ASSUME NEW records, Filed(records), Bounded, NEW statements, Spoken(statements),
         NEW a, NEW b, NEW v, <<v, a, b>> \in Put(records, statements),
         Contradiction!Differ(a, b, statements) # {}
  PROVE  \E q \in Asked(records, statements) : q[2] = a /\ q[3] = b
<1> DEFINE pairs == Put(records, statements)
           names == Contradiction!Differ(a, b, statements)
           shared == {p \in pairs : p[2] = a /\ p[3] = b}
           single == {<<n>> : n \in names}
<1>1. IsFiniteSet(pairs) /\ pairs \subseteq Int \X Int \X Int
  BY AskedAre
<1>2. PICK p \in shared : \A q \in shared : p[1] <= q[1]
  <2>1. shared \in SUBSET pairs /\ \A q \in shared : q[1] \in Int
    BY <1>1
  <2>2. <<v, a, b>> \in shared
    OBVIOUS
  <2> HIDE DEF shared, pairs
  <2>3. IsFiniteSet(shared)
    BY <1>1, <2>1, FS_Subset
  <2>4. QED
    BY <2>1, <2>2, <2>3, LeastExists
<1>3. p \in pairs /\ p[2] = a /\ p[3] = b
  OBVIOUS
<1>4. Earlier(p, pairs) = {}
  <2>1. SUFFICES ASSUME NEW q \in pairs, q[2] = p[2], q[3] = p[3], q[1] < p[1]
                 PROVE  FALSE
    BY DEF Earlier
  <2>2. q \in shared /\ q[1] \in Int /\ p[1] \in Int
    BY <1>1, <1>3, <2>1
  <2>3. QED
    BY <1>2, <2>1, <2>2
<1>5. PICK t \in single : \A u \in single : t[1] <= u[1]
  <2>1. IsFiniteSet(names) /\ names \subseteq Int
    BY DifferIs
  <2>2. IsFiniteSet(single)
    <3> DEFINE f == [n \in names |-> <<n>>]
    <3>1. single = {f[n] : n \in names} /\ f = [n \in names |-> f[n]]
      OBVIOUS
    <3> HIDE DEF f, single, names
    <3>2. QED
      BY <2>1, <3>1, ImageIs
  <2>3. single # {} /\ \A u \in single : u[1] \in Int
    <3>1. \A n \in names : n \in Int
      BY <2>1
    <3>2. PICK n \in names : TRUE
      OBVIOUS
    <3>3. <<n>> \in single
      BY <3>2
    <3> HIDE DEF names
    <3>4. \A u \in single : u[1] \in Int
      BY <3>1
    <3>5. QED
      BY <3>3, <3>4
  <2> HIDE DEF single
  <2>4. QED
    BY <2>2, <2>3, LeastExists
<1>6. PICK n \in names : \A m \in names : n <= m
  <2>1. PICK n \in names : t = <<n>>
    OBVIOUS
  <2>2. \A m \in names : <<m>> \in single /\ <<m>>[1] = m
    OBVIOUS
  <2> HIDE DEF single, names
  <2>3. t[1] = n
    BY <2>1
  <2>4. QED
    BY <1>5, <2>1, <2>2, <2>3
<1>7. LessThan(n, names) = {}
  <2>1. names \subseteq Int
    BY DifferIs
  <2> HIDE DEF names
  <2>2. \A m \in names : ~ (m < n)
    BY <1>6, <2>1
  <2>3. QED
    BY <2>2 DEF LessThan
<1>8. n \in Turns(p, pairs, statements)
  BY <1>3, <1>4, <1>7 DEF Turns
<1>9. <<p[1], p[2], p[3], n>> \in Asked(records, statements)
  BY <1>3, <1>8 DEF Asked
<1>10. <<p[1], p[2], p[3], n>>[2] = a /\ <<p[1], p[2], p[3], n>>[3] = b
  BY <1>3
<1>11. QED
  BY <1>9, <1>10

(* A record names what its identifier claims say, alone or among others.   *)
NamesOf(r) == {c.key : c \in {d \in Contradiction!record_claims(r) : d.cls = "identifier"}}
NamingIds(records, k) == {r.id : r \in {q \in records : k \in NamesOf(q)}}

LEMMA NamesAre ==
  ASSUME NEW records, Filed(records), NEW part \in SUBSET records
  PROVE  /\ \A r \in part : \A k \in NamesOf(r) : Naming(Claims(part), k, r.id)
         /\ \A k : Namers(Claims(part), k) \subseteq NamingIds(records, k)
         /\ \A k : IsFiniteSet(NamingIds(records, k))
<1>1. ASSUME NEW r \in part, NEW c \in Contradiction!record_claims(r)
      PROVE  c.record = r.id
  <2>1. \A x \in Contradiction!record_claims(r) : x.record = r.id
    BY DEF Contradiction!record_claims
  <2>2. QED
    BY <2>1
<1>2. ASSUME NEW r \in part, NEW k \in NamesOf(r)
      PROVE  Naming(Claims(part), k, r.id)
  <2>1. PICK c \in Contradiction!record_claims(r) : c.cls = "identifier" /\ c.key = k
    BY DEF NamesOf
  <2>2. c \in Claims(part)
    BY DEF Claims
  <2>3. QED
    BY <1>1, <2>1, <2>2 DEF Naming, IdsOf
<1>3. ASSUME NEW k, NEW a \in Namers(Claims(part), k)
      PROVE  a \in NamingIds(records, k)
  <2>1. PICK c \in Claims(part) : c.cls = "identifier" /\ c.key = k /\ a = c.record
    BY DEF Namers, IdsOf
  <2>2. PICK r \in part : c \in Contradiction!record_claims(r)
    BY DEF Claims
  <2>3. a = r.id /\ k \in NamesOf(r) /\ r \in records
    BY <1>1, <2>1, <2>2 DEF NamesOf
  <2>4. QED
    BY <2>3 DEF NamingIds
<1>4. ASSUME NEW k
      PROVE  IsFiniteSet(NamingIds(records, k))
  <2> DEFINE S == {q \in records : k \in NamesOf(q)}
             f == [r \in S |-> r.id]
  <2>1. NamingIds(records, k) = {f[r] : r \in S} /\ f = [r \in S |-> f[r]]
    BY DEF NamingIds
  <2>2. IsFiniteSet(S)
    <3>1. S \in SUBSET records
      OBVIOUS
    <3>2. QED
      BY <3>1, FS_Subset DEF Filed
  <2> HIDE DEF f, S
  <2>3. QED
    BY <2>1, <2>2, ImageIs
<1>5. QED
  BY <1>2, <1>3, <1>4

(* The two passes share a name only when a record says two things under    *)
(* it, and below the limits the model is asked about every two records     *)
(* that name one subject and differ in what they say                       *)
(* (contradiction_detection.py).                                           *)
THEOREM PassesAreComplete ==
  ASSUME NEW records, Filed(records), Bounded, Extracted \in Int, NEW limit \in Nat,
         NEW extractions, IsFiniteSet(extractions), \A e \in extractions : IsFiniteSet(DOMAIN e.said)
  PROVE  LET statements == Contradiction!collect_statements(records, extractions)
         IN Contradiction!BothPassesComplete(records, statements, Contradiction!generate_conflicts(records),
              Contradiction!semantic_pairs(records, statements, limit), limit)
<1> DEFINE statements == Contradiction!collect_statements(records, extractions)
           conflicts == Contradiction!generate_conflicts(records)
           sent == Contradiction!semantic_pairs(records, statements, limit)
           speaking == Contradiction!Speaking(records, statements)
           differ(a, b) == \E t, u \in statements : t.record = a.id /\ u.record = b.id
                                                   /\ t.name = u.name /\ t.text # u.text
<1>1. Spoken(statements)
  BY StatementsAreFew
<1>2. \A c \in conflicts : \A q \in sent : Contradiction!Pair(c) = Contradiction!Pair(q) =>
        \E r \in records : r.id = c[2] /\ Contradiction!SaysTwice(r, c[4])
  BY <1>1, BothTakeUpTwo
<1>3. ASSUME Cardinality(sent) < limit,
             \A r \in records : \A k \in NamesOf(r) : Cardinality(NamingIds(records, k)) <= MaxPerAnchor,
             NEW a \in records, NEW b \in records, a.id < b.id,
             NamesOf(a) \cap NamesOf(b) # {}, differ(a, b)
      PROVE  \E q \in sent : q[2] = a.id /\ q[3] = b.id
  <2>1. PICK v : v \in NamesOf(a) /\ v \in NamesOf(b)
    BY <1>3
  <2>2. PICK t \in statements : \E u \in statements :
          t.record = a.id /\ u.record = b.id /\ t.name = u.name /\ t.text # u.text
    BY <1>3
  <2>3. PICK u \in statements : t.record = a.id /\ u.record = b.id /\ t.name = u.name /\ t.text # u.text
    BY <2>2
  <2> HIDE DEF statements
  <2>4. a \in speaking /\ b \in speaking /\ speaking \in SUBSET records
    BY <2>3 DEF Contradiction!Speaking
  <2>5. t.name \in Contradiction!Differ(a.id, b.id, statements)
    BY <2>3 DEF Contradiction!Differ
  <2> HIDE DEF speaking
  <2>6. Countable(Claims(speaking)) /\ MaxPerAnchor \in Nat
    <3>1. Filed(speaking)
      BY <2>4, FS_Subset DEF Filed
    <3>2. QED
      BY <3>1, ClaimsAreCountable DEF Bounded
  <2>7. Cardinality(Namers(Claims(speaking), v)) <= MaxPerAnchor
    <3>1. Namers(Claims(speaking), v) \in SUBSET NamingIds(records, v) /\ IsFiniteSet(NamingIds(records, v))
      BY <2>4, NamesAre
    <3>2. /\ Cardinality(Namers(Claims(speaking), v)) <= Cardinality(NamingIds(records, v))
          /\ Cardinality(Namers(Claims(speaking), v)) \in Nat /\ Cardinality(NamingIds(records, v)) \in Nat
      BY <3>1, Part
    <3>3. Cardinality(NamingIds(records, v)) <= MaxPerAnchor
      BY <1>3, <2>1
    <3>4. QED
      BY <2>6, <3>2, <3>3
  <2>8. Naming(Claims(speaking), v, a.id) /\ Naming(Claims(speaking), v, b.id)
    BY <2>1, <2>4, NamesAre
  <2>9. <<v, a.id, b.id>> \in Put(records, statements)
    <3>1. <<v, a.id, b.id>> \in Anchored(Claims(speaking))
      BY <1>3, <2>6, <2>7, <2>8, AnchoredAre
    <3>2. QED
      BY <3>1 DEF Put, speaking
  <2>10. PICK q \in Asked(records, statements) : q[2] = a.id /\ q[3] = b.id
    BY <1>1, <2>5, <2>9, DifferingAreAsked
  <2>11. sent = Asked(records, statements)
    <3>1. sent = Contradiction!FirstOf(limit, Asked(records, statements))
      BY SentIs
    <3>2. IsFiniteSet(Asked(records, statements)) /\ Ordered(Asked(records, statements))
      BY <1>1, AskedAre
    <3> HIDE DEF sent
    <3>3. QED
      BY <1>3, <3>1, <3>2, FirstOfIs
  <2>12. QED
    BY <2>10, <2>11
<1>4. QED
  <2> HIDE DEF statements, conflicts, sent
  <2> DEFINE names(r) == {c.key : c \in {d \in Contradiction!record_claims(r) : d.cls = "identifier"}}
             naming(k) == {r.id : r \in {q \in records : k \in names(q)}}
  <2>1. (/\ Cardinality(sent) < limit
         /\ \A r \in records : \A k \in NamesOf(r) : Cardinality(NamingIds(records, k)) <= MaxPerAnchor) =>
           \A a, b \in records : a.id < b.id /\ NamesOf(a) \cap NamesOf(b) # {} /\ differ(a, b) =>
             \E q \in sent : q[2] = a.id /\ q[3] = b.id
    BY <1>3
  <2>2. (/\ Cardinality(sent) < limit
         /\ \A r \in records : \A k \in names(r) : Cardinality(naming(k)) <= MaxPerAnchor) =>
           \A a, b \in records : a.id < b.id /\ names(a) \cap names(b) # {} /\ differ(a, b) =>
             \E q \in sent : q[2] = a.id /\ q[3] = b.id
    BY ONLY <2>1 DEF NamesOf, NamingIds
  <2>3. Contradiction!BothPassesComplete(records, statements, conflicts, sent, limit)
    BY ONLY <1>2, <2>2, Counted DEF Contradiction!BothPassesComplete
  <2>4. QED
    BY <2>3 DEF statements, conflicts, sent

-----------------------------------------------------------------------------
(* The audit of a report draft: its claims, what they cite, the findings.  *)

(* The claims of a draft: numbered, with sequences of what they cite and   *)
(* say, at a position or at none.                                          *)
Claimed(claims) ==
  /\ IsFiniteSet(DOMAIN claims) /\ DOMAIN claims \subseteq Nat \ {0}
  /\ \A i \in DOMAIN claims :
       /\ claims[i].index = i /\ claims[i].start \in Int \cup {Unreadable}
       /\ IsFiniteSet(DOMAIN claims[i].cited) /\ DOMAIN claims[i].cited \subseteq Nat \ {0}
       /\ IsFiniteSet(DOMAIN AmountsIn(claims[i].text)) /\ DOMAIN AmountsIn(claims[i].text) \subseteq Nat
       /\ IsFiniteSet(DOMAIN DatesIn(claims[i].text)) /\ DOMAIN DatesIn(claims[i].text) \subseteq Nat

(* What the model sent of which such claims are made.                      *)
Readable(raw) ==
  /\ IsFiniteSet(DOMAIN raw) /\ DOMAIN raw \subseteq Nat \ {0}
  /\ \A c \in {raw[i] : i \in DOMAIN raw} :
       /\ c.start \in Int \cup {Unreadable}
       /\ IsFiniteSet(DOMAIN c.cited) /\ DOMAIN c.cited \subseteq Nat \ {0}
       /\ IsFiniteSet(DOMAIN AmountsIn(c.text)) /\ DOMAIN AmountsIn(c.text) \subseteq Nat
       /\ IsFiniteSet(DOMAIN DatesIn(c.text)) /\ DOMAIN DatesIn(c.text) \subseteq Nat

LEMMA DraftedAreClaims ==
  ASSUME NEW raw, Readable(raw)
  PROVE  /\ Claimed(Audit!normalize_claims(raw))
         /\ DOMAIN Audit!normalize_claims(raw) \subseteq DOMAIN raw
         /\ \A i \in DOMAIN Audit!normalize_claims(raw) :
              Audit!normalize_claims(raw)[i].text = raw[i].text
<1> DEFINE claims == Audit!normalize_claims(raw)
<1>1. /\ DOMAIN claims = {j \in DOMAIN raw : j <= MaxClaims}
      /\ \A i \in DOMAIN claims :
           claims[i] = [ index |-> i, text |-> raw[i].text, start |-> raw[i].start, category |-> raw[i].category,
                         problems |-> Audit!Problems(raw, i),
                         cited |-> IF "cited_ids" \in Audit!Problems(raw, i) THEN <<>> ELSE raw[i].cited ]
  BY DEF Audit!normalize_claims
<1>2. IsFiniteSet(DOMAIN claims)
  BY <1>1, FS_Subset DEF Readable
<1>3. IsFiniteSet(DOMAIN <<>>) /\ DOMAIN <<>> \subseteq Nat \ {0}
  <2>1. DOMAIN <<>> = {}
    OBVIOUS
  <2>2. QED
    BY <2>1, FS_EmptySet
<1>4. ASSUME NEW i \in DOMAIN claims
      PROVE  IsFiniteSet(DOMAIN claims[i].cited) /\ DOMAIN claims[i].cited \subseteq Nat \ {0}
  <2>1. i \in DOMAIN raw /\ (claims[i].cited = <<>> \/ claims[i].cited = raw[i].cited)
    BY <1>1
  <2>2. IsFiniteSet(DOMAIN raw[i].cited) /\ DOMAIN raw[i].cited \subseteq Nat \ {0}
    BY <2>1 DEF Readable
  <2>3. QED
    BY <1>3, <2>1, <2>2
<1>5. ASSUME NEW i \in DOMAIN claims
      PROVE  /\ i \in DOMAIN raw /\ claims[i].index = i /\ claims[i].text = raw[i].text
             /\ claims[i].start = raw[i].start
  BY <1>1
<1>6. QED
  <2> HIDE DEF claims
  <2>1. Claimed(claims)
    BY <1>2, <1>4, <1>5 DEF Claimed, Readable
  <2>2. QED
    BY <1>5, <2>1 DEF claims

-----------------------------------------------------------------------------
(* A citation without a code against it was checked and is of this case.   *)
UsedBefore(claims, i) == Cardinality({p \in Audit!Budgeted(claims) : p[1] < i})
InBudget(claims, i, j) == ~ j > MaxCited /\ ~ UsedBefore(claims, i) + j > MaxChecks
LEMMA OutcomeIs ==
  ASSUME NEW rows, NEW case, NEW claims, NEW i \in DOMAIN claims, NEW j \in DOMAIN claims[i].cited,
         NEW outcomes, outcomes = Audit!AllOutcomes(rows, case, claims)
  PROVE  /\ outcomes[i][j].checked <=> InBudget(claims, i, j)
         /\ outcomes[i][j].codes = {} =>
              InBudget(claims, i, j) /\ Audit!Codes(rows, case, outcomes[i][j].ref) = {}
<1> DEFINE used == UsedBefore(claims, i)
           ref == Audit!Resolved(rows, claims[i].cited[j])
           o == outcomes[i][j]
<1>1. outcomes[i] = Audit!_citation_outcomes(rows, case, claims[i].cited, used)
  BY Counted DEF Audit!AllOutcomes, UsedBefore
<1>2. o = IF j > MaxCited THEN Audit!Outcome(ref, FALSE, {"citation_not_checked"})
          ELSE IF used + j > MaxChecks THEN Audit!Outcome(ref, FALSE, {"citation_budget_exceeded"})
          ELSE Audit!Outcome(ref, TRUE, Audit!Codes(rows, case, ref))
  <2> HIDE DEF used
  <2> QED
    BY <1>1 DEF Audit!_citation_outcomes
<1>3. QED
  <2> HIDE DEF used, ref, o
  <2>1. CASE j > MaxCited
    BY <1>2, <2>1 DEF Audit!Outcome, o, used, InBudget
  <2>2. CASE ~ j > MaxCited /\ used + j > MaxChecks
    BY <1>2, <2>2 DEF Audit!Outcome, o, used, InBudget
  <2>3. CASE ~ j > MaxCited /\ ~ used + j > MaxChecks
    BY <1>2, <2>3 DEF Audit!Outcome, o, used, InBudget
  <2>4. QED
    BY <2>1, <2>2, <2>3

LEMMA OutcomesAre ==
  ASSUME NEW rows, NEW case, NEW claims
  PROVE  /\ DOMAIN Audit!AllOutcomes(rows, case, claims) = DOMAIN claims
         /\ \A i \in DOMAIN claims :
              DOMAIN Audit!AllOutcomes(rows, case, claims)[i] = DOMAIN claims[i].cited
  BY DEF Audit!AllOutcomes, Audit!_citation_outcomes

LEMMA BudgetedAreFew ==
  ASSUME NEW claims, Claimed(claims)
  PROVE  IsFiniteSet(Audit!Budgeted(claims)) /\ Audit!Budgeted(claims) \subseteq Nat \X Nat
<1> DEFINE of(i) == {<<i, j>> : j \in {k \in DOMAIN claims[i].cited : k <= MaxCited}}
           all == {of(i) : i \in DOMAIN claims}
<1>1. Audit!Budgeted(claims) = UNION all
  BY DEF Audit!Budgeted
<1>2. ASSUME NEW i \in DOMAIN claims
      PROVE  IsFiniteSet(of(i)) /\ of(i) \subseteq Nat \X Nat
  <2> DEFINE D == {k \in DOMAIN claims[i].cited : k <= MaxCited}
             f == [j \in D |-> <<i, j>>]
  <2>1. IsFiniteSet(D) /\ D \subseteq Nat /\ i \in Nat
    BY FS_Subset DEF Claimed
  <2>2. of(i) = {f[x] : x \in D} /\ f = [x \in D |-> f[x]]
    OBVIOUS
  <2>3. IsFiniteSet(of(i))
    <3> HIDE DEF D, f, of
    <3> QED
      BY <2>1, <2>2, ImageIs
  <2>4. QED
    BY <2>1, <2>3
<1>3. IsFiniteSet(all)
  <2> DEFINE f == [i \in DOMAIN claims |-> of(i)]
  <2>1. all = {f[x] : x \in DOMAIN claims} /\ f = [x \in DOMAIN claims |-> f[x]]
    OBVIOUS
  <2>2. IsFiniteSet(DOMAIN claims)
    BY DEF Claimed
  <2> HIDE DEF f, all
  <2>3. QED
    BY <2>1, <2>2, ImageIs
<1>4. \A T \in all : IsFiniteSet(T) /\ T \subseteq Nat \X Nat
  BY <1>2
<1>5. QED
  <2> HIDE DEF all
  <2> QED
    BY <1>1, <1>3, <1>4, FS_UNION

(* No more citations are checked than the budget allows.                   *)
LEMMA BudgetHolds ==
  ASSUME NEW rows, NEW case, NEW claims, Claimed(claims), MaxChecks \in Nat, MaxCited \in Nat,
         NEW outcomes, outcomes = Audit!AllOutcomes(rows, case, claims)
  PROVE  Cardinality({ p \in UNION {{i} \X DOMAIN outcomes[i] : i \in DOMAIN outcomes} :
                         outcomes[p[1]][p[2]].checked }) <= MaxChecks
<1> DEFINE C == { p \in UNION {{i} \X DOMAIN outcomes[i] : i \in DOMAIN outcomes} : outcomes[p[1]][p[2]].checked }
           S == Audit!Budgeted(claims)
           R == {q \in S \X S : \/ q[1][1] < q[2][1]
                                \/ q[1][1] = q[2][1] /\ q[1][2] < q[2][2]}
<1>1. IsFiniteSet(S) /\ S \subseteq Nat \X Nat
  BY BudgetedAreFew
<1>2. \A x, y \in S : <<x, y>> \in R <=> x[1] < y[1] \/ (x[1] = y[1] /\ x[2] < y[2])
  OBVIOUS
<1>3. Strict(S, R) /\ Total(S, R)
  <2> HIDE DEF S, R
  <2>1. \A x, y \in S : x[1] \in Nat /\ x[2] \in Nat /\ (x[1] = y[1] /\ x[2] = y[2] => x = y)
    BY <1>1
  <2>2. Strict(S, R)
    BY <1>2, <2>1 DEF Strict
  <2>3. Total(S, R)
    <3>1. ASSUME NEW x \in S, NEW y \in S
          PROVE  x = y \/ <<x, y>> \in R \/ <<y, x>> \in R
      <4>1. x[1] \in Nat /\ x[2] \in Nat /\ y[1] \in Nat /\ y[2] \in Nat /\ (x[1] = y[1] /\ x[2] = y[2] => x = y)
        BY <2>1
      <4>2. x = y \/ (x[1] < y[1] \/ (x[1] = y[1] /\ x[2] < y[2])) \/ (y[1] < x[1] \/ (y[1] = x[1] /\ y[2] < x[2]))
        BY <4>1
      <4>3. QED
        BY <1>2, <4>2
    <3>2. QED
      BY <3>1 DEF Total
  <2>4. QED
    BY <2>2, <2>3
<1>4. ASSUME NEW i \in DOMAIN claims, NEW j \in DOMAIN claims[i].cited, outcomes[i][j].checked
      PROVE  <<i, j>> \in Foremost(MaxChecks, S, R)
  <2> DEFINE before == {p \in S : p[1] < i}
             D == {h \in DOMAIN claims[i].cited : h <= MaxCited /\ h < j}
             beside == {<<i, k>> : k \in D}
  <2>0. i \in Nat /\ j \in Nat \ {0} /\ DOMAIN claims[i].cited \subseteq Nat \ {0}
    BY DEF Claimed
  <2>1. ~ j > MaxCited /\ ~ Cardinality(before) + j > MaxChecks
    BY <1>4, OutcomeIs DEF InBudget, UsedBefore
  <2>2. <<i, j>> \in S
    BY <2>0, <2>1 DEF Audit!Budgeted
  <2>3. Under(<<i, j>>, S, R) \subseteq before \cup beside
    <3>1. ASSUME NEW p \in S, p[1] = i, p[2] < j
          PROVE  p \in beside
      <4>1. PICK h \in DOMAIN claims : p \in {<<h, k>> : k \in {x \in DOMAIN claims[h].cited : x <= MaxCited}}
        BY DEF Audit!Budgeted
      <4>2. PICK k \in DOMAIN claims[h].cited : k <= MaxCited /\ p = <<h, k>>
        BY <4>1
      <4>3. QED
        BY <3>1, <4>2
    <3> HIDE DEF S, R, beside
    <3>2. ASSUME NEW p \in Under(<<i, j>>, S, R)
          PROVE  p \in before \cup beside
      BY <1>2, <2>2, <3>1 DEF Under
    <3>3. QED
      BY <3>2
  <2>4. IsFiniteSet(before) /\ Cardinality(before) \in Nat
    <3> HIDE DEF S
    <3> QED
      BY <1>1, FS_Subset, FS_CardinalityType
  <2>5. IsFiniteSet(beside) /\ Cardinality(beside) \in Nat /\ Cardinality(beside) <= j - 1
    <3> DEFINE f == [k \in D |-> <<i, k>>]
    <3>1. D \subseteq 1..(j - 1)
      BY <2>0
    <3>2. IsFiniteSet(D) /\ Cardinality(D) <= j - 1 /\ Cardinality(D) \in Nat
      <4>1. IsFiniteSet(1..(j - 1)) /\ Cardinality(1..(j - 1)) = j - 1
        <5>1. j - 1 \in Int /\ 1 \in Int /\ j - 1 >= 0
          BY <2>0
        <5> DEFINE m == j - 1
        <5> HIDE DEF m
        <5>2. IsFiniteSet(1..m) /\ Cardinality(1..m) = IF 1 > m THEN 0 ELSE m - 1 + 1
          BY <5>1, FS_Interval DEF m
        <5>3. m \in Int /\ m >= 0
          BY <5>1 DEF m
        <5>4. Cardinality(1..m) = m
          BY <5>2, <5>3
        <5>5. QED
          BY <5>2, <5>4 DEF m
      <4> HIDE DEF D
      <4>2. QED
        BY <3>1, <4>1, FS_Subset, FS_CardinalityType
    <3>3. beside = {f[x] : x \in D} /\ f = [x \in D |-> f[x]]
      OBVIOUS
    <3> HIDE DEF D, f, beside
    <3>4. IsFiniteSet(beside) /\ Cardinality(beside) <= Cardinality(D)
      BY <3>2, <3>3, ImageIs
    <3>5. QED
      BY <2>0, <3>2, <3>4, FS_CardinalityType
  <2>6. Cardinality(Under(<<i, j>>, S, R)) < MaxChecks
    <3> HIDE DEF S, R, before, beside
    <3>1. /\ IsFiniteSet(before \cup beside) /\ IsFiniteSet(before \cap beside)
          /\ Cardinality(before \cup beside)
               = Cardinality(before) + Cardinality(beside) - Cardinality(before \cap beside)
      BY <2>4, <2>5, FS_Union, FS_Intersection
    <3>2. Cardinality(before \cap beside) \in Nat /\ Cardinality(before \cup beside) \in Nat
      BY <3>1, FS_CardinalityType
    <3>3. /\ IsFiniteSet(Under(<<i, j>>, S, R))
          /\ Cardinality(Under(<<i, j>>, S, R)) <= Cardinality(before \cup beside)
      BY <2>3, <3>1, FS_Subset
    <3>4. Cardinality(Under(<<i, j>>, S, R)) \in Nat
      BY <3>3, FS_CardinalityType
    <3>5. Cardinality(before) + j <= MaxChecks
      BY <2>0, <2>1, <2>4 DEF before
    <3>6. QED
      BY <2>0, <2>4, <2>5, <3>1, <3>2, <3>3, <3>4, <3>5
  <2>7. QED
    BY <2>2, <2>6 DEF Foremost
<1>5. C \subseteq Foremost(MaxChecks, S, R)
  <2>1. ASSUME NEW p \in C
        PROVE  p \in Foremost(MaxChecks, S, R)
    <3>1. PICK i \in DOMAIN outcomes : p \in {i} \X DOMAIN outcomes[i]
      OBVIOUS
    <3>2. PICK j \in DOMAIN outcomes[i] : p = <<i, j>>
      BY <3>1
    <3>3. i \in DOMAIN claims /\ j \in DOMAIN claims[i].cited /\ outcomes[i][j].checked
      BY <3>2, OutcomesAre
    <3> HIDE DEF C, S, R
    <3>4. QED
      BY <1>4, <3>2, <3>3
  <2> HIDE DEF C
  <2>2. QED
    BY <2>1
<1>6. QED
  <2>1. Cardinality(Foremost(MaxChecks, S, R)) <= MaxChecks
    <3> HIDE DEF S, R
    <3> QED
      BY <1>1, <1>3, ForemostAreFew
  <2>2. IsFiniteSet(Foremost(MaxChecks, S, R))
    <3> HIDE DEF S, R
    <3> QED
      BY <1>1, FS_Subset DEF Foremost
  <2>3. Cardinality(C) <= MaxChecks
    <3> HIDE DEF C, S, R
    <3>1. IsFiniteSet(C) /\ Cardinality(C) <= Cardinality(Foremost(MaxChecks, S, R))
      BY <1>5, <2>2, FS_Subset
    <3>2. Cardinality(C) \in Nat /\ Cardinality(Foremost(MaxChecks, S, R)) \in Nat
      BY <2>2, <3>1, FS_CardinalityType
    <3>3. QED
      BY <2>1, <3>1, <3>2
  <2>4. QED
    BY <2>3

-----------------------------------------------------------------------------
(* What is found in a claim, and how severe it makes the claim.            *)
LEMMA FindingIs ==
  ASSUME NEW claim, NEW outcomes, NEW assessment, NEW issues, NEW conflicts, NEW matches, NEW f
  PROVE  f \in Audit!Findings(claim, outcomes, assessment, issues, conflicts, matches) <=>
           \/ f = <<"claim_extraction_invalid", 0>> /\ claim.problems # {}
           \/ \E j \in DOMAIN outcomes :
                f = <<"numeric_mismatch", j>> /\ "citation_value_mismatch" \in outcomes[j].codes
           \/ \E j \in DOMAIN outcomes :
                f = <<"invalid_citation", j>> /\ outcomes[j].codes \ {"citation_value_mismatch"} # {}
           \/ f = <<"numeric_mismatch", 0>> /\ ~ Audit!check_arithmetic(claim.text)
           \/ f = <<"timeline_discrepancy", 0>> /\ claim.index \in issues
           \/ f = <<"currency_mismatch", 0>> /\ claim.index \in conflicts
           \/ f = <<assessment, 0>> /\ assessment \notin {"skipped", "unit_failed", "supported"}
           \/ f = <<"counter_evidence_candidate", 0>> /\ matches # {}
<1> DEFINE cited(j) == Audit!Finding("numeric_mismatch", j, "citation_value_mismatch" \in outcomes[j].codes)
                       \cup Audit!Finding("invalid_citation", j, outcomes[j].codes \ {"citation_value_mismatch"} # {})
<1>2. f \in Audit!Findings(claim, outcomes, assessment, issues, conflicts, matches) <=>
           \/ f \in Audit!Finding("claim_extraction_invalid", 0, claim.problems # {})
           \/ \E j \in DOMAIN outcomes : f \in cited(j)
           \/ f \in Audit!Finding("numeric_mismatch", 0, ~ Audit!check_arithmetic(claim.text))
           \/ f \in Audit!Finding("timeline_discrepancy", 0, claim.index \in issues)
           \/ f \in Audit!Finding("currency_mismatch", 0, claim.index \in conflicts)
           \/ f \in Audit!Finding(assessment, 0, assessment \notin {"skipped", "unit_failed", "supported"})
           \/ f \in Audit!Finding("counter_evidence_candidate", 0, matches # {})
  <2> DEFINE A == Audit!Finding("claim_extraction_invalid", 0, claim.problems # {})
             B == {cited(j) : j \in DOMAIN outcomes}
             C == Audit!Finding("numeric_mismatch", 0, ~ Audit!check_arithmetic(claim.text))
             D == Audit!Finding("timeline_discrepancy", 0, claim.index \in issues)
             E == Audit!Finding("currency_mismatch", 0, claim.index \in conflicts)
             F == Audit!Finding(assessment, 0, assessment \notin {"skipped", "unit_failed", "supported"})
             G == Audit!Finding("counter_evidence_candidate", 0, matches # {})
  <2>1. Audit!Findings(claim, outcomes, assessment, issues, conflicts, matches)
          = A \cup (UNION B) \cup C \cup D \cup E \cup F \cup G
    BY DEF Audit!Findings
  <2>2. f \in (UNION B) <=> \E j \in DOMAIN outcomes : f \in cited(j)
    <3> HIDE DEF cited
    <3> QED
      OBVIOUS
  <2>3. f \in A \cup (UNION B) \cup C \cup D \cup E \cup F \cup G
          <=> f \in A \/ f \in (UNION B) \/ f \in C \/ f \in D \/ f \in E \/ f \in F \/ f \in G
    <3> HIDE DEF A, B, C, D, E, F, G
    <3> QED
      OBVIOUS
  <2>4. QED
    <3> HIDE DEF cited
    <3> QED
      BY ONLY <2>1, <2>2, <2>3
<1>3. \A j : f \in cited(j) <=>
           \/ f = <<"numeric_mismatch", j>> /\ "citation_value_mismatch" \in outcomes[j].codes
           \/ f = <<"invalid_citation", j>> /\ outcomes[j].codes \ {"citation_value_mismatch"} # {}
  BY DEF Audit!Finding
<1>4. QED
  <2> HIDE DEF cited
  <2>1. f \in Audit!Finding("claim_extraction_invalid", 0, claim.problems # {})
          <=> f = <<"claim_extraction_invalid", 0>> /\ claim.problems # {}
    BY DEF Audit!Finding
  <2>2. f \in Audit!Finding("numeric_mismatch", 0, ~ Audit!check_arithmetic(claim.text))
          <=> f = <<"numeric_mismatch", 0>> /\ ~ Audit!check_arithmetic(claim.text)
    BY DEF Audit!Finding
  <2>3. f \in Audit!Finding("timeline_discrepancy", 0, claim.index \in issues)
          <=> f = <<"timeline_discrepancy", 0>> /\ claim.index \in issues
    BY DEF Audit!Finding
  <2>4. f \in Audit!Finding("currency_mismatch", 0, claim.index \in conflicts)
          <=> f = <<"currency_mismatch", 0>> /\ claim.index \in conflicts
    BY DEF Audit!Finding
  <2>5. f \in Audit!Finding(assessment, 0, assessment \notin {"skipped", "unit_failed", "supported"})
          <=> f = <<assessment, 0>> /\ assessment \notin {"skipped", "unit_failed", "supported"}
    BY DEF Audit!Finding
  <2>6. f \in Audit!Finding("counter_evidence_candidate", 0, matches # {})
          <=> f = <<"counter_evidence_candidate", 0>> /\ matches # {}
    BY DEF Audit!Finding
  <2>7. QED
    BY <1>2, <1>3, <2>1, <2>2, <2>3, <2>4, <2>5, <2>6

LEMMA SeverityOfFinding ==
  ASSUME NEW code
  PROVE  Audit!FINDING_SEVERITY(code) \in {1, 2, 3}
<1>1. CASE code \in {"partially_supported", "not_established", "assessment_unverified"}
  BY <1>1 DEF Audit!FINDING_SEVERITY
<1>2. CASE code = "counter_evidence_candidate"
  BY <1>2 DEF Audit!FINDING_SEVERITY
<1>3. CASE code \notin {"partially_supported", "not_established", "assessment_unverified", "counter_evidence_candidate"}
  BY <1>3 DEF Audit!FINDING_SEVERITY
<1>4. QED
  BY <1>1, <1>2, <1>3

LEMMA SeverityIs ==
  ASSUME NEW findings, NEW assessment, NEW matches,
         NEW r, r = Audit!Reviewed(findings, assessment, matches)
  PROVE  /\ r.findings = findings /\ r.assessment = assessment /\ r.matches = matches
         /\ r.severity \in {0, 1, 2, 3}
         /\ r.severity = 3 <=> \E f \in findings : Audit!FINDING_SEVERITY(f[1]) = 3
<1> DEFINE levels == {0} \cup {Audit!FINDING_SEVERITY(f[1]) : f \in findings}
<1>1. levels \subseteq {0, 1, 2, 3} /\ 0 \in levels
  BY SeverityOfFinding
<1>2. 3 \in levels <=> \E f \in findings : Audit!FINDING_SEVERITY(f[1]) = 3
  OBVIOUS
<1>3. r = [ findings |-> findings, assessment |-> assessment, matches |-> matches,
            severity |-> CHOOSE s \in levels : \A t \in levels : t <= s ]
  BY DEF Audit!Reviewed
<1>4. QED
  <2> HIDE DEF levels
  <2>1. \E s \in levels : \A t \in levels : t <= s
    <3>1. CASE 3 \in levels
      BY <1>1, <3>1
    <3>2. CASE 3 \notin levels /\ 2 \in levels
      BY <1>1, <3>2
    <3>3. CASE 3 \notin levels /\ 2 \notin levels /\ 1 \in levels
      BY <1>1, <3>3
    <3>4. CASE levels = {0}
      BY <3>4
    <3>5. QED
      BY <1>1, <3>1, <3>2, <3>3, <3>4
  <2>2. r.severity \in levels /\ \A t \in levels : t <= r.severity
    <3>1. r.severity = CHOOSE s \in levels : \A t \in levels : t <= s
      BY <1>3
    <3> DEFINE v == r.severity
    <3> HIDE DEF v
    <3>2. v \in levels /\ \A t \in levels : t <= v
      BY ONLY <2>1, <3>1 DEF v
    <3>3. QED
      BY <3>2 DEF v
  <2>3. r.severity = 3 <=> 3 \in levels
    <3> DEFINE v == r.severity
    <3>1. v \in {0, 1, 2, 3} /\ v \in levels /\ \A t \in levels : t <= v
      BY <1>1, <2>2
    <3> HIDE DEF v
    <3>2. ASSUME 3 \in levels
          PROVE  v = 3
      <4>1. 3 <= v
        BY <3>1, <3>2
      <4>2. QED
        BY <3>1, <4>1
    <3>3. ASSUME v = 3
          PROVE  3 \in levels
      BY <3>1, <3>3
    <3>4. QED
      BY <3>2, <3>3 DEF v
  <2>4. r.severity \in {0, 1, 2, 3}
    BY <1>1, <2>2
  <2>5. r.findings = findings /\ r.assessment = assessment /\ r.matches = matches
    BY <1>3
  <2>6. QED
    BY <1>2, <2>3, <2>4, <2>5

(* The review of one claim, and what the audit keeps of them all.          *)
ReviewOf(d, claims, outcomes, issues, conflicts, i) ==
  LET assessment == Audit!Assessment(d.rows, outcomes[i], d.reply[claims[i].text])
      matches == Audit!_counter_matches(claims[i].text, d.records)
  IN Audit!Reviewed(Audit!Findings(claims[i], outcomes[i], assessment, issues, conflicts, matches),
                    assessment, matches)
DatedOf(claims) == {c \in Audit!Range(claims) : c.category = "timeline" /\ DatesIn(c.text) # <<>>}
PricedOf(claims) == {c \in Audit!Range(claims) : AmountsIn(c.text) # <<>>}
AuditOf(d) ==
  Audit!execute_report_audit(d.raw, d.parsed, d.rows, d.case, d.records, d.events, d.reply)

(* An audit that did not fail is that of the claims that were read.        *)
Audited(d, raw, claims, outcomes, issues, conflicts, audit) ==
  /\ raw = IF d.parsed THEN d.raw ELSE <<>>
  /\ claims = Audit!normalize_claims(raw)
  /\ outcomes = Audit!AllOutcomes(d.rows, d.case, claims)
  /\ issues = Audit!chronology_issues(DatedOf(claims))
  /\ conflicts = Audit!currency_conflicts(PricedOf(claims))
  /\ audit.claims = claims /\ audit.outcomes = outcomes
  /\ audit.review = [i \in DOMAIN claims |-> ReviewOf(d, claims, outcomes, issues, conflicts, i)]
  /\ audit.figures = Audit!PayloadFigures(raw, d.parsed, DatedOf(claims), d.events, audit.review)
  /\ audit.status = IF audit.figures.units_failed > 0 THEN "partial" ELSE "succeeded"
  /\ \A c \in DatedOf(claims) \cup PricedOf(claims) : c.start # Unreadable

LEMMA AuditIs ==
  ASSUME NEW d
  PROVE  \/ /\ AuditOf(d).status = "failed" /\ AuditOf(d).claims = <<>>
            /\ AuditOf(d).outcomes = <<>> /\ AuditOf(d).review = <<>>
         \/ \E raw, claims, outcomes, issues, conflicts :
              Audited(d, raw, claims, outcomes, issues, conflicts, AuditOf(d))
<1> DEFINE raw == IF d.parsed THEN d.raw ELSE <<>>
           claims == Audit!normalize_claims(raw)
           outcomes == Audit!AllOutcomes(d.rows, d.case, claims)
           issues == Audit!chronology_issues(DatedOf(claims))
           conflicts == Audit!currency_conflicts(PricedOf(claims))
           review == [i \in DOMAIN claims |-> ReviewOf(d, claims, outcomes, issues, conflicts, i)]
           figures == Audit!PayloadFigures(raw, d.parsed, DatedOf(claims), d.events, review)
           placed == Audit!Placed(DatedOf(claims) \cup PricedOf(claims))
<1>1. AuditOf(d) =
        IF ~ placed
        THEN [status |-> "failed", claims |-> <<>>, outcomes |-> <<>>, review |-> <<>>]
        ELSE [ status |-> IF figures.units_failed > 0 THEN "partial" ELSE "succeeded",
               claims |-> claims, outcomes |-> outcomes, review |-> review, figures |-> figures ]
  BY DEF AuditOf, Audit!execute_report_audit, DatedOf, PricedOf, ReviewOf
<1>2. placed => \A c \in DatedOf(claims) \cup PricedOf(claims) : c.start # Unreadable
  BY DEF Audit!Placed
<1>3. CASE ~ placed
  <2> HIDE DEF placed, raw, claims, outcomes, review, figures
  <2> QED
    BY <1>1, <1>3
<1>4. CASE placed
  <2>1. /\ AuditOf(d).claims = claims /\ AuditOf(d).outcomes = outcomes /\ AuditOf(d).review = review
        /\ AuditOf(d).figures = figures
        /\ AuditOf(d).status = IF figures.units_failed > 0 THEN "partial" ELSE "succeeded"
    <3> HIDE DEF placed, raw, claims, outcomes, review, figures
    <3> QED
      BY <1>1, <1>4
  <2>2. Audited(d, raw, claims, outcomes, issues, conflicts, AuditOf(d))
    BY <1>2, <1>4, <2>1 DEF Audited
  <2>3. QED
    BY <2>2
<1>5. QED
  BY <1>3, <1>4

LEMMA ReviewIs ==
  ASSUME NEW d, NEW raw, NEW claims, NEW outcomes, NEW issues, NEW conflicts, NEW audit,
         Audited(d, raw, claims, outcomes, issues, conflicts, audit), NEW i \in DOMAIN claims
  PROVE  /\ DOMAIN audit.review = DOMAIN claims
         /\ audit.review[i].assessment = Audit!Assessment(d.rows, outcomes[i], d.reply[claims[i].text])
         /\ audit.review[i].findings =
              Audit!Findings(claims[i], outcomes[i], audit.review[i].assessment, issues, conflicts,
                             audit.review[i].matches)
         /\ audit.review[i].severity \in {0, 1, 2, 3}
         /\ audit.review[i].severity = 3
              <=> \E f \in audit.review[i].findings : Audit!FINDING_SEVERITY(f[1]) = 3
<1>1. audit.review = [k \in DOMAIN claims |-> ReviewOf(d, claims, outcomes, issues, conflicts, k)]
  BY DEF Audited
<1>2. DOMAIN audit.review = DOMAIN claims /\ audit.review[i] = ReviewOf(d, claims, outcomes, issues, conflicts, i)
  BY <1>1
<1> DEFINE assessment == Audit!Assessment(d.rows, outcomes[i], d.reply[claims[i].text])
           matches == Audit!_counter_matches(claims[i].text, d.records)
           findings == Audit!Findings(claims[i], outcomes[i], assessment, issues, conflicts, matches)
<1>3. audit.review[i] = Audit!Reviewed(findings, assessment, matches)
  BY <1>2 DEF ReviewOf
<1>4. QED
  <2> HIDE DEF findings, assessment, matches
  <2>1. /\ audit.review[i].findings = findings /\ audit.review[i].assessment = assessment
        /\ audit.review[i].matches = matches /\ audit.review[i].severity \in {0, 1, 2, 3}
        /\ audit.review[i].severity = 3 <=> \E f \in findings : Audit!FINDING_SEVERITY(f[1]) = 3
    BY <1>3, SeverityIs
  <2>2. audit.review[i].findings = Audit!Findings(claims[i], outcomes[i], audit.review[i].assessment, issues, conflicts,
                             audit.review[i].matches)
    BY <2>1 DEF findings
  <2>3. QED
    BY <1>2, <2>1, <2>2 DEF assessment

(* A claim without a severe finding has everything in order.               *)
LEMMA CleanAreChecked ==
  ASSUME NEW d, NEW raw, NEW claims, NEW outcomes, NEW issues, NEW conflicts, NEW audit,
         Audited(d, raw, claims, outcomes, issues, conflicts, audit)
  PROVE  Audit!CleanClaimsWereChecked(audit)
<1>1. SUFFICES ASSUME NEW i \in DOMAIN audit.review, audit.review[i].severity < 3
               PROVE  /\ audit.claims[i].problems = {}
                      /\ \A o \in Audit!Range(audit.outcomes[i]) : o.checked /\ o.codes = {}
  BY DEF Audit!CleanClaimsWereChecked
<1>2. i \in DOMAIN claims /\ audit.claims = claims /\ audit.outcomes = outcomes
  BY DEF Audited
<1>3. /\ audit.review[i].findings =
           Audit!Findings(claims[i], outcomes[i], audit.review[i].assessment, issues, conflicts,
                          audit.review[i].matches)
      /\ \A f \in audit.review[i].findings : Audit!FINDING_SEVERITY(f[1]) # 3
  BY <1>1, <1>2, ReviewIs
<1>4. /\ Audit!FINDING_SEVERITY("claim_extraction_invalid") = 3
      /\ Audit!FINDING_SEVERITY("numeric_mismatch") = 3 /\ Audit!FINDING_SEVERITY("invalid_citation") = 3
  BY DEF Audit!FINDING_SEVERITY
<1>5. claims[i].problems = {}
  <2>1. SUFFICES ASSUME claims[i].problems # {}
                 PROVE  FALSE
    OBVIOUS
  <2>2. <<"claim_extraction_invalid", 0>> \in audit.review[i].findings
    BY <1>3, <2>1, FindingIs
  <2>3. QED
    BY <1>3, <1>4, <2>2
<1>6. ASSUME NEW j \in DOMAIN outcomes[i]
      PROVE  outcomes[i][j].checked /\ outcomes[i][j].codes = {}
  <2>1. "citation_value_mismatch" \notin outcomes[i][j].codes
    <3>1. SUFFICES ASSUME "citation_value_mismatch" \in outcomes[i][j].codes
                   PROVE  FALSE
      OBVIOUS
    <3>2. <<"numeric_mismatch", j>> \in audit.review[i].findings
      BY <1>3, <3>1, FindingIs
    <3>3. QED
      BY <1>3, <1>4, <3>2
  <2>2. outcomes[i][j].codes \ {"citation_value_mismatch"} = {}
    <3>1. SUFFICES ASSUME outcomes[i][j].codes \ {"citation_value_mismatch"} # {}
                   PROVE  FALSE
      OBVIOUS
    <3>2. <<"invalid_citation", j>> \in audit.review[i].findings
      BY <1>3, <3>1, FindingIs
    <3>3. QED
      BY <1>3, <1>4, <3>2
  <2>3. outcomes[i][j].codes = {}
    BY <2>1, <2>2
  <2>4. outcomes = Audit!AllOutcomes(d.rows, d.case, claims) /\ j \in DOMAIN claims[i].cited
    BY <1>2, OutcomesAre DEF Audited
  <2>5. outcomes[i][j].checked
    BY <1>2, <2>3, <2>4, OutcomeIs
  <2>6. QED
    BY <2>3, <2>5
<1>7. QED
  BY <1>2, <1>5, <1>6 DEF Audit!Range

-----------------------------------------------------------------------------
(* A judgement that becomes a finding quotes what the claim cites.         *)
Valid(rows, case, ref) == Audit!validate_citation(rows, {}, case, ref, FALSE) = {}
LEMMA ValidIsOfCase ==
  ASSUME NEW rows, NEW case, NEW ref, Valid(rows, case, ref)
  PROVE  \E r \in rows : r.kind = ref.kind /\ r.id = ref.id /\ r.case = case
<1> DEFINE found == {r \in rows : r.kind = ref.kind /\ r.id = ref.id}
           row == CHOOSE r \in found : TRUE
           codes == CASE ref.case # 0 /\ ref.case # row.case       -> {"citation_case_mismatch"}
                      [] /\ ref.case \in {0, row.case} /\ row.case # case
                         /\ ~ FALSE                     -> {"citation_wrong_case"}
                      [] /\ ref.case \in {0, row.case} /\ row.case # case
                         /\ FALSE /\ row.case \notin {} -> {"citation_unauthorized"}
                      [] OTHER                                     -> Audit!LocatorCodes(ref, row)
<1>1. Audit!validate_citation(rows, {}, case, ref, FALSE) =
        CASE Audit!preflight(ref) # {}                          -> Audit!preflight(ref)
          [] Audit!preflight(ref) = {} /\ found = {}            -> {"citation_record_missing"}
          [] OTHER -> codes
  BY DEF Audit!validate_citation
<1>2. Audit!preflight(ref) = {} /\ found # {} /\ codes = {}
  <2> HIDE DEF found, codes
  <2>1. CASE Audit!preflight(ref) # {}
    BY <1>1, <2>1 DEF Valid
  <2>2. CASE Audit!preflight(ref) = {} /\ found = {}
    BY <1>1, <2>2 DEF Valid
  <2>3. CASE Audit!preflight(ref) = {} /\ found # {}
    BY <1>1, <2>3 DEF Valid
  <2>4. QED
    BY <2>1, <2>2, <2>3
<1>3. row \in found
  <2> HIDE DEF found
  <2> QED
    BY <1>2
<1>4. row.case = case
  <2>1. SUFFICES ASSUME row.case # case
                 PROVE  FALSE
    OBVIOUS
  <2>2. CASE ref.case # 0 /\ ref.case # row.case
    <3> HIDE DEF row
    <3> QED
      BY <1>2, <2>2
  <2>3. CASE ref.case \in {0, row.case}
    <3> HIDE DEF row
    <3> QED
      BY <1>2, <2>1, <2>3
  <2>4. QED
    BY <2>2, <2>3
<1>5. QED
  <2> HIDE DEF row
  <2> QED
    BY <1>3, <1>4

LEMMA JudgedIsQuoted ==
  ASSUME NEW rows, NEW outcomes, NEW reply,
         Audit!Assessment(rows, outcomes, reply) \in {"contradicted", "partially_supported"}
  PROVE  /\ reply.quotes # {}
         /\ \A q \in reply.quotes : \E j \in DOMAIN outcomes :
              /\ outcomes[j].codes = {} /\ outcomes[j].ref.kind # "none"
              /\ q = Audit!Body(rows, outcomes[j])
<1> DEFINE excerpts == Audit!_excerpt_bundle(rows, outcomes)
           a == Audit!Assessment(rows, outcomes, reply)
<1>1. a = CASE excerpts = {} -> "skipped"
            [] excerpts # {} /\ reply.verdict = "failed" -> "unit_failed"
            [] excerpts # {} /\ reply.verdict # "failed" ->
                 IF Audit!assessment_is_valid(reply, excerpts) THEN reply.verdict ELSE "assessment_unverified"
  BY DEF Audit!Assessment
<1>2. Audit!assessment_is_valid(reply, excerpts) /\ reply.verdict # "not_established"
  <2> HIDE DEF excerpts, a
  <2>0. a \in {"contradicted", "partially_supported"}
    BY DEF a
  <2>1. CASE excerpts = {}
    BY <1>1, <2>0, <2>1
  <2>2. CASE excerpts # {} /\ reply.verdict = "failed"
    BY <1>1, <2>0, <2>2
  <2>3. CASE excerpts # {} /\ reply.verdict # "failed"
    BY <1>1, <2>0, <2>3
  <2>4. QED
    BY <2>1, <2>2, <2>3
<1>3. reply.quotes # {} /\ reply.quotes \subseteq excerpts
  BY <1>2 DEF Audit!assessment_is_valid
<1>4. ASSUME NEW q \in excerpts
      PROVE  \E j \in DOMAIN outcomes :
               /\ outcomes[j].codes = {} /\ outcomes[j].ref.kind # "none"
               /\ q = Audit!Body(rows, outcomes[j])
  BY DEF Audit!_excerpt_bundle
<1>5. QED
  <2> HIDE DEF excerpts
  <2> QED
    BY <1>3, <1>4

Keyed(rows) == \A r, q \in rows : r.kind = q.kind /\ r.id = q.id => r = q

LEMMA JudgementsAre ==
  ASSUME NEW d, NEW raw, NEW claims, NEW outcomes, NEW issues, NEW conflicts, NEW audit,
         Audited(d, raw, claims, outcomes, issues, conflicts, audit), Claimed(claims), Keyed(d.rows),
         MaxChecks \in Nat, MaxCited \in Nat
  PROVE  Audit!JudgementsAreQuoted(audit, d.rows, d.case, d.reply)
<1> DEFINE rows == d.rows
           case == d.case
<1>0. Keyed(rows)
  OBVIOUS
<1> HIDE DEF rows, case
<1>1. outcomes = Audit!AllOutcomes(rows, case, claims) /\ audit.claims = claims /\ audit.outcomes = outcomes
  BY DEF Audited, rows, case
<1>2. Cardinality({ p \in UNION {{i} \X DOMAIN outcomes[i] : i \in DOMAIN outcomes} :
                      outcomes[p[1]][p[2]].checked }) <= MaxChecks
  BY <1>1, BudgetHolds
<1>3. ASSUME NEW i \in DOMAIN audit.review, NEW f \in audit.review[i].findings,
             f[1] \in {"contradicted", "partially_supported"}
      PROVE  /\ d.reply[claims[i].text].quotes # {}
             /\ \A q \in d.reply[claims[i].text].quotes : \E o \in Audit!Range(outcomes[i]) :
                  o.checked /\ \E r \in rows : r.id = o.ref.id /\ r.case = case /\ r.body = q
  <2>1. i \in DOMAIN claims
    BY DEF Audited
  <2> DEFINE a == audit.review[i].assessment
             reply == d.reply[claims[i].text]
  <2>2. /\ a = Audit!Assessment(rows, outcomes[i], reply)
        /\ audit.review[i].findings =
             Audit!Findings(claims[i], outcomes[i], a, issues, conflicts, audit.review[i].matches)
    BY <2>1, ReviewIs DEF rows
  <2>3. a \in {"contradicted", "partially_supported"}
    <3> HIDE DEF a
    <3>1. f \in Audit!Findings(claims[i], outcomes[i], a, issues, conflicts, audit.review[i].matches)
      BY <2>2
    <3>2. \/ \E x \in {"claim_extraction_invalid", "numeric_mismatch", "invalid_citation", "timeline_discrepancy",
                       "currency_mismatch", "counter_evidence_candidate"} : \E j : f = <<x, j>>
          \/ f = <<a, 0>>
      BY <3>1, FindingIs
    <3>3. QED
      BY <1>3, <3>2
  <2>4. /\ reply.quotes # {}
        /\ \A q \in reply.quotes : \E j \in DOMAIN outcomes[i] :
              /\ outcomes[i][j].codes = {} /\ outcomes[i][j].ref.kind # "none"
              /\ q = Audit!Body(rows, outcomes[i][j])
    <3> DEFINE o == outcomes[i]
    <3> HIDE DEF a, reply, o
    <3>1. a = Audit!Assessment(rows, o, reply)
      BY <2>2 DEF o
    <3>2. /\ reply.quotes # {}
          /\ \A q \in reply.quotes : \E j \in DOMAIN o :
               /\ o[j].codes = {} /\ o[j].ref.kind # "none"
               /\ q = Audit!Body(rows, o[j])
      BY <2>3, <3>1, JudgedIsQuoted
    <3>3. QED
      BY <3>2 DEF o
  <2>5. ASSUME NEW j \in DOMAIN outcomes[i], outcomes[i][j].codes = {}, outcomes[i][j].ref.kind # "none"
        PROVE  /\ outcomes[i][j].checked
               /\ \E r \in rows : /\ r.id = outcomes[i][j].ref.id /\ r.case = case
                                    /\ r.body = Audit!Body(rows, outcomes[i][j])
    <3>1. j \in DOMAIN claims[i].cited
      BY <1>1, <2>1, OutcomesAre
    <3> DEFINE ref == outcomes[i][j].ref
    <3>2. outcomes[i][j].checked /\ Audit!Codes(rows, case, ref) = {}
      <4> HIDE DEF ref
      <4>1. InBudget(claims, i, j) /\ Audit!Codes(rows, case, ref) = {}
        <5>1. outcomes = Audit!AllOutcomes(rows, case, claims) /\ outcomes[i][j].codes = {}
          BY <1>1, <2>5
        <5>2. InBudget(claims, i, j)
          BY ONLY <2>1, <3>1, <5>1, OutcomeIs
        <5>3. Audit!Codes(rows, case, outcomes[i][j].ref) = {}
          BY ONLY <2>1, <3>1, <5>1, OutcomeIs
        <5>4. QED
          BY <5>2, <5>3 DEF ref
      <4>2. outcomes[i][j].checked
        BY <1>1, <2>1, <3>1, <4>1, OutcomeIs
      <4>3. QED
        BY <4>1, <4>2
    <3>3. Valid(rows, case, ref)
      BY <2>5, <3>2 DEF Audit!Codes, Valid
    <3>4. PICK r \in rows : r.kind = ref.kind /\ r.id = ref.id /\ r.case = case
      <4> HIDE DEF ref
      <4> QED
        BY <3>3, ValidIsOfCase
    <3>5. Audit!Body(rows, outcomes[i][j]) = r.body
      <4>1. \A q \in rows : q.kind = ref.kind /\ q.id = ref.id <=> q = r
        BY <1>0, <3>4 DEF Keyed
      <4>2. (CHOOSE q \in rows : q.kind = ref.kind /\ q.id = ref.id) = r
        <5> HIDE DEF ref
        <5> QED
          BY <4>1
      <4>3. Audit!Body(rows, outcomes[i][j]) = (CHOOSE q \in rows : q.kind = ref.kind /\ q.id = ref.id).body
        BY DEF Audit!Body
      <4>4. QED
        BY <4>2, <4>3
    <3>6. QED
      BY <3>2, <3>4, <3>5
  <2>6. ASSUME NEW q \in reply.quotes
        PROVE  \E o \in Audit!Range(outcomes[i]) :
                  o.checked /\ \E r \in rows : r.id = o.ref.id /\ r.case = case /\ r.body = q
    <3>1. PICK j \in DOMAIN outcomes[i] :
              /\ outcomes[i][j].codes = {} /\ outcomes[i][j].ref.kind # "none"
              /\ q = Audit!Body(rows, outcomes[i][j])
      BY <2>4
    <3>2. outcomes[i][j] \in Audit!Range(outcomes[i])
      BY DEF Audit!Range
    <3>3. QED
      BY <2>5, <3>1, <3>2
  <2>7. QED
    BY <2>4, <2>6
<1>4. QED
  BY <1>1, <1>2, <1>3, Counted DEF Audit!JudgementsAreQuoted, rows, case

-----------------------------------------------------------------------------
(* Dates and currencies are compared in the order of the draft.            *)
LEMMA WhatIsSaid ==
  ASSUME NEW C, NEW c \in C
  PROVE  /\ \A j \in DOMAIN DatesIn(c.text) :
              [claim |-> c, place |-> j, it |-> DatesIn(c.text)[j]] \in Audit!DaysSaid(C)
         /\ \A j \in DOMAIN AmountsIn(c.text) :
              [claim |-> c, place |-> j, it |-> AmountsIn(c.text)[j]] \in Audit!MoneySaid(C)
<1> DEFINE days(x) == {[claim |-> x, place |-> j, it |-> DatesIn(x.text)[j]] : j \in DOMAIN DatesIn(x.text)}
           money(x) == {[claim |-> x, place |-> j, it |-> AmountsIn(x.text)[j]] : j \in DOMAIN AmountsIn(x.text)}
<1>1. days(c) \subseteq Audit!DaysSaid(C)
  <2>1. Audit!DaysSaid(C) = UNION {days(x) : x \in C}
    BY DEF Audit!DaysSaid
  <2> HIDE DEF days
  <2>2. QED
    BY <2>1
<1>2. money(c) \subseteq Audit!MoneySaid(C)
  <2>1. Audit!MoneySaid(C) = UNION {money(x) : x \in C}
    BY DEF Audit!MoneySaid
  <2> HIDE DEF money
  <2>2. QED
    BY <2>1
<1>3. QED
  BY <1>1, <1>2

LEMMA IssuesAre ==
  ASSUME NEW C
  PROVE  /\ Audit!chronology_issues(C) =
              {e.claim.index : e \in {e \in Audit!DaysSaid(C) : \E p \in Audit!DaysSaid(C) : Audit!Before(p, e) /\ p.it > e.it}}
         /\ Audit!currency_conflicts(C) =
              LET money == {m \in Audit!MoneySaid(C) : m.it.currency # 0}
                  first == {m \in money : \A n \in money : n.it.digits = m.it.digits => ~ Audit!Before(n, m)}
              IN { m.claim.index : m \in {n \in money : \E f \in first : f.it.digits = n.it.digits
                                                                    /\ f.it.currency # n.it.currency} }
  BY DEF Audit!chronology_issues, Audit!currency_conflicts

LEMMA ClaimsAreFew ==
  ASSUME NEW claims, Claimed(claims)
  PROVE  /\ IsFiniteSet(Audit!Range(claims))
         /\ \A c \in Audit!Range(claims) :
              /\ c.index \in Nat /\ c.start \in Int \cup {Unreadable}
              /\ IsFiniteSet(DOMAIN AmountsIn(c.text)) /\ DOMAIN AmountsIn(c.text) \subseteq Nat
              /\ IsFiniteSet(DOMAIN DatesIn(c.text)) /\ DOMAIN DatesIn(c.text) \subseteq Nat
<1> DEFINE f == [i \in DOMAIN claims |-> claims[i]]
<1>1. Audit!Range(claims) = {claims[i] : i \in DOMAIN claims}
  BY DEF Audit!Range
<1>2. {claims[i] : i \in DOMAIN claims} = {f[i] : i \in DOMAIN claims} /\ f = [i \in DOMAIN claims |-> f[i]]
  OBVIOUS
<1>3. IsFiniteSet(DOMAIN claims)
  BY DEF Claimed
<1>4. IsFiniteSet(Audit!Range(claims))
  <2> DEFINE T == {claims[i] : i \in DOMAIN claims}
  <2> HIDE DEF f, T
  <2>1. IsFiniteSet(T)
    BY <1>2, <1>3, ImageIs DEF T
  <2>2. QED
    BY <1>1, <2>1 DEF T
<1>5. QED
  BY <1>1, <1>4 DEF Claimed

LEMMA MoneyIsSaid ==
  ASSUME NEW claims, Claimed(claims), \A c \in PricedOf(claims) : c.start # Unreadable
  PROVE  /\ IsFiniteSet(Audit!MoneySaid(PricedOf(claims)))
         /\ \A m \in Audit!MoneySaid(PricedOf(claims)) :
              m.claim.start \in Int /\ m.claim.index \in Nat /\ m.place \in Nat
<1> DEFINE C == PricedOf(claims)
           of(c) == {[claim |-> c, place |-> j, it |-> AmountsIn(c.text)[j]] : j \in DOMAIN AmountsIn(c.text)}
           all == {of(c) : c \in C}
<1>1. /\ IsFiniteSet(C)
      /\ \A c \in C : /\ c.index \in Nat /\ c.start \in Int
                      /\ IsFiniteSet(DOMAIN AmountsIn(c.text)) /\ DOMAIN AmountsIn(c.text) \subseteq Nat
  <2>1. C \subseteq Audit!Range(claims)
    BY DEF PricedOf
  <2> HIDE DEF C
  <2>2. IsFiniteSet(C)
    BY <2>1, ClaimsAreFew, FS_Subset
  <2>3. QED
    BY <2>1, <2>2, ClaimsAreFew DEF C
<1>2. Audit!MoneySaid(C) = UNION all
  BY DEF Audit!MoneySaid
<1>3. ASSUME NEW c \in C
      PROVE  /\ IsFiniteSet(of(c))
             /\ \A m \in of(c) : m.claim.start \in Int /\ m.claim.index \in Nat /\ m.place \in Nat
  <2> DEFINE D == DOMAIN AmountsIn(c.text)
             f == [j \in D |-> [claim |-> c, place |-> j, it |-> AmountsIn(c.text)[j]]]
  <2>1. of(c) = {f[j] : j \in D} /\ f = [j \in D |-> f[j]]
    OBVIOUS
  <2>2. IsFiniteSet(D) /\ D \subseteq Nat /\ c.start \in Int /\ c.index \in Nat
    BY <1>1
  <2>3. \A m \in of(c) : m.claim = c /\ m.place \in D
    OBVIOUS
  <2>4. IsFiniteSet(of(c))
    <3> HIDE DEF D, f, of
    <3> QED
      BY <2>1, <2>2, ImageIs
  <2> HIDE DEF of, D, C
  <2>5. QED
    BY <2>2, <2>3, <2>4
<1>4. IsFiniteSet(all)
  <2> DEFINE f == [c \in C |-> of(c)]
  <2>1. all = {f[x] : x \in C} /\ f = [x \in C |-> f[x]]
    OBVIOUS
  <2> HIDE DEF f, all, C
  <2>2. QED
    BY <1>1, <2>1, ImageIs
<1>5. \A T \in all : /\ IsFiniteSet(T)
                     /\ \A m \in T : m.claim.start \in Int /\ m.claim.index \in Nat /\ m.place \in Nat
  <2> HIDE DEF of, C
  <2> QED
    BY <1>3
<1>6. QED
  <2> HIDE DEF all, C
  <2>1. IsFiniteSet(UNION all)
    BY <1>4, <1>5, FS_UNION
  <2>2. \A m \in UNION all : m.claim.start \in Int /\ m.claim.index \in Nat /\ m.place \in Nat
    BY <1>5
  <2>3. QED
    BY <1>2, <2>1, <2>2 DEF C

LEMMA IssuesAreFound ==
  ASSUME NEW d, NEW raw, NEW claims, NEW outcomes, NEW issues, NEW conflicts, NEW audit,
         Audited(d, raw, claims, outcomes, issues, conflicts, audit), Claimed(claims),
         NEW i \in DOMAIN claims
  PROVE  /\ i \in issues => \E f \in audit.review[i].findings : f[1] = "timeline_discrepancy"
         /\ i \in conflicts => \E f \in audit.review[i].findings : f[1] = "currency_mismatch"
<1> DEFINE a == audit.review[i].assessment
           m == audit.review[i].matches
<1> HIDE DEF a, m
<1>1. audit.review[i].findings = Audit!Findings(claims[i], outcomes[i], a, issues, conflicts, m)
  BY ReviewIs DEF a, m
<1>2. claims[i].index = i
  BY DEF Claimed
<1>3. ASSUME i \in issues
      PROVE  \E f \in audit.review[i].findings : f[1] = "timeline_discrepancy"
  <2>1. <<"timeline_discrepancy", 0>> \in Audit!Findings(claims[i], outcomes[i], a, issues, conflicts, m)
    BY <1>2, <1>3, FindingIs
  <2>2. QED
    BY <1>1, <2>1
<1>4. ASSUME i \in conflicts
      PROVE  \E f \in audit.review[i].findings : f[1] = "currency_mismatch"
  <2>1. <<"currency_mismatch", 0>> \in Audit!Findings(claims[i], outcomes[i], a, issues, conflicts, m)
    BY <1>2, <1>4, FindingIs
  <2>2. QED
    BY <1>1, <2>1
<1>5. QED
  BY <1>3, <1>4

(* A date that an earlier place of the draft passes is an issue.           *)
LEMMA BackwardsIsIssue ==
  ASSUME NEW claims, Claimed(claims),
         NEW h \in DOMAIN claims, NEW i \in DOMAIN claims,
         claims[h].category = "timeline", claims[i].category = "timeline",
         NEW j \in DOMAIN DatesIn(claims[h].text), NEW k \in DOMAIN DatesIn(claims[i].text),
         DatesIn(claims[h].text)[j] > DatesIn(claims[i].text)[k],
         claims[h].start < claims[i].start \/ (h = i /\ j < k)
  PROVE  i \in Audit!chronology_issues(DatedOf(claims))
<1> DEFINE p == [claim |-> claims[h], place |-> j, it |-> DatesIn(claims[h].text)[j]]
           e == [claim |-> claims[i], place |-> k, it |-> DatesIn(claims[i].text)[k]]
           days == Audit!DaysSaid(DatedOf(claims))
<1>1. claims[h] \in DatedOf(claims) /\ claims[i] \in DatedOf(claims)
  <2>1. \A s : DOMAIN s # {} => s # <<>>
    <3>1. DOMAIN <<>> = {}
      OBVIOUS
    <3>2. QED
      BY <3>1
  <2>2. DatesIn(claims[h].text) # <<>> /\ DatesIn(claims[i].text) # <<>>
    BY <2>1
  <2>3. QED
    BY <2>2 DEF DatedOf, Audit!Range
<1>2. p \in days /\ e \in days
  BY <1>1, WhatIsSaid
<1>3. Audit!Before(p, e) /\ p.it > e.it /\ e.claim.index = i
  BY DEF Audit!Before, Claimed
<1>4. Audit!chronology_issues(DatedOf(claims)) =
        {x.claim.index : x \in {x \in days : \E y \in days : Audit!Before(y, x) /\ y.it > x.it}}
  BY IssuesAre
<1>5. QED
  <2> HIDE DEF p, e, days
  <2>1. e \in {x \in days : \E y \in days : Audit!Before(y, x) /\ y.it > x.it}
    BY <1>2, <1>3
  <2>2. QED
    BY <1>3, <1>4, <2>1

(* Of two that give the same digits in two currencies one differs from the *)
(* first.                                                                  *)
LEMMA OtherCurrencyIsConflict ==
  ASSUME NEW claims, Claimed(claims), \A c \in PricedOf(claims) : c.start # Unreadable,
         NEW h \in DOMAIN claims, NEW i \in DOMAIN claims,
         NEW j \in DOMAIN AmountsIn(claims[h].text), NEW k \in DOMAIN AmountsIn(claims[i].text),
         NEW a, a = AmountsIn(claims[h].text)[j], NEW b, b = AmountsIn(claims[i].text)[k],
         a.currency # 0, b.currency # 0, a.digits = b.digits, a.currency # b.currency
  PROVE  \/ h \in Audit!currency_conflicts(PricedOf(claims))
         \/ i \in Audit!currency_conflicts(PricedOf(claims))
<1> DEFINE p == [claim |-> claims[h], place |-> j, it |-> a]
           e == [claim |-> claims[i], place |-> k, it |-> b]
           said == Audit!MoneySaid(PricedOf(claims))
           money == {m \in said : m.it.currency # 0}
           first == {m \in money : \A n \in money : n.it.digits = m.it.digits => ~ Audit!Before(n, m)}
           T == {m \in money : m.it.digits = a.digits}
           R == {q \in T \X T : Audit!Before(q[1], q[2])}
<1>1. claims[h] \in PricedOf(claims) /\ claims[i] \in PricedOf(claims)
  <2>1. \A s : DOMAIN s # {} => s # <<>>
    <3>1. DOMAIN <<>> = {}
      OBVIOUS
    <3>2. QED
      BY <3>1
  <2>2. AmountsIn(claims[h].text) # <<>> /\ AmountsIn(claims[i].text) # <<>>
    BY <2>1
  <2>3. QED
    BY <2>2 DEF PricedOf, Audit!Range
<1>2. p \in said /\ e \in said
  BY <1>1, WhatIsSaid
<1>3. p.it = a /\ e.it = b /\ p.claim.index = h /\ e.claim.index = i
  BY DEF Claimed
<1>4. p \in T /\ e \in T /\ p \in money /\ e \in money
  <2> HIDE DEF p, e, said
  <2> QED
    BY <1>2, <1>3
<1>5. IsFiniteSet(T) /\ \A m \in T : m.claim.start \in Int /\ m.claim.index \in Nat /\ m.place \in Nat
  <2>1. IsFiniteSet(said) /\ \A m \in said : m.claim.start \in Int /\ m.claim.index \in Nat /\ m.place \in Nat
    BY MoneyIsSaid
  <2>2. T \subseteq said
    OBVIOUS
  <2> HIDE DEF said, T
  <2>3. QED
    BY <2>1, <2>2, FS_Subset
<1>6. \A x, y \in T : <<x, y>> \in R <=> Audit!Before(x, y)
  OBVIOUS
<1>7. Strict(T, R)
  <2> HIDE DEF T, R
  <2>1. \A x \in T : ~ Audit!Before(x, x)
    BY <1>5 DEF Audit!Before
  <2>2. \A x, y, z \in T : Audit!Before(x, y) /\ Audit!Before(y, z) => Audit!Before(x, z)
    BY <1>5 DEF Audit!Before
  <2>3. QED
    BY <1>6, <2>1, <2>2 DEF Strict
<1>8. PICK f \in T : \A y \in T : ~ Audit!Before(y, f)
  <2> HIDE DEF T, R
  <2>1. PICK x \in T : \A y \in T : <<y, x>> \notin R
    BY <1>4, <1>5, <1>7, FirstExists
  <2>2. QED
    BY <1>6, <2>1
<1>9. f \in first /\ f.it.digits = a.digits
  <2> HIDE DEF money
  <2> QED
    BY <1>8
<1>10. Audit!currency_conflicts(PricedOf(claims)) =
         { m.claim.index : m \in {n \in money : \E g \in first : g.it.digits = n.it.digits
                                                            /\ g.it.currency # n.it.currency} }
  BY IssuesAre
<1>11. QED
  <2> DEFINE bad == {n \in money : \E g \in first : g.it.digits = n.it.digits /\ g.it.currency # n.it.currency}
  <2>1. p \in bad \/ e \in bad
    <3> HIDE DEF money, first, p, e
    <3> QED
      BY <1>3, <1>4, <1>9
  <2> HIDE DEF bad, money, first, p, e
  <2>2. QED
    BY <1>3, <1>10, <2>1 DEF bad

LEMMA OrderIsFound ==
  ASSUME NEW d, NEW raw, NEW claims, NEW outcomes, NEW issues, NEW conflicts, NEW audit,
         Audited(d, raw, claims, outcomes, issues, conflicts, audit), Claimed(claims)
  PROVE  Audit!OrderAndCurrencyAreFound(audit)
<1> DEFINE flagged(code) == {i \in DOMAIN claims : \E f \in audit.review[i].findings : f[1] = code}
           dated == {i \in DOMAIN claims : claims[i].category = "timeline"}
           days(i) == DatesIn(claims[i].text)
           backwards(i) ==
             \/ \E j, k \in DOMAIN days(i) : j < k /\ days(i)[j] > days(i)[k]
             \/ \E h \in dated : claims[h].start < claims[i].start /\
                  \E x \in Audit!Range(days(h)), y \in Audit!Range(days(i)) : x > y
           priced(i) == {a \in Audit!Range(AmountsIn(claims[i].text)) : a.currency # 0}
<1>1. /\ audit.claims = claims /\ DOMAIN audit.review = DOMAIN claims
      /\ issues = Audit!chronology_issues(DatedOf(claims)) /\ conflicts = Audit!currency_conflicts(PricedOf(claims))
      /\ \A c \in PricedOf(claims) : c.start # Unreadable
  BY DEF Audited
<1>2. ASSUME NEW i \in dated, backwards(i)
      PROVE  i \in flagged("timeline_discrepancy")
  <2>1. i \in issues
    <3>1. CASE \E j, k \in DOMAIN days(i) : j < k /\ days(i)[j] > days(i)[k]
      <4>1. PICK j \in DOMAIN days(i), k \in DOMAIN days(i) : j < k /\ days(i)[j] > days(i)[k]
        BY <3>1
      <4>2. QED
        BY <1>1, <4>1, BackwardsIsIssue
    <3>2. CASE \E h \in dated : claims[h].start < claims[i].start /\
                 \E x \in Audit!Range(days(h)), y \in Audit!Range(days(i)) : x > y
      <4>1. PICK h \in dated : claims[h].start < claims[i].start /\
                 \E x \in Audit!Range(days(h)), y \in Audit!Range(days(i)) : x > y
        BY <3>2
      <4>2. PICK j \in DOMAIN days(h), k \in DOMAIN days(i) : days(h)[j] > days(i)[k]
        BY <4>1 DEF Audit!Range
      <4>3. QED
        BY <1>1, <4>1, <4>2, BackwardsIsIssue
    <3>3. QED
      BY <1>2, <3>1, <3>2
  <2>2. QED
    BY <2>1, IssuesAreFound
<1>3. ASSUME NEW h \in DOMAIN claims, NEW i \in DOMAIN claims, NEW a \in priced(h), NEW b \in priced(i),
             a.digits = b.digits, a.currency # b.currency
      PROVE  {h, i} \cap flagged("currency_mismatch") # {}
  <2>1. PICK j \in DOMAIN AmountsIn(claims[h].text), k \in DOMAIN AmountsIn(claims[i].text) :
          a = AmountsIn(claims[h].text)[j] /\ b = AmountsIn(claims[i].text)[k]
    BY DEF Audit!Range
  <2>2. a.currency # 0 /\ b.currency # 0
    OBVIOUS
  <2>3. h \in conflicts \/ i \in conflicts
    BY <1>1, <1>3, <2>1, <2>2, OtherCurrencyIsConflict
  <2>4. h \in flagged("currency_mismatch") \/ i \in flagged("currency_mismatch")
    BY <2>3, IssuesAreFound
  <2> HIDE DEF flagged
  <2>5. QED
    BY <2>4
<1>4. QED
  <2>1. /\ \A i \in dated : backwards(i) => i \in flagged("timeline_discrepancy")
        /\ \A h, i \in DOMAIN claims : \A a \in priced(h), b \in priced(i) :
             (a.digits = b.digits /\ a.currency # b.currency) => {h, i} \cap flagged("currency_mismatch") # {}
    <3> HIDE DEF flagged, dated, backwards, priced
    <3> QED
      BY <1>2, <1>3
  <2>2. QED
    BY <1>1, <2>1 DEF Audit!OrderAndCurrencyAreFound

-----------------------------------------------------------------------------
(* The figures of an audit.                                                *)
LEMMA ApartAddUp ==
  ASSUME NEW A, NEW B, IsFiniteSet(A), IsFiniteSet(B), A \cap B = {}
  PROVE  /\ Cardinality(A) \in Nat /\ Cardinality(B) \in Nat
         /\ IsFiniteSet(A \cup B) /\ Cardinality(A \cup B) = Cardinality(A) + Cardinality(B)
<1>1. Cardinality(A) \in Nat /\ Cardinality(B) \in Nat
  BY FS_CardinalityType
<1>2. IsFiniteSet(A \cup B) /\ Cardinality(A \cup B) = Cardinality(A) + Cardinality(B) - Cardinality(A \cap B)
  BY FS_Union
<1>3. Cardinality(A \cap B) = 0
  BY FS_EmptySet
<1>4. QED
  BY <1>1, <1>2, <1>3

LEMMA PartsAddUp ==
  ASSUME NEW S, NEW A, NEW B, NEW C, IsFiniteSet(A), IsFiniteSet(B), IsFiniteSet(C),
         S = A \cup B \cup C, A \cap B = {}, (A \cup B) \cap C = {}
  PROVE  /\ Cardinality(A) \in Nat /\ Cardinality(B) \in Nat /\ Cardinality(C) \in Nat
         /\ Cardinality(S) = Cardinality(A) + Cardinality(B) + Cardinality(C)
<1> DEFINE D == A \cup B
<1>1. /\ Cardinality(A) \in Nat /\ Cardinality(B) \in Nat
      /\ IsFiniteSet(D) /\ Cardinality(D) = Cardinality(A) + Cardinality(B)
  BY ApartAddUp
<1>2. S = D \cup C /\ D \cap C = {}
  OBVIOUS
<1>3. Cardinality(C) \in Nat /\ Cardinality(S) = Cardinality(D) + Cardinality(C)
  <2> HIDE DEF D
  <2> QED
    BY <1>1, <1>2, ApartAddUp
<1>4. QED
  BY <1>1, <1>3

LEMMA SomeOrNone ==
  ASSUME NEW A, IsFiniteSet(A)
  PROVE  Cardinality(A) \in Nat /\ (Cardinality(A) > 0 <=> A # {})
<1>1. Cardinality(A) \in Nat /\ (Cardinality(A) = 0 <=> A = {})
  BY FS_CardinalityType, FS_EmptySet
<1>2. QED
  BY <1>1

LEMMA AssessmentIs ==
  ASSUME NEW rows, NEW outcomes, NEW reply, reply.verdict \in Audit!VERDICTS \cup {"failed"}
  PROVE  Audit!Assessment(rows, outcomes, reply)
           \in Audit!VERDICTS \cup {"skipped", "unit_failed", "assessment_unverified"}
<1> DEFINE excerpts == Audit!_excerpt_bundle(rows, outcomes)
           a == Audit!Assessment(rows, outcomes, reply)
           valid == Audit!assessment_is_valid(reply, excerpts)
<1>1. a = CASE excerpts = {} -> "skipped"
            [] excerpts # {} /\ reply.verdict = "failed" -> "unit_failed"
            [] excerpts # {} /\ reply.verdict # "failed" -> IF valid THEN reply.verdict ELSE "assessment_unverified"
  BY DEF Audit!Assessment
<1> HIDE DEF excerpts, a
<1>2. CASE excerpts = {}
  BY <1>1, <1>2 DEF a
<1>3. CASE excerpts # {} /\ reply.verdict = "failed"
  BY <1>1, <1>3 DEF a
<1>4. CASE excerpts # {} /\ reply.verdict # "failed"
  <2>1. a = reply.verdict \/ a = "assessment_unverified"
    BY <1>1, <1>4
  <2>2. QED
    BY <1>4, <2>1 DEF a
<1>5. QED
  BY <1>2, <1>3, <1>4

LEMMA FindingsAreFew ==
  ASSUME NEW claim, NEW outcomes, IsFiniteSet(DOMAIN outcomes),
         NEW a, NEW issues, NEW conflicts, NEW m
  PROVE  IsFiniteSet(Audit!Findings(claim, outcomes, a, issues, conflicts, m))
<1> DEFINE F == Audit!Findings(claim, outcomes, a, issues, conflicts, m)
           left == {"claim_extraction_invalid"} \cup {"numeric_mismatch"} \cup {"invalid_citation"}
           right == {"timeline_discrepancy"} \cup {"currency_mismatch"} \cup {"counter_evidence_candidate"} \cup {a}
           places == DOMAIN outcomes \cup {0}
<1>1. \A x, S : IsFiniteSet(S) => IsFiniteSet(S \cup {x})
  BY FS_AddElement
<1>2. IsFiniteSet(left) /\ IsFiniteSet(right) /\ IsFiniteSet(places)
  BY <1>1, FS_Singleton
<1>3. IsFiniteSet((left \cup right) \X places)
  <2> HIDE DEF left, right, places
  <2>1. IsFiniteSet(left \cup right)
    BY <1>2, FS_Union
  <2>2. QED
    BY <1>2, <2>1, FS_Product
<1>4. F \subseteq (left \cup right) \X places
  <2>1. ASSUME NEW f \in F
        PROVE  f \in (left \cup right) \X places
    <3>1. \/ \E x \in left \cup right : \E j \in DOMAIN outcomes : f = <<x, j>>
          \/ \E x \in left \cup right : f = <<x, 0>>
      BY FindingIs
    <3>2. QED
      BY <3>1
  <2> HIDE DEF F
  <2>2. QED
    BY <2>1
<1>5. QED
  <2> HIDE DEF F, left, right, places
  <2> QED
    BY <1>3, <1>4, FS_Subset DEF F

LEMMA AllFindingsAreFew ==
  ASSUME NEW review, IsFiniteSet(DOMAIN review), \A i \in DOMAIN review : IsFiniteSet(review[i].findings)
  PROVE  IsFiniteSet(Audit!AllFindings(review))
<1> DEFINE of(i) == {<<i, f>> : f \in review[i].findings}
           all == {of(i) : i \in DOMAIN review}
<1>1. Audit!AllFindings(review) = UNION all
  BY DEF Audit!AllFindings
<1>2. ASSUME NEW i \in DOMAIN review
      PROVE  IsFiniteSet(of(i))
  <2> DEFINE D == review[i].findings
             g == [f \in D |-> <<i, f>>]
  <2>1. of(i) = {g[x] : x \in D} /\ g = [x \in D |-> g[x]]
    OBVIOUS
  <2>2. IsFiniteSet(D)
    OBVIOUS
  <2> HIDE DEF D, g, of
  <2>3. QED
    BY <2>1, <2>2, ImageIs
<1>3. IsFiniteSet(all)
  <2> DEFINE g == [i \in DOMAIN review |-> of(i)]
             D == DOMAIN review
  <2>1. all = {g[x] : x \in D} /\ g = [x \in D |-> g[x]] /\ IsFiniteSet(D)
    OBVIOUS
  <2> HIDE DEF g, all, D
  <2>2. QED
    BY <2>1, ImageIs
<1>4. \A T \in all : IsFiniteSet(T)
  <2> HIDE DEF of
  <2> QED
    BY <1>2
<1>5. QED
  <2> HIDE DEF all
  <2> QED
    BY <1>1, <1>3, <1>4, FS_UNION

LEMMA DaysAreFew ==
  ASSUME NEW claims, Claimed(claims)
  PROVE  IsFiniteSet(Audit!DaysSaid(DatedOf(claims)))
<1> DEFINE C == DatedOf(claims)
           of(c) == {[claim |-> c, place |-> j, it |-> DatesIn(c.text)[j]] : j \in DOMAIN DatesIn(c.text)}
           all == {of(c) : c \in C}
<1>1. IsFiniteSet(C) /\ \A c \in C : IsFiniteSet(DOMAIN DatesIn(c.text))
  <2>1. C \subseteq Audit!Range(claims)
    BY DEF DatedOf
  <2> HIDE DEF C
  <2>2. QED
    BY <2>1, ClaimsAreFew, FS_Subset
<1>2. Audit!DaysSaid(C) = UNION all
  BY DEF Audit!DaysSaid
<1>3. ASSUME NEW c \in C
      PROVE  IsFiniteSet(of(c))
  <2> DEFINE D == DOMAIN DatesIn(c.text)
             f == [j \in D |-> [claim |-> c, place |-> j, it |-> DatesIn(c.text)[j]]]
  <2>1. of(c) = {f[j] : j \in D} /\ f = [j \in D |-> f[j]]
    OBVIOUS
  <2>2. IsFiniteSet(D)
    BY <1>1
  <2> HIDE DEF D, f, of
  <2>3. QED
    BY <2>1, <2>2, ImageIs
<1>4. IsFiniteSet(all)
  <2> DEFINE f == [c \in C |-> of(c)]
  <2>1. all = {f[x] : x \in C} /\ f = [x \in C |-> f[x]]
    OBVIOUS
  <2> HIDE DEF f, all, C
  <2>2. QED
    BY <1>1, <2>1, ImageIs
<1>5. \A T \in all : IsFiniteSet(T)
  <2> HIDE DEF of, C
  <2> QED
    BY <1>3
<1>6. QED
  <2> HIDE DEF all, C
  <2>1. IsFiniteSet(UNION all)
    BY <1>4, <1>5, FS_UNION
  <2>2. QED
    BY <1>2, <2>1 DEF C

LEMMA FiguresAre ==
  ASSUME NEW d, NEW raw, NEW claims, NEW outcomes, NEW issues, NEW conflicts, NEW audit,
         Audited(d, raw, claims, outcomes, issues, conflicts, audit), Claimed(claims), IsFiniteSet(DOMAIN raw),
         \A i \in DOMAIN claims : d.reply[claims[i].text].verdict \in Audit!VERDICTS \cup {"failed"}
  PROVE  Audit!FiguresAddUp(d.raw, d.parsed, audit)
<1> DEFINE f == audit.figures
           review == audit.review
           days == Audit!DaysSaid(DatedOf(claims))
           all == Audit!AllFindings(review)
           severe(level) == {x \in all : Audit!FINDING_SEVERITY(x[2][1]) = level}
           assessed(as) == {i \in DOMAIN review : review[i].assessment \in as}
           attempted == {i \in DOMAIN review : review[i].assessment # "skipped"}
<1>1. /\ f.findings_summary.claims = Cardinality(DOMAIN review)
      /\ f.model.claims_truncated = Cardinality(DOMAIN raw) - Cardinality(DOMAIN review)
      /\ f.findings_summary.high = Cardinality(severe(3))
      /\ f.findings_summary.medium = Cardinality(severe(2))
      /\ f.findings_summary.info = Cardinality(severe(1))
      /\ f.case_timeline.total = Cardinality(days)
      /\ f.case_timeline.matched = Cardinality({x \in days : x.it \in d.events})
      /\ f.model.assessments_attempted = Cardinality(attempted)
      /\ f.model.assessments_valid = Cardinality(assessed(Audit!VERDICTS))
      /\ f.model.assessments_invalid = Cardinality(assessed({"assessment_unverified"}))
      /\ f.units_failed = Cardinality(assessed({"unit_failed"})) + IF d.parsed THEN 0 ELSE 1
  <2>1. f = Audit!PayloadFigures(raw, d.parsed, DatedOf(claims), d.events, review)
    BY DEF Audited
  <2>2. Audit!DaysSaid(DatedOf(claims)) = days
    OBVIOUS
  <2>3. QED
    <3> DEFINE figures ==
      [ findings_summary |->
         [ claims |-> Cardinality(DOMAIN review),
           claims_with_findings |-> Cardinality({i \in DOMAIN review : review[i].findings # {}}),
           high |-> Cardinality(severe(3)), medium |-> Cardinality(severe(2)), info |-> Cardinality(severe(1)) ],
       counter_evidence |-> Cardinality({i \in DOMAIN review : review[i].matches # {}}),
       case_timeline |-> [total |-> Cardinality(days), matched |-> Cardinality({x \in days : x.it \in d.events})],
       model |->
         [ claims_extracted |-> Cardinality(DOMAIN raw),
           claims_truncated |-> Cardinality(DOMAIN raw) - Cardinality(DOMAIN review), extraction_failed |-> ~ d.parsed,
           assessments_attempted |-> Cardinality(attempted),
           assessments_valid |-> Cardinality(assessed(Audit!VERDICTS)),
           assessments_invalid |-> Cardinality(assessed({"assessment_unverified"})) ],
       units_failed |-> Cardinality(assessed({"unit_failed"})) + IF d.parsed THEN 0 ELSE 1 ]
    <3>1. f = figures
      <4> HIDE DEF review, days
      <4> QED
        BY <2>1, <2>2, Counted DEF Audit!PayloadFigures, Audit!Assessed
    <3> HIDE DEF f, review, days, severe, assessed, attempted
    <3>2. QED
      BY <3>1
<1>2. /\ DOMAIN review = DOMAIN claims /\ IsFiniteSet(DOMAIN review)
      /\ \A i \in DOMAIN review :
           /\ review[i].assessment \in Audit!VERDICTS \cup {"skipped", "unit_failed", "assessment_unverified"}
           /\ IsFiniteSet(review[i].findings)
           /\ review[i].severity = 3 <=> \E x \in review[i].findings : Audit!FINDING_SEVERITY(x[1]) = 3
  <2>1. DOMAIN review = DOMAIN claims /\ IsFiniteSet(DOMAIN review)
    BY DEF Audited, Claimed
  <2>2. ASSUME NEW i \in DOMAIN claims
        PROVE  /\ review[i].assessment \in Audit!VERDICTS \cup {"skipped", "unit_failed", "assessment_unverified"}
               /\ IsFiniteSet(review[i].findings)
               /\ review[i].severity = 3 <=> \E x \in review[i].findings : Audit!FINDING_SEVERITY(x[1]) = 3
    <3> DEFINE rows == d.rows
               o == outcomes[i]
               reply == d.reply[claims[i].text]
               a == review[i].assessment
               m == review[i].matches
    <3>1. /\ a = Audit!Assessment(rows, o, reply)
          /\ review[i].findings = Audit!Findings(claims[i], o, a, issues, conflicts, m)
          /\ review[i].severity = 3 <=> \E x \in review[i].findings : Audit!FINDING_SEVERITY(x[1]) = 3
      BY ReviewIs
    <3>2. IsFiniteSet(DOMAIN o)
      <4>1. DOMAIN o = DOMAIN claims[i].cited
        BY OutcomesAre DEF Audited
      <4>2. QED
        BY <4>1 DEF Claimed
    <3>3. reply.verdict \in Audit!VERDICTS \cup {"failed"}
      OBVIOUS
    <3>4. a \in Audit!VERDICTS \cup {"skipped", "unit_failed", "assessment_unverified"}
      <4> HIDE DEF rows, o, reply, a
      <4> QED
        BY <3>1, <3>3, AssessmentIs
    <3>5. IsFiniteSet(review[i].findings)
      <4> HIDE DEF o, a, m
      <4> QED
        BY <3>1, <3>2, FindingsAreFew
    <3>6. QED
      BY <3>1, <3>4, <3>5
  <2>3. QED
    BY <2>1, <2>2
<1>3. IsFiniteSet(all)
  <2> HIDE DEF review
  <2> QED
    BY <1>2, AllFindingsAreFew
<1>4. /\ Cardinality(severe(3)) + Cardinality(severe(2)) + Cardinality(severe(1)) = Cardinality(all)
      /\ Cardinality(severe(3)) > 0 <=> severe(3) # {}
  <2> DEFINE H == severe(3)
             M == severe(2)
             I == severe(1)
  <2>1. all = H \cup M \cup I /\ H \cap M = {} /\ (H \cup M) \cap I = {}
    <3> HIDE DEF all
    <3> QED
      BY SeverityOfFinding
  <2>2. IsFiniteSet(H) /\ IsFiniteSet(M) /\ IsFiniteSet(I)
    <3> HIDE DEF all
    <3> QED
      BY <1>3, FS_Subset
  <2> HIDE DEF H, M, I, all
  <2>3. Cardinality(H) + Cardinality(M) + Cardinality(I) = Cardinality(all)
    BY <2>1, <2>2, PartsAddUp
  <2>4. Cardinality(H) > 0 <=> H # {}
    BY <2>2, SomeOrNone
  <2>5. QED
    BY <2>3, <2>4 DEF H, M, I
<1>5. severe(3) # {} <=> \E i \in DOMAIN review : review[i].severity = 3
  <2>1. \A x : x \in all <=> \E i \in DOMAIN review : \E g \in review[i].findings : x = <<i, g>>
    BY DEF Audit!AllFindings
  <2>2. ASSUME NEW x \in severe(3)
        PROVE  \E i \in DOMAIN review : review[i].severity = 3
    <3>1. x \in all /\ Audit!FINDING_SEVERITY(x[2][1]) = 3
      OBVIOUS
    <3> HIDE DEF all, review
    <3>2. PICK i \in DOMAIN review : \E g \in review[i].findings : x = <<i, g>>
      BY <2>1, <3>1
    <3>3. PICK g \in review[i].findings : x = <<i, g>>
      BY <3>2
    <3>4. Audit!FINDING_SEVERITY(g[1]) = 3
      BY <3>1, <3>3
    <3>5. QED
      BY <1>2, <3>4
  <2>3. ASSUME NEW i \in DOMAIN review, review[i].severity = 3
        PROVE  severe(3) # {}
    <3>1. PICK g \in review[i].findings : Audit!FINDING_SEVERITY(g[1]) = 3
      BY <1>2, <2>3
    <3> DEFINE x == <<i, g>>
    <3>2. x \in all /\ Audit!FINDING_SEVERITY(x[2][1]) = 3
      BY <2>1, <3>1
    <3> HIDE DEF x, all
    <3>3. QED
      BY <3>2
  <2> HIDE DEF all, review, severe
  <2>4. QED
    BY <2>2, <2>3
<1>6. Cardinality({x \in days : x.it \in d.events}) <= Cardinality(days)
  <2>1. IsFiniteSet(days)
    BY DaysAreFew
  <2> HIDE DEF days
  <2>2. QED
    BY <2>1, FS_Subset
<1>7. /\ Cardinality(attempted) = Cardinality(assessed(Audit!VERDICTS))
           + Cardinality(assessed({"assessment_unverified"})) + Cardinality(assessed({"unit_failed"}))
      /\ Cardinality(assessed(Audit!VERDICTS)) \in Nat
      /\ Cardinality(assessed({"assessment_unverified"})) \in Nat /\ Cardinality(assessed({"unit_failed"})) \in Nat
  <2> DEFINE A == assessed(Audit!VERDICTS)
             B == assessed({"assessment_unverified"})
             C == assessed({"unit_failed"})
  <2>1. attempted = A \cup B \cup C /\ A \cap B = {} /\ (A \cup B) \cap C = {}
    <3> HIDE DEF review
    <3> QED
      BY <1>2 DEF Audit!VERDICTS
  <2>2. IsFiniteSet(A) /\ IsFiniteSet(B) /\ IsFiniteSet(C)
    <3> HIDE DEF review
    <3> QED
      BY <1>2, FS_Subset
  <2> HIDE DEF A, B, C, attempted
  <2>3. Cardinality(attempted) = Cardinality(A) + Cardinality(B) + Cardinality(C)
    BY <2>1, <2>2, PartsAddUp
  <2>4. Cardinality(A) \in Nat /\ Cardinality(B) \in Nat /\ Cardinality(C) \in Nat
    BY <2>2, FS_CardinalityType
  <2>5. QED
    BY <2>3, <2>4 DEF A, B, C
<1>8. Cardinality(DOMAIN raw) \in Nat /\ Cardinality(DOMAIN review) \in Nat /\ (d.parsed => raw = d.raw)
  <2>1. d.parsed => raw = d.raw
    BY DEF Audited
  <2>2. QED
    BY <1>2, <2>1, FS_CardinalityType
<1>9. audit.status = IF f.units_failed > 0 THEN "partial" ELSE "succeeded"
  BY DEF Audited
<1> HIDE DEF f, review, days, all, severe, assessed, attempted
<1>10. audit.status = "succeeded" <=>
         d.parsed /\ f.model.assessments_attempted = f.model.assessments_valid + f.model.assessments_invalid
  <2>1. CASE d.parsed
    BY <1>1, <1>7, <1>9, <2>1
  <2>2. CASE ~ d.parsed
    BY <1>1, <1>7, <1>9, <2>2
  <2>3. QED
    BY <2>1, <2>2
<1>11. d.parsed => f.findings_summary.claims + f.model.claims_truncated = Cardinality(DOMAIN d.raw)
  BY <1>1, <1>8
<1>12. /\ f.findings_summary.high + f.findings_summary.medium + f.findings_summary.info = Cardinality(all)
       /\ f.findings_summary.high > 0 <=> \E i \in DOMAIN review : review[i].severity = 3
       /\ f.case_timeline.matched <= f.case_timeline.total
  BY <1>1, <1>4, <1>5, <1>6
<1>13. QED
  BY <1>10, <1>11, <1>12, Counted DEF Audit!FiguresAddUp, f, review, all

-----------------------------------------------------------------------------
(* The calls.  An answer is the one its rule gives for its input, which is *)
(* one that the rule may be called with: inductive, and enough for every   *)
(* property of the calls, given what is proved of each rule above.         *)

TriageAnswer(in, available) ==
  LET analysis == Triage!triage_contents(in.records)
      verdicts == Triage!manifest_verdicts(analysis.entries, available)
  IN [ analysis |-> analysis, verdicts |-> verdicts,
       observed |-> Triage!_record_manifest_observations(analysis, verdicts) ]

ConflictAnswer(in) ==
  [ conflicts |-> Contradiction!generate_conflicts(in.records),
    sent |-> Contradiction!semantic_pairs(in.records, Statements(in), MaxLlmPairs) ]

InputInv ==
  /\ rule = "custody" => input \in Histories
  /\ rule = "assistant" => input \in Questions
  /\ rule = "timeline" => input \in Timelines
  /\ rule = "matching" => input \in Populations
  /\ rule = "triage" => input \in Exhibits
  /\ rule = "contradiction" => input \in Dossiers
  /\ rule = "audit" => input \in Reports

AnswerInv ==
  /\ InputInv
  /\ called =>
       /\ rule = "custody" => output = Custody!evaluate_custody(Snapshot(input))
       /\ rule = "cross_case" => output = CrossCase!build_candidates(Signals(input))
       /\ rule = "assistant" =>
            output = Assistant!execute_tool(input.db, input.user, BoundCase(input), input.call)
       /\ rule = "timeline" => output = Timeline!annotate_drafts(Proposals(input), input.existing)
       /\ rule = "matching" => output = Matching!build_candidate_pairs(input)
       /\ rule = "triage" =>
            \E available \in Triage!Readings(input.files) : output = TriageAnswer(input, available)
       /\ rule = "contradiction" => output = ConflictAnswer(input)
       /\ rule = "audit" => output = AuditOf(input)

LEMMA AnswerInvInit == RulesInit => AnswerInv
<1> SUFFICES ASSUME RulesInit
             PROVE  AnswerInv
  OBVIOUS
<1>1. InputInv
  BY DEF RulesInit, InputInv
<1>2. called = FALSE
  BY DEF RulesInit
<1>3. QED
  BY <1>1, <1>2 DEF AnswerInv

LEMMA AnswerInvStep == AnswerInv /\ [RulesNext]_calls => AnswerInv'
<1> SUFFICES ASSUME AnswerInv, [RulesNext]_calls
             PROVE  AnswerInv'
  OBVIOUS
<1> USE DEF Call, AnswerInv
<1>1. ASSUME UNCHANGED <<rule, input>>
      PROVE  InputInv'
  BY <1>1 DEF InputInv
<1>2. CASE CallCustody
  BY <1>1, <1>2 DEF CallCustody, Snapshot
<1>3. CASE CallCrossCase
  BY <1>1, <1>3 DEF CallCrossCase, Signals
<1>4. CASE CallAssistant
  BY <1>1, <1>4 DEF CallAssistant, BoundCase
<1>5. CASE CallTimeline
  BY <1>1, <1>5 DEF CallTimeline, Proposals
<1>6. CASE CallMatching
  BY <1>1, <1>6 DEF CallMatching
<1>7. CASE CallTriage
  <2>1. PICK available \in Triage!Readings(input.files) : output' = TriageAnswer(input, available)
    BY <1>7 DEF CallTriage, TriageAnswer
  <2>2. rule' = "triage" /\ input' = input /\ rule = "triage"
    BY <1>7 DEF CallTriage
  <2>3. \E x \in Triage!Readings(input'.files) : output' = TriageAnswer(input', x)
    BY <2>1, <2>2
  <2>4. QED
    BY <1>1, <2>2, <2>3
<1>8. CASE CallContradiction
  BY <1>1, <1>8 DEF CallContradiction, ConflictAnswer, Statements
<1>9. CASE CallAudit
  BY <1>1, <1>9 DEF CallAudit, AuditOf
<1>10. CASE UNCHANGED calls
  BY <1>1, <1>10 DEF calls, Snapshot, Signals, BoundCase, Proposals, ConflictAnswer, Statements, AuditOf
<1>11. QED
  BY <1>2, <1>3, <1>4, <1>5, <1>6, <1>7, <1>8, <1>9, <1>10 DEF RulesNext

LEMMA AlwaysAnswered == RulesSpec => []AnswerInv
  BY AnswerInvInit, AnswerInvStep, PTL DEF RulesSpec

-----------------------------------------------------------------------------
(* What the inputs are, in the terms of the rules.                         *)

LEMMA HistoriesAreAccepted ==
  ASSUME NEW h \in Histories
  PROVE  Accepted(Snapshot(h))
<1> DEFINE asked == {r \in h.requests : Custody!record_custody_event(r)}
           row == [r \in asked |-> Custody!EventRow(r, r)]
           s == Snapshot(h)
<1>1. /\ Skew \in Int /\ h.checked \in Int /\ IsFiniteSet(h.requests)
      /\ \A r \in h.requests : r.occurred \in Int /\ r.began \in Int /\ r.now \in Int /\ r.now <= h.checked
  BY HistoriesArePast
<1>2. s.checked = h.checked /\ s.events = {row[r] : r \in asked}
  BY DEF Snapshot
<1>3. IsFiniteSet(s.events)
  <2>1. row = [r \in asked |-> row[r]] /\ asked \in SUBSET h.requests
    OBVIOUS
  <2> HIDE DEF row, asked, s
  <2>2. IsFiniteSet(asked)
    BY <1>1, <2>1, FS_Subset
  <2>3. QED
    BY <1>2, <2>1, <2>2, ImageIs
<1>4. ASSUME NEW e \in s.events
      PROVE  /\ e.id \in asked
             /\ e = Custody!EventRow(e.id, e.id)
  <2>1. PICK r \in asked : e = Custody!EventRow(r, r)
    BY <1>2
  <2>2. e.id = r
    BY <2>1 DEF Custody!EventRow
  <2>3. QED
    BY <2>1, <2>2
<1>5. ASSUME NEW e \in s.events
      PROVE  \E r : /\ r.occurred \in Int /\ r.began \in Int /\ r.now \in Int
                    /\ Custody!record_custody_event(r) /\ r.now <= s.checked
                    /\ e = Custody!EventRow(e.id, r)
  <2>1. e.id \in h.requests /\ Custody!record_custody_event(e.id)
    BY <1>4
  <2> HIDE DEF s
  <2>2. QED
    BY <1>1, <1>2, <1>4, <2>1
<1>6. \A e, f \in s.events : e.id = f.id => e = f
  <2> HIDE DEF s, asked
  <2> QED
    BY <1>4
<1>7. QED
  <2> HIDE DEF s
  <2>1. Accepted(s)
    BY <1>1, <1>2, <1>3, <1>5, <1>6 DEF Accepted
  <2>2. QED
    BY <2>1 DEF s

LEMMA TimelinesAreRecords ==
  ASSUME NEW t \in Timelines
  PROVE  Records(t.items) /\ Proposals(t) = Drafts(t.items)
<1>1. Records(t.items)
  BY RecordsAreKeyed DEF Records
<1>2. \A i \in t.items :
        DraftsOf(i) = Timeline!drafts_from_record(i.source, i.fields)
                      \cup Timeline!drafts_from_artifact(i.source, i.dates, i.events)
  BY DEF DraftsOf
<1>3. Proposals(t) = Drafts(t.items)
  BY <1>2 DEF Proposals, Drafts
<1>4. QED
  BY <1>1, <1>3

LEMMA DraftsAre ==
  ASSUME NEW d \in Reports
  PROVE  /\ Keyed(d.rows) /\ Readable(d.raw)
         /\ \A i \in DOMAIN d.raw : d.reply[d.raw[i].text].verdict \in Audit!VERDICTS \cup {"failed"}
<1>1. /\ IsFiniteSet(DOMAIN d.raw) /\ DOMAIN d.raw \subseteq Nat \ {0}
      /\ \A r, q \in d.rows : r.kind = q.kind /\ r.id = q.id => r = q
      /\ \A c \in {d.raw[i] : i \in DOMAIN d.raw} :
            /\ c.start \in Int \cup {Unreadable}
            /\ IsFiniteSet(DOMAIN c.cited) /\ DOMAIN c.cited \subseteq Nat \ {0}
            /\ IsFiniteSet(DOMAIN AmountsIn(c.text)) /\ DOMAIN AmountsIn(c.text) \subseteq Nat
            /\ IsFiniteSet(DOMAIN DatesIn(c.text)) /\ DOMAIN DatesIn(c.text) \subseteq Nat
            /\ d.reply[c.text].verdict \in Audit!VERDICTS \cup {"failed"}
  BY DraftsAreRead
<1>2. Keyed(d.rows)
  BY <1>1 DEF Keyed
<1>3. Readable(d.raw)
  BY <1>1 DEF Readable
<1>4. ASSUME NEW i \in DOMAIN d.raw
      PROVE  d.reply[d.raw[i].text].verdict \in Audit!VERDICTS \cup {"failed"}
  <2> DEFINE c == d.raw[i]
  <2>1. c \in {d.raw[k] : k \in DOMAIN d.raw}
    OBVIOUS
  <2> HIDE DEF c
  <2>2. d.reply[c.text].verdict \in Audit!VERDICTS \cup {"failed"}
    BY <1>1, <2>1
  <2>3. QED
    BY <2>2 DEF c
<1>5. QED
  BY <1>2, <1>3, <1>4

LEMMA BoundIsSeen ==
  ASSUME NEW in
  PROVE  BoundCase(in) \subseteq Seen(in.db, in.user)
BY DEF BoundCase, Seen, Assistant!assert_case_access, Assistant!_visibility_condition

-----------------------------------------------------------------------------
(* Whatever a file went through and whatever is in it: the audit of its    *)
(* custody agrees with a verification, blames nothing the API checked and  *)
(* accounts for every hand-over; triage finds a burst wherever it starts   *)
(* and calls bytes different only when it read some of that name           *)
(* (custody.py, forensic_triage.py).                                       *)
THEOREM EvidenceIsAlwaysJudged == RulesSpec => []EvidenceIsJudged
<1>1. ASSUME AnswerInv
      PROVE  EvidenceIsJudged
  <2>1. ASSUME Called("custody")
        PROVE  /\ Custody!AgreesWithVerification(Snapshot(input), output)
               /\ Custody!AcceptedEventsAreInOrder(Snapshot(input), output)
               /\ Custody!HandOffsAreAccountedFor(Snapshot(input), output)
    <3>1. input \in Histories /\ output = Custody!evaluate_custody(Snapshot(input))
      BY <1>1, <2>1 DEF AnswerInv, InputInv, Called
    <3>2. Accepted(Snapshot(input))
      BY <3>1, HistoriesAreAccepted
    <3>3. QED
      BY <3>1, <3>2, AuditAgreesWithVerification, AcceptedChainIsInOrder, HandOffsAreReadOffTheChain
  <2>2. ASSUME Called("triage")
        PROVE  /\ Triage!BurstIsFound(input.records, output.analysis)
               /\ Triage!VerdictsCiteBytes(input.files, output.verdicts, output.observed)
    <3>1. /\ input \in Exhibits
          /\ \E available \in Triage!Readings(input.files) : output = TriageAnswer(input, available)
      BY <1>1, <2>2 DEF AnswerInv, InputInv, Called
    <3>2. PICK available \in Triage!Readings(input.files) : output = TriageAnswer(input, available)
      BY <3>1
    <3>3. Exhibit(input.records) /\ MaxObservations \in Nat /\ Burst \in Nat /\ Window \in Nat
      BY <3>1, ExhibitsAreNumbered DEF Exhibit
    <3>4. Triage!BurstIsFound(input.records, output.analysis)
      BY <3>2, <3>3, BurstsAreFound DEF TriageAnswer
    <3>5. Triage!VerdictsCiteBytes(input.files, output.verdicts, output.observed)
      BY <3>2, <3>3, VerdictsCiteWhatWasRead DEF TriageAnswer
    <3>6. QED
      BY <3>4, <3>5
  <2>3. QED
    BY <2>1, <2>2 DEF EvidenceIsJudged
<1>2. QED
  BY <1>1, AlwaysAnswered, PTL

(* Whatever a discovery or a tool is asked: no answer tells its reader of  *)
(* a case she may not read, and what may be approved is identified         *)
(* (cross_case.py, ai/tools.py).                                           *)
THEOREM AnswersAreInScope == RulesSpec => []AnswersStayInScope
<1>1. ASSUME AnswerInv
      PROVE  AnswersStayInScope
  <2>1. ASSUME Called("cross_case")
        PROVE  /\ CrossCase!ApprovableIsIdentified(Signals(input), output)
               /\ \A u \in Readers : \A gone \in Deleted :
                    CrossCase!ShownIsOwnScope(u, DOMAIN input \ gone, Signals(input), output)
    <3>1. output = CrossCase!build_candidates(Signals(input))
      BY <1>1, <2>1 DEF Called, AnswerInv
    <3>2. QED
      BY <3>1, ApprovableIsJoined, ShownIsFoundInOwnScope
  <2>2. ASSUME Called("assistant")
        PROVE  Assistant!HiddenIsAbsent(input.db, input.user, BoundCase(input), input.call, output)
    <3>1. /\ output = Assistant!execute_tool(input.db, input.user, BoundCase(input), input.call)
          /\ input \in Questions
      BY <1>1, <2>2 DEF Called, AnswerInv, InputInv
    <3>2. \A e, f \in input.db.entities : e.id = f.id => e = f
      BY <3>1, EntityIdsAreKeys
    <3>3. QED
      BY <3>1, <3>2, BoundIsSeen, ToolsNeverTellOfHiddenCases
  <2>3. QED
    BY <2>1, <2>2 DEF AnswersStayInScope
<1>2. QED
  BY <1>1, AlwaysAnswered, PTL

(* Whatever the entities of a case and its records are: each pair of       *)
(* entities is proposed on its grounds, refused or counted as left over,   *)
(* and the marks of a timeline are mutual (entity_matching.py,             *)
(* timeline_reconstruction.py).                                            *)
THEOREM SuggestionsAreAlwaysAccountedFor == RulesSpec => []SuggestionsAreAccountedFor
<1>1. ASSUME AnswerInv
      PROVE  SuggestionsAreAccountedFor
  <2>1. ASSUME Called("matching")
        PROVE  Matching!PairsAreAccountedFor(input, output)
    <3>1. input \in Populations /\ output = Matching!build_candidate_pairs(input)
      BY <1>1, <2>1 DEF AnswerInv, InputInv, Called
    <3>2. Population(input)
      BY <3>1, EntityIdsAreKeys DEF Population
    <3>3. QED
      BY <3>1, <3>2, ThresholdsAreNumbers, EveryPairIsAccountedFor
  <2>2. ASSUME Called("timeline")
        PROVE  Timeline!MarksAreMutual(Proposals(input), output)
    <3>1. input \in Timelines /\ output = Timeline!annotate_drafts(Proposals(input), input.existing)
      BY <1>1, <2>2 DEF AnswerInv, InputInv, Called
    <3>2. Records(input.items) /\ Proposals(input) = Drafts(input.items)
      BY <3>1, TimelinesAreRecords
    <3>3. QED
      BY <3>1, <3>2, MarksAreAlwaysMutual
  <2>3. QED
    BY <2>1, <2>2 DEF SuggestionsAreAccountedFor
<1>2. QED
  BY <1>1, AlwaysAnswered, PTL

(* Whatever the records of a case say: the conflicts are those of the      *)
(* documented matrix, and the model is asked about each pair of statements *)
(* once, below the limits about every one (contradiction_detection.py).    *)
THEOREM ConflictsAlwaysMeetTheMatrix == RulesSpec => []ConflictsMeetTheMatrix
<1>1. ASSUME AnswerInv, Called("contradiction")
      PROVE  /\ Contradiction!MeetsTheMatrix(input.records, output.conflicts)
             /\ Contradiction!AskedOnce(output.sent, MaxLlmPairs)
             /\ Contradiction!BothPassesComplete(input.records, Statements(input), output.conflicts,
                                                 output.sent, MaxLlmPairs)
  <2>1. input \in Dossiers /\ output = ConflictAnswer(input)
    BY <1>1 DEF AnswerInv, InputInv, Called
  <2>2. /\ Filed(input.records) /\ Bounded /\ MaxLlmPairs \in Nat /\ Extracted \in Int
        /\ IsFiniteSet(input.extractions) /\ \A e \in input.extractions : IsFiniteSet(DOMAIN e.said)
    BY <2>1, DossiersAreKeyed DEF Filed, Bounded
  <2>3. Spoken(Statements(input))
    BY <2>2, StatementsAreFew DEF Statements
  <2>4. /\ output.conflicts = Contradiction!generate_conflicts(input.records)
        /\ output.sent = Contradiction!semantic_pairs(input.records, Statements(input), MaxLlmPairs)
    BY <2>1 DEF ConflictAnswer
  <2>5. Contradiction!MeetsTheMatrix(input.records, output.conflicts)
    BY <2>2, <2>4, ConflictsMeetIt
  <2>6. Contradiction!AskedOnce(output.sent, MaxLlmPairs)
    BY <2>2, <2>3, <2>4, EachIsAskedOnce
  <2>7. Contradiction!BothPassesComplete(input.records, Statements(input), output.conflicts,
                                         output.sent, MaxLlmPairs)
    BY <2>2, <2>4, PassesAreComplete DEF Statements
  <2>8. QED
    BY <2>5, <2>6, <2>7
<1>2. AnswerInv => ConflictsMeetTheMatrix
  BY <1>1 DEF ConflictsMeetTheMatrix
<1>3. QED
  BY <1>2, AlwaysAnswered, PTL

(* An audit of a draft is honest: what a model says of it becomes a        *)
(* finding only with a verified quote, nothing that was not validated is   *)
(* passed over, order and currencies are compared, the figures add up.     *)
THEOREM AuditsAreAlwaysHonest == RulesSpec => []AuditIsHonest
<1>1. ASSUME AnswerInv, Called("audit")
      PROVE  /\ Audit!JudgementsAreQuoted(output, input.rows, input.case, input.reply)
             /\ Audit!CleanClaimsWereChecked(output)
             /\ Audit!FiguresAddUp(input.raw, input.parsed, output)
             /\ Audit!OrderAndCurrencyAreFound(output)
  <2>1. input \in Reports /\ output = AuditOf(input)
    BY <1>1 DEF AnswerInv, InputInv, Called
  <2>2. MaxChecks \in Nat /\ MaxCited \in Nat /\ Keyed(input.rows) /\ Readable(input.raw)
    BY <2>1, DraftsAre, DraftsAreRead
  <2>3. CASE /\ output.status = "failed" /\ output.claims = <<>>
             /\ output.outcomes = <<>> /\ output.review = <<>>
    <3>1. DOMAIN <<>> = {}
      OBVIOUS
    <3>2. DOMAIN output.claims = {} /\ DOMAIN output.outcomes = {} /\ DOMAIN output.review = {}
      BY <2>3, <3>1
    <3>3. Audit!CleanClaimsWereChecked(output)
      BY <3>2 DEF Audit!CleanClaimsWereChecked
    <3>4. Audit!FiguresAddUp(input.raw, input.parsed, output)
      BY <2>3 DEF Audit!FiguresAddUp
    <3>5. Audit!OrderAndCurrencyAreFound(output)
      BY <3>2 DEF Audit!OrderAndCurrencyAreFound
    <3>6. Cardinality({ p \in UNION {{i} \X DOMAIN output.outcomes[i] : i \in DOMAIN output.outcomes} :
                          output.outcomes[p[1]][p[2]].checked }) <= MaxChecks
      <4> DEFINE S == { p \in UNION {{i} \X DOMAIN output.outcomes[i] : i \in DOMAIN output.outcomes} :
                          output.outcomes[p[1]][p[2]].checked }
      <4>1. S = {}
        BY <3>2
      <4> HIDE DEF S
      <4>2. Cardinality(S) = 0
        BY <4>1, FS_EmptySet
      <4>3. Cardinality(S) <= MaxChecks
        BY <2>2, <4>2
      <4>4. QED
        BY <4>3 DEF S
    <3>7. Audit!JudgementsAreQuoted(output, input.rows, input.case, input.reply)
      BY <3>2, <3>6, Counted DEF Audit!JudgementsAreQuoted
    <3>8. QED
      BY <3>3, <3>4, <3>5, <3>7
  <2>4. CASE \E raw, claims, outcomes, issues, conflicts :
               Audited(input, raw, claims, outcomes, issues, conflicts, output)
    <3>1. PICK raw, claims, outcomes, issues, conflicts :
            Audited(input, raw, claims, outcomes, issues, conflicts, output)
      BY <2>4
    <3>2. Readable(raw) /\ (raw = input.raw \/ raw = <<>>) /\ claims = Audit!normalize_claims(raw)
      <4>1. DOMAIN <<>> = {}
        OBVIOUS
      <4>2. Readable(<<>>)
        BY <4>1, FS_EmptySet DEF Readable
      <4>3. QED
        BY <2>2, <3>1, <4>2 DEF Audited
    <3>3. /\ Claimed(claims) /\ IsFiniteSet(DOMAIN raw)
          /\ \A i \in DOMAIN claims : i \in DOMAIN raw /\ claims[i].text = raw[i].text
      BY <3>2, DraftedAreClaims DEF Readable
    <3>4. \A i \in DOMAIN claims : input.reply[claims[i].text].verdict \in Audit!VERDICTS \cup {"failed"}
      <4>1. \A i \in DOMAIN input.raw :
              input.reply[input.raw[i].text].verdict \in Audit!VERDICTS \cup {"failed"}
        BY <2>1, DraftsAre
      <4>2. DOMAIN <<>> = {}
        OBVIOUS
      <4>3. QED
        BY <3>2, <3>3, <4>1, <4>2
    <3>5. Audit!JudgementsAreQuoted(output, input.rows, input.case, input.reply)
      BY <2>2, <3>1, <3>3, JudgementsAre
    <3>6. Audit!CleanClaimsWereChecked(output)
      BY <3>1, CleanAreChecked
    <3>7. Audit!FiguresAddUp(input.raw, input.parsed, output)
      BY <3>1, <3>3, <3>4, FiguresAre
    <3>8. Audit!OrderAndCurrencyAreFound(output)
      BY <3>1, <3>3, OrderIsFound
    <3>9. QED
      BY <3>5, <3>6, <3>7, <3>8
  <2>5. QED
    BY <2>1, <2>3, <2>4, AuditIs
<1>2. AnswerInv => AuditIsHonest
  BY <1>1 DEF AuditIsHonest
<1>3. QED
  BY <1>2, AlwaysAnswered, PTL

=============================================================================

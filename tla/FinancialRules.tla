--------------------------- MODULE FinancialRules ---------------------------
(***************************************************************************)
(* Financial structure of a case (services/financial_flow.py): the fact a  *)
(* source record yields, the totals, the association network, the pattern  *)
(* rules and the trace.  References, accounts, currencies, parties and     *)
(* times are numbers, 0 stands for none.  An amount keeps the scale it is  *)
(* written with, because the code keys on its text: 100 and 100.00 are one *)
(* amount of two scales.                                                   *)
(***************************************************************************)
EXTENDS Integers, Sequences, FiniteSets, FiniteSetsExt, Functions, SequencesExt

CONSTANTS
  Threshold,         \* FLOW_AMOUNT_THRESHOLD
  MaxEdges,          \* FLOW_MAX_EDGES
  MaxSupportingIds,  \* max_supporting_ids of one total
  MaxFacts           \* FLOW_MAX_FACTS

NoAmount == [value |-> 0, scale |-> -1]
HasAmount(f) == f.amount # NoAmount
Text(amount) == <<amount.value, amount.scale>>   \* str(amount)

STATUS_KEYWORDS == <<"completed", "pending", "rejected", "reversed">>

-----------------------------------------------------------------------------
(* Facts.                                                                  *)

(* A raw amount: its kind, its number as written, and the currency token   *)
(* inside the string.                                                      *)
parse_amount(a) ==
  [ amount |-> IF a.kind \in {"absent", "junk"} THEN NoAmount
               ELSE [value |-> a.value, scale |-> CASE a.kind = "int" -> 0
                                                     [] a.kind = "float" -> 1
                                                     [] OTHER -> a.scale],
    hint |-> IF a.kind = "string" THEN a.hint ELSE 0,
    invalid |-> a.kind = "junk",
    float |-> a.kind = "float" ]

(* A status: the classes of which it is a word, and those of which a word  *)
(* is somewhere inside it.                                                 *)
classify_status(status) ==
  LET in(classes) == {j \in DOMAIN STATUS_KEYWORDS : STATUS_KEYWORDS[j] \in classes}
  IN CASE Cardinality(status.exact) = 1  -> STATUS_KEYWORDS[Min(in(status.exact))]
       [] Cardinality(status.exact) > 1  -> "ambiguous"
       [] status.inside # {}             -> STATUS_KEYWORDS[Min(in(status.inside))]
       [] OTHER                          -> "unknown"

(* The parties: the bank, merchant, receiver and name that are documented, *)
(* in that order.                                                          *)
IsFinancial(record) ==
  record.amount.kind # "absent" \/ record.ref # 0 \/ record.account # 0 \/ record.parties # <<>>

extract_fact(record) ==
  LET parsed == parse_amount(record.amount)
  IN [ id |-> record.id,
       fact_class |-> IF parsed.amount # NoAmount \/ record.ref # 0
                      THEN "transaction" ELSE "account_reference",
       amount |-> parsed.amount,
       currency |-> IF record.currency # 0 THEN record.currency ELSE parsed.hint,
       ref |-> record.ref, account |-> record.account, parties |-> record.parties,
       status |-> classify_status(record.status), time |-> record.time,
       limitations |->
         {l \in {"amount_invalid"} : parsed.invalid} \cup {l \in {"float_source"} : parsed.float} ]

extract_facts(records) ==
  LET financial == SelectSeq(records, IsFinancial)
  IN [j \in DOMAIN financial |-> extract_fact(financial[j])]

(* A victim states up to three amounts, each the set of it, empty for null. *)
(* A stated one arrives as a float, which is written with one decimal.     *)
Losses == {"reported_amount", "amount_lost", "recovery_amount"}
extract_victim_financials(victims) ==
  { [ id |-> v.id,
      amounts |-> [a \in Losses |-> IF v.amounts[a] = {} THEN NoAmount
                                    ELSE [value |-> Min(v.amounts[a]), scale |-> 1]],
      missing |-> {a \in Losses : v.amounts[a] = {}}
                  \cup {m \in {"currency", "incident_date"} : v[m] = 0} ] : v \in victims }

-----------------------------------------------------------------------------
(* Totals.                                                                 *)

dedupe_key(f) ==
  IF f.ref # 0 THEN <<"txn", f.ref>>
  ELSE <<"amtacct", IF HasAmount(f) THEN Text(f.amount) ELSE <<>>, f.account>>

Transactions(facts) == SelectSeq(facts, LAMBDA f : f.fact_class = "transaction")
WithAmount(facts) == SelectSeq(Transactions(facts), HasAmount)
SumOf(group) == FoldLeft(LAMBDA sum, f : sum + f.amount.value, 0, group)
Ids(group) == LET n == Min({Len(group), MaxSupportingIds})
              IN [ids |-> [j \in 1..n |-> group[j].id], capped |-> Len(group) > MaxSupportingIds]

(* total_distinct is the set of the one total, empty for null.             *)
CurrencyBucket(group) ==
  LET keys == {dedupe_key(f) : f \in Range(group)}
      values(k) == {f.amount.value : f \in {g \in Range(group) : dedupe_key(g) = k}}
      conflicting == {k \in keys : Cardinality(values(k)) > 1}
      distinct == MapThenSumSet(LAMBDA k : Max(values(k)), keys \ conflicting)
  IN [ count |-> Len(group), groups |-> Cardinality(keys), conflicting |-> conflicting,
       total_records |-> SumOf(group),
       total_distinct |-> IF conflicting # {} /\ distinct = 0 THEN {} ELSE {distinct},
       support |-> Ids(group) ]

aggregate_facts(facts) ==
  LET paid == WithAmount(facts)
      total(group) == [count |-> Len(group), total_records |-> SumOf(group), support |-> Ids(group)]
      by(key(_), names) == [n \in names |-> total(SelectSeq(paid, LAMBDA f : key(f) = n))]
  IN [ currencies |-> [ c \in {f.currency : f \in Range(paid)} |->
                          CurrencyBucket(SelectSeq(paid, LAMBDA f : f.currency = c)) ],
       by_status |-> by(LAMBDA f : f.status, {f.status : f \in Range(paid)}),
       by_account |-> by(LAMBDA f : f.account, {f.account : f \in Range(paid)} \ {0}) ]

-----------------------------------------------------------------------------
(* The association network.  A node is a number; an edge joins two nodes.  *)

(* The pairs one record documents: a star around its account, else all.    *)
Associations(f) ==
  LET p == f.parties
  IN IF f.account # 0 THEN [j \in DOMAIN p |-> <<f.account, p[j]>>]
     ELSE SetToSortSeq({<<p[i], p[j]>> : <<i, j>> \in {q \in (DOMAIN p) \X (DOMAIN p) : q[1] < q[2]}},
                       LAMBDA a, b : a[1] < b[1] \/ (a[1] = b[1] /\ a[2] < b[2]))

Nodes(facts, owns) ==
  (UNION {({f.account} \ {0}) \cup Range(f.parties) : f \in Range(facts)})
  \cup UNION {{o.source, o.target} : o \in Range(owns)}

(* The first offer of a pair makes the edge, later ones add their record;  *)
(* a pair beyond the bound is dropped.                                     *)
build_structure_network(facts, owns) ==
  LET offer(ends, kind, record) == [ends |-> ends, kind |-> kind, record |-> record]
      offered(f) == LET pairs == Associations(f)
                    IN [j \in DOMAIN pairs |-> offer(Range(pairs[j]), "association", f.id)]
      all == FlattenSeq([j \in DOMAIN facts |-> offered(facts[j])])
             \o [j \in DOMAIN owns |-> offer({owns[j].source, owns[j].target},
                                              "relationship", owns[j].record)]
      add(edges, o) ==
        IF Cardinality(o.ends) = 1 THEN edges
        ELSE IF \E j \in DOMAIN edges : edges[j].ends = o.ends
        THEN [ j \in DOMAIN edges |->
                 IF edges[j].ends # o.ends THEN edges[j]
                 ELSE [edges[j] EXCEPT !.records = @ \cup ({o.record} \ {0})] ]
        ELSE IF Len(edges) >= MaxEdges THEN edges
        ELSE Append(edges, [ends |-> o.ends, kind |-> o.kind, records |-> {o.record} \ {0}])
      edges == FoldLeft(add, <<>>, all)
  IN [nodes |-> Nodes(facts, owns), edges |-> edges, bounded |-> Len(edges) >= MaxEdges]

Neighbours(network, n) ==
  (UNION {e.ends : e \in {d \in Range(network.edges) : n \in d.ends}}) \ {n}

-----------------------------------------------------------------------------
(* Pattern rules.  A rule that fires cites its records, or its victim.     *)

NOT_EVALUABLE_RULES ==
  {"rapid_succession", "repeated_pair", "circular_path", "amount_splitting", "concentration"}

(* The victims whose loss, as reported or else as lost, is written as no   *)
(* transaction's amount is.                                                *)
UnmatchedLosses(financials, texts) ==
  LET loss(v) == IF v.amounts["reported_amount"] # NoAmount THEN v.amounts["reported_amount"]
                 ELSE v.amounts["amount_lost"]
  IN {v.id : v \in {w \in financials : loss(w) # NoAmount /\ Text(loss(w)) \notin texts}}

Evaluation(firing) ==
  LET evaluated == {"duplicate_amount", "amount_threshold", "missing_currency",
                    "missing_timestamp", "victim_loss_unmatched"}
  IN [ firing |-> firing, not_fired |-> evaluated \ {f.rule : f \in firing},
       not_evaluable |-> NOT_EVALUABLE_RULES ]

evaluate_patterns(facts, financials) ==
  LET paid == WithAmount(facts)
      ids(P(_)) == {f.id : f \in {g \in Range(paid) : P(g)}}
      same(t) == ids(LAMBDA f : Text(f.amount) = t)
      texts == {Text(f.amount) : f \in Range(paid)}
      fires(rule, S) == IF S = {} THEN {} ELSE {[rule |-> rule, ids |-> S]}
  IN Evaluation(
       { [rule |-> "duplicate_amount", ids |-> same(t)] :
           t \in {u \in texts : Cardinality(same(u)) >= 2} }
       \cup fires("amount_threshold", ids(LAMBDA f : f.amount.value >= Threshold))
       \cup fires("missing_currency", ids(LAMBDA f : f.currency = 0))
       \cup fires("missing_timestamp", ids(LAMBDA f : f.time = 0))
       \cup {[rule |-> "victim_loss_unmatched", ids |-> {v}] : v \in UnmatchedLosses(financials, texts)})

-----------------------------------------------------------------------------
(* What a run stores: the totals are of all the facts, the facts it lists  *)
(* are the first of them.                                                  *)

build_payload(facts, victims, owns) ==
  LET financials == extract_victim_financials(victims)
  IN [ facts |-> SubSeq(facts, 1, Min({Len(facts), MaxFacts})),
       facts_bounded |-> Len(facts) > MaxFacts, facts_total |-> Len(facts),
       victim_financials |-> financials,
       aggregates |-> aggregate_facts(facts),
       structure_network |-> build_structure_network(facts, owns),
       patterns |-> evaluate_patterns(facts, financials),
       limitations |-> {l \in {"float_source"} : financials # {} \/
                                 \E f \in Range(facts) : "float_source" \in f.limitations} ]

-----------------------------------------------------------------------------
(* The trace: neighbours in sorted order, depth first.                     *)

RECURSIVE Dfs(_, _, _, _, _)
Dfs(network, path, depth, paths, found) ==
  LET open == Neighbours(network, Last(path)) \ Range(path)
      deep == Len(path) > depth
      full == Len(found.paths) >= paths
      end == [nodes |-> path, ended |-> IF deep /\ open # {} THEN "depth_limit" ELSE "dead_end"]
      visit(sofar, n) ==
        IF Len(sofar.paths) >= paths THEN [sofar EXCEPT !.truncated = TRUE]
        ELSE Dfs(network, Append(path, n), depth, paths, sofar)
  IN CASE open # {} /\ ~ deep -> FoldLeft(visit, found, SetToSortSeq(open, <))
       [] Len(path) = 1       -> [found EXCEPT !.truncated = @ \/ (deep /\ open # {})]
       [] full                -> [found EXCEPT !.truncated = TRUE]
       [] OTHER               -> [found EXCEPT !.paths = Append(@, end)]

_trace_paths_silent(network, start, depth, paths) ==
  [Dfs(network, <<start>>, depth, paths, [paths |-> <<>>, truncated |-> FALSE]) EXCEPT !.truncated = FALSE]

_trace_paths(network, start, depth, paths) ==
  Dfs(network, <<start>>, depth, paths, [paths |-> <<>>, truncated |-> FALSE])

(* The answer to one request; `kind` tells what the target is.             *)
trace_flows(facts, owns, kind, target, edge_kind, depth, paths) ==
  LET network == build_structure_network(facts, owns)
      matched == SelectSeq(facts, LAMBDA f : f.ref = target)
      documented == SelectSeq(matched, LAMBDA f : f.account \in network.nodes)
      start == CASE kind = "account" /\ target \in network.nodes -> target
                 [] kind = "transaction" /\ documented # <<>>     -> documented[1].account
                 [] OTHER                                         -> 0
      found == (kind = "account" /\ start # 0) \/ (kind = "transaction" /\ matched # <<>>)
      none == [paths |-> <<>>, truncated |-> FALSE]
  IN CASE edge_kind = "transfer" -> [status |-> "insufficient_data", start |-> 0, trace |-> none]
       [] ~ found                -> [status |-> "not_found", start |-> 0, trace |-> none]
       [] start = 0              -> [status |-> "ok", start |-> 0, trace |-> none]
       [] OTHER -> [status |-> "ok", start |-> start,
                    trace |-> _trace_paths(network, start, depth, paths)]

-----------------------------------------------------------------------------
(* Every record with an amount counts in one currency, one status and at   *)
(* most one account; and a transfer that is recorded once more, under the  *)
(* same reference and amount, changes no distinct total.                   *)
TotalsReconcile(facts, f) ==
  LET total(part) == MapThenSumSet(LAMBDA n : part[n].total_records, DOMAIN part)
      before == aggregate_facts(facts)
      after == aggregate_facts(Append(facts, [f EXCEPT !.id = @ + 100]))
      moved == IF f \in Range(WithAmount(facts)) THEN f.amount.value ELSE 0
  IN /\ total(before.currencies) = SumOf(WithAmount(facts))
     /\ total(before.by_status) = SumOf(WithAmount(facts))
     /\ total(after.currencies) - total(before.currencies) = moved
     /\ \A c \in DOMAIN before.currencies :
          after.currencies[c].total_distinct = before.currencies[c].total_distinct

(* A reader can redo the totals and the patterns from the facts that the   *)
(* stored payload lists, or the payload says that it lists not all of      *)
(* them; she is warned of each amount that was a binary float; and a loss  *)
(* is called unmatched when no transaction has that amount, and is not     *)
(* when one has it written alike.                                          *)
ListingExplains(facts, victims, stored) ==
  LET floats == \E f \in Range(facts) : f.amount.scale = 1
  IN /\ stored.facts_bounded <=> stored.facts # facts
     /\ ~ stored.facts_bounded =>
          /\ stored.aggregates = aggregate_facts(stored.facts)
          /\ \A f \in stored.patterns.firing :
               f.ids \subseteq {g.id : g \in Range(stored.facts)} \cup {v.id : v \in victims}
     /\ floats => "float_source" \in stored.limitations
     /\ \A v \in victims : v.amounts["reported_amount"] # {} =>
          LET unmatched == [rule |-> "victim_loss_unmatched", ids |-> {v.id}] \in stored.patterns.firing
              with(P(_)) == \E f \in Range(WithAmount(facts)) :
                              f.amount.value \in v.amounts["reported_amount"] /\ P(f)
          IN /\ unmatched \/ with(LAMBDA f : TRUE)
             /\ ~ (unmatched /\ with(LAMBDA f : f.amount.scale = 1))

(* Against all simple paths of the network: the trace returns the first of *)
(* the maximal ones in sorted order, says which end where the evidence     *)
(* ends, and says it is cut short exactly when some are missing.           *)
TraceIsComplete(network, start, depth, paths, trace) ==
  LET simple == { p \in UNION {[1..n -> network.nodes] : n \in 2..(depth + 1)} :
                    /\ p[1] = start
                    /\ \A i, j \in DOMAIN p : p[i] = p[j] => i = j
                    /\ \A i \in 2..Len(p) : \E e \in Range(network.edges) : e.ends = {p[i - 1], p[i]} }
      dead(p) == \A e \in Range(network.edges) : Last(p) \in e.ends => e.ends \subseteq Range(p)
      maximal == {p \in simple : Len(p) = depth + 1 \/ dead(p)}
      less(p, q) == \E i \in (DOMAIN p) \cap (DOMAIN q) : p[i] < q[i] /\ \A j \in 1..(i - 1) : p[j] = q[j]
      sorted == SetToSortSeq(maximal, less)
  IN /\ [j \in DOMAIN trace.paths |-> trace.paths[j].nodes]
          = SubSeq(sorted, 1, Min({paths, Len(sorted)}))
     /\ \A p \in Range(trace.paths) : p.ended = "dead_end" <=> dead(p.nodes)
     /\ trace.truncated <=> Len(sorted) > paths

=============================================================================

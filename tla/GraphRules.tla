----------------------------- MODULE GraphRules -----------------------------
(***************************************************************************)
(* Network analytics of a case (analytics/): components, cut vertices,     *)
(* communities, structural patterns, missing-link hypotheses and           *)
(* priorities, computed from the entities and relationships of a case.     *)
(* Entities are numbers in the order of their ids; scores are in           *)
(* hundredths.  PageRank, betweenness and closeness are real numbers that  *)
(* no control depends on and are left out.                                 *)
(***************************************************************************)
EXTENDS Integers, Sequences, FiniteSets, SequencesExt

CONSTANTS
  Quality,           \* ANALYTICS_COMMUNITY_QUALITY, in hundredths
  IdentifierMin,     \* ANALYTICS_PATTERN_SHARED_IDENTIFIER_MIN
  ConcentrationMin,  \* ANALYTICS_PATTERN_CONCENTRATION_MIN
  MaxPerType,        \* max_results_per_type
  MaxHypotheses      \* ANALYTICS_MAX_HYPOTHESES

IDENTIFIER_TYPES == {"phone", "account", "vehicle", "organization"}
ACTOR_TYPES == {"person", "organization"}
LOCATION_TYPES == {"location"}

Least(S) == CHOOSE x \in S : \A y \in S : x <= y
Highest(S) == CHOOSE x \in S : \A y \in S : x >= y
Lesser(a, b) == IF a <= b THEN a ELSE b
Greater(a, b) == IF a >= b THEN a ELSE b
Rising(S) == [j \in 1..Cardinality(S) |-> CHOOSE x \in S : Cardinality({y \in S : y < x}) = j - 1]
Count(S, P(_)) == Cardinality({x \in S : P(x)})

(* The first n of a set by rising rank.                                    *)
First(n, S, Rank(_)) ==
  LET Ahead(x, y) == \/ Rank(x)[1] > Rank(y)[1]
                     \/ Rank(x)[1] = Rank(y)[1] /\ Rank(x)[2] < Rank(y)[2]
  IN {x \in S : Count(S, LAMBDA y : Ahead(y, x)) < n}

-----------------------------------------------------------------------------
(* The graph: entity types, and one edge per linked pair.                  *)
build_graph(types, relationships) ==
  [ nodes |-> DOMAIN types, types |-> types,
    edges |-> {{r[1], r[2]} : r \in {q \in relationships : q[1] # q[2]}} ]

adjacency(g, n) == {m \in g.nodes : {n, m} \in g.edges}
degree(g, n) == Cardinality(adjacency(g, n))
HighestDegree(g) == Highest({degree(g, n) : n \in g.nodes})
OfType(g, S, T) == {n \in S : g.types[n] \in T}

RECURSIVE Reached(_, _, _)
Reached(g, found, stack) ==
  IF stack = {} THEN found
  ELSE LET new == (UNION {adjacency(g, n) : n \in stack}) \ found
       IN Reached(g, found \cup new, new)
connected_components(g) == {Reached(g, {n}, {n}) : n \in g.nodes}

Without(g, n) == [g EXCEPT !.nodes = @ \ {n}, !.edges = {e \in @ : n \notin e}]

-----------------------------------------------------------------------------
(* Cut vertices: one depth-first walk per component, on an explicit stack. *)
Enter(g, s, n, from) ==
  [s EXCEPT !.parent[n] = from, !.kids[n] = 0, !.time = @ + 1,
            !.disc[n] = s.time, !.low[n] = s.time,
            !.todo[n] = adjacency(g, n), !.stack = Append(@, n)]

Leave_bridgesOnly(s, n) ==
  LET p == s.parent[n]
      t == [s EXCEPT !.stack = Front(@)]
  IN IF p = 0 THEN [t EXCEPT !.cut = IF s.kids[n] > 1 THEN @ \cup {n} ELSE @]
     ELSE [t EXCEPT !.low[p] = Lesser(@, s.low[n]),
                    !.cut = IF s.parent[p] # 0 /\ s.low[n] > s.disc[p] THEN @ \cup {p} ELSE @]
Leave(s, n) ==
  LET p == s.parent[n]
      t == [s EXCEPT !.stack = Front(@)]
  IN IF p = 0 THEN [t EXCEPT !.cut = IF s.kids[n] > 1 THEN @ \cup {n} ELSE @]
     ELSE [t EXCEPT !.low[p] = Lesser(@, s.low[n]),
                    !.cut = IF s.parent[p] # 0 /\ s.low[n] >= s.disc[p] THEN @ \cup {p} ELSE @]

Meet(g, s, n) ==
  LET m == Least(s.todo[n])
      t == [s EXCEPT !.todo[n] = @ \ {m}]
  IN CASE s.disc[m] = 0       -> Enter(g, [t EXCEPT !.kids[n] = @ + 1], m, n)
       [] m = s.parent[n]     -> t
       [] OTHER               -> [t EXCEPT !.low[n] = Lesser(@, s.disc[m])]

RECURSIVE Walk(_, _)
Walk(g, s) ==
  IF s.stack = <<>> THEN s
  ELSE LET n == Last(s.stack)
       IN Walk(g, IF s.todo[n] = {} THEN Leave(s, n) ELSE Meet(g, s, n))

articulation_points(g) ==
  LET none == [n \in g.nodes \cup {0} |-> 0]
      idle == [ time |-> 1, disc |-> none, low |-> none, parent |-> none, kids |-> none,
                todo |-> [n \in g.nodes |-> {}], cut |-> {}, stack |-> <<>> ]
      dfs(s, n) == IF s.disc[n] = 0 /\ degree(g, n) > 0 THEN Walk(g, Enter(g, s, n, 0)) ELSE s
  IN FoldLeft(dfs, idle, Rising(g.nodes)).cut

(* What one cut vertex holds together, in pairs of other entities.         *)
PairsSeparated(g, n) ==
  LET parts == connected_components(Without(g, n))
  IN Cardinality({p \in SUBSET (g.nodes \ {n}) : Cardinality(p) = 2 /\ \A q \in parts : ~ p \subseteq q})
compute_bridge_score(g, cuts) ==
  [n \in g.nodes |-> IF n \in cuts THEN PairsSeparated(g, n) ELSE 0]

-----------------------------------------------------------------------------
(* Communities: greedy merging of linked communities while modularity      *)
(* improves, pass after pass over the sorted edges.                        *)
Across(g, c, d) == Count(g.edges, LAMBDA e : e \cap c # {} /\ e \cap d # {})
Gains(g, linked, deg_c, deg_d) ==
  LET m == Cardinality(g.edges)
  IN 100 * (2 * m * linked - deg_c * deg_d) > Quality * 2 * m * m

MergeEnds(g, c, e) ==
  LET a == c.root[Least(e)]
      b == c.root[CHOOSE n \in e : n # Least(e)]
      under(r) == {n \in g.nodes : c.root[n] = r}
  IN IF a # b /\ Gains(g, Across(g, under(a), under(b)), c.deg[a], c.deg[b])
     THEN [root |-> [n \in g.nodes |-> IF c.root[n] \in {a, b} THEN Lesser(a, b) ELSE c.root[n]],
           deg |-> [c.deg EXCEPT ![Lesser(a, b)] = c.deg[a] + c.deg[b]]]
     ELSE c

Pass(g, c) ==
  LET From(d, a) == FoldLeft(LAMBDA f, b : IF a < b /\ {a, b} \in g.edges THEN MergeEnds(g, f, {a, b}) ELSE f,
                             d, Rising(g.nodes))
  IN FoldLeft(From, c, Rising(g.nodes))
RECURSIVE Settle(_, _)
Settle(g, c) == LET after == Pass(g, c) IN IF after = c THEN c ELSE Settle(g, after)

detect_communities(g) ==
  LET roots == Settle(g, [root |-> [n \in g.nodes |-> n], deg |-> [n \in g.nodes |-> degree(g, n)]]).root
  IN {{n \in g.nodes : roots[n] = r} : r \in {roots[n] : n \in g.nodes}}

summarise_communities(g, communities) ==
  { [ members |-> c, internal |-> Count(g.edges, LAMBDA e : e \subseteq c),
      external |-> Count(g.edges, LAMBDA e : Cardinality(e \cap c) = 1) ] : c \in communities }

-----------------------------------------------------------------------------
(* Structural patterns: what a finding draft names, and how severe it is.  *)
Draft(kind, n, severity) == [kind |-> kind, nodes |-> {n}, severity |-> severity]
ByDegree(g, S) == First(MaxPerType, S, LAMBDA n : <<degree(g, n), n>>)

detect_shared_identifiers(g) ==
  { Draft("shared_identifier", n, IF degree(g, n) >= IdentifierMin + 2 THEN "HIGH" ELSE "MEDIUM") :
      n \in ByDegree(g, {i \in OfType(g, g.nodes, IDENTIFIER_TYPES) : degree(g, i) >= IdentifierMin}) }

detect_bridge_entities(cuts) ==
  {Draft("bridge_entity", n, "MEDIUM") : n \in First(MaxPerType, cuts, LAMBDA n : <<0, n>>)}

(* values[int(0.95 * n) - 1], the last one when that is values[-1].        *)
DegreeTail(g) ==
  LET values == SortSeq([j \in 1..Cardinality(g.nodes) |-> degree(g, Rising(g.nodes)[j])], <)
      at == (Len(values) * 95) \div 100
  IN values[IF at = 0 THEN Len(values) ELSE at]
detect_relationship_concentration(g) ==
  LET threshold == Greater(ConcentrationMin, DegreeTail(g))
  IN { Draft("relationship_concentration", n, IF degree(g, n) >= 2 * threshold THEN "HIGH" ELSE "MEDIUM") :
         n \in ByDegree(g, {i \in g.nodes : degree(g, i) >= threshold}) }

find_triangles(g) ==
  {{a, b, c} : <<a, b, c>> \in
     {t \in g.nodes \X g.nodes \X g.nodes :
        t[1] < t[2] /\ t[2] < t[3] /\ {{t[1], t[2]}, {t[2], t[3]}, {t[1], t[3]}} \subseteq g.edges}}
InOrder(t) == LET s == Rising(t) IN 100 * s[1] + 10 * s[2] + s[3]
detect_circular_structures(g) ==
  { [kind |-> "circular_structure", nodes |-> t, severity |-> "MEDIUM"] :
      t \in First(MaxPerType, find_triangles(g), LAMBDA t : <<0, InOrder(t)>>) }

detect_location_identifier_combination(g) ==
  LET places(n) == OfType(g, adjacency(g, n), LOCATION_TYPES)
      keys(n) == OfType(g, adjacency(g, n), IDENTIFIER_TYPES)
  IN { [kind |-> "location_identifier_combination", nodes |-> {n} \cup places(n) \cup keys(n), severity |-> "MEDIUM"] :
         n \in First(MaxPerType, {i \in OfType(g, g.nodes, ACTOR_TYPES) : places(i) # {} /\ keys(i) # {}},
                     LAMBDA i : <<Lesser(4, Cardinality(places(i) \cup keys(i))), i>>) }

(* spread: the entities whose relationships span the horizon, in the order *)
(* a Python set yields them.                                               *)
detect_rapid_expansion(g, spread) ==
  LET actors == SelectSeq(spread, LAMBDA n : g.types[n] \in ACTOR_TYPES)
  IN {Draft("rapid_expansion", actors[j], "LOW") : j \in {i \in DOMAIN actors : i <= MaxPerType}}

detect_patterns(g, cuts, spread) ==
  detect_shared_identifiers(g) \cup detect_bridge_entities(cuts) \cup detect_relationship_concentration(g)
  \cup detect_circular_structures(g) \cup detect_location_identifier_combination(g)
  \cup detect_rapid_expansion(g, spread)

-----------------------------------------------------------------------------
(* Missing links: actors without an edge that share neighbours.            *)
Shared(g, p) == {n \in g.nodes : \A a \in p : {a, n} \in g.edges}
Unlinked(g) ==
  {{a, b} : <<a, b>> \in {q \in OfType(g, g.nodes, ACTOR_TYPES) \X OfType(g, g.nodes, ACTOR_TYPES) :
                            q[1] < q[2] /\ {q[1], q[2]} \notin g.edges /\ Shared(g, {q[1], q[2]}) # {}}}

Score(g, pairs, communities) ==
  LET most == Highest({Cardinality(Shared(g, p)) : p \in pairs})
  IN [p \in pairs |-> (5500 * Cardinality(Shared(g, p))) \div most
                      + (IF \E c \in communities : p \subseteq c THEN 3000 ELSE 0) + 1500]
generate_hypotheses(g, communities) ==
  LET pairs == Unlinked(g)
      score == Score(g, pairs, communities)
      other(p) == CHOOSE n \in p : n # Least(p)
  IN {[pair |-> p, through |-> Shared(g, p), score |-> score[p],
       severity |-> IF Cardinality(Shared(g, p)) >= 2 THEN "MEDIUM" ELSE "LOW"] :
        p \in First(MaxHypotheses, pairs, LAMBDA p : <<score[p], 10 * Least(p) + other(p)>>)}

(* "exactly one intermediate entity": entities two hops away, halved.      *)
SecondHops(g) ==
  LET beyond(n) == (UNION {adjacency(g, m) : m \in adjacency(g, n)}) \ (adjacency(g, n) \cup {n})
  IN FoldSet(LAMBDA n, sum : sum + Cardinality(beyond(n)), 0, g.nodes) \div 2

-----------------------------------------------------------------------------
(* Priority of an entity: its place in the network and what was raised.    *)
pattern_weight(high, medium, low) == Lesser(100, 50 * high + 25 * medium + 10 * low)
hypothesis_weight(count) == Lesser(100, 40 * count)
compute_priority(dims, severities, hypotheses) ==
  25 * dims.prominence + 15 * dims.influence + 20 * dims.bridging + 10 * dims.reach
  + 15 * pattern_weight(severities.high, severities.medium, severities.low)
  + 15 * hypothesis_weight(hypotheses)
Tier(score) ==
  CASE score >= 7500 -> "CRITICAL" [] score >= 5500 -> "HIGH" [] score >= 3500 -> "MEDIUM" [] OTHER -> "LOW"

Raised(drafts, hypotheses, n, severity) ==
  Count(drafts, LAMBDA d : n \in d.nodes /\ d.severity = severity)
  + Count(hypotheses, LAMBDA h : n \in h.pair /\ h.severity = severity)

(* The whole pipeline; influence and reach are what the real-valued        *)
(* measures came to.                                                       *)
compute(types, relationships, spread, influence, reach) ==
  LET g == build_graph(types, relationships)
      communities == detect_communities(g)
      hypotheses == generate_hypotheses(g, communities)
      cuts == articulation_points(g)
      patterns == detect_patterns(g, cuts, spread)
      bridges == compute_bridge_score(g, cuts)
      n_pairs == (Cardinality(g.nodes) * (Cardinality(g.nodes) - 1)) \div 2
      dims(n) == [ prominence |-> (100 * degree(g, n)) \div Greater(1, HighestDegree(g)),
                   influence |-> influence[n], reach |-> reach[n],
                   bridging |-> (100 * bridges[n]) \div n_pairs ]
      raised(n) == [ high |-> Raised(patterns, hypotheses, n, "HIGH"),
                     medium |-> Raised(patterns, hypotheses, n, "MEDIUM"),
                     low |-> Raised(patterns, hypotheses, n, "LOW") ]
  IN [ graph |-> g, cuts |-> cuts, bridges |-> bridges,
       communities |-> summarise_communities(g, communities),
       patterns |-> patterns, hypotheses |-> hypotheses, second_hops |-> SecondHops(g),
       priorities |-> [n \in g.nodes |->
         Tier(compute_priority(dims(n), raised(n), Count(hypotheses, LAMBDA h : n \in h.pair)))] ]

-----------------------------------------------------------------------------
(* Twice the square of the number of links times the modularity of a       *)
(* partition: what the greedy merging must have exhausted.                 *)
Modularity(g, partition) ==
  LET m == Cardinality(g.edges)
      in(c) == Count(g.edges, LAMBDA e : e \subseteq c)
      deg(c) == FoldSet(LAMBDA n, sum : sum + degree(g, n), 0, c)
  IN FoldSet(LAMBDA c, sum : sum + 4 * m * in(c) - deg(c) * deg(c), 0, partition)

(* The entities reported as bridges are those whose removal splits a       *)
(* connected part, and only they hold pairs of other entities together.    *)
CutsSplitTheNetwork(answer) ==
  LET g == answer.graph
  IN answer.cuts = {n \in g.nodes : Cardinality(connected_components(Without(g, n)))
                                      > Cardinality(connected_components(g))}

(* The communities are a partition into connected parts, and no merge of   *)
(* two linked ones would raise the modularity further.                     *)
CommunitiesAreStable(answer) ==
  LET g == answer.graph
      parts == {c.members : c \in answer.communities}
  IN /\ Modularity(g, parts) >= Modularity(g, {{n} : n \in g.nodes})
     /\ UNION parts = g.nodes /\ \A c, d \in parts : c = d \/ c \cap d = {}
     /\ \A c \in parts : \E n \in c :
          Reached([g EXCEPT !.nodes = c, !.edges = {e \in @ : e \subseteq c}], {n}, {n}) = c
     /\ \A c, d \in parts : (c # d /\ Across(g, c, d) > 0) =>
          Modularity(g, (parts \ {c, d}) \cup {c \cup d}) <= Modularity(g, parts)

(* A hypothesis names two actors exactly two hops apart, and one is left   *)
(* out only for as many that score as high; the two-hop count of the       *)
(* insight is the number of such pairs of entities.                        *)
LinksAreMissing(answer) ==
  LET g == answer.graph
      near(a) == adjacency(g, a) \cup {a}
      twoHops == {p \in SUBSET g.nodes : /\ Cardinality(p) = 2 /\ p \notin g.edges
                                         /\ \E n \in g.nodes : p \subseteq near(n) \ {n}}
      missing == {p \in twoHops : \A a \in p : g.types[a] \in ACTOR_TYPES}
      named == {h.pair : h \in answer.hypotheses}
      score == Score(g, missing, {c.members : c \in answer.communities})
  IN /\ answer.second_hops = Cardinality(twoHops)
     /\ named \subseteq missing
     /\ \A p \in missing \ named : /\ Cardinality(named) = MaxHypotheses
                                   /\ \A h \in answer.hypotheses : h.score >= score[p]

=============================================================================

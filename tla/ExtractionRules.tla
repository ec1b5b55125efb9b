---------------------------- MODULE ExtractionRules ----------------------------
(***************************************************************************)
(* What ingestion reads out of one record (services/extraction.py,         *)
(* normalization.py, relationships.py): values are normalized to one       *)
(* canonical form, the mentions of the fields and of the free text are     *)
(* collected once each, and mentions that belong together are linked.      *)
(*                                                                         *)
(* A value is a sequence of tokens, numbers that stand for words or groups *)
(* of digits; a text is given by the lengths of its sentences, of what     *)
(* separates them, and by the spots its patterns match.                    *)
(***************************************************************************)
EXTENDS Integers, Sequences, FiniteSets, SequencesExt

CONSTANTS
  Width(_),         \* characters of a token
  IsDigits(_),      \* the token is a group of digits
  Honorific(_),     \* HONORIFICS
  Suffix(_),        \* ORGANIZATION_SUFFIXES
  The,              \* the token "the"
  Zero,             \* a leading zero, a token of its own
  Country,          \* the digits 91
  FieldType(_),     \* FIELD_ALIASES and SUBSTRING_HINTS, "none" for other headers
  MaxRelationships  \* MAX_RELATIONSHIPS_PER_RECORD

-----------------------------------------------------------------------------
(* Normalization: the canonical form, or <<>> for an invalid value.        *)
Length(v) == FoldLeft(LAMBDA n, t : n + Width(t), 0, v)
Digits(v) == SelectSeq(v, IsDigits)
ValidWhen(ok, v) == IF ok THEN v ELSE <<>>

(* A number of ten digits is taken for a national one.                     *)
WithoutZeros(v) ==
  LET kept == {i \in DOMAIN v : \E j \in 1..i : v[j] # Zero}
  IN SubSeq(v, Len(v) - Cardinality(kept) + 1, Len(v))
normalize_phone(raw) ==
  LET digits == WithoutZeros(Digits(raw))
      full == IF Length(digits) = 10 THEN <<Country>> \o digits ELSE digits
  IN ValidWhen(Length(full) \in 7..15, full)
normalize_vehicle(v) ==
  ValidWhen(Length(v) \in 4..12 /\ Digits(v) # <<>> /\ Digits(v) # v, v)
normalize_account(v) == ValidWhen(Length(v) \in 6..30, v)
normalize_document(v) ==
  IF Length(Digits(v)) \in 10..16 THEN Digits(v) ELSE ValidWhen(Length(v) \in 6..30, v)
normalize_person(v) == SelectSeq(v, LAMBDA t : ~ Honorific(t))
normalize_organization(v) ==
  LET name == IF v # <<>> /\ Head(v) = The THEN Tail(v) ELSE v
      own == {i \in DOMAIN name : \E j \in i..Len(name) : ~ Suffix(name[j])}
  IN SubSeq(name, 1, Cardinality(own))

normalize_value(type, v) ==
  CASE type = "phone"        -> normalize_phone(v)
    [] type = "vehicle"      -> normalize_vehicle(v)
    [] type = "account"      -> normalize_account(v)
    [] type = "document"     -> normalize_document(v)
    [] type = "person"       -> normalize_person(v)
    [] type = "organization" -> normalize_organization(v)
    [] OTHER                 -> v    \* location, event: the words

-----------------------------------------------------------------------------
(* Mentions of one record.  A field is read whole, and token by token when *)
(* it is no value as a whole.                                              *)
_mention(type, v, start, end) ==
  LET canonical == normalize_value(type, v)
  IN IF canonical = <<>> THEN <<>> ELSE <<[type |-> type, canonical |-> canonical, start |-> start, end |-> end]>>
_field_mentions(fields) ==
  LET Of(field) ==
        LET type == FieldType(field.header)
            whole == _mention(type, field.value, -1, -1)
        IN CASE type = "none" -> <<>>
             [] whole # <<>>  -> whole
             [] OTHER -> FlattenSeq([i \in DOMAIN field.value |-> _mention(type, <<field.value[i]>>, -1, -1)])
  IN FlattenSeq([i \in DOMAIN fields |-> Of(fields[i])])

(* What one pattern finds, left to right; an identity number or a bare run *)
(* of digits is no phone number.                                           *)
Found(spots, pattern, type) ==
  FlattenSeq([i \in DOMAIN spots |->
    IF pattern \in spots[i].patterns THEN _mention(type, spots[i].value, spots[i].start, spots[i].end) ELSE <<>>])
NoPhone(s) == Length(Digits(s.value)) >= 12 /\ ~ s.plus /\ (s.bare \/ "aadhaar" \in s.patterns)
_rule_mentions(spots) ==
  Found(SelectSeq(spots, LAMBDA s : ~ NoPhone(s)), "phone", "phone")
  \o Found(spots, "vehicle", "vehicle") \o Found(spots, "aadhaar", "document")
  \o Found(spots, "account_label", "account") \o Found(spots, "document_label", "document")
_ner_mentions(spots) ==
  FlattenSeq([i \in DOMAIN spots |->
    IF spots[i].ner = "none" THEN <<>> ELSE _mention(spots[i].ner, spots[i].value, spots[i].start, spots[i].end)])

Key(m) == <<m.type, m.canonical>>
_dedupe(mentions) ==
  FoldLeft(LAMBDA kept, m : IF \E i \in DOMAIN kept : Key(kept[i]) = Key(m) THEN kept ELSE Append(kept, m),
           <<>>, mentions)
extract_record_mentions(fields, spots) ==
  _dedupe(_field_mentions(fields) \o _rule_mentions(spots) \o _ner_mentions(spots))

-----------------------------------------------------------------------------
(* Links.  The table of types has every pair in both orders, so the first  *)
(* of two mentions is the source.                                          *)
TYPE_PAIR_RULES ==
  [ CALLED |-> {{"person", "phone"}, {"phone"}},
    OWNS |-> {{"person", "vehicle"}, {"person", "account"}},
    WORKS_FOR |-> {{"person", "organization"}},
    ASSOCIATED_WITH |-> {{"person"}, {"person", "event"}, {"organization"}},
    LOCATED_AT |-> {{"person", "location"}, {"organization", "location"}},
    VISITED |-> {{"phone", "location"}, {"vehicle", "location"}, {"event", "location"}},
    TRANSFERRED_TO |-> {{"account"}} ]
PAIR_PLAN ==
  << <<"person", "phone">>, <<"person", "vehicle">>, <<"person", "account">>, <<"person", "organization">>,
     <<"person", "location">>, <<"person", "event">>, <<"phone", "phone">>, <<"phone", "location">>,
     <<"vehicle", "location">>, <<"organization", "location">>, <<"event", "location">>,
     <<"account", "account">>, <<"organization", "organization">> >>

Rules(a, b) == {r \in DOMAIN TYPE_PAIR_RULES : {a.type, b.type} \in TYPE_PAIR_RULES[r]}
_pair_for(a, b) ==
  IF Rules(a, b) = {} THEN <<>>
  ELSE <<[source |-> Key(a), target |-> Key(b), type |-> CHOOSE r \in Rules(a, b) : TRUE]>>

Less(v, w) ==
  \/ IsStrictPrefix(v, w)
  \/ \E i \in DOMAIN v \cap DOMAIN w : v[i] < w[i] /\ \A j \in 1..(i - 1) : v[j] = w[j]
_canonical_endpoints(link) ==
  IF link.source[1] = link.target[1] /\ Less(link.target[2], link.source[2])
    THEN [link EXCEPT !.source = link.target, !.target = link.source] ELSE link

Join(pairs) ==
  LET links == [i \in DOMAIN pairs |-> _pair_for(pairs[i][1], pairs[i][2])]
      proper == SelectSeq(FlattenSeq(links), LAMBDA k : k.source # k.target)
  IN FoldLeft(LAMBDA kept, k : IF Contains(kept, _canonical_endpoints(k)) THEN kept
                               ELSE Append(kept, _canonical_endpoints(k)), <<>>, proper)
Product(s, t) == FlattenSeq([i \in DOMAIN s |-> [j \in DOMAIN t |-> <<s[i], t[j]>>]])

(* A sentence is taken to be followed by one character.                    *)
sentence_windows(text) ==
  LET start(i) == i - 1 + FoldLeft(LAMBDA n, l : n + l, 0, SubSeq(text.lengths, 1, i - 1))
      windows == [i \in DOMAIN text.lengths |->
                    [start |-> start(i), end |-> start(i) + text.lengths[i], blank |-> i \in text.blank]]
  IN SelectSeq(windows, LAMBDA w : ~ w.blank)

(* Mentions of one window go by their place, and by the name of the type.  *)
TypeOrder == <<"account", "document", "event", "location", "organization", "person", "phone", "vehicle">>
Earlier(a, b) ==
  \/ a.start < b.start
  \/ a.start = b.start /\ \E i, j \in DOMAIN TypeOrder : i < j /\ TypeOrder[i] = a.type /\ TypeOrder[j] = b.type

InText(mentions, text) ==
  LET windows == sentence_windows(text)
      Inside(w) == SelectSeq(mentions, LAMBDA m : w.start <= m.start /\ m.start <= m.end /\ m.end <= w.end)
      ordered(w) == SortSeq(Inside(w), Earlier)
      pairs(s) == FlattenSeq([i \in DOMAIN s |-> [j \in 1..(Len(s) - i) |-> <<s[i], s[i + j]>>]])
  IN FlattenSeq([k \in DOMAIN windows |-> Join(pairs(ordered(windows[k])))])
InFields(mentions) ==
  LET Typed(t) == SelectSeq(mentions, LAMBDA m : m.type = t)
  IN Join(FlattenSeq([i \in DOMAIN PAIR_PLAN |-> Product(Typed(PAIR_PLAN[i][1]), Typed(PAIR_PLAN[i][2]))]))

extract_relationships(mentions, resolved, is_structured, text) ==
  LET known == SelectSeq(mentions, LAMBDA m : Key(m) \in resolved)
      links == IF is_structured THEN InFields(known) ELSE InText(known, text)
  IN SubSeq(links, 1, IF Len(links) < MaxRelationships THEN Len(links) ELSE MaxRelationships)

-----------------------------------------------------------------------------
(* A canonical form is its own canonical form: cross-case discovery        *)
(* normalizes the stored values once more.                                 *)
MentionsAreNormal(mentions) ==
  \A m \in {mentions[i] : i \in DOMAIN mentions} : normalize_value(m.type, m.canonical) = m.canonical

(* The links of a structured record do not depend on the order of its      *)
(* columns, and unless there are too many they join every two resolved     *)
(* values of linkable types, each pair once; two persons are not in the    *)
(* plan.                                                                   *)
Ends(link) == {link.source, link.target}
Linkable(mentions, resolved) ==
  { {Key(a), Key(b)} : <<a, b>> \in { <<x, y>> \in ToSet(mentions) \X ToSet(mentions) :
      /\ Key(x) # Key(y) /\ {Key(x), Key(y)} \subseteq resolved /\ Rules(x, y) # {} } }
FieldsAreLinked(mentions, resolved, links) ==
  LET pairs == {p \in Linkable(mentions, resolved) : {k[1] : k \in p} # {"person"}}
  IN /\ Cardinality({Ends(links[i]) : i \in DOMAIN links}) = Len(links)
     /\ Len(links) = IF Cardinality(pairs) < MaxRelationships THEN Cardinality(pairs) ELSE MaxRelationships
     /\ Len(links) < MaxRelationships =>
          ToSet(links) = ToSet(extract_relationships(Reverse(mentions), resolved, TRUE, <<>>))

(* Where sentences are one character apart, two values are linked exactly  *)
(* when some sentence has both; the link of two values of one type is the  *)
(* same whichever comes first.                                             *)
SentencesAreLinked(mentions, resolved, text, links) ==
  LET start(i) == FoldLeft(LAMBDA n, l : n + l + text.apart, 0, SubSeq(text.lengths, 1, i - 1))
      place(key) == CHOOSE m \in ToSet(mentions) : Key(m) = key
      sentence(m) == {i \in DOMAIN text.lengths : start(i) <= m.start /\ m.end <= start(i) + text.lengths[i]}
      together(p) == \E i \in DOMAIN text.lengths : \A key \in p : i \in sentence(place(key))
  IN (text.apart = 1 /\ Len(links) < MaxRelationships) =>
       /\ {Ends(links[i]) : i \in DOMAIN links} = {p \in Linkable(mentions, resolved) : together(p)}
       /\ \A i \in DOMAIN links :
            links[i].source[1] = links[i].target[1] => ~ Less(links[i].target[2], links[i].source[2])

=============================================================================

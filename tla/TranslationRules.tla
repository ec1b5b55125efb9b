--------------------------- MODULE TranslationRules ---------------------------
(***************************************************************************)
(* What services/multilingual.py holds against a model's reading of a      *)
(* complaint and its translation: the scripts of the text, whether a value *)
(* stands in it and outside an injected instruction, and whether figures,  *)
(* addresses and negations survive the translation.                        *)
(*                                                                         *)
(* A text is a sequence of characters, classified by the constants.  One   *)
(* character stands for an instruction-like phrase, an e-mail address or   *)
(* account reference, a negation, a currency or a legal word where the     *)
(* code has a regular expression for it; a digit of a date stands for one  *)
(* or two digits.                                                          *)
(***************************************************************************)
EXTENDS Integers, Sequences, FiniteSets, SequencesExt

CONSTANTS
  Digits,        \* decimal digits of every script
  IndicDigits,   \* the Devanagari ones
  Fold(_),       \* the ASCII digit of a digit, the small letter of a letter
  Month(_),      \* a digit that can be read as a month
  Devanagari, Latin, Other,     \* letters
  Punctuation, Separators, Stops, Slashes,  \* the last three within the first
  Instruction, Reference, Negation, Currency, Legal,
  MinCore        \* shortest run of digits that is matched alone (3)

Of(text, class) == SelectSeq(text, LAMBDA c : c \in class)
Occurrences(part, text) ==
  {i \in 1..(Len(text) - Len(part) + 1) : SubSeq(text, i, i + Len(part) - 1) = part}
Folded(text) == [i \in DOMAIN text |-> Fold(text[i])]

(* Scripts are compared by their share of the letters, 30 % is enough.     *)
profile_scripts(text) ==
  LET dev == Len(Of(text, Devanagari))
      lat == Len(Of(text, Latin))
      other == Len(Of(text, Other))
      Enough(n) == 10 * n >= 3 * (dev + lat + other)
      foreign == Enough(other) /\ other >= dev /\ other >= lat
  IN IF dev + lat + other = 0 THEN "unknown" ELSE
     CASE foreign -> "unsupported"
       [] ~ foreign /\ Enough(dev) /\ Enough(lat) -> "mixed"
       [] ~ foreign /\ Enough(dev) /\ ~ Enough(lat) -> "devanagari"
       [] ~ foreign /\ Enough(lat) /\ ~ Enough(dev) -> "latin"
       [] OTHER -> "unknown"

_LANGUAGE_LABELS == {"english", "hindi", "marathi", "mixed", "unknown"}
language_consistent(candidate, label) ==
  \/ label \in {"unknown", "mixed"}
  \/ candidate = "devanagari" /\ label \in {"hindi", "marathi"}
  \/ candidate = "latin" /\ label = "english"
  \/ candidate \in {"mixed", "unknown"}

-----------------------------------------------------------------------------
(* A value stands in the text verbatim, in its normal form, or with enough *)
(* digits among all the digits of the text.                                *)
normalize_for_match(text) == Folded(SelectSeq(text, LAMBDA c : c \notin Punctuation))
Core(text) == Folded(Of(text, Digits))
value_in_original(value, original) ==
  /\ value # <<>>
  /\ \/ Occurrences(value, original) # {}
     \/ LET norm == normalize_for_match(value)
        IN norm # <<>> /\ \/ Occurrences(norm, normalize_for_match(original)) # {}
                          \/ /\ Len(Core(value)) >= MinCore
                             /\ Occurrences(Core(value), Core(original)) # {}

(* The sentence around a position; letters match in either case.           *)
Sentence(text, i) ==
  LET from == {j \in 1..(i - 1) : text[j] \in Stops}
      to == {j \in (i + 1)..Len(text) : text[j] \in Stops}
  IN {j \in DOMAIN text : (\A k \in from : k < j) /\ (\A k \in to : j < k)}
SmallLetters(text) == [i \in DOMAIN text |-> IF text[i] \in Latin THEN Fold(text[i]) ELSE text[i]]
Literal(value, text) == Occurrences(SmallLetters(value), SmallLetters(text))
in_instruction_context(value, original) ==
  /\ value # <<>> /\ Literal(value, original) # {}
  /\ \A i \in Literal(value, original) : \E j \in Sentence(original, i) : original[j] = Instruction

Verdict(value, original) ==
  CASE ~ value_in_original(value, original) -> "value_not_in_source"
    [] value_in_original(value, original) /\ in_instruction_context(value, original) -> "value_in_injected_context"
    [] OTHER -> "verified"

(* The payload of one reply, {} when it is no object, and how it is judged.*)
_record_analysis(original, reply) ==
  IF reply = {} THEN [status |-> "failed", validation |-> "invalid", fields |-> {}, issues |-> {}]
  ELSE LET answer == CHOOSE r \in reply : TRUE
           values == {v \in answer.values : v # <<>>}
           issues == {<<v, Verdict(v, original)>> : v \in {w \in values : Verdict(w, original) # "verified"}}
           consistent == language_consistent(profile_scripts(original), answer.language)
       IN [ status |-> "pending_review", issues |-> issues,
            validation |-> IF issues # {} \/ ~ consistent THEN "flagged" ELSE "valid",
            fields |-> {v \in values : Verdict(v, original) = "verified"} ]

-----------------------------------------------------------------------------
(* Numbers: from a digit over separators to the last digit.                *)
Numbers(text) ==
  LET Runs == { r \in (DOMAIN text) \X (DOMAIN text) :
                  /\ r[1] <= r[2] /\ {text[r[1]], text[r[2]]} \subseteq Digits
                  /\ \A k \in r[1]..r[2] : text[k] \in Digits \cup Separators }
  IN {r \in Runs : \A s \in Runs : s[1] <= r[1] /\ r[2] <= s[2] => s = r}
Dates(text) ==
  { i \in 1..(Len(text) - 4) :
      /\ {text[i], text[i + 2], text[i + 4]} \subseteq Digits /\ {text[i + 1], text[i + 3]} \subseteq Slashes
      /\ \A k \in {i - 1, i + 5} \cap DOMAIN text : text[k] \in Punctuation }
Material(text) ==
  {SubSeq(text, r[1], r[2]) : r \in Numbers(text)} \cup {<<c>> : c \in Range(text) \cap Reference}
  \cup {SubSeq(text, i, i + 4) : i \in Dates(text)}
DigitsFolded(text) == [i \in DOMAIN text |-> IF text[i] \in Digits THEN Fold(text[i]) ELSE text[i]]
check_material_values(original, translated) ==
  LET t == DigitsFolded(translated)
  IN { token \in Material(DigitsFolded(original)) :
         /\ Occurrences(token, t) = {}
         /\ Occurrences(normalize_for_match(token), normalize_for_match(t)) = {} }

negation_present(text) == \E i \in DOMAIN text : text[i] \in Negation

(* What the translation is flagged for.                                    *)
_record_translation(original, translated) ==
  {<<"material_value_missing", token>> : token \in check_material_values(original, translated)}
  \cup {i \in {<<"negation_not_preserved", <<>>>>} : negation_present(original) /\ ~ negation_present(translated)}

(* A day and a month both up to 12 may be swapped, unless they are equal.  *)
ambiguity_flags(text) ==
  LET Some(class) == \E i \in DOMAIN text : text[i] \in class
  IN {f \in {"devanagari_digits"} : Some(IndicDigits)}
     \cup { f \in {"ambiguous_date_order"} : \E i \in Dates(text) :
              Month(text[i]) /\ Month(text[i + 2]) /\ Fold(text[i]) # Fold(text[i + 2]) }
     \cup {f \in {"currency_without_amount"} : Some(Currency) /\ ~ Some(Digits)}
     \cup {f \in {"legal_terminology"} : Some(Legal)}

-----------------------------------------------------------------------------
(* A value planted with an instruction is not verified by it: one the      *)
(* record did not hold is withheld, one it held is judged as before.       *)
PlantedIsWithheld(original, value) ==
  LET planted == original \o <<CHOOSE s \in Stops : TRUE, Instruction>> \o value
      After(text) == _record_analysis(text, {[values |-> {value}, language |-> "unknown"]})
      before == After(original)
  IN normalize_for_match(value) # <<>> =>
       /\ (~ value_in_original(value, original)) => value \notin After(planted).fields
       /\ Literal(value, original) # {} => (value \in before.fields <=> value \in After(planted).fields)
       /\ value \notin before.fields => before.validation = "flagged"

(* A label that passes unflagged is one of a script of the text.           *)
LabelFollowsScript(original, label) ==
  LET letters == Of(original, Devanagari \cup Latin \cup Other)
      judged == _record_analysis(original, {[values |-> {}, language |-> label]})
  IN letters # <<>> /\ judged.validation = "valid" =>
       /\ label = "english" => Of(letters, Latin) # <<>>
       /\ label \in {"hindi", "marathi"} => Of(letters, Devanagari) # <<>>

(* A translation that is not flagged keeps every figure, in whatever       *)
(* script and grouping, and the negation; a faithful one is not flagged.   *)
FiguresSurvive(original, translated) ==
  LET issues == _record_translation(original, translated)
  IN /\ issues = {} => \A r \in Numbers(original) :
           Occurrences(Core(SubSeq(original, r[1], r[2])), Core(translated)) # {}
     /\ issues = _record_translation(DigitsFolded(original), DigitsFolded(translated))
     /\ _record_translation(original, DigitsFolded(original)) = {}

(* What a sentence is flagged for it is flagged for in any record, except  *)
(* for a currency whose amount stands in another sentence, and whatever    *)
(* the order of day and month.                                             *)
FlagsAreLocal(text, more) ==
  LET record == text \o <<CHOOSE s \in Stops : TRUE>> \o more
      Lasting(t) == ambiguity_flags(t) \ {"currency_without_amount"}
  IN /\ Lasting(record) = Lasting(text) \cup Lasting(more)
     /\ \A i \in Dates(text) :
          ambiguity_flags(text) = ambiguity_flags([text EXCEPT ![i] = text[i + 2], ![i + 2] = text[i]])
=============================================================================

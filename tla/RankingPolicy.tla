--------------------------- MODULE RankingPolicy ---------------------------
(***************************************************************************)
(* The scoring policy the cross-encoder backends share: ranker/scoring.py  *)
(* and ranker/lexicon.py.  A text is a sequence of characters, each of the *)
(* classes given as constants; a score is an integer number of hundredths. *)
(* The tables of words in the code are constants here.                     *)
(***************************************************************************)
EXTENDS Integers, Selection, SequencesExt, FiniteSetsExt

CONSTANTS
  Boundaries,            \* _HARD_CONTEXT_BOUNDARIES
  Noise,                 \* _CONTEXT_NOISE
  Digits,                \* str.isdigit
  KanjiDigits,           \* the numerals of candidate_surface_type
  KanjiNumber,           \* _KANJI_NUMBER_PREFIXES: numeral -> digits
  Hiragana, Katakana, Kanji,
  Abbreviations,         \* texts of _ASCII_ABBREVIATION_RE
  NaturalKana,           \* _NATURAL_KANA_WORDS
  Endings,               \* what contextual_candidate_bonus strips: <<ending, put instead>>
  ContextRules,          \* its table: a sequence of [needles, candidate, bonus]
  Lexicon,               \* reading -> the words the dictionary has for it
  Affixes                \* PRODUCTIVE_AFFIXES

(* rank_prior_penalty of a candidate's place under the default weight, and  *)
(* the exponential of a score that is not positive, in ten-thousandths and  *)
(* for steps of a quarter: both rounded down.                               *)
rank_prior_penalty(place) == <<0, 15, 24, 30, 35, 39, 42, 45, 48, 50>>[Min({place, 10})]

Exp(score) ==
  LET table == <<10000, 7788, 6065, 4724, 3679, 2865, 2231, 1738, 1353, 1054, 821, 639, 498, 388,
                 302, 235, 183, 143, 111, 87, 67, 52, 41, 32, 25, 19, 15, 12, 9, 7, 6, 4, 3, 3, 2,
                 2, 1, 1>>
      step  == 1 + ((-score) \div 25)
  IN IF step \in DOMAIN table THEN table[step] ELSE 0

-----------------------------------------------------------------------------
(* Context. *)

Suffix(s, n) == SubSeq(s, Len(s) - n + 1, Len(s))
Positions(s, chars) == {i \in DOMAIN s : s[i] \in chars}

select_local_context(preceding, following, max_chars) ==
  LET prefix == Suffix(preceding, Min({max_chars, Len(preceding)}))
      suffix == SubSeq(following, 1, Min({max_chars, Len(following)}))
      last   == Max({0} \cup Positions(prefix, Boundaries))
      next   == Min({Len(suffix) + 1} \cup Positions(suffix, Boundaries))
  IN IF max_chars <= 0 THEN [prefix |-> <<>>, suffix |-> <<>>]
     ELSE [prefix |-> Suffix(prefix, Len(prefix) - last),
           suffix |-> SubSeq(suffix, 1, next - 1)]

context_signal_length(prefix, suffix) ==
  Len(Kept(prefix \o suffix, ToSet(prefix \o suffix) \ Noise))

(* How much of both texts surrounds the span in which they differ. *)
shared_candidate_context_length(left, right) ==
  LET limit  == Min({Len(left), Len(right)})
      prefix == Max({n \in 0 .. limit : SubSeq(left, 1, n) = SubSeq(right, 1, n)})
  IN prefix + Max({n \in 0 .. limit - prefix : Suffix(left, n) = Suffix(right, n)})

-----------------------------------------------------------------------------
(* Surfaces. *)

candidate_surface_type(text, reading) ==
  CASE text \in Abbreviations -> "latin_abbreviation"
    [] text \notin Abbreviations /\ ToSet(text) \cap (Digits \cup KanjiDigits) # {} -> "numeric"
    [] text # <<>> /\ (ToSet(text) \subseteq Hiragana \/ ToSet(text) \subseteq Katakana) ->
         IF reading # <<>> /\ text = reading /\ text \notin NaturalKana
         THEN "reading_passthrough" ELSE "kana"
    [] OTHER -> IF ToSet(text) \cap Kanji # {} THEN "kanji" ELSE "other"

numeric_surface_family(text) == SelectSeq(text, LAMBDA c : c \notin Digits \cup KanjiDigits)

reading_identity_penalty(text, reading, alternatives) ==
  IF /\ reading # <<>> /\ text = reading
     /\ text \notin NaturalKana
     /\ candidate_surface_type(text, reading) = "reading_passthrough"
     /\ \E other \in ToSet(alternatives) \ {text} :
          candidate_surface_type(other, <<>>) \in {"kanji", "numeric", "latin_abbreviation"}
  THEN 125 ELSE 0

(* A text of digits and something after them, when the same with a numeral *)
(* is among the candidates.                                                *)
DigitCount(text) == Min({Len(text)} \cup {i - 1 : i \in {j \in DOMAIN text : text[j] \notin Digits}})

orthographic_style_bonus(text, alternatives) ==
  LET count == DigitCount(text)
  IN IF /\ count \in 1 .. Len(text) - 1
        /\ \E k \in DOMAIN KanjiNumber :
             /\ KanjiNumber[k] = SubSeq(text, 1, count)
             /\ <<k>> \o SubSeq(text, count + 1, Len(text)) \in ToSet(alternatives)
     THEN 100 ELSE 0

(* The first rule of the table whose candidate this is, bare or with an     *)
(* ending of it replaced, and of which a needle occurs in the whole sentence *)
(* (the text before the candidate is part of it).                            *)
Stripped(text) ==
  {text} \cup {SubSeq(text, 1, Len(text) - Len(e[1])) \o e[2] :
                 e \in {x \in Endings : IsSuffix(x[1], text) /\ Len(text) > Len(x[1])}}

Occurs(text, needle) ==
  \E i \in 0 .. Len(text) - Len(needle) : SubSeq(text, i + 1, i + Len(needle)) = needle

contextual_candidate_bonus(prefix, suffix, text) ==
  LET applies(rule) == /\ rule.candidate \in Stripped(text)
                       /\ \E needle \in rule.needles :
                            Occurs(prefix \o text \o suffix, needle)
      first == SelectInSeq(ContextRules, applies)
  IN IF first = 0 THEN 0 ELSE ContextRules[first].bonus

-----------------------------------------------------------------------------
(* The dictionary. *)

ExactWords == UNION {Lexicon[r] : r \in DOMAIN Lexicon}

is_known_word(word) ==
  \/ word \in ExactWords
  \/ \E a \in Affixes : /\ IsSuffix(a, word) /\ Len(word) > Len(a)
                        /\ SubSeq(word, 1, Len(word) - Len(a)) \in ExactWords

compute_lexical_penalty(word, reading) ==
  IF /\ word # <<>> /\ reading \in DOMAIN Lexicon
     /\ word \notin Lexicon[reading]
     /\ \E known \in Lexicon[reading] : Len(known) = Len(word)
     /\ ~is_known_word(word)
  THEN 150 ELSE 0

-----------------------------------------------------------------------------
(* The decision between Mozc's first candidate and the model's. *)

(* Hundredths of the softmax at one of the scores. *)
neural_top_probability(evidence, top) ==
  LET highest == Max({evidence[i] : i \in DOMAIN evidence})
      weights == SumFunction([i \in DOMAIN evidence |-> Exp(evidence[i] - highest)])
  IN (100 * Exp(evidence[top] - highest)) \div weights

DefaultThresholds ==
  [external |-> 3, internal |-> 4, high_confidence |-> 80, contextual_confidence |-> 35,
   contextual_lead |-> 180, delta |-> 55, margin |-> 30, kana_delta |-> 180,
   kana_margin |-> 90, high_margin |-> 75]

(* What onnx_ranker sets for several models. *)
EnsembleThresholds ==
  [DefaultThresholds EXCEPT !.delta = 25, !.margin = 10, !.contextual_confidence = 25,
                            !.contextual_lead = 120]

(* Mutant: the relief applies in full. *)
DeltaThresholdRelieved(policy, type) ==
  IF type = "reading_passthrough" THEN policy.kana_delta ELSE Max({25, policy.delta - 30})

(* The relief the code grants by rank is that of Mozc's first candidate, whose *)
(* rank is 1: none.                                                            *)
DeltaThreshold(policy, type) ==
  IF type = "reading_passthrough" THEN policy.kana_delta ELSE Max({25, policy.delta})

MarginThreshold(policy, type) ==
  IF type = "reading_passthrough" THEN policy.kana_margin ELSE policy.margin

(* |scored| is an order of candidates, each its index in Mozc's order;      *)
(* |evidence| and |texts| are by that index.  Any of five signs lets the    *)
(* model's first candidate stay before Mozc's, if there is enough context.  *)
SurvivesGate(scored, prefix, suffix, evidence, texts, reading, policy) ==
  LET top     == scored[1]
      others  == DOMAIN evidence \ {top}
      best    == Max({evidence[i] : i \in others})
      runner  == scored[Min({k \in DOMAIN scored : scored[k] \in others /\ evidence[scored[k]] = best})]
      delta   == evidence[top] - evidence[1]
      margin  == evidence[top] - best
      confidence == neural_top_probability(evidence, top)
      type    == candidate_surface_type(texts[top], reading)
  IN /\ \/ context_signal_length(prefix, suffix) >= policy.external
        \/ shared_candidate_context_length(texts[top], texts[1]) >= policy.internal
     /\ \/ confidence >= policy.high_confidence /\ margin >= policy.high_margin
        \/ /\ delta >= DeltaThreshold(policy, type)
           /\ margin >= MarginThreshold(policy, type)
        \/ /\ confidence >= policy.contextual_confidence
           /\ delta >= policy.contextual_lead
           /\ margin >= MarginThreshold(policy, type)
        \/ /\ type = "numeric"
           /\ candidate_surface_type(texts[runner], reading) = "numeric"
           /\ numeric_surface_family(texts[top]) = numeric_surface_family(texts[runner])
           /\ delta >= 35
        \/ /\ contextual_candidate_bonus(prefix, suffix, texts[top]) >= 250
           /\ delta >= 35 /\ margin >= -25
           /\ type \notin {"reading_passthrough", "kana"}

preserve_mozc_top_if_uncertain(scored, prefix, suffix, evidence, texts, reading, policy) ==
  IF \/ scored = <<>>
     \/ scored[1] = 1
     \/ SurvivesGate(scored, prefix, suffix, evidence, texts, reading, policy)
  THEN scored
  ELSE <<1>> \o Kept(scored, ToSet(scored) \ {1})
=============================================================================

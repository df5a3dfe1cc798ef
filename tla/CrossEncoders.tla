--------------------------- MODULE CrossEncoders ---------------------------
(***************************************************************************)
(* How the backends that judge a candidate inside its sentence come to an  *)
(* order: onnx_ranker.py with one model or two, ruri_ranker.py,            *)
(* qwen_ranker.py, and the rules of ranker.py.                             *)
(*                                                                         *)
(* A segment has a reading, the texts around it and its candidates' texts  *)
(* in Mozc's order; a place in that order stands for the candidate's id.   *)
(* What a model says of a text in its sentence is given: |raw|, by place,  *)
(* equal for equal texts.  Scores are hundredths.                          *)
(***************************************************************************)
EXTENDS RankingPolicy

CONSTANTS
  RuriAffixes,             \* PRODUCTIVE_AFFIXES of ruri_ranker.py
  RightContextCompounds,   \* RIGHT_CONTEXT_COMPOUNDS: text -> candidate -> bonus
  LexiconRules,            \* the frames of lexicon.contextual_candidate_bonus
  RankerRules              \* the frames of RuleBasedRanker

Places(segment) == DOMAIN segment.candidates

-----------------------------------------------------------------------------
(* onnx_ranker.py and ruri_ranker.py.  |config| holds what the constructor   *)
(* decided: the number of models, whether their answer passes the gate and   *)
(* is charged for its place, and the settings that matter here.              *)

LocalContext(config, segment) ==
  IF config.context_enabled
  THEN select_local_context(segment.preceding, segment.following, config.context_chars)
  ELSE [prefix |-> <<>>, suffix |-> <<>>]

(* Hundredths of the two models' opinions; short readings trust both equally. *)
Weights(config, segment) ==
  IF config.models = 1 THEN <<100, 0>>
  ELSE IF Len(segment.reading) <= 3 THEN <<50, 50>> ELSE <<25, 75>>

Ensemble(config, segment, logits) ==
  [i \in Places(segment) |->
     (Weights(config, segment)[1] * logits[1][i] + Weights(config, segment)[2] * logits[2][i])
       \div 100]

(* ruri_ranker.py has a dictionary and affixes of its own, read from the     *)
(* same file.                                                                *)
LexicalKnowledge == [reading_map |-> Lexicon, exact_words |-> ExactWords]

IsRuriWord(word) ==
  \/ word \in LexicalKnowledge.exact_words
  \/ \E a \in RuriAffixes :
       \E known \in LexicalKnowledge.exact_words : known # <<>> /\ word = known \o a

RuriLexicalPenalty(word, reading) ==
  LET known == IF reading \in DOMAIN LexicalKnowledge.reading_map
               THEN LexicalKnowledge.reading_map[reading] ELSE {}
  IN IF /\ word # <<>> /\ reading # <<>> /\ word \notin known
        /\ \E k \in known : Len(k) = Len(word)
        /\ ~IsRuriWord(word)
     THEN 150 ELSE 0

LexicalPenalty(config, word, reading) ==
  IF ~config.lexicon \/ reading = <<>> THEN 0
  ELSE IF config.family = "ruri" THEN RuriLexicalPenalty(word, reading)
  ELSE compute_lexical_penalty(word, reading)

\* (The empty sequence makes TLC work each number out once.)
Evidence(config, segment, raw, local) ==
  LET texts == segment.candidates
  IN [i \in Places(segment) |->
        raw[i] + orthographic_style_bonus(texts[i], texts)
               + contextual_candidate_bonus(local.prefix, local.suffix, texts[i])
               - LexicalPenalty(config, texts[i], segment.reading)
               - reading_identity_penalty(texts[i], segment.reading, texts)] \o <<>>

Final(config, evidence) ==
  [i \in DOMAIN evidence |-> evidence[i] - (IF config.prior THEN rank_prior_penalty(i) ELSE 0)]

Thresholds(config) == IF config.models = 1 THEN DefaultThresholds ELSE EnsembleThresholds

Decided(config, segment, local, evidence, score, scored) ==
  [order |-> IF config.gate
             THEN preserve_mozc_top_if_uncertain(scored, local.prefix, local.suffix, evidence,
                    segment.candidates, segment.reading, Thresholds(config))
             ELSE scored,
   score |-> score, evidence |-> evidence, neural_top |-> scored[1]]

Scored(config, segment, local, evidence) ==
  Decided(config, segment, local, evidence, Final(config, evidence),
          Descending(Final(config, evidence)))

(* rank of either backend, and what rank_batch does for each segment. *)
Judge(config, segment, raw) ==
  LET local == LocalContext(config, segment)
  IN Scored(config, segment, local, Evidence(config, segment, raw, local))

(* The confidence rank_batch reports is the model's first candidate's, kept or not. *)
BatchConfidence(judged) == 100 * neural_top_probability(judged.evidence, judged.neural_top)

-----------------------------------------------------------------------------
(* qwen_ranker.py.  A probability is given in hundredths for each of the two *)
(* views of a candidate; the fused score is in ten-thousandths.              *)

Fused(words, completions) ==
  [i \in DOMAIN words |-> 45 * words[i] + 55 * completions[i] - 100 * (i - 1)]

QwenScores(variant, views) ==
  IF variant = "dual" THEN Fused(views[1], views[2])
  ELSE [i \in DOMAIN views[1] |-> 100 * views[1][i]]

-----------------------------------------------------------------------------
(* The rules. *)

Space == <<" ">>

(* The text is taken apart again at its first space, which ends what comes   *)
(* before the reading only when that is neither empty nor has a space.       *)
Joined(segment) ==
  LET all == segment.preceding \o Space \o segment.reading \o Space \o segment.following
      drop(s, n) == SubSeq(s, n + 1, Len(s))
      start == Min({i \in DOMAIN all : all[i] # " "} \cup {Len(all) + 1})
      end   == Max({i \in DOMAIN all : all[i] # " "} \cup {0})
  IN SubSeq(all, start, end)

AfterSpace(context) ==
  LET first == Min({i \in DOMAIN context : context[i] = " "} \cup {Len(context) + 1})
  IN [found |-> first <= Len(context), rest |-> SubSeq(context, first + 1, Len(context))]

(* The first frame all of whose needs (each one of several texts) occur, and *)
(* which has something to say of the candidate.                              *)
FrameBonus(frames, context, text) ==
  LET holds(f) == /\ \A need \in f.needs : \E n \in need : Occurs(context, n)
                  /\ text \in DOMAIN f.bonus
      first == SelectInSeq(frames, holds)
  IN IF first = 0 THEN 0 ELSE frames[first].bonus[text]

lexicon_contextual_bonus(context, text) ==
  LET right == AfterSpace(context)
      hit   == {r \in DOMAIN RightContextCompounds :
                  right.found /\ IsPrefix(r, right.rest) /\ text \in DOMAIN RightContextCompounds[r]}
  IN IF hit # {} THEN RightContextCompounds[CHOOSE r \in hit : TRUE][text]
     ELSE FrameBonus(LexiconRules, context, text)

_context_score(context, text) ==
  LET lexical == lexicon_contextual_bonus(context, text)
  IN IF lexical # 0 THEN lexical ELSE FrameBonus(RankerRules, context, text)

RuleScores(segment) ==
  [i \in Places(segment) |->
     100 * (Len(segment.candidates) - i) + _context_score(Joined(segment), segment.candidates[i])]

-----------------------------------------------------------------------------
(* _compact_batch_fallback: a backend without rank_batch is asked segment by *)
(* segment, and the winner's share of the softmax of what it answers is its  *)
(* confidence, in ten-thousandths.                                           *)
WinnerShare(order, score) ==
  LET highest == Max({score[i] : i \in DOMAIN score})
      total   == SumFunction([i \in DOMAIN score |-> Exp(score[i] - highest)])
  IN (10000 * Exp(score[order[1]] - highest)) \div total
=============================================================================

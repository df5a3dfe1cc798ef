--------------------------- MODULE JointDecoding ---------------------------
(***************************************************************************)
(* How the dual encoder decides: the context it encodes for a segment, the *)
(* score of a candidate in it, and, for several segments, the search for   *)
(* the best path through their candidates (onnx_dual_encoder_base.py and   *)
(* onnx_dual_encoder_ranker.py; dual_encoder_ranker.py is the older form   *)
(* of the first two).                                                      *)
(*                                                                         *)
(* A segment is as in CrossEncoders, with |place|, the number in its id.   *)
(* cosine[<<context, word>>], of the two vectors, is given.  Cosines and   *)
(* scores are hundredths, confidences ten-thousandths.                     *)
(***************************************************************************)
EXTENDS RankingPolicy

CONSTANTS
  HardTerminators, Commas, Blanks,     \* of select_safe_local_context
  LongText, SafeTail,                  \* 20 and 18 characters
  VagueChars,                          \* _CONTEXT_NOISE_CHARS
  SmallKana,                           \* not a mora of its own
  ParticleRules,                       \* [particles, words, bonus], applied together
  TopicRules,                          \* [topics, words, bonus]
  context_chars, lexical_grounding,
  MaxTrailing,                         \* 12: how far back a replaced surface may end
  Chars, MaxTyped,                     \* what may be typed before the first segment
  MaxConverted,                        \* a bound on it when segments are converted
  Batches,                             \* sequences of [place, gap, reading, candidates]
  Similarities                         \* the values a cosine takes

VARIABLES
  typed,      \* the text before the first segment
  batch,
  sim,        \* <<context, word>> -> cosine
  answer

vars == <<typed, batch, sim, answer>>

-----------------------------------------------------------------------------
(* Context. *)

Stripped_(s) ==
  LET kept == {i \in DOMAIN s : s[i] \notin Blanks}
  IN IF kept = {} THEN <<>> ELSE SubSeq(s, Min(kept), Max(kept))

AfterLast(s, chars) == Stripped_(SubSeq(s, Max({0} \cup Positions(s, chars)) + 1, Len(s)))

(* Mutant: a comma cuts wherever it is. *)
CutAtCommaAnywhere(s) ==
  LET commas == Positions(s, Commas)
  IN IF commas = {} THEN s ELSE Stripped_(SubSeq(s, Max(commas) + 1, Len(s)))

(* A comma cuts only a long text, and only where a tail of SafeTail characters, *)
(* the comma counted, is left.                                                  *)
CutAtComma(s) ==
  LET safe == {i \in Positions(s, Commas) : Len(s) - i + 1 >= SafeTail}
  IN IF Len(s) <= LongText \/ safe = {} THEN s
     ELSE Stripped_(SubSeq(s, Max(safe) + 1, Len(s)))

select_safe_local_context(preceding) ==
  LET text == CutAtComma(AfterLast(Stripped_(preceding), HardTerminators))
  IN IF Len(text) > context_chars THEN Stripped_(Suffix(text, context_chars)) ELSE text

content_signal_length(text) == Len(Kept(text, ToSet(text) \ VagueChars))

FewSigns(text) == content_signal_length(text) < 2

-----------------------------------------------------------------------------
(* The score of a candidate in a context. *)

estimate_mora_length(reading) == Len(Kept(reading, ToSet(reading) \ SmallKana))

compute_length_and_mora_penalty(word, reading) ==
  LET mora     == estimate_mora_length(reading)
      kanji    == Len(Kept(word, Kanji))
      expected == Max({1, (mora + 1) \div 2})
  IN IF reading = <<>> \/ word = <<>> THEN 0
     ELSE (IF kanji > expected + 1 THEN 25 * (kanji - expected) ELSE 0)
        + (IF Len(word) > mora + 2 THEN 20 * (Len(word) - mora - 1) ELSE 0)

(* A particle rule looks at how the context ends, a comma after it or not; a *)
(* topic rule at what occurs in it.                                          *)
compute_grammatical_particle_bonus(prefix, word) ==
  LET p == Stripped_(prefix)
      ends(rule)  == \E x \in rule.particles : IsSuffix(x, p) \/ \E c \in Commas : IsSuffix(Append(x, c), p)
      about(rule) == \E x \in rule.topics : Occurs(p, x)
  IN IF p = <<>> \/ word = <<>> THEN 0
     ELSE SumFunction([r \in {x \in ParticleRules : ends(x) /\ word \in x.words} |-> r.bonus])
        + SumFunction([r \in {x \in TopicRules : about(x) /\ word \in x.words} |-> r.bonus])

(* By place.  The code sorts these; rank_batch looks them up by id again. *)
_score_segment_candidates(prefix, segment, cosine) ==
  LET words == segment.candidates
      n     == Len(words)
  IN [j \in DOMAIN words |->
        2 * cosine[<<prefix, words[j]>>]
        + compute_grammatical_particle_bonus(prefix, words[j])
        + (IF lexical_grounding
           THEN contextual_candidate_bonus(prefix, segment.following, words[j]) ELSE 0)
        - compute_length_and_mora_penalty(words[j], segment.reading)
        - reading_identity_penalty(words[j], segment.reading, words)
        + (4 * (n - j)) \div n]

-----------------------------------------------------------------------------
(* The contexts of a batch. *)

_adjacent(previous, current) == current.place = previous.place + 1

LastAt(s, needle) == Max({-1} \cup {i \in 0 .. Len(s) - Len(needle) :
                                       SubSeq(s, i + 1, i + Len(needle)) = needle})

(* The preceding text with the previous segment's surface replaced, or the *)
(* preceding text itself if that surface is not found near its end.        *)
_alternative_prefix(previous, current, replacement) ==
  LET text     == current.preceding
      original == previous.candidates[1]
      at       == LastAt(text, original)
      trailing == Len(text) - at - Len(original)
  IN IF /\ _adjacent(previous, current)
        /\ original # <<>> /\ replacement # <<>>
        /\ at >= 0 /\ trailing <= MaxTrailing
     THEN SubSeq(text, 1, at) \o replacement \o Suffix(text, trailing)
     ELSE text

(* Row i has a context for each candidate of segment i - 1, the first row one. *)
_context_plan(segments) ==
  [i \in DOMAIN segments |->
     IF i = 1 THEN <<select_safe_local_context(segments[1].preceding)>>
     ELSE [k \in DOMAIN segments[i - 1].candidates |->
             select_safe_local_context(
               _alternative_prefix(segments[i - 1], segments[i], segments[i - 1].candidates[k]))]]

(* scores[i][k][j]: candidate j of segment i after candidate k of the one before. *)
Lattice(segments, cosine) ==
  LET rows == _context_plan(segments)
  IN [i \in DOMAIN segments |->
        [k \in DOMAIN rows[i] |->
           IF FewSigns(rows[i][k])
           THEN [j \in DOMAIN segments[i].candidates |-> -100 * (j - 1)]
           ELSE _score_segment_candidates(rows[i][k], segments[i], cosine)]]

-----------------------------------------------------------------------------
(* The path search.  A path is a score and the places it takes. *)

(* The first two of the best, in the order they are listed for equal scores. *)
BestTwo(paths) ==
  LET sorted == Descending([n \in DOMAIN paths |-> paths[n].score])
  IN [n \in 1 .. Min({2, Len(paths)}) |-> paths[sorted[n]]]

(* Mutant: one path is enough for each state. *)
BestOne(paths) == SubSeq(BestTwo(paths), 1, 1)

Extend(paths, row, j) ==
  [n \in DOMAIN paths |->
     [score |-> paths[n].score + row[paths[n].places[Len(paths[n].places)]][j],
      places |-> Append(paths[n].places, j)]]

Survivors(paths) == BestTwo(paths)

(* States[i][j]: the best two paths that end in candidate j of segment i. *)
States(scores) ==
  LET States_[i \in DOMAIN scores] ==
        [j \in DOMAIN scores[i][1] |->
           IF i = 1 THEN << [score |-> scores[1][1][j], places |-> <<j>>] >>
           ELSE Survivors(Extend(FlattenSeq(States_[i - 1]), scores[i], j))]
  IN States_[Len(scores)]

RankedPaths(scores) == BestTwo(FlattenSeq(States(scores)))

MIN_PATH_GAIN == 55
MIN_PATH_MARGIN == 30
CONFIDENT_PATH == 6600

BaselineScore(scores) == SumFunction([i \in DOMAIN scores |-> scores[i][1][1]])

joint_safe(scores) ==
  LET ranked == RankedPaths(scores)
  IN /\ Len(scores) > 1
     /\ ranked[1].score - BaselineScore(scores) >= MIN_PATH_GAIN
     /\ Len(ranked) = 1 \/ ranked[1].score - ranked[2].score >= MIN_PATH_MARGIN

(* The best share of a softmax four times as sharp. *)
_softmax_confidence(values) ==
  LET highest == Max({values[j] : j \in DOMAIN values})
  IN 100000000 \div SumFunction([j \in DOMAIN values |-> Exp(4 * (values[j] - highest))])

FirstBest(values) ==
  CHOOSE j \in DOMAIN values : \A k \in DOMAIN values :
    values[k] < values[j] \/ (values[k] = values[j] /\ j <= k)

Decide(segments, scores) ==
  LET best == RankedPaths(scores)[1].places
  IN [i \in DOMAIN segments |->
        IF joint_safe(scores) THEN [winner |-> best[i], confidence |-> CONFIDENT_PATH]
        ELSE [winner |-> FirstBest(scores[i][1]), confidence |-> _softmax_confidence(scores[i][1])]]

(* rank_batch of the base class: each segment in its own context, its best *)
(* candidate the winner; Mozc's first where the context is weak.           *)
SafePrefixes(segments) ==
  [i \in DOMAIN segments |-> select_safe_local_context(segments[i].preceding)]

RankedAlone(segments, cosine) ==
  [i \in DOMAIN segments |->
     LET prefix == SafePrefixes(segments)[i]
         scores == _score_segment_candidates(prefix, segments[i], cosine)
     IN IF FewSigns(prefix) THEN [winner |-> 1, confidence |-> 5000]
        ELSE [winner |-> FirstBest(scores), confidence |-> _softmax_confidence(scores)]]

(* rank_batch, its caches complete.  Mozc's order when every context is weak. *)
rank_batch(segments, cosine) ==
  LET rows == _context_plan(segments)
  IN IF \A i \in DOMAIN rows : \A k \in DOMAIN rows[i] : FewSigns(rows[i][k])
  THEN [i \in DOMAIN segments |-> [winner |-> 1, confidence |-> 5000]]
  ELSE Decide(segments, Lattice(segments, cosine))

(* rank, of one segment: the order of its places. *)
rank(segment, cosine) ==
  LET prefix == select_safe_local_context(segment.preceding)
      score  == _score_segment_candidates(prefix, segment, cosine)
  IN IF FewSigns(prefix) THEN [j \in DOMAIN segment.candidates |-> j]
     ELSE Descending(score)

-----------------------------------------------------------------------------
(* A user types, and converts several segments at once; the client sends for  *)
(* each what was typed and Mozc's first candidates before it (|gap| is that    *)
(* of the segments it left out in between).                                    *)

Sent(text, parts) ==
  LET before(i) == parts[i].gap \o parts[i].candidates[1]
      shown(i)  == FlattenSeq([n \in 1 .. i - 1 |-> before(n)])
  IN [i \in DOMAIN parts |->
        [place |-> parts[i].place, reading |-> parts[i].reading, candidates |-> parts[i].candidates,
         preceding |-> text \o shown(i) \o parts[i].gap, following |-> <<>>]]

(* The pairs of vectors that are compared, the weak contexts left out. *)
Compared(segments) ==
  LET rows == _context_plan(segments)
  IN UNION {(ToSet(rows[i]) \ {c \in ToSet(rows[i]) : FewSigns(c)}) \X ToSet(segments[i].candidates) :
              i \in DOMAIN segments}

NotDecided == <<>>

Init ==
  /\ typed = <<>>
  /\ batch = <<>>
  /\ sim = <<>>
  /\ answer = NotDecided

Type ==
  /\ answer = NotDecided
  /\ Len(typed) < MaxTyped
  /\ \E c \in Chars : typed' = Append(typed, c)
  /\ UNCHANGED <<batch, sim, answer>>

Convert ==
  /\ answer = NotDecided
  /\ Len(typed) <= MaxConverted
  /\ \E parts \in Batches :
       \E s \in [Compared(Sent(typed, parts)) -> Similarities] :
         /\ batch' = parts
         /\ sim' = s
         /\ answer' = rank_batch(Sent(typed, parts), s)
  /\ UNCHANGED typed

Next == Type \/ Convert

Spec == Init /\ [][Next]_vars
-----------------------------------------------------------------------------
(***************************************************************************)
(* Properties.                                                             *)
(***************************************************************************)
Segments == Sent(typed, batch)
Scores == Lattice(Segments, sim)
Paths  == {p \in [DOMAIN batch -> 1 .. Max({Len(batch[i].candidates) : i \in DOMAIN batch})] :
             \A i \in DOMAIN batch : p[i] <= Len(batch[i].candidates)}
PathScore(scores, p) ==
  SumFunction([i \in DOMAIN p |-> scores[i][IF i = 1 THEN 1 ELSE p[i - 1]][p[i]]])

(* The paths that beat Mozc's by 0.55 and every other by 0.30. *)
Dominant ==
  LET scores == Scores
      total  == [p \in Paths |-> PathScore(scores, p)]
      mozc   == [i \in DOMAIN batch |-> 1]
  IN {p \in Paths : /\ Len(batch) > 1
                    /\ total[p] >= total[mozc] + MIN_PATH_GAIN
                    /\ \A q \in Paths \ {p} : total[p] >= total[q] + MIN_PATH_MARGIN}

Decided  == answer # NotDecided
Together(p) == [i \in DOMAIN batch |-> [winner |-> p[i], confidence |-> CONFIDENT_PATH]]

(* onnx_dual_encoder_ranker.py:228-262, "a path margin is measured against    *)
(* the real runner-up": the search, which keeps two paths for each candidate, *)
(* decides for all segments together exactly when one path of all there are   *)
(* beats Mozc's by 0.55 and every other by 0.30, and takes that path; without *)
(* one each segment is decided as the base class decides it (base.py:694-756, *)
(* and 643-692 for one by itself), except that one of weak context may be     *)
(* reported more certain than 0.5 when others have a context.                 *)
TogetherIffDominant ==
  Decided =>
    /\ \A p \in Dominant : answer = Together(p)
    /\ Dominant = {} =>
         \A i \in DOMAIN batch :
           /\ answer[i].winner = rank(Segments[i], sim)[1]
           /\ answer[i].winner = RankedAlone(Segments, sim)[i].winner
           /\ FewSigns(SafePrefixes(Segments)[i]) \/ answer[i] = RankedAlone(Segments, sim)[i]

(* onnx_dual_encoder_base.py:49-56, "NEVER cut at a comma within the last     *)
(* 18-20 characters": what was typed last is in the context, whole.           *)
RecentTextIsKept ==
  LET text == Stripped_(typed)
      tail == Stripped_(Suffix(text, Min({SafeTail - 1, Len(text)})))
  IN Positions(tail, HardTerminators) = {} => IsSuffix(tail, select_safe_local_context(typed))
=============================================================================

--------------------------- MODULE DecisionProofs ---------------------------
(*****************************************************************************)
(* How a ranking is decided: what the cross-encoders and the rules come to   *)
(* (CrossEncoders, RankingPolicy), for any requests, any opinions of any     *)
(* models, and any words, rules and settings of the policy; what the dual    *)
(* encoder sees of a text, and that its path search is exact (JointDecoding),*)
(* for any texts and any lattice of scores.                                  *)
(*****************************************************************************)
EXTENDS MCResponsePath, RecursionProofs, FiniteSetTheorems

(* The highest of the values at some places. *)
LEMMA Highest ==
  ASSUME NEW n \in Nat, NEW f \in [1 .. n -> Int],
         NEW T, T \subseteq 1 .. n, T # {}
  PROVE  LET high == Ranking!Max({f[i] : i \in T})
         IN  high \in Int /\ \A i \in T : f[i] <= high
<1> DEFINE V == {f[i] : i \in T}
<1>1. PICK i \in T : \A j \in T : f[j] <= f[i]
  BY BestPlace
<1>2. V \subseteq Int
  OBVIOUS
<1>3. f[i] \in V /\ \A v \in V : f[i] >= v
  BY <1>1
<1>4. \A j \in T : f[j] \in V
  OBVIOUS
<1>5. Ranking!Max(V) \in V /\ \A v \in V : Ranking!Max(V) >= v
  <2> HIDE DEF V
  <2>1. QED
    BY <1>3 DEF Ranking!Max
<1> HIDE DEF V
<1>6. QED
  <2>1. Ranking!Max(V) \in Int /\ \A j \in T : f[j] <= Ranking!Max(V)
    BY <1>2, <1>4, <1>5
  <2>2. QED
    BY <2>1 DEF V

(* The first of an order by score is one of the places. *)
LEMMA FirstPlaced ==
  ASSUME NEW n \in Nat \ {0}, NEW score \in [1 .. n -> Int]
  PROVE  /\ Ranking!Descending(score)[1] \in 1 .. n
         /\ Ranking!Descending(score) # <<>>
         /\ \E S : Ranking!Descending(score) \in Seq(S)
<1> DEFINE M == {i \in 1 .. n : \A j \in 1 .. n : score[j] <= score[i]}
<1>1. M \subseteq Nat /\ M # {}
  <2>1. n \in Nat /\ 1 \in 1 .. n
    OBVIOUS
  <2>2. 1 .. n # {} /\ 1 .. n \subseteq 1 .. n
    BY <2>1
  <2>3. \E i \in 1 .. n : \A j \in 1 .. n : score[j] <= score[i]
    BY <2>1, <2>2, BestPlace
  <2>4. QED
    BY <2>3
<1>2. PICK i \in M : \A j \in M : i <= j
  <2> HIDE DEF M
  <2>1. QED
    BY <1>1, Least
<1>3. Ranking!Ahead(score, i) = {}
  <2> SUFFICES ASSUME NEW j \in 1 .. n, score[j] > score[i] \/ (score[j] = score[i] /\ j < i)
               PROVE  FALSE
    BY DEF Ranking!Ahead
  <2>1. score[j] \in Int /\ score[i] \in Int
    BY <1>2
  <2>2. score[j] = score[i] /\ j < i
    BY <1>2, <2>1
  <2>3. j \in M
    BY <1>2, <2>2
  <2>4. QED
    BY <1>2, <2>2, <2>3
<1>4. Ranking!Cardinality(Ranking!Ahead(score, i)) = 0
  <2>1. Cardinality({}) = 0
    BY FS_EmptySet
  <2>2. \A S : Ranking!Cardinality(S) = Cardinality(S)
    BY DEF Cardinality, Ranking!Cardinality
  <2>3. QED
    BY <1>3, <2>1, <2>2
<1>5. i \in 1 .. n
  OBVIOUS
<1> DEFINE Nth(m) == CHOOSE k \in DOMAIN score : Ranking!Cardinality(Ranking!Ahead(score, k)) = m - 1
<1>6. Ranking!Descending(score) = [m \in DOMAIN score |-> Nth(m)]
  BY DEF Ranking!Descending
<1>7. Nth(1) \in DOMAIN score
  <2>1. 0 = 1 - 1 /\ i \in DOMAIN score
    BY <1>5
  <2>2. Ranking!Cardinality(Ranking!Ahead(score, i)) = 1 - 1
    BY <1>4, <2>1
  <2>3. QED
    BY <2>1, <2>2
<1>8. QED
  <2> DEFINE S == {Nth(m) : m \in 1 .. n}
  <2>1. DOMAIN score = 1 .. n /\ 1 \in 1 .. n /\ n \in Nat
    OBVIOUS
  <2>2. \A m \in 1 .. n : Nth(m) \in S
    OBVIOUS
  <2> HIDE DEF Nth, S
  <2>3. Ranking!Descending(score) = [m \in 1 .. n |-> Nth(m)]
    BY <1>6, <2>1
  <2>4. Ranking!Descending(score) \in Seq(S) /\ DOMAIN Ranking!Descending(score) = 1 .. n
    BY <2>1, <2>2, <2>3
  <2>5. Ranking!Descending(score) # <<>>
    BY <2>1, <2>4
  <2>6. Ranking!Descending(score)[1] \in 1 .. n
    BY <1>7, <2>1, <2>3
  <2>7. QED
    BY <2>4, <2>5, <2>6

LEMMA KeptHere ==
  ASSUME NEW S, NEW s \in Seq(S), NEW those
  PROVE  /\ Ranking!Kept(s, those) \in Seq(S)
         /\ Len(Ranking!Kept(s, those)) \in 0 .. Len(s)
<1>1. Ranking!Kept(s, those) = Kept(s, those)
  BY DEF Kept, Ranking!Kept
<1>2. Kept(s, those) \in Seq(S) /\ Len(Kept(s, those)) \in 0 .. Len(s)
  <2>1. Kept(s, those) \in Seq(S \cap those) /\ Len(Kept(s, those)) <= Len(s)
    BY KeptOnly
  <2>2. \A t \in Seq(S \cap those) : t \in Seq(S) /\ Len(t) \in Nat
    OBVIOUS
  <2>3. Len(s) \in Nat
    OBVIOUS
  <2>4. QED
    BY <2>1, <2>2, <2>3
<1>3. QED
  BY <1>1, <1>2

(* The end of a text, and the beginning. *)
LEMMA EndOf ==
  ASSUME NEW s \in Text, NEW n \in 0 .. Len(s)
  PROVE  Ranking!Suffix(s, n) \in Text /\ Len(Ranking!Suffix(s, n)) = n
<1>1. Len(s) \in Nat /\ n \in Int /\ 0 <= n /\ n <= Len(s)
  BY DEF Text
<1>2. \A i \in Len(s) - n + 1 .. Len(s) : s[i] \in STRING
  BY <1>1 DEF Text
<1>3. Len(s) - n + 1 \in Int
  BY <1>1
<1>4. /\ SubSeq(s, Len(s) - n + 1, Len(s)) \in Seq(STRING)
      /\ Len(SubSeq(s, Len(s) - n + 1, Len(s))) =
           (IF Len(s) - n + 1 <= Len(s) THEN Len(s) - (Len(s) - n + 1) + 1 ELSE 0)
  BY <1>1, <1>2, <1>3, SubSeqProperties
<1>5. QED
  BY <1>1, <1>4 DEF Text, Ranking!Suffix

LEMMA BeginningOf ==
  ASSUME NEW s \in Text, NEW n \in 0 .. Len(s)
  PROVE  SubSeq(s, 1, n) \in Text /\ Len(SubSeq(s, 1, n)) = n
<1>1. Len(s) \in Nat /\ n \in Int /\ 0 <= n /\ n <= Len(s)
  BY DEF Text
<1>2. \A i \in 1 .. n : s[i] \in STRING
  BY <1>1 DEF Text
<1>3. /\ SubSeq(s, 1, n) \in Seq(STRING)
      /\ Len(SubSeq(s, 1, n)) = (IF 1 <= n THEN n - 1 + 1 ELSE 0)
  BY <1>1, <1>2, SubSeqProperties
<1>4. QED
  BY <1>1, <1>3 DEF Text

(* The lesser of two numbers. *)
LEMMA LesserOf ==
  ASSUME NEW a \in Nat, NEW b \in Nat
  PROVE  Ranking!Min({a, b}) \in 0 .. b
<1> DEFINE T == {a, b}
<1>1. T \subseteq Nat /\ T # {} /\ b \in T
  OBVIOUS
<1> HIDE DEF T
<1>2. Ranking!Min(T) \in T /\ \A y \in T : Ranking!Min(T) <= y
  BY <1>1, Lowest DEF Ranking!Min
<1>3. Ranking!Min(T) \in 0 .. b
  <2>1. Ranking!Min(T) \in Nat /\ Ranking!Min(T) <= b
    BY <1>1, <1>2
  <2>2. \A m \in Nat : m <= b => m \in 0 .. b
    OBVIOUS
  <2>3. QED
    BY <2>1, <2>2
<1>4. QED
  BY <1>3 DEF T

(* The context of a segment is of two texts. *)
LEMMA LocalTexts ==
  ASSUME NEW p \in Text, NEW f \in Text, NEW max \in Nat
  PROVE  LET local == Ranking!select_local_context(p, f, max)
         IN  local.prefix \in Text /\ local.suffix \in Text
<1> DEFINE prefix == Ranking!Suffix(p, Ranking!Min({max, Len(p)}))
           suffix == SubSeq(f, 1, Ranking!Min({max, Len(f)}))
           last   == Ranking!Max({0} \cup Ranking!Positions(prefix, Boundaries))
           next   == Ranking!Min({Len(suffix) + 1} \cup Ranking!Positions(suffix, Boundaries))
<1>1. prefix \in Text /\ Len(prefix) \in Nat
  <2>1. Len(p) \in Nat
    BY DEF Text
  <2>2. Ranking!Min({max, Len(p)}) \in 0 .. Len(p)
    BY <2>1, LesserOf
  <2>3. QED
    BY <2>1, <2>2, EndOf
<1>2. suffix \in Text /\ Len(suffix) \in Nat
  <2>1. Len(f) \in Nat
    BY DEF Text
  <2>2. Ranking!Min({max, Len(f)}) \in 0 .. Len(f)
    BY <2>1, LesserOf
  <2>3. QED
    BY <2>1, <2>2, BeginningOf
<1> HIDE DEF prefix, suffix
<1>3. last \in 0 .. Len(prefix)
  <2> DEFINE T == {0} \cup Ranking!Positions(prefix, Boundaries)
  <2>1. T \subseteq 0 .. Len(prefix) /\ T # {}
    BY <1>1 DEF Ranking!Positions, Text
  <2> HIDE DEF T
  <2>2. Ranking!Max(T) \in T
    BY <1>1, <2>1, Greatest DEF Ranking!Max
  <2>3. Ranking!Max(T) \in 0 .. Len(prefix)
    BY <2>1, <2>2
  <2>4. QED
    BY <2>3 DEF T
<1>4. next \in 1 .. Len(suffix) + 1
  <2> DEFINE T == {Len(suffix) + 1} \cup Ranking!Positions(suffix, Boundaries)
  <2>1. T \subseteq 1 .. Len(suffix) + 1 /\ T # {}
    BY <1>2 DEF Ranking!Positions, Text
  <2>2. 1 .. Len(suffix) + 1 \subseteq Nat
    OBVIOUS
  <2> HIDE DEF T
  <2>3. Ranking!Min(T) \in T
    BY <2>1, <2>2, Lowest DEF Ranking!Min
  <2>4. Ranking!Min(T) \in 1 .. Len(suffix) + 1
    BY <2>1, <2>3
  <2>5. QED
    BY <2>4 DEF T
<1> HIDE DEF last, next
<1>5. Ranking!Suffix(prefix, Len(prefix) - last) \in Text
  <2>1. Len(prefix) - last \in 0 .. Len(prefix)
    BY <1>1, <1>3
  <2>2. QED
    BY <1>1, <2>1, EndOf
<1>6. SubSeq(suffix, 1, next - 1) \in Text
  <2>1. next - 1 \in 0 .. Len(suffix)
    BY <1>2, <1>4
  <2>2. QED
    BY <1>2, <2>1, BeginningOf
<1>7. Ranking!select_local_context(p, f, max) =
        IF max <= 0 THEN [prefix |-> <<>>, suffix |-> <<>>]
        ELSE [prefix |-> Ranking!Suffix(prefix, Len(prefix) - last),
              suffix |-> SubSeq(suffix, 1, next - 1)]
  BY DEF Ranking!select_local_context, prefix, suffix, last, next
<1>8. <<>> \in Text
  BY DEF Text
<1>9. QED
  BY <1>5, <1>6, <1>7, <1>8

(* What the policy adds to an opinion and takes from it are numbers. *)
LEMMA BonusIsInt ==
  ASSUME NEW prefix, NEW suffix, NEW text
  PROVE  Ranking!contextual_candidate_bonus(prefix, suffix, text) \in Int
<1> DEFINE applies(rule) == /\ rule.candidate \in Ranking!Stripped(text)
                            /\ \E needle \in rule.needles :
                                 Ranking!Occurs(prefix \o text \o suffix, needle)
           I == {i \in 1 .. Len(ContextRules) : applies(ContextRules[i])}
           first == IF I # {} THEN Ranking!Min(I) ELSE 0
<1>1. Ranking!contextual_candidate_bonus(prefix, suffix, text) =
        IF first = 0 THEN 0 ELSE ContextRules[first].bonus
  BY DEF Ranking!contextual_candidate_bonus, Ranking!SelectInSeq
<1>2. /\ Len(ContextRules) \in Nat
      /\ \A i \in 1 .. Len(ContextRules) : ContextRules[i].bonus \in Int
  <2> DEFINE Rules == [needles : SUBSET Text, candidate : Text, bonus : Int]
  <2>1. ContextRules \in Seq(Rules)
    BY RankingAssumption
  <2>2. \A r \in Rules : r.bonus \in Int
    OBVIOUS
  <2> HIDE DEF Rules
  <2>3. QED
    BY <2>1, <2>2
<1> HIDE DEF applies
<1>3. I # {} => first \in 1 .. Len(ContextRules)
  <2> SUFFICES ASSUME I # {} PROVE first \in 1 .. Len(ContextRules)
    OBVIOUS
  <2>1. I \subseteq Nat /\ I \subseteq 1 .. Len(ContextRules)
    BY <1>2
  <2> HIDE DEF I
  <2>2. Ranking!Min(I) \in I
    BY <2>1, Lowest DEF Ranking!Min
  <2>3. QED
    BY <2>1, <2>2
<1>4. first = 0 \/ first \in 1 .. Len(ContextRules)
  BY <1>3
<1> HIDE DEF first
<1>5. QED
  BY <1>1, <1>2, <1>4

(* What the evidence of a text has besides the model's opinion. *)
Added(c, segment, local, text) ==
  Ranking!orthographic_style_bonus(text, segment.candidates)
  + Ranking!contextual_candidate_bonus(local.prefix, local.suffix, text)
  - Ranking!LexicalPenalty(c, text, segment.reading)
  - Ranking!reading_identity_penalty(text, segment.reading, segment.candidates)

LEMMA AddedParts ==
  ASSUME NEW c, NEW segment, NEW local, NEW text
  PROVE  /\ Ranking!orthographic_style_bonus(text, segment.candidates) \in Int
         /\ Ranking!contextual_candidate_bonus(local.prefix, local.suffix, text) \in Int
         /\ Ranking!LexicalPenalty(c, text, segment.reading) \in Int
         /\ Ranking!reading_identity_penalty(text, segment.reading, segment.candidates) \in Int
         /\ Added(c, segment, local, text) \in Int
<1>1. Ranking!orthographic_style_bonus(text, segment.candidates) \in Int
  BY DEF Ranking!orthographic_style_bonus
<1>2. Ranking!LexicalPenalty(c, text, segment.reading) \in Int
  <2>1. \A t, r : Ranking!RuriLexicalPenalty(t, r) \in Int /\ Ranking!compute_lexical_penalty(t, r) \in Int
    BY DEF Ranking!RuriLexicalPenalty, Ranking!compute_lexical_penalty
  <2>2. QED
    BY <2>1 DEF Ranking!LexicalPenalty
<1>3. Ranking!reading_identity_penalty(text, segment.reading, segment.candidates) \in Int
  BY DEF Ranking!reading_identity_penalty
<1>4. Ranking!contextual_candidate_bonus(local.prefix, local.suffix, text) \in Int
  BY BonusIsInt
<1>5. QED
  BY <1>1, <1>2, <1>3, <1>4 DEF Added

(* The evidence of each place is the model's score and what is added to it. *)
AddsUp(c, segment, local, n, raw) ==
  /\ Ranking!Evidence(c, segment, raw, local) \in [1 .. n -> Int]
  /\ \A i \in 1 .. n : Ranking!Evidence(c, segment, raw, local)[i] =
                        raw[i] + Added(c, segment, local, segment.candidates[i])

LEMMA EvidenceIs ==
  ASSUME NEW c, NEW segment, NEW local, NEW n \in Nat, DOMAIN segment.candidates = 1 .. n,
         NEW raw \in [1 .. n -> Int]
  PROVE  AddsUp(c, segment, local, n, raw)
<1> DEFINE A(t) == Ranking!orthographic_style_bonus(t, segment.candidates)
           B(t) == Ranking!contextual_candidate_bonus(local.prefix, local.suffix, t)
           C(t) == Ranking!LexicalPenalty(c, t, segment.reading)
           D(t) == Ranking!reading_identity_penalty(t, segment.reading, segment.candidates)
           X(t) == Added(c, segment, local, t)
           text(i) == segment.candidates[i]
           e == [i \in 1 .. n |-> raw[i] + X(text(i))]
<1>1. \A t : A(t) \in Int /\ B(t) \in Int /\ C(t) \in Int /\ D(t) \in Int
  BY AddedParts
<1>5. \A t : X(t) = A(t) + B(t) - C(t) - D(t)
  BY DEF Added
<1>6. Ranking!Evidence(c, segment, raw, local) =
        [i \in 1 .. n |-> raw[i] + A(text(i)) + B(text(i)) - C(text(i)) - D(text(i))] \o <<>>
  BY DEF Ranking!Evidence, Ranking!Places
<1> HIDE DEF A, B, C, D, X, text
<1>7. \A t : X(t) \in Int /\ \A x \in Int : x + A(t) + B(t) - C(t) - D(t) = x + X(t)
  <2> TAKE t
  <2>1. A(t) \in Int /\ B(t) \in Int /\ C(t) \in Int /\ D(t) \in Int
    BY <1>1
  <2>2. QED
    BY <1>5, <2>1
<1>8. [i \in 1 .. n |-> raw[i] + A(text(i)) + B(text(i)) - C(text(i)) - D(text(i))] = e
  <2>1. \A i \in 1 .. n : raw[i] \in Int
    OBVIOUS
  <2>2. \A i \in 1 .. n : raw[i] + A(text(i)) + B(text(i)) - C(text(i)) - D(text(i)) = raw[i] + X(text(i))
    BY <1>7, <2>1
  <2>3. QED
    BY <2>2
<1>9. e \in Seq(Int)
  <2>1. \A i \in 1 .. n : raw[i] + X(text(i)) \in Int
    BY <1>7
  <2>2. QED
    BY <2>1
<1>10. e \o <<>> = e
  <2> HIDE DEF e
  <2>1. QED
    BY <1>9, ConcatEmptySeq
<1>11. e \in [1 .. n -> Int] /\ \A i \in 1 .. n : e[i] = raw[i] + X(text(i))
  BY <1>7
<1>12. Ranking!Evidence(c, segment, raw, local) = e
  BY <1>6, <1>8, <1>10
<1> HIDE DEF e
<1>13. \A i \in 1 .. n : e[i] = raw[i] + Added(c, segment, local, segment.candidates[i])
  BY <1>11 DEF X, text
<1>14. QED
  BY <1>11, <1>12, <1>13 DEF AddsUp

(* The charge for a place is a number. *)
LEMMA PenaltyIsInt ==
  ASSUME NEW n \in Nat, NEW i \in 1 .. n
  PROVE  Ranking!rank_prior_penalty(i) \in Int
<1>1. Ranking!Min({i, 10}) \in 1 .. 10
  <2> DEFINE T == {i, 10}
  <2>1. T \subseteq Nat /\ T # {} /\ 10 \in T /\ \A y \in T : 1 <= y
    OBVIOUS
  <2> HIDE DEF T
  <2>2. Ranking!Min(T) \in T /\ \A y \in T : Ranking!Min(T) <= y
    BY <2>1, Lowest DEF Ranking!Min
  <2>3. Ranking!Min(T) \in Nat /\ 1 <= Ranking!Min(T) /\ Ranking!Min(T) <= 10
    BY <2>1, <2>2
  <2>4. \A m \in Nat : 1 <= m /\ m <= 10 => m \in 1 .. 10
    OBVIOUS
  <2>5. Ranking!Min(T) \in 1 .. 10
    BY <2>3, <2>4
  <2>6. QED
    BY <2>5 DEF T
<1>2. \A k \in 1 .. 10 : <<0, 15, 24, 30, 35, 39, 42, 45, 48, 50>>[k] \in Int
  <2> DEFINE table == <<0, 15, 24, 30, 35, 39, 42, 45, 48, 50>>
  <2>1. /\ table[1] \in Int /\ table[2] \in Int /\ table[3] \in Int /\ table[4] \in Int
        /\ table[5] \in Int /\ table[6] \in Int /\ table[7] \in Int /\ table[8] \in Int
        /\ table[9] \in Int /\ table[10] \in Int
    OBVIOUS
  <2> HIDE DEF table
  <2>2. \A k \in 1 .. 10 : k \in {1, 2, 3, 4, 5, 6, 7, 8, 9, 10}
    OBVIOUS
  <2>3. \A k \in 1 .. 10 : table[k] \in Int
    BY <2>1, <2>2
  <2>4. QED
    BY <2>3 DEF table
<1>3. QED
  BY <1>1, <1>2 DEF Ranking!rank_prior_penalty

LEMMA FinalIsInt ==
  ASSUME NEW c, NEW n \in Nat, NEW evidence \in [1 .. n -> Int]
  PROVE  Ranking!Final(c, evidence) \in [1 .. n -> Int]
<1>1. \A i \in 1 .. n : Ranking!rank_prior_penalty(i) \in Int
  BY PenaltyIsInt
<1>2. \A i \in 1 .. n : evidence[i] - (IF c.prior THEN Ranking!rank_prior_penalty(i) ELSE 0) \in Int
  BY <1>1
<1>3. DOMAIN evidence = 1 .. n
  OBVIOUS
<1>4. QED
  BY <1>2, <1>3 DEF Ranking!Final

(* The least and the greatest of two numbers. *)
LEMMA OfTwo ==
  /\ Ranking!Min({35, 55}) = 35 /\ Ranking!Min({35, 25}) = 25
  /\ Ranking!Max({25, 55}) = 55 /\ Ranking!Max({25, 25}) = 25
<1>1. Ranking!Min({35, 55}) = 35
  BY DEF Ranking!Min
<1>2. Ranking!Min({35, 25}) = 25
  BY DEF Ranking!Min
<1>3. Ranking!Max({25, 55}) = 55
  BY DEF Ranking!Max
<1>4. Ranking!Max({25, 25}) = 25
  BY DEF Ranking!Max
<1>5. QED
  BY <1>1, <1>2, <1>3, <1>4

(* A candidate that passes the gate has earned its place: it leads Mozc's     *)
(* first, has context, and leads every other if it echoes the reading.       *)
LEMMA GateIsEarned ==
  ASSUME NEW c, NEW n \in Nat, NEW evidence \in [1 .. n -> Int],
         NEW top \in 2 .. n, NEW scored, scored[1] = top,
         NEW prefix \in Text, NEW suffix \in Text, NEW texts, NEW kana,
         Ranking!SurvivesGate(scored, prefix, suffix, evidence, texts, kana, Ranking!Thresholds(c))
  PROVE  /\ evidence[top] - evidence[1] >= Ranking!Min({35, Ranking!Thresholds(c).delta})
         /\ \/ Len(prefix \o suffix) >= 3
            \/ Ranking!shared_candidate_context_length(texts[top], texts[1]) >= 4
         /\ Ranking!candidate_surface_type(texts[top], kana) = "reading_passthrough" =>
              \A j \in (1 .. n) \ {top} : evidence[top] - evidence[j] >= 75
<1> DEFINE policy == Ranking!Thresholds(c)
           others == (1 .. n) \ {top}
           best   == Ranking!Max({evidence[i] : i \in others})
           delta  == evidence[top] - evidence[1]
           margin == evidence[top] - best
           type   == Ranking!candidate_surface_type(texts[top], kana)
<1>1. /\ \/ Ranking!context_signal_length(prefix, suffix) >= policy.external
         \/ Ranking!shared_candidate_context_length(texts[top], texts[1]) >= policy.internal
      /\ \/ margin >= policy.high_margin
         \/ delta >= Ranking!DeltaThreshold(policy, type) /\ margin >= Ranking!MarginThreshold(policy, type)
         \/ delta >= policy.contextual_lead /\ margin >= Ranking!MarginThreshold(policy, type)
         \/ type = "numeric" /\ delta >= 35
         \/ type \notin {"reading_passthrough", "kana"} /\ delta >= 35
  BY DEF Ranking!SurvivesGate
<1>2. /\ policy.external = 3 /\ policy.internal = 4 /\ policy.high_margin = 75
      /\ policy.kana_delta = 180 /\ policy.kana_margin = 90
      /\ \/ policy.delta = 55 /\ policy.margin = 30 /\ policy.contextual_lead = 180
         \/ policy.delta = 25 /\ policy.margin = 10 /\ policy.contextual_lead = 120
  <2>1. CASE policy = Ranking!DefaultThresholds
    BY <2>1 DEF Ranking!DefaultThresholds
  <2>2. CASE policy = Ranking!EnsembleThresholds
    BY <2>2 DEF Ranking!EnsembleThresholds, Ranking!DefaultThresholds
  <2>3. QED
    BY <2>1, <2>2 DEF Ranking!Thresholds
<1> HIDE DEF policy, type
<1>3. best \in Int /\ \A j \in others : evidence[j] <= best
  <2>1. others \subseteq 1 .. n /\ 1 \in others
    OBVIOUS
  <2> HIDE DEF others
  <2>2. QED
    BY <2>1, Highest
<1>4. /\ evidence[top] \in Int /\ evidence[1] \in Int /\ 1 \in others
      /\ \A j \in others : evidence[j] \in Int
  OBVIOUS
<1> HIDE DEF best, others
<1>5. delta >= margin /\ \A j \in others : evidence[top] - evidence[j] >= margin
  BY <1>3, <1>4
<1>6. /\ Ranking!DeltaThreshold(policy, type) = IF type = "reading_passthrough" THEN 180 ELSE policy.delta
      /\ Ranking!MarginThreshold(policy, type) = IF type = "reading_passthrough" THEN 90 ELSE policy.margin
      /\ Ranking!Min({35, policy.delta}) = IF policy.delta = 55 THEN 35 ELSE 25
  BY <1>2, OfTwo DEF Ranking!DeltaThreshold, Ranking!MarginThreshold
<1>7. delta \in Int /\ margin \in Int
  BY <1>3, <1>4
<1>8. delta >= Ranking!Min({35, policy.delta})
  <2> HIDE DEF delta, margin
  <2>1. QED
    BY <1>1, <1>2, <1>5, <1>6, <1>7
<1>9. type = "reading_passthrough" => margin >= 75
  <2> HIDE DEF delta, margin
  <2>1. QED
    BY <1>1, <1>2, <1>6, <1>7
<1>10. Len(prefix \o suffix) >= Ranking!context_signal_length(prefix, suffix)
       /\ Len(prefix \o suffix) \in Nat
       /\ Ranking!context_signal_length(prefix, suffix) \in Nat
  <2>1. prefix \o suffix \in Seq(STRING)
    BY ConcatProperties DEF Text
  <2>2. Len(prefix \o suffix) \in Nat
    BY <2>1
  <2> HIDE DEF Text
  <2>3. Ranking!context_signal_length(prefix, suffix) \in 0 .. Len(prefix \o suffix)
    BY <2>1, KeptHere DEF Ranking!context_signal_length
  <2>4. QED
    BY <2>2, <2>3
<1>11. \/ Len(prefix \o suffix) >= 3
       \/ Ranking!shared_candidate_context_length(texts[top], texts[1]) >= 4
  <2>1. Ranking!context_signal_length(prefix, suffix) >= 3 => Len(prefix \o suffix) >= 3
    BY <1>10
  <2>2. QED
    BY <1>1, <1>2, <2>1
<1>12. margin >= 75 => \A j \in others : evidence[top] - evidence[j] >= 75
  <2> SUFFICES ASSUME margin >= 75, NEW j \in others
               PROVE  evidence[top] - evidence[j] >= 75
    OBVIOUS
  <2>1. evidence[top] - evidence[j] \in Int /\ evidence[top] - evidence[j] >= margin
    BY <1>4, <1>5
  <2> HIDE DEF margin
  <2>2. QED
    BY <1>7, <2>1
<1>13. QED
  BY <1>8, <1>9, <1>11, <1>12 DEF policy, type, others

-----------------------------------------------------------------------------
(* What a request is made of stays, and its models' opinions are numbers. *)
RankingInv ==
  /\ backend \in DOMAIN Backends
  /\ segments \in Segmented
  /\ logits \in [1 .. Backends[backend].models -> [Ranking!Texts -> Int]]

LEMMA RankingStep ==
  ASSUME RankingInv, [Ranking!Next]_(Ranking!vars)
  PROVE  RankingInv'
<1>1. UNCHANGED <<backend, segments>>
  BY DEF Ranking!Next, Ranking!process_line, Ranking!Read, Ranking!Improve, Ranking!vars
<1>2. Ranking!Texts' = Ranking!Texts
  BY <1>1 DEF Ranking!Texts
<1>3. logits' \in [1 .. Backends[backend].models -> [Ranking!Texts -> Int]]
  <2>1. CASE Ranking!Improve
    <3> DEFINE text == segments[1].candidates[read.winners[1]]
               better(k) == [logits[k] EXCEPT ![text] = @ + Lift]
    <3>1. logits' = [k \in DOMAIN logits |-> better(k)]
      BY <2>1 DEF Ranking!Improve
    <3>2. \A k \in DOMAIN logits : logits[k] \in [Ranking!Texts -> Int]
      BY DEF RankingInv
    <3>3. Lift \in Int
      BY RankingAssumption
    <3> HIDE DEF text
    <3>4. \A k \in DOMAIN logits : better(k) \in [Ranking!Texts -> Int]
      <4> TAKE k \in DOMAIN logits
      <4>1. logits[k] \in [Ranking!Texts -> Int]
        BY <3>2
      <4>2. \A t \in Ranking!Texts : logits[k][t] \in Int /\ logits[k][t] + Lift \in Int
        BY <3>3, <4>1
      <4>3. QED
        BY <4>1, <4>2
    <3> HIDE DEF better
    <3>5. DOMAIN logits = 1 .. Backends[backend].models
      BY DEF RankingInv
    <3>6. QED
      BY <3>1, <3>4, <3>5
  <2>2. CASE UNCHANGED logits
    BY <2>2 DEF RankingInv
  <2>3. QED
    BY <2>1, <2>2 DEF Ranking!Next, Ranking!process_line, Ranking!Read, Ranking!vars
<1>4. QED
  BY <1>1, <1>2, <1>3 DEF RankingInv

(* One segment of a request, where the gate is. *)
LEMMA SegmentEarned ==
  ASSUME RankingInv, Ranking!Gated, NEW i \in DOMAIN segments
  PROVE  Ranking!WellEarned(segments[i], Ranking!Ranked(i), Ranking!LocalContext(Ranking!config, segments[i]))
<1> DEFINE c == Ranking!config
           segment == segments[i]
           n == Len(segment.candidates)
           local == Ranking!LocalContext(c, segment)
           raw == IF c.models = 1 THEN Ranking!Raw(i)[1] ELSE Ranking!Ensemble(c, segment, Ranking!Raw(i))
           evidence == Ranking!Evidence(c, segment, raw, local)
           final == Ranking!Final(c, evidence)
           scored == Ranking!Descending(final)
           top == scored[1]
<1>1. /\ segment.preceding \in Text /\ segment.following \in Text
      /\ segment.candidates \in Seq(Text) /\ segment.candidates # <<>>
  <2> DEFINE Segment_ == [preceding : Text, following : Text, reading : Text, candidates : Seq(Text) \ {<<>>}]
  <2>1. segments \in Seq(Segment_)
    BY RankingAssumption DEF RankingInv
  <2>2. segments[i] \in Segment_
    <3> HIDE DEF Segment_
    <3>1. QED
      BY <2>1
  <2>3. QED
    BY <2>2
<1>2. n \in Nat \ {0} /\ DOMAIN segment.candidates = 1 .. n
  <2>1. segment.candidates \in Seq(Text) /\ segment.candidates # <<>>
    BY <1>1
  <2> HIDE DEF segment
  <2>2. QED
    BY <2>1
<1>3. c.models \in {1, 2} /\ c.context_chars \in Nat /\ c.family \in {"onnx", "ruri"} /\ c.gate
  BY RankingAssumption DEF RankingInv, Ranking!Gated, Ranking!config
<1>4. raw \in [1 .. n -> Int]
  <2> DEFINE view(k) == [j \in DOMAIN segments[i].candidates |-> logits[k][segments[i].candidates[j]]]
  <2>1. \A j \in 1 .. n : segment.candidates[j] \in Ranking!Texts
    <3>1. \A j \in 1 .. n : segment.candidates[j] \in Ranking!ToSet(segments[i].candidates)
      BY <1>2 DEF Ranking!ToSet
    <3>2. QED
      BY <3>1 DEF Ranking!Texts
  <2>2. \A k \in 1 .. c.models : view(k) \in [1 .. n -> Int]
    <3> TAKE k \in 1 .. c.models
    <3>1. logits[k] \in [Ranking!Texts -> Int]
      BY DEF RankingInv, Ranking!config
    <3>2. \A j \in 1 .. n : logits[k][segment.candidates[j]] \in Int
      BY <2>1, <3>1
    <3>3. QED
      BY <1>2, <3>2
  <2>3. Ranking!Raw(i) = [k \in DOMAIN logits |-> view(k)]
    BY DEF Ranking!Raw
  <2>4. DOMAIN logits = 1 .. c.models
    BY DEF RankingInv, Ranking!config
  <2> HIDE DEF view, c, segment, n
  <2>5. CASE c.models = 1
    <3>1. Ranking!Raw(i)[1] = view(1)
      BY <2>3, <2>4, <2>5
    <3>2. QED
      BY <2>2, <2>5, <3>1
  <2>6. CASE c.models = 2
    <3> DEFINE w == Ranking!Weights(c, segment)
               one == Ranking!Raw(i)[1]
               two == Ranking!Raw(i)[2]
    <3>1. one \in [1 .. n -> Int] /\ two \in [1 .. n -> Int]
      BY <2>2, <2>3, <2>4, <2>6
    <3>2. Ranking!Ensemble(c, segment, Ranking!Raw(i)) =
            [j \in 1 .. n |-> (w[1] * one[j] + w[2] * two[j]) \div 100]
      BY <1>2 DEF Ranking!Ensemble, Ranking!Places
    <3>3. w[1] \in {50, 25} /\ w[2] \in {50, 75}
      BY <2>6 DEF Ranking!Weights
    <3> HIDE DEF w, one, two
    <3>4. \A a \in Int, b \in Int, v \in {50, 25}, x \in {50, 75} : (v * a + x * b) \div 100 \in Int
      OBVIOUS
    <3>5. \A j \in 1 .. n : (w[1] * one[j] + w[2] * two[j]) \div 100 \in Int
      BY <3>1, <3>3, <3>4
    <3>6. QED
      BY <2>6, <3>2, <3>5
  <2>7. QED
    BY <1>3, <2>5, <2>6
<1>5. evidence \in [1 .. n -> Int]
  <2> HIDE DEF c, segment, n, local, raw
  <2>1. n \in Nat
    BY <1>2
  <2>2. AddsUp(c, segment, local, n, raw)
    BY <1>2, <1>4, <2>1, EvidenceIs
  <2>3. QED
    BY <2>2 DEF AddsUp
<1>6. top \in 1 .. n /\ scored # <<>> /\ \E S : scored \in Seq(S)
  <2> HIDE DEF c, segment, n, evidence
  <2>1. n \in Nat
    BY <1>2
  <2>2. final \in [1 .. n -> Int]
    BY <1>5, <2>1, FinalIsInt
  <2> HIDE DEF final
  <2>3. QED
    BY <1>2, <2>2, FirstPlaced
<1>7. local.prefix \in Text /\ local.suffix \in Text
  <2> HIDE DEF c, segment
  <2>1. <<>> \in Text
    BY DEF Text
  <2>2. QED
    BY <1>1, <1>3, <2>1, LocalTexts DEF Ranking!LocalContext
<1> DEFINE gated == Ranking!preserve_mozc_top_if_uncertain(scored, local.prefix, local.suffix, evidence,
                      segment.candidates, segment.reading, Ranking!Thresholds(c))
<1>8. Ranking!Ranked(i).order = gated /\ Ranking!Ranked(i).evidence = evidence
  BY <1>3 DEF Ranking!Ranked, Ranking!Judge, Ranking!Scored, Ranking!Decided
<1> HIDE DEF c, segment, n, local, raw, evidence, final, scored
<1>9. CASE top = 1 \/ Ranking!SurvivesGate(scored, local.prefix, local.suffix, evidence,
                        segment.candidates, segment.reading, Ranking!Thresholds(c))
  <2>1. gated[1] = top
    BY <1>6, <1>9 DEF Ranking!preserve_mozc_top_if_uncertain
  <2>2. CASE top = 1
    BY <1>8, <2>1, <2>2 DEF Ranking!WellEarned
  <2>3. CASE top # 1
    <3>1. n \in Nat /\ top \in 2 .. n
      BY <1>2, <1>6, <2>3
    <3> HIDE DEF gated
    <3>2. /\ evidence[top] - evidence[1] >= Ranking!Min({35, Ranking!Thresholds(c).delta})
          /\ \/ Len(local.prefix \o local.suffix) >= 3
             \/ Ranking!shared_candidate_context_length(segment.candidates[top], segment.candidates[1]) >= 4
          /\ Ranking!candidate_surface_type(segment.candidates[top], segment.reading) = "reading_passthrough" =>
               \A j \in (1 .. n) \ {top} : evidence[top] - evidence[j] >= 75
      BY <1>5, <1>7, <1>9, <2>3, <3>1, GateIsEarned
    <3>3. QED
      BY <1>2, <1>8, <2>1, <3>2 DEF Ranking!WellEarned, c, segment, local
  <2>4. QED
    BY <2>2, <2>3
<1>10. CASE ~(top = 1 \/ Ranking!SurvivesGate(scored, local.prefix, local.suffix, evidence,
                           segment.candidates, segment.reading, Ranking!Thresholds(c)))
  <2> DEFINE rest == Ranking!Kept(scored, Ranking!ToSet(scored) \ {1})
  <2>1. gated = <<1>> \o rest
    BY <1>6, <1>10 DEF Ranking!preserve_mozc_top_if_uncertain
  <2>2. PICK S : scored \in Seq(S)
    BY <1>6
  <2>3. rest \in Seq(S)
    BY <2>2, KeptHere
  <2> HIDE DEF rest
  <2>4. (<<1>> \o rest)[1] = 1
    <3>1. <<1>> \in Seq(S \cup {1}) /\ rest \in Seq(S \cup {1}) /\ Len(<<1>>) = 1 /\ <<1>>[1] = 1
      BY <2>3
    <3>2. 1 \in 1 .. Len(<<1>>) + Len(rest)
      BY <2>3
    <3>3. QED
      BY <3>1, <3>2, ConcatProperties
  <2>5. QED
    BY <1>8, <2>1, <2>4 DEF Ranking!WellEarned
<1>11. QED
  BY <1>9, <1>10

(* scoring.py:288-402: where a gate is, a candidate comes before Mozc's first *)
(* only with enough evidence over it, with context, and far ahead of every    *)
(* other if it echoes the reading; for any requests, any opinions of any      *)
(* models, and any words, rules and settings of the policy.                   *)
THEOREM PromotionsEarned == Ranking!Spec => []PromotionEarned
<1>1. Ranking!Init => RankingInv
  <2> SUFFICES ASSUME Ranking!Init PROVE RankingInv
    OBVIOUS
  <2>1. Opinions(backend) \subseteq Int
    BY RankingAssumption DEF Ranking!Init
  <2>2. \A S : [S -> Opinions(backend)] \subseteq [S -> Int]
    BY <2>1
  <2>3. QED
    BY <2>2 DEF Ranking!Init, RankingInv
<1>2. RankingInv => PromotionEarned
  BY SegmentEarned DEF PromotionEarned, Ranking!PromotionEarned
<1>3. QED
  BY <1>1, <1>2, RankingStep, PTL DEF Ranking!Spec

-----------------------------------------------------------------------------
(* The orders a backend answers with. *)
(* An order of n places has each once. *)
IsOrder(s, n) ==
  /\ s \in [1 .. n -> 1 .. n]
  /\ \A k, l \in 1 .. n : s[k] = s[l] => k = l

LEMMA DescendingHere ==
  ASSUME NEW score PROVE Ranking!Descending(score) = Descending(score)
BY DEF Ranking!Descending, Descending, Ranking!Ahead, Ahead, Ranking!Cardinality, Cardinality

LEMMA SumHere ==
  ASSUME NEW f PROVE Ranking!SumFunction(f) = SumFunctionOnSet(f, DOMAIN f)
BY DEF Ranking!SumFunction, Ranking!SumFunctionOnSet, SumFunctionOnSet,
       Ranking!FoldFunctionOnSet, FoldFunctionOnSet, Ranking!MapThenFoldSet, MapThenFoldSet

LEMMA IsSequence ==
  ASSUME NEW n \in Nat, NEW S, NEW f \in [1 .. n -> S]
  PROVE  f \in Seq(S) /\ Len(f) = n
BY SeqDef

LEMMA SortedHere ==
  ASSUME NEW n \in Nat, NEW score \in [1 .. n -> Int]
  PROVE  LET d == Ranking!Descending(score) IN
         /\ IsOrder(d, n)
         /\ \A i \in 1 .. n : \E k \in 1 .. n : d[k] = i
         /\ \A k, l \in 1 .. n : k < l => Precedes(score, d[k], d[l])
<1> DEFINE d == Descending(score)
<1>1. /\ d \in [1 .. n -> 1 .. n]
      /\ \A i \in 1 .. n : \E k \in 1 .. n : d[k] = i
      /\ \A k, l \in 1 .. n : k < l => Precedes(score, d[k], d[l])
      /\ \A k, l \in 1 .. n : d[k] = d[l] => k = l
  BY Sorted
<1>2. Ranking!Descending(score) = d
  BY DescendingHere
<1> HIDE DEF d
<1>3. QED
  BY <1>1, <1>2 DEF IsOrder

(* Mozc's first before the others as they were. *)
LEMMA PutFirst ==
  ASSUME NEW n \in Nat \ {0}, NEW s, IsOrder(s, n), \A i \in 1 .. n : \E k \in 1 .. n : s[k] = i
  PROVE  IsOrder(<<1>> \o Ranking!Kept(s, Ranking!ToSet(s) \ {1}), n)
<1> DEFINE rest == Kept(s, Ranking!ToSet(s) \ {1})
<1>1. Ranking!Kept(s, Ranking!ToSet(s) \ {1}) = rest
  BY DEF Ranking!Kept, Kept
<1>0. n \in Nat /\ n >= 1 /\ n - 1 \in Nat /\ 1 \in 1 .. n
  OBVIOUS
<1>2. s \in Seq(1 .. n) /\ Distinct(s) /\ Elements(s) = 1 .. n /\ Ranking!ToSet(s) = 1 .. n
  <2>1. s \in [1 .. n -> 1 .. n] /\ DOMAIN s = 1 .. n
    BY DEF IsOrder
  <2>2. s \in Seq(1 .. n)
    BY <1>0, <2>1, IsSequence
  <2>3. Distinct(s)
    BY <2>1 DEF IsOrder, Distinct
  <2>4. {s[k] : k \in 1 .. n} = 1 .. n
    BY <2>1
  <2>5. QED
    BY <2>1, <2>2, <2>3, <2>4 DEF Elements, Ranking!ToSet
<1>3. /\ rest \in Seq((1 .. n) \cap ((1 .. n) \ {1}))
      /\ Distinct(rest) /\ Elements(rest) = (1 .. n) \cap ((1 .. n) \ {1})
  BY <1>2, KeptOnly, KeptDistinct
<1>4. Elements(rest) = (1 .. n) \ {1}
  BY <1>3
<1>5. Len(rest) = n - 1
  <2>1. IsFiniteSet(1 .. n) /\ Cardinality(1 .. n) = n
    <3>1. 1 \in Int /\ n \in Int /\ n >= 1
      OBVIOUS
    <3>2. QED
      BY <3>1, FS_Interval
  <2>2. Cardinality((1 .. n) \ {1}) = n - 1
    <3>1. Cardinality((1 .. n) \ {1}) = (IF 1 \in 1 .. n THEN Cardinality(1 .. n) - 1 ELSE Cardinality(1 .. n))
      BY <2>1, FS_RemoveElement
    <3>2. QED
      BY <1>0, <2>1, <3>1
  <2> HIDE DEF rest
  <2>3. Cardinality(Elements(rest)) = Len(rest)
    BY <1>3, AsLong
  <2>4. QED
    BY <1>4, <2>2, <2>3
<1> HIDE DEF rest
<1> DEFINE t == <<1>> \o rest
<1>6. rest \in Seq(1 .. n) /\ \A k \in 1 .. n - 1 : rest[k] # 1
  <2>1. DOMAIN rest = 1 .. n - 1 /\ rest \in Seq(1 .. n)
    <3>1. rest \in Seq(1 .. n)
      BY <1>3, SeqMonotonic
    <3>2. QED
      BY <1>5, <3>1
  <2>2. \A k \in 1 .. n - 1 : rest[k] \in (1 .. n) \ {1}
    BY <1>4, <2>1 DEF Elements
  <2>3. QED
    BY <2>1, <2>2
<1>7. /\ t \in Seq(1 .. n) /\ Len(t) = n /\ t[1] = 1
      /\ \A k \in 1 .. n - 1 : t[k + 1] = rest[k]
  <2>1. <<1>> \in Seq(1 .. n) /\ Len(<<1>>) = 1 /\ <<1>>[1] = 1
    OBVIOUS
  <2>2. t \in Seq(1 .. n) /\ Len(t) = 1 + (n - 1)
        /\ \A i \in 1 .. 1 + (n - 1) : t[i] = IF i <= 1 THEN <<1>>[i] ELSE rest[i - 1]
    BY <1>5, <1>6, <2>1, ConcatProperties
  <2> HIDE DEF t
  <2>3. Len(t) = n /\ t[1] = 1
    BY <1>0, <2>1, <2>2
  <2>4. \A k \in 1 .. n - 1 : k + 1 \in 1 .. 1 + (n - 1) /\ ~(k + 1 <= 1) /\ (k + 1) - 1 = k
    BY <1>0
  <2>5. \A k \in 1 .. n - 1 : t[k + 1] = rest[k]
    BY <2>2, <2>4
  <2>6. QED
    BY <2>2, <2>3, <2>5
<1> HIDE DEF t
<1>71. t[1] = 1
  BY <1>7
<1>8. \A k \in 1 .. n : k = 1 \/ (k - 1 \in 1 .. n - 1 /\ t[k] = rest[k - 1])
  <2> SUFFICES ASSUME NEW k \in 1 .. n, k # 1 PROVE k - 1 \in 1 .. n - 1 /\ t[k] = rest[k - 1]
    OBVIOUS
  <2>1. k - 1 \in 1 .. n - 1 /\ (k - 1) + 1 = k
    OBVIOUS
  <2>2. QED
    BY <1>7, <2>1
<1>9. \A k \in 1 .. n : t[k] = 1 => k = 1
  BY ONLY <1>6, <1>8
<1>10. \A k, l \in 1 .. n : t[k] = t[l] => k = l
  <2> SUFFICES ASSUME NEW k \in 1 .. n, NEW l \in 1 .. n, t[k] = t[l]
               PROVE  k = l
    OBVIOUS
  <2>1. CASE k = 1 \/ l = 1
    BY <1>9, <1>71, <2>1
  <2>2. CASE k # 1 /\ l # 1
    <3>1. /\ k - 1 \in 1 .. n - 1 /\ l - 1 \in 1 .. n - 1
          /\ rest[k - 1] = rest[l - 1]
      BY <1>8, <2>2
    <3>2. DOMAIN rest = 1 .. n - 1
      BY <1>3, <1>5, LenProperties
    <3>3. k - 1 = l - 1
      BY <1>3, <3>1, <3>2 DEF Distinct
    <3>4. k \in Int /\ l \in Int
      OBVIOUS
    <3>5. QED
      BY ONLY <3>3, <3>4
  <2>3. QED
    BY <2>1, <2>2
<1>11. t \in [1 .. n -> 1 .. n]
  BY <1>7, LenProperties
<1>12. QED
  BY <1>1, <1>10, <1>11 DEF IsOrder, t

LEMMA OrderKept ==
  ASSUME NEW n \in Nat \ {0}, NEW s, IsOrder(s, n), \A i \in 1 .. n : \E k \in 1 .. n : s[k] = i,
         NEW prefix, NEW suffix, NEW evidence, NEW texts, NEW kana, NEW policy
  PROVE  IsOrder(Ranking!preserve_mozc_top_if_uncertain(s, prefix, suffix, evidence, texts, kana, policy), n)
BY PutFirst DEF Ranking!preserve_mozc_top_if_uncertain

-----------------------------------------------------------------------------
(* The exponential is a number of ten-thousandths, all of them at nought. *)
LEMMA ExpIsShare ==
  ASSUME NEW x \in Int
  PROVE  Ranking!Exp(x) \in Nat /\ Ranking!Exp(x) <= 10000
<1> DEFINE table == <<10000, 7788, 6065, 4724, 3679, 2865, 2231, 1738, 1353, 1054, 821, 639, 498, 388,
                 302, 235, 183, 143, 111, 87, 67, 52, 41, 32, 25, 19, 15, 12, 9, 7, 6, 4, 3, 3, 2,
                 2, 1, 1>>
<1>1. DOMAIN table = 1 .. 38
  OBVIOUS
<1> DEFINE R == {m \in Nat : m <= 10000}
<1>2. table \in Seq(R) /\ 0 \in R
  OBVIOUS
<1> HIDE DEF table, R
<1>3. \A k \in DOMAIN table : table[k] \in R
  BY <1>2, LenProperties
<1>4. Ranking!Exp(x) = LET step == 1 + ((-x) \div 25) IN IF step \in DOMAIN table THEN table[step] ELSE 0
  BY DEF Ranking!Exp, table
<1> DEFINE step == 1 + ((-x) \div 25)
<1> HIDE DEF step
<1>5. Ranking!Exp(x) = IF step \in DOMAIN table THEN table[step] ELSE 0
  BY <1>4 DEF step
<1>6. Ranking!Exp(x) \in R
  BY <1>2, <1>3, <1>5
<1>7. QED
  BY <1>6 DEF R

LEMMA ExpOfNought == Ranking!Exp(0) = 10000
BY DEF Ranking!Exp

-----------------------------------------------------------------------------
(* Quotients and shares. *)
LEMMA Quotient ==
  ASSUME NEW a \in Nat, NEW t \in Nat, t > 0, NEW K \in Nat, a <= K * t
  PROVE  a \div t \in 0 .. K
<1>1. a \div t \in Int /\ t * (a \div t) <= a /\ a < t * (a \div t) + t
  OBVIOUS
<1>2. ~(a \div t < 0)
  <2> SUFFICES ASSUME a \div t < 0 PROVE FALSE
    OBVIOUS
  <2>1. (a \div t) + 1 <= 0
    BY <1>1
  <2>2. t * ((a \div t) + 1) <= 0
    BY <1>1, <2>1
  <2>3. t * ((a \div t) + 1) = t * (a \div t) + t
    BY <1>1
  <2>4. QED
    BY <1>1, <2>2, <2>3
<1>3. ~(a \div t > K)
  <2> SUFFICES ASSUME a \div t > K PROVE FALSE
    OBVIOUS
  <2>1. (a \div t) - (K + 1) >= 0
    BY <1>1
  <2>2. t * ((a \div t) - (K + 1)) >= 0
    BY <1>1, <2>1
  <2>3. t * ((a \div t) - (K + 1)) = t * (a \div t) - K * t - t /\ K * t \in Int /\ t * (a \div t) \in Int
    BY <1>1
  <2>4. QED
    BY <1>1, <2>2, <2>3
<1>4. QED
  BY <1>1, <1>2, <1>3

(* The share of one score in a softmax. *)
TopOf(score)      == Ranking!Max({score[j] : j \in DOMAIN score})
Weight(score, i)  == Ranking!Exp(score[i] - TopOf(score))
TotalOf(score)    == Ranking!SumFunction([j \in DOMAIN score |-> Ranking!Exp(score[j] - TopOf(score))])

LEMMA Share ==
  ASSUME NEW n \in Nat, NEW score \in [1 .. n -> Int], NEW i \in 1 .. n
  PROVE  /\ TopOf(score) \in Int
         /\ TotalOf(score) \in Nat /\ TotalOf(score) > 0
         /\ Weight(score, i) \in Nat /\ Weight(score, i) <= 10000
         /\ Weight(score, i) <= TotalOf(score)
<1> DEFINE highest == TopOf(score)
           e == [j \in 1 .. n |-> Weight(score, j)]
           total == TotalOf(score)
<1>1. DOMAIN score = 1 .. n /\ 1 .. n # {}
  OBVIOUS
<1>2. highest \in Int /\ \E j \in 1 .. n : score[j] = highest
  <2> DEFINE V == {score[j] : j \in DOMAIN score}
  <2>1. PICK j \in 1 .. n : \A k \in 1 .. n : score[k] <= score[j]
    BY <1>1, BestPlace
  <2>2. V \subseteq Int /\ score[j] \in V /\ \A v \in V : score[j] >= v
    BY <1>1, <2>1
  <2> HIDE DEF V
  <2>3. Ranking!Max(V) \in V
    BY <2>2 DEF Ranking!Max
  <2>4. Ranking!Max(V) \in Int /\ \E k \in DOMAIN score : score[k] = Ranking!Max(V)
    BY <2>2, <2>3 DEF V
  <2>5. QED
    BY <1>1, <2>4 DEF V, TopOf
<1>3. \A j \in 1 .. n : e[j] \in Nat /\ e[j] <= 10000
  <2> TAKE j \in 1 .. n
  <2>1. score[j] - highest \in Int
    BY <1>2
  <2> DEFINE x == score[j] - highest
  <2>2. x \in Int
    BY <2>1
  <2>3. e[j] = Ranking!Exp(x)
    BY DEF Weight
  <2> HIDE DEF x, e
  <2>4. Ranking!Exp(x) \in Nat /\ Ranking!Exp(x) <= 10000
    BY <2>2, ExpIsShare
  <2>5. QED
    BY <2>3, <2>4
<1>4. total = SumFunctionOnSet(e, 1 .. n)
  <2>1. TotalOf(score) = Ranking!SumFunction(e)
    BY <1>1 DEF TotalOf, Weight
  <2>2. QED
    BY <2>1, SumHere
<1>5. PICK j \in 1 .. n : score[j] = highest
  BY <1>2
<1>6. e[j] = 10000
  <2>1. score[j] - highest = 0
    BY <1>2, <1>5
  <2>2. QED
    BY <2>1, ExpOfNought DEF Weight
<1>7. IsFiniteSet(1 .. n)
  <2>1. 1 \in Int /\ n \in Int
    OBVIOUS
  <2>2. QED
    BY <2>1, FS_Interval
<1> HIDE DEF e
<1>8. \A k \in 1 .. n : e[k] \in Nat
  BY <1>3
<1>9. total \in Nat /\ \A k \in 1 .. n : e[k] <= total
  BY <1>4, <1>7, <1>8, SumAtLeast
<1>10. total > 0
  BY <1>5, <1>6, <1>9
<1>11. e[i] = Weight(score, i)
  BY DEF e
<1>12. e[i] \in Nat /\ e[i] <= 10000 /\ e[i] <= total
  BY <1>3, <1>9
<1>13. QED
  BY <1>2, <1>9, <1>10, <1>11, <1>12 DEF e

LEMMA ShareOfTop ==
  ASSUME NEW n \in Nat, NEW evidence \in [1 .. n -> Int], NEW top \in 1 .. n
  PROVE  Ranking!neural_top_probability(evidence, top) \in 0 .. 100
<1> DEFINE total == TotalOf(evidence)
           mine == Weight(evidence, top)
<1>1. total \in Nat /\ total > 0 /\ mine \in Nat /\ mine <= total
  BY Share
<1>2. Ranking!neural_top_probability(evidence, top) = (100 * mine) \div total
  BY DEF Ranking!neural_top_probability, Weight, TotalOf, TopOf
<1> HIDE DEF mine, total
<1>3. 100 * mine \in Nat /\ 100 * mine <= 100 * total
  BY <1>1
<1>4. QED
  BY <1>1, <1>2, <1>3, Quotient

LEMMA ShareOfWinner ==
  ASSUME NEW n \in Nat, NEW score \in [1 .. n -> Int], NEW order, order[1] \in 1 .. n
  PROVE  Ranking!WinnerShare(order, score) \in Nat /\ Ranking!WinnerShare(order, score) <= 10000
<1> DEFINE total == TotalOf(score)
           mine == Weight(score, order[1])
<1>1. total \in Nat /\ total > 0 /\ mine \in Nat /\ mine <= total
  BY Share
<1>2. Ranking!WinnerShare(order, score) = (10000 * mine) \div total
  BY DEF Ranking!WinnerShare, Weight, TotalOf, TopOf
<1> HIDE DEF mine, total
<1>3. 10000 * mine \in Nat /\ 10000 * mine <= 10000 * total
  BY <1>1
<1> DEFINE K == 10000
<1>4. K \in Nat /\ 10000 * mine <= K * total
  BY <1>1, <1>3
<1>5. \A m : m \in 0 .. K => m \in Nat /\ m <= 10000
  <2> SUFFICES ASSUME NEW m \in Int, 0 <= m, m <= K PROVE m \in Nat /\ m <= 10000
    BY <1>4
  <2>1. QED
    BY DEF K
<1> HIDE DEF K
<1>6. (10000 * mine) \div total \in 0 .. K
  BY <1>1, <1>3, <1>4, Quotient
<1>7. QED
  BY <1>2, <1>5, <1>6

-----------------------------------------------------------------------------
(* Every backend answers with an order and a confidence. *)
LEMMA SegmentShape ==
  ASSUME RankingInv, NEW i \in DOMAIN segments
  PROVE  LET n == Len(segments[i].candidates) IN
         /\ segments[i].preceding \in Text /\ segments[i].following \in Text
         /\ segments[i].reading \in Text
         /\ segments[i].candidates \in Seq(Text)
         /\ n \in Nat \ {0} /\ DOMAIN segments[i].candidates = 1 .. n
<1> DEFINE Segment_ == [preceding : Text, following : Text, reading : Text, candidates : Seq(Text) \ {<<>>}]
           cs == segments[i].candidates
<1>1. segments \in Seq(Segment_)
  BY RankingAssumption DEF RankingInv
<1>2. segments[i] \in Segment_
  <2> HIDE DEF Segment_
  <2>1. QED
    BY <1>1
<1>3. /\ segments[i].preceding \in Text /\ segments[i].following \in Text
      /\ segments[i].reading \in Text
      /\ cs \in Seq(Text) /\ cs # <<>>
  BY <1>2
<1> HIDE DEF cs
<1>4. Len(cs) \in Nat \ {0} /\ DOMAIN cs = 1 .. Len(cs)
  BY <1>3
<1>5. QED
  BY <1>3, <1>4 DEF cs

(* What each model says of the candidates. *)
LEMMA RawIsInt ==
  ASSUME RankingInv, NEW i \in DOMAIN segments
  PROVE  LET n == Len(segments[i].candidates) IN
         \A k \in 1 .. Ranking!config.models : Ranking!Raw(i)[k] \in [1 .. n -> Int]
<1> DEFINE n == Len(segments[i].candidates)
           view(k) == [j \in DOMAIN segments[i].candidates |-> logits[k][segments[i].candidates[j]]]
           M == Ranking!config.models
<1>1. n \in Nat \ {0} /\ DOMAIN segments[i].candidates = 1 .. n
  BY SegmentShape
<1>2. \A j \in 1 .. n : segments[i].candidates[j] \in Ranking!Texts
  <2>1. \A j \in 1 .. n : segments[i].candidates[j] \in Ranking!ToSet(segments[i].candidates)
    BY <1>1 DEF Ranking!ToSet
  <2>2. QED
    BY <2>1 DEF Ranking!Texts
<1>3. DOMAIN logits = 1 .. M /\ \A k \in 1 .. M : logits[k] \in [Ranking!Texts -> Int]
  BY DEF RankingInv, Ranking!config
<1> HIDE DEF n, M
<1>4. \A k \in 1 .. M : view(k) \in [1 .. n -> Int]
  <2> TAKE k \in 1 .. M
  <2>1. \A j \in 1 .. n : logits[k][segments[i].candidates[j]] \in Int
    BY <1>2, <1>3
  <2>2. QED
    BY <1>1, <2>1
<1>5. Ranking!Raw(i) = [k \in DOMAIN logits |-> view(k)]
  BY DEF Ranking!Raw
<1> HIDE DEF view
<1>6. QED
  BY <1>3, <1>4, <1>5 DEF n, M

LEMMA EnsembleIsInt ==
  ASSUME NEW c, NEW segment, NEW n \in Nat, DOMAIN segment.candidates = 1 .. n, c.models = 2,
         NEW raw, raw[1] \in [1 .. n -> Int], raw[2] \in [1 .. n -> Int]
  PROVE  Ranking!Ensemble(c, segment, raw) \in [1 .. n -> Int]
<1> DEFINE w == Ranking!Weights(c, segment)
           one == raw[1]
           two == raw[2]
<1>1. Ranking!Ensemble(c, segment, raw) =
        [j \in 1 .. n |-> (w[1] * one[j] + w[2] * two[j]) \div 100]
  BY DEF Ranking!Ensemble, Ranking!Places
<1>2. w[1] \in {50, 25} /\ w[2] \in {50, 75}
  BY DEF Ranking!Weights
<1>3. one \in [1 .. n -> Int] /\ two \in [1 .. n -> Int]
  OBVIOUS
<1> HIDE DEF w, one, two
<1>4. \A a \in Int, b \in Int, v \in {50, 25}, x \in {50, 75} : (v * a + x * b) \div 100 \in Int
  OBVIOUS
<1>5. \A j \in 1 .. n : (w[1] * one[j] + w[2] * two[j]) \div 100 \in Int
  BY <1>2, <1>3, <1>4
<1>6. QED
  BY <1>1, <1>5

(* What a backend comes to: an order of the candidates, by numbers. *)
LEMMA JudgedWell ==
  ASSUME RankingInv, NEW i \in DOMAIN segments, Ranking!config.family \in {"onnx", "ruri"}
  PROVE  LET n == Len(segments[i].candidates)
             r == Ranking!Ranked(i)
         IN  /\ IsOrder(r.order, n) /\ r.score \in [1 .. n -> Int]
             /\ r.evidence \in [1 .. n -> Int] /\ r.neural_top \in 1 .. n
<1> DEFINE c == Ranking!config
           segment == segments[i]
           n == Len(segment.candidates)
           local == Ranking!LocalContext(c, segment)
           raw == IF c.models = 1 THEN Ranking!Raw(i)[1] ELSE Ranking!Ensemble(c, segment, Ranking!Raw(i))
           evidence == Ranking!Evidence(c, segment, raw, local)
           final == Ranking!Final(c, evidence)
           scored == Ranking!Descending(final)
           kept == Ranking!preserve_mozc_top_if_uncertain(scored, local.prefix, local.suffix, evidence,
                     segment.candidates, segment.reading, Ranking!Thresholds(c))
<1>1. n \in Nat /\ n >= 1 /\ DOMAIN segment.candidates = 1 .. n
  BY SegmentShape
<1>2. c.models \in {1, 2}
  BY RankingAssumption DEF RankingInv, Ranking!config
<1>3. raw \in [1 .. n -> Int]
  <2>1. \A k \in 1 .. c.models : Ranking!Raw(i)[k] \in [1 .. n -> Int]
    BY RawIsInt
  <2> HIDE DEF c, segment, n
  <2>2. CASE c.models = 1
    BY <2>1, <2>2
  <2>3. CASE c.models = 2
    <3>1. Ranking!Raw(i)[1] \in [1 .. n -> Int] /\ Ranking!Raw(i)[2] \in [1 .. n -> Int]
      BY <2>1, <2>3
    <3>2. Ranking!Ensemble(c, segment, Ranking!Raw(i)) \in [1 .. n -> Int]
      BY <1>1, <2>3, <3>1, EnsembleIsInt
    <3>3. QED
      BY <2>3, <3>2
  <2>4. QED
    BY <1>2, <2>2, <2>3
<1>4. /\ Ranking!Ranked(i).order = (IF c.gate THEN kept ELSE scored)
      /\ Ranking!Ranked(i).score = final /\ Ranking!Ranked(i).evidence = evidence
      /\ Ranking!Ranked(i).neural_top = scored[1]
  <2>1. Ranking!Ranked(i) = Ranking!Judge(c, segment, raw)
    BY DEF Ranking!Ranked
  <2>2. QED
    BY <2>1 DEF Ranking!Judge, Ranking!Scored, Ranking!Decided
<1> HIDE DEF c, segment, n, local, raw
<1>5. evidence \in [1 .. n -> Int]
  <2>1. AddsUp(c, segment, local, n, raw)
    BY <1>1, <1>3, EvidenceIs
  <2>2. QED
    BY <2>1 DEF AddsUp
<1> HIDE DEF evidence
<1>6. final \in [1 .. n -> Int]
  BY <1>1, <1>5, FinalIsInt
<1> HIDE DEF final
<1>7. IsOrder(scored, n) /\ \A j \in 1 .. n : \E k \in 1 .. n : scored[k] = j
  BY <1>1, <1>6, SortedHere
<1> HIDE DEF scored
<1>8. IsOrder(kept, n)
  <2>1. n \in Nat \ {0}
    BY <1>1
  <2>2. QED
    BY <1>7, <2>1, OrderKept
<1>9. scored[1] \in 1 .. n
  <2>1. 1 \in 1 .. n
    BY <1>1
  <2>2. QED
    BY <1>7, <2>1 DEF IsOrder
<1> HIDE DEF kept
<1>10. QED
  BY <1>4, <1>5, <1>6, <1>7, <1>8, <1>9 DEF n, segment

LEMMA QwenIsInt ==
  ASSUME NEW variant, NEW views, NEW n \in Nat, views[1] \in [1 .. n -> Int],
         variant = "dual" => views[2] \in [1 .. n -> Int]
  PROVE  Ranking!QwenScores(variant, views) \in [1 .. n -> Int]
<1>1. CASE variant = "dual"
  <2> DEFINE one == views[1]
             two == views[2]
  <2>1. one \in [1 .. n -> Int] /\ two \in [1 .. n -> Int]
    BY <1>1
  <2>2. Ranking!QwenScores(variant, views) = Ranking!Fused(one, two)
    BY <1>1 DEF Ranking!QwenScores
  <2> HIDE DEF one, two
  <2>3. \A i \in 1 .. n : 45 * one[i] + 55 * two[i] - 100 * (i - 1) \in Int
    BY <2>1
  <2>4. QED
    BY <2>1, <2>2, <2>3 DEF Ranking!Fused
<1>2. CASE variant # "dual"
  <2> DEFINE one == views[1]
  <2>1. one \in [1 .. n -> Int]
    OBVIOUS
  <2>2. Ranking!QwenScores(variant, views) = [i \in DOMAIN one |-> 100 * one[i]]
    BY <1>2 DEF Ranking!QwenScores
  <2> HIDE DEF one
  <2>3. \A i \in 1 .. n : 100 * one[i] \in Int
    BY <2>1
  <2>4. QED
    BY <2>1, <2>2, <2>3
<1>3. QED
  BY <1>1, <1>2

LEMMA FrameIsInt ==
  ASSUME NEW rules \in {LexiconRules, RankerRules}, NEW context, NEW text
  PROVE  Ranking!FrameBonus(rules, context, text) \in Int
<1> DEFINE holds(f) == /\ \A need \in f.needs : \E m \in need : Ranking!Occurs(context, m)
                       /\ text \in DOMAIN f.bonus
           I == {i \in 1 .. Len(rules) : holds(rules[i])}
           first == IF I # {} THEN Ranking!Min(I) ELSE 0
<1>1. Ranking!FrameBonus(rules, context, text) = IF first = 0 THEN 0 ELSE rules[first].bonus[text]
  BY DEF Ranking!FrameBonus, Ranking!SelectInSeq
<1>2. /\ Len(rules) \in Nat
      /\ \A i \in 1 .. Len(rules) : \A t \in DOMAIN rules[i].bonus : rules[i].bonus[t] \in Int
  BY AnswersAssumption
<1>3. \A i \in I : i \in 1 .. Len(rules) /\ i \in Nat /\ text \in DOMAIN rules[i].bonus
  BY <1>2
<1> HIDE DEF holds
<1>4. I # {} => first \in I
  <2> SUFFICES ASSUME I # {} PROVE Ranking!Min(I) \in I
    OBVIOUS
  <2>1. I \subseteq Nat
    BY <1>3
  <2> HIDE DEF I
  <2>2. QED
    BY <2>1, Lowest DEF Ranking!Min
<1> HIDE DEF I
<1>5. first = 0 \/ first \in I
  BY <1>4
<1> HIDE DEF first
<1>6. QED
  BY <1>1, <1>2, <1>3, <1>5

LEMMA RulesAreInt ==
  ASSUME NEW segment, NEW n \in Nat, DOMAIN segment.candidates = 1 .. n, Len(segment.candidates) = n
  PROVE  Ranking!RuleScores(segment) \in [1 .. n -> Int]
<1>1. ASSUME NEW context, NEW text PROVE Ranking!_context_score(context, text) \in Int
  <2> DEFINE right == Ranking!AfterSpace(context)
             hit   == {r \in DOMAIN RightContextCompounds :
                         right.found /\ Ranking!IsPrefix(r, right.rest) /\ text \in DOMAIN RightContextCompounds[r]}
             some  == CHOOSE r \in hit : TRUE
  <2>1. Ranking!lexicon_contextual_bonus(context, text) =
          IF hit # {} THEN RightContextCompounds[some][text]
          ELSE Ranking!FrameBonus(LexiconRules, context, text)
    BY DEF Ranking!lexicon_contextual_bonus
  <2>2. hit # {} => some \in hit
    OBVIOUS
  <2>3. hit # {} => RightContextCompounds[some][text] \in Int
    BY <2>2, AnswersAssumption
  <2>4. Ranking!FrameBonus(LexiconRules, context, text) \in Int /\ Ranking!FrameBonus(RankerRules, context, text) \in Int
    BY FrameIsInt
  <2> HIDE DEF hit, some
  <2>5. QED
    BY <2>1, <2>3, <2>4 DEF Ranking!_context_score
<1> DEFINE context == Ranking!Joined(segment)
           score(i) == Ranking!_context_score(context, segment.candidates[i])
<1>2. Ranking!RuleScores(segment) = [i \in 1 .. n |-> 100 * (n - i) + score(i)]
  BY DEF Ranking!RuleScores, Ranking!Places
<1>3. \A i \in 1 .. n : score(i) \in Int
  BY <1>1
<1> HIDE DEF score
<1>4. \A i \in 1 .. n : 100 * (n - i) + score(i) \in Int
  BY <1>3
<1>5. QED
  BY <1>2, <1>4

LEMMA RankedWell ==
  ASSUME RankingInv, NEW i \in DOMAIN segments
  PROVE  LET n == Len(segments[i].candidates)
             r == Ranking!Ranked(i)
         IN  IsOrder(r.order, n) /\ r.score \in [1 .. n -> Int]
<1> DEFINE n == Len(segments[i].candidates)
           c == Ranking!config
<1>1. c.family \in {"onnx", "ruri", "qwen", "rule"}
  BY AnswersAssumption DEF RankingInv, Ranking!config
<1>2. CASE c.family \in {"onnx", "ruri"}
  BY <1>2, JudgedWell
<1>3. n \in Nat /\ DOMAIN segments[i].candidates = 1 .. n
  BY SegmentShape
<1>4. ASSUME NEW score \in [1 .. n -> Int], Ranking!Ranked(i) = Ranking!ByScore(score)
      PROVE  IsOrder(Ranking!Ranked(i).order, n) /\ Ranking!Ranked(i).score \in [1 .. n -> Int]
  <2>1. Ranking!Ranked(i).order = Ranking!Descending(score) /\ Ranking!Ranked(i).score = score
    BY <1>4 DEF Ranking!ByScore
  <2> HIDE DEF n
  <2>2. IsOrder(Ranking!Descending(score), n)
    BY <1>3, <1>4, SortedHere
  <2>3. QED
    BY <1>4, <2>1, <2>2
<1>5. CASE c.family = "qwen"
  <2> DEFINE score == Ranking!QwenScores(c.variant, Ranking!Raw(i))
  <2>1. c.models = IF c.variant = "dual" THEN 2 ELSE 1
    BY <1>5, AnswersAssumption DEF RankingInv, Ranking!config
  <2>2. \A k \in 1 .. c.models : Ranking!Raw(i)[k] \in [1 .. n -> Int]
    BY RawIsInt
  <2>3. Ranking!Ranked(i) = Ranking!ByScore(score)
    BY <1>5 DEF Ranking!Ranked
  <2>4. score \in [1 .. n -> Int]
    <3> HIDE DEF n, c
    <3>1. Ranking!Raw(i)[1] \in [1 .. n -> Int] /\ (c.variant = "dual" => Ranking!Raw(i)[2] \in [1 .. n -> Int])
      BY <2>1, <2>2
    <3>2. QED
      BY <1>3, <3>1, QwenIsInt
  <2> HIDE DEF score
  <2>5. QED
    BY <1>4, <2>3, <2>4
<1>6. CASE c.family = "rule"
  <2> DEFINE score == Ranking!RuleScores(segments[i])
  <2>1. Ranking!Ranked(i) = Ranking!ByScore(score)
    BY <1>6 DEF Ranking!Ranked
  <2>2. score \in [1 .. n -> Int]
    BY <1>3, RulesAreInt
  <2> HIDE DEF score
  <2>3. QED
    BY <1>4, <2>1, <2>2
<1>7. QED
  BY <1>1, <1>2, <1>5, <1>6

-----------------------------------------------------------------------------
(***************************************************************************)
(* The context of the dual encoder.                                        *)
(***************************************************************************)
(* What is left of a text from some place on, and what is left of that. *)
LEMMA FromThere ==
  ASSUME NEW S, NEW t \in Seq(S), NEW N, N = Len(t), NEW k \in 1 .. N + 1,
         NEW i \in 1 .. N - k + 2
  PROVE  LET s == SubSeq(t, k, N) IN
         /\ s \in Seq(S) /\ Len(s) = N - k + 1
         /\ \A j \in 1 .. N - k + 1 : s[j] = t[k + j - 1]
         /\ SubSeq(s, i, Len(s)) = SubSeq(t, k + i - 1, N)
<1> DEFINE s == SubSeq(t, k, N)
           u == SubSeq(s, i, Len(s))
           v == SubSeq(t, k + i - 1, N)
<1>1. N \in Nat /\ k \in Int /\ i \in Int
  OBVIOUS
<1>2. s \in Seq(S) /\ Len(s) = N - k + 1 /\ \A j \in 1 .. N - k + 1 : s[j] = t[k + j - 1]
  BY FromPlace
<1>3. k + i - 1 \in 1 .. N + 1 /\ i \in 1 .. Len(s) + 1
  BY <1>1, <1>2
<1>4. v \in Seq(S) /\ Len(v) = N - (k + i - 1) + 1
      /\ \A j \in 1 .. N - (k + i - 1) + 1 : v[j] = t[(k + i - 1) + j - 1]
  <2> HIDE DEF s
  <2>1. QED
    BY <1>3, FromPlace
<1>5. u \in Seq(S) /\ Len(u) = Len(s) - i + 1 /\ \A j \in 1 .. Len(s) - i + 1 : u[j] = s[i + j - 1]
  <2> HIDE DEF s
  <2>1. QED
    BY <1>2, <1>3, FromPlace
<1> HIDE DEF s, u, v
<1>6. Len(u) = Len(v)
  BY <1>1, <1>2, <1>4, <1>5
<1>7. \A j \in 1 .. Len(u) : u[j] = v[j]
  <2> TAKE j \in 1 .. Len(u)
  <2>1. Len(u) = N - k + 1 - i + 1 /\ j \in Int /\ 1 <= j /\ j <= N - k + 1 - i + 1
    BY <1>1, <1>2, <1>5
  <2>2. i + j - 1 \in 1 .. N - k + 1 /\ j \in 1 .. Len(s) - i + 1 /\ j \in 1 .. N - (k + i - 1) + 1
    BY <1>1, <1>2, <2>1
  <2>3. u[j] = t[k + (i + j - 1) - 1] /\ v[j] = t[(k + i - 1) + j - 1]
    BY <1>2, <1>4, <1>5, <2>2
  <2>4. k + (i + j - 1) - 1 = (k + i - 1) + j - 1
    BY <1>1, <2>1
  <2>5. QED
    BY <2>3, <2>4
<1>8. u = v
  BY <1>4, <1>5, <1>6, <1>7, SeqEqual
<1>9. QED
  BY <1>2, <1>8 DEF s, u, v

Blank(c) == c \in Blanks

(* A text that does not end in a blank. *)
Ends(t) == Len(t) = 0 \/ ~Blank(t[Len(t)])

(* A place of a text where something begins, or its end. *)
Begins(t, b) == b = Len(t) + 1 \/ ~Blank(t[b])

(* Stripping what is left from some place on moves that to where something   *)
(* begins, but no further.                                                   *)
LEMMA StripFrom ==
  ASSUME NEW S, NEW t \in Seq(S), NEW N, N = Len(t), Ends(t), NEW k \in 1 .. N + 1
  PROVE  \E f \in k .. N + 1 :
           /\ Joint!Stripped_(SubSeq(t, k, N)) = SubSeq(t, f, N)
           /\ Begins(t, f)
           /\ \A b \in k .. N + 1 : Begins(t, b) => f <= b
<1> DEFINE s == SubSeq(t, k, N)
           kept == {i \in DOMAIN s : s[i] \notin Blanks}
<1>1. N \in Nat /\ k \in Int
  OBVIOUS
<1>2. s \in Seq(S) /\ Len(s) = N - k + 1 /\ \A j \in 1 .. N - k + 1 : s[j] = t[k + j - 1]
  BY FromPlace
<1>3. Joint!Stripped_(s) = IF kept = {} THEN <<>> ELSE SubSeq(s, Joint!Min(kept), Joint!Max(kept))
  BY DEF Joint!Stripped_
<1>4. CASE k = N + 1
  <2>1. Len(s) = 0
    BY <1>1, <1>2, <1>4
  <2>2. kept = {}
    <3> HIDE DEF s
    <3>1. DOMAIN s = {}
      BY <1>2, <2>1
    <3>2. QED
      BY <3>1
  <2>3. SubSeq(t, N + 1, N) = <<>>
    BY <1>1, SubSeqEmpty
  <2>4. Joint!Stripped_(s) = SubSeq(t, N + 1, N)
    BY <1>3, <2>2, <2>3
  <2>5. QED
    BY <1>1, <1>4, <2>4 DEF Begins
<1>5. CASE k # N + 1
  <2> DEFINE L == N - k + 1
             m == Joint!Min(kept)
  <2>1. L \in Nat \ {0} /\ N \in Nat \ {0} /\ DOMAIN s = 1 .. L
    <3>1. L \in Nat \ {0} /\ N \in Nat \ {0}
      BY <1>1, <1>5
    <3> HIDE DEF s
    <3>2. QED
      BY <1>2, <3>1
  <2>2. kept \subseteq 1 .. L /\ L \in kept
    <3>1. k + L - 1 = N /\ L \in 1 .. L
      BY <1>1, <2>1
    <3>2. s[L] = t[N]
      BY <1>2, <3>1
    <3> HIDE DEF s, L
    <3>3. t[N] \notin Blanks
      BY <2>1 DEF Ends, Blank
    <3>4. QED
      BY <2>1, <3>1, <3>2, <3>3
  <2>3. m \in kept /\ \A y \in kept : m <= y
    <3>1. kept \subseteq Nat /\ kept # {}
      <4>1. 1 .. L \subseteq Nat
        BY <2>1
      <4> HIDE DEF kept, L
      <4>2. QED
        BY <2>2, <4>1
    <3> HIDE DEF kept
    <3>2. QED
      BY <3>1, Lowest DEF Joint!Min
  <2>4. Joint!Max(kept) = L
    <3>1. kept \subseteq 0 .. L /\ kept # {} /\ L \in Nat
      <4>1. 1 .. L \subseteq 0 .. L /\ L \in Nat
        BY <2>1
      <4> HIDE DEF kept, L
      <4>2. QED
        BY <2>2, <4>1
    <3> HIDE DEF kept, L
    <3>2. Joint!Max(kept) \in kept /\ \A y \in kept : Joint!Max(kept) >= y
      BY <3>1, Greatest DEF Joint!Max
    <3>3. Joint!Max(kept) \in 1 .. L /\ Joint!Max(kept) >= L
      BY <2>2, <3>2
    <3>4. \A x \in 1 .. L : x >= L => x = L
      BY <3>1
    <3>5. QED
      BY <3>3, <3>4
  <2>5. m \in 1 .. L
    <3> HIDE DEF kept, m
    <3>1. QED
      BY <2>2, <2>3
  <2>6. Joint!Stripped_(s) = SubSeq(s, m, Len(s))
    <3> HIDE DEF kept, s
    <3>1. QED
      BY <1>2, <1>3, <2>2, <2>4
  <2>7. SubSeq(s, m, Len(s)) = SubSeq(t, k + m - 1, N)
    <3> HIDE DEF m, kept
    <3>1. m \in 1 .. N - k + 2
      BY <1>1, <2>5
    <3>2. \A i \in 1 .. N - k + 2 : SubSeq(s, i, Len(s)) = SubSeq(t, k + i - 1, N)
      BY FromThere
    <3> HIDE DEF s
    <3>3. QED
      BY <3>1, <3>2
  <2>8. \A b \in k .. N + 1 : Begins(t, b) => k + m - 1 <= b
    <3> SUFFICES ASSUME NEW b \in k .. N + 1, Begins(t, b) PROVE k + m - 1 <= b
      OBVIOUS
    <3>1. m \in Int /\ m <= L
      <4> HIDE DEF m, L
      <4>1. QED
        BY <2>1, <2>5
    <3> HIDE DEF m
    <3>2. CASE b = N + 1
      BY <1>1, <3>1, <3>2
    <3>3. CASE b # N + 1
      <4>1. b - k + 1 \in 1 .. L /\ k + (b - k + 1) - 1 = b
        BY <1>1, <3>3
      <4>2. s[b - k + 1] = t[b]
        BY <1>2, <4>1
      <4>3. b - k + 1 \in kept
        <5> HIDE DEF s, L
        <5>1. QED
          BY <2>1, <3>3, <4>1, <4>2 DEF Begins, Blank
      <4>4. m <= b - k + 1
        <5> HIDE DEF kept
        <5>1. QED
          BY <2>3, <4>3
      <4>5. QED
        BY <1>1, <3>1, <4>4
    <3>4. QED
      BY <3>2, <3>3
  <2>9. k + m - 1 \in k .. N + 1
    <3> HIDE DEF m
    <3>1. QED
      BY <1>1, <2>1, <2>5
  <2>10. Begins(t, k + m - 1)
    <3>1. m \in 1 .. N - k + 1 /\ m \in kept
      BY <2>3, <2>5
    <3> HIDE DEF m
    <3>2. s[m] = t[k + m - 1]
      BY <1>2, <3>1
    <3>3. s[m] \notin Blanks
      BY <3>1
    <3>4. QED
      BY <3>2, <3>3 DEF Begins, Blank
  <2>11. QED
    BY <2>6, <2>7, <2>8, <2>9, <2>10
<1>6. QED
  BY <1>4, <1>5

(* The end of a text is the end of a longer end of it. *)
LEMMA EndOfEnd ==
  ASSUME NEW S, NEW t \in Seq(S), NEW N, N = Len(t), NEW a \in 1 .. N + 1, NEW b \in a .. N + 1
  PROVE  Joint!IsSuffix(SubSeq(t, b, N), SubSeq(t, a, N))
<1> DEFINE s == SubSeq(t, b, N)
           u == SubSeq(t, a, N)
           rs == Joint!Reverse(s)
           ru == Joint!Reverse(u)
<1>1. N \in Nat /\ a \in Int /\ b \in Int /\ a <= b /\ b <= N + 1 /\ b \in 1 .. N + 1
  OBVIOUS
<1>2. s \in Seq(S) /\ Len(s) = N - b + 1 /\ \A j \in 1 .. N - b + 1 : s[j] = t[b + j - 1]
  BY <1>1, FromPlace
<1>3. u \in Seq(S) /\ Len(u) = N - a + 1 /\ \A j \in 1 .. N - a + 1 : u[j] = t[a + j - 1]
  BY FromPlace
<1> HIDE DEF s, u
<1>4. rs \in Seq(S) /\ Len(rs) = N - b + 1 /\ \A j \in 1 .. N - b + 1 : rs[j] = t[N - j + 1]
  <2>1. Len(s) \in Nat /\ rs = [j \in 1 .. Len(s) |-> s[(Len(s) - j) + 1]]
    BY <1>2 DEF Joint!Reverse
  <2>2. \A j \in 1 .. Len(s) : (Len(s) - j) + 1 \in 1 .. Len(s)
    BY <2>1
  <2>3. rs \in Seq(S) /\ Len(rs) = Len(s)
    BY <1>2, <2>1, <2>2
  <2>4. \A j \in 1 .. N - b + 1 : rs[j] = t[N - j + 1]
    <3> TAKE j \in 1 .. N - b + 1
    <3>1. (Len(s) - j) + 1 \in 1 .. N - b + 1 /\ b + ((Len(s) - j) + 1) - 1 = N - j + 1
      BY <1>1, <1>2
    <3>2. s[(Len(s) - j) + 1] = t[b + ((Len(s) - j) + 1) - 1]
      BY <1>2, <3>1
    <3>3. rs[j] = s[(Len(s) - j) + 1]
      BY <1>2, <2>1
    <3>4. QED
      BY <3>1, <3>2, <3>3
  <2>5. QED
    BY <1>2, <2>3, <2>4
<1>5. ru \in Seq(S) /\ Len(ru) = N - a + 1 /\ \A j \in 1 .. N - a + 1 : ru[j] = t[N - j + 1]
  <2>1. Len(u) \in Nat /\ ru = [j \in 1 .. Len(u) |-> u[(Len(u) - j) + 1]]
    BY <1>3 DEF Joint!Reverse
  <2>2. \A j \in 1 .. Len(u) : (Len(u) - j) + 1 \in 1 .. Len(u)
    BY <2>1
  <2>3. ru \in Seq(S) /\ Len(ru) = Len(u)
    BY <1>3, <2>1, <2>2
  <2>4. \A j \in 1 .. N - a + 1 : ru[j] = t[N - j + 1]
    <3> TAKE j \in 1 .. N - a + 1
    <3>1. (Len(u) - j) + 1 \in 1 .. N - a + 1 /\ a + ((Len(u) - j) + 1) - 1 = N - j + 1
      BY <1>1, <1>3
    <3>2. u[(Len(u) - j) + 1] = t[a + ((Len(u) - j) + 1) - 1]
      BY <1>3, <3>1
    <3>3. ru[j] = u[(Len(u) - j) + 1]
      BY <1>3, <2>1
    <3>4. QED
      BY <3>1, <3>2, <3>3
  <2>5. QED
    BY <1>3, <2>3, <2>4
<1> HIDE DEF rs, ru
<1> DEFINE n == Len(rs)
<1>6. n \in Nat /\ n = N - b + 1 /\ n <= Len(ru)
  BY <1>1, <1>4, <1>5
<1>7. SubSeq(rs, 1, n) = SubSeq(ru, 1, n)
  <2>1. n \in Nat /\ \A j \in 1 .. n : rs[j] \in S /\ ru[j] \in S /\ rs[j] = ru[j]
    <3>1. \A j \in 1 .. n : j \in 1 .. Len(rs) /\ j \in 1 .. Len(ru) /\ j \in 1 .. N - b + 1 /\ j \in 1 .. N - a + 1
      BY <1>1, <1>5, <1>6
    <3>2. QED
      BY <1>4, <1>5, <1>6, <3>1
  <2> HIDE DEF n
  <2>2. /\ SubSeq(rs, 1, n) \in Seq(S)
        /\ Len(SubSeq(rs, 1, n)) = IF 1 <= n THEN n - 1 + 1 ELSE 0
        /\ \A j \in 1 .. n - 1 + 1 : SubSeq(rs, 1, n)[j] = rs[1 + j - 1]
    BY <2>1, SubSeqProperties
  <2>3. /\ SubSeq(ru, 1, n) \in Seq(S)
        /\ Len(SubSeq(ru, 1, n)) = IF 1 <= n THEN n - 1 + 1 ELSE 0
        /\ \A j \in 1 .. n - 1 + 1 : SubSeq(ru, 1, n)[j] = ru[1 + j - 1]
    BY <2>1, SubSeqProperties
  <2> DEFINE x == SubSeq(rs, 1, n)
             y == SubSeq(ru, 1, n)
  <2>4. /\ x \in Seq(S) /\ y \in Seq(S) /\ Len(x) = n /\ Len(y) = n
        /\ \A j \in 1 .. n : x[j] = rs[j] /\ y[j] = ru[j]
    BY <2>1, <2>2, <2>3
  <2> HIDE DEF x, y
  <2>5. x = y
    <3>1. Len(x) = Len(y) /\ \A j \in 1 .. Len(x) : x[j] = y[j]
      BY <2>1, <2>4
    <3>2. QED
      BY <2>4, <3>1, SeqEqual
  <2>6. QED
    BY <2>5 DEF x, y
<1>8. Joint!IsPrefix(rs, ru)
  BY <1>6, <1>7 DEF Joint!IsPrefix
<1>9. QED
  BY <1>8 DEF Joint!IsSuffix, rs, ru, s, u

(* A stripped text does not end in a blank. *)
LEMMA StrippedEnds ==
  ASSUME NEW S, NEW s \in Seq(S)
  PROVE  Joint!Stripped_(s) \in Seq(S) /\ Ends(Joint!Stripped_(s))
<1> DEFINE kept == {i \in DOMAIN s : s[i] \notin Blanks}
           low == Joint!Min(kept)
           high == Joint!Max(kept)
<1>1. Joint!Stripped_(s) = IF kept = {} THEN <<>> ELSE SubSeq(s, low, high)
  BY DEF Joint!Stripped_
<1>2. CASE kept = {}
  <2>1. <<>> \in Seq(S) /\ Len(<<>>) = 0
    OBVIOUS
  <2>2. QED
    BY <1>1, <1>2, <2>1 DEF Ends
<1>3. CASE kept # {}
  <2>1. Len(s) \in Nat /\ kept \subseteq 1 .. Len(s) /\ \A i \in 1 .. Len(s) : s[i] \in S
    OBVIOUS
  <2>2. low \in kept /\ \A y \in kept : low <= y
    <3>1. 1 .. Len(s) \subseteq Nat
      BY <2>1
    <3> HIDE DEF kept
    <3>2. kept \subseteq Nat
      BY <2>1, <3>1
    <3>3. QED
      BY <1>3, <3>2, Lowest DEF Joint!Min
  <2>3. high \in kept
    <3>1. 1 .. Len(s) \subseteq 0 .. Len(s)
      BY <2>1
    <3> HIDE DEF kept
    <3>2. kept \subseteq 0 .. Len(s)
      BY <2>1, <3>1
    <3>3. QED
      BY <1>3, <2>1, <3>2, Greatest DEF Joint!Max
  <2>4. s[high] \notin Blanks
    BY <2>3
  <2> DEFINE u == SubSeq(s, low, high)
  <2> HIDE DEF kept
  <2>5. low \in 1 .. Len(s) /\ high \in 1 .. Len(s) /\ low <= high
    BY <2>1, <2>2, <2>3
  <2> HIDE DEF low, high
  <2>6. low \in Int /\ high \in Int /\ \A i \in low .. high : s[i] \in S
    BY <2>1, <2>5
  <2>7. /\ u \in Seq(S) /\ Len(u) = (IF low <= high THEN high - low + 1 ELSE 0)
        /\ \A i \in 1 .. high - low + 1 : u[i] = s[low + i - 1]
    BY <2>6, SubSeqProperties
  <2>8. Len(u) = high - low + 1 /\ Len(u) \in 1 .. high - low + 1 /\ low + Len(u) - 1 = high
    BY <2>5, <2>6, <2>7
  <2> HIDE DEF u
  <2>9. u[Len(u)] = s[high]
    BY <2>7, <2>8
  <2>10. Ends(u)
    BY <2>4, <2>9 DEF Ends, Blank
  <2>11. QED
    BY <1>1, <1>3, <2>7, <2>10 DEF u
<1>4. QED
  BY <1>2, <1>3

(* Nothing from b on is cut off a text when the context is selected, if b is  *)
(* where something begins, nothing after it ends a sentence, and it is among  *)
(* the last SafeTail - 1 characters.                                          *)
LEMMA ContextFrom ==
  ASSUME NEW S, NEW t \in Seq(S), NEW N, N = Len(t), Ends(t), NEW b \in 1 .. N + 1,
         Begins(t, b), \A i \in b .. N : t[i] \notin HardTerminators, b >= N - SafeTail + 2
  PROVE  LET text == Joint!CutAtComma(Joint!AfterLast(t, HardTerminators))
             context == IF Len(text) > context_chars
                        THEN Joint!Stripped_(Joint!Suffix(text, context_chars)) ELSE text
         IN  \E a \in 1 .. b : context = SubSeq(t, a, N)
<1>1. N \in Nat /\ b \in Int /\ SafeTail \in Nat /\ SafeTail >= 1
      /\ context_chars \in Nat /\ context_chars >= SafeTail - 1
  BY JointAssumption
<1>2. \A k \in 1 .. b : \E f \in k .. b : Joint!Stripped_(SubSeq(t, k, N)) = SubSeq(t, f, N)
  <2> TAKE k \in 1 .. b
  <2>1. k \in 1 .. N + 1 /\ b \in k .. N + 1
    BY <1>1
  <2>2. PICK f \in k .. N + 1 : /\ Joint!Stripped_(SubSeq(t, k, N)) = SubSeq(t, f, N)
                                /\ \A c \in k .. N + 1 : Begins(t, c) => f <= c
    BY <2>1, StripFrom
  <2>3. f <= b
    BY <2>1, <2>2
  <2>4. f \in k .. b
    BY <1>1, <2>2, <2>3
  <2>5. QED
    BY <2>2, <2>4
<1> DEFINE hard == {0} \cup Joint!Positions(t, HardTerminators)
           last == Joint!Max(hard)
<1>3. last + 1 \in 1 .. b
  <2>1. hard \subseteq 0 .. b - 1 /\ b - 1 \in Nat
    <3>1. \A i \in DOMAIN t : t[i] \in HardTerminators => i \in 0 .. b - 1
      BY <1>1
    <3>2. 0 \in 0 .. b - 1 /\ b - 1 \in Nat
      BY <1>1
    <3>3. QED
      BY <3>1, <3>2 DEF Joint!Positions
  <2>2. hard # {}
    OBVIOUS
  <2> HIDE DEF hard
  <2>3. last \in hard
    BY <2>1, <2>2, Greatest DEF Joint!Max
  <2>4. last \in 0 .. b - 1
    BY <2>1, <2>3
  <2> HIDE DEF last
  <2>5. QED
    BY <1>1, <2>4
<1>4. PICK a \in 1 .. b : Joint!AfterLast(t, HardTerminators) = SubSeq(t, a, N)
  <2>1. Joint!AfterLast(t, HardTerminators) = Joint!Stripped_(SubSeq(t, last + 1, N))
    BY DEF Joint!AfterLast
  <2> HIDE DEF last
  <2>2. PICK f \in last + 1 .. b : Joint!Stripped_(SubSeq(t, last + 1, N)) = SubSeq(t, f, N)
    BY <1>2, <1>3
  <2>3. f \in 1 .. b
    BY <1>1, <1>3
  <2>4. QED
    BY <2>1, <2>2, <2>3
<1> HIDE DEF last
<1> DEFINE s == SubSeq(t, a, N)
<1>5. /\ a \in 1 .. N + 1 /\ Len(s) = N - a + 1 /\ s \in Seq(S)
      /\ \A i \in 1 .. N - a + 2 : SubSeq(s, i, Len(s)) = SubSeq(t, a + i - 1, N)
  <2>1. a \in 1 .. N + 1
    BY <1>1
  <2>2. Len(s) = N - a + 1 /\ s \in Seq(S)
    BY <2>1, FromPlace
  <2>3. \A i \in 1 .. N - a + 2 : SubSeq(s, i, Len(s)) = SubSeq(t, a + i - 1, N)
    BY <2>1, FromThere
  <2>4. QED
    BY <2>1, <2>2, <2>3
<1> HIDE DEF s
<1>6. PICK c \in 1 .. b : Joint!CutAtComma(s) = SubSeq(t, c, N)
  <2> DEFINE safe == {i \in Joint!Positions(s, Commas) : Len(s) - i + 1 >= SafeTail}
             comma == Joint!Max(safe)
  <2>1. Joint!CutAtComma(s) = IF Len(s) <= LongText \/ safe = {} THEN s
                              ELSE Joint!Stripped_(SubSeq(s, comma + 1, Len(s)))
    BY DEF Joint!CutAtComma
  <2>2. CASE Len(s) <= LongText \/ safe = {}
    BY <2>1, <2>2 DEF s
  <2>3. CASE ~(Len(s) <= LongText \/ safe = {})
    <3>1. comma \in safe
      <4>1. safe \subseteq 0 .. Len(s) /\ Len(s) \in Nat
        BY <1>5 DEF Joint!Positions
      <4> HIDE DEF safe
      <4>2. QED
        BY <2>3, <4>1, Greatest DEF Joint!Max
    <3>2. comma \in 1 .. Len(s) /\ Len(s) - comma + 1 >= SafeTail
      <4>1. \A i \in safe : i \in 1 .. Len(s) /\ Len(s) - i + 1 >= SafeTail
        BY <1>5 DEF Joint!Positions
      <4> HIDE DEF safe, comma
      <4>2. QED
        BY <3>1, <4>1
    <3> HIDE DEF safe, comma
    <3>3. comma + 1 \in 1 .. N - a + 2 /\ a + (comma + 1) - 1 \in 1 .. b
      BY <1>1, <1>5, <3>2
    <3>4. SubSeq(s, comma + 1, Len(s)) = SubSeq(t, a + (comma + 1) - 1, N)
      BY <1>5, <3>3
    <3> DEFINE k == a + (comma + 1) - 1
    <3>5. k \in 1 .. b
      BY <3>3
    <3>6. Joint!CutAtComma(s) = Joint!Stripped_(SubSeq(t, k, N))
      BY <2>1, <2>3, <3>4
    <3> HIDE DEF k
    <3>7. PICK f \in k .. b : Joint!Stripped_(SubSeq(t, k, N)) = SubSeq(t, f, N)
      BY <1>2, <3>5
    <3>8. f \in 1 .. b
      BY <1>1, <3>5
    <3>9. QED
      BY <3>6, <3>7, <3>8
  <2>4. QED
    BY <2>2, <2>3
<1> DEFINE text == SubSeq(t, c, N)
           context == IF Len(text) > context_chars
                      THEN Joint!Stripped_(Joint!Suffix(text, context_chars)) ELSE text
<1>7. Joint!CutAtComma(Joint!AfterLast(t, HardTerminators)) = text
  BY <1>4, <1>6 DEF s
<1>8. \E d \in 1 .. b : context = SubSeq(t, d, N)
  <2>1. /\ c \in 1 .. N + 1 /\ Len(text) = N - c + 1
        /\ \A i \in 1 .. N - c + 2 : SubSeq(text, i, Len(text)) = SubSeq(t, c + i - 1, N)
    <3>1. c \in 1 .. N + 1
      BY <1>1
    <3>2. Len(text) = N - c + 1
      BY <3>1, FromPlace
    <3>3. \A i \in 1 .. N - c + 2 : SubSeq(text, i, Len(text)) = SubSeq(t, c + i - 1, N)
      BY <3>1, FromThere
    <3>4. QED
      BY <3>1, <3>2, <3>3
  <2>2. CASE Len(text) > context_chars
    <3> HIDE DEF text
    <3> DEFINE i == Len(text) - context_chars + 1
               k == c + i - 1
    <3>1. i \in 1 .. N - c + 2 /\ k \in 1 .. b
      BY <1>1, <2>1, <2>2
    <3>2. Joint!Suffix(text, context_chars) = SubSeq(t, k, N)
      BY <2>1, <3>1 DEF Joint!Suffix
    <3> HIDE DEF i, k
    <3>3. PICK f \in k .. b : Joint!Stripped_(SubSeq(t, k, N)) = SubSeq(t, f, N)
      BY <1>2, <3>1
    <3>4. f \in 1 .. b
      BY <1>1, <3>1
    <3>5. context = SubSeq(t, f, N)
      BY <2>2, <3>2, <3>3
    <3>6. QED
      BY <3>4, <3>5
  <2>3. CASE ~(Len(text) > context_chars)
    BY <2>3
  <2>4. QED
    BY <2>2, <2>3
<1>9. QED
  BY <1>7, <1>8

(* onnx_dual_encoder_base.py:49-56: what was typed last is in the context,    *)
(* whole: for any text, any characters that end a sentence, part one or are   *)
(* blank, and any lengths of the tail and of the context.                     *)
THEOREM RecentTextStays == Joint!Spec => []RecentTextIsKept
<1> DEFINE Typing == typed \in Seq(Chars)
<1>1. Joint!Init => Typing
  BY DEF Joint!Init
<1>2. Typing /\ [Joint!Next]_(Joint!vars) => Typing'
  BY DEF Joint!Next, Joint!Type, Joint!Convert, Joint!vars
<1>3. Typing => RecentTextIsKept
  <2> SUFFICES ASSUME Typing PROVE Joint!RecentTextIsKept
    BY DEF RecentTextIsKept
  <2> DEFINE t == Joint!Stripped_(typed)
             N == Len(t)
             w == Joint!Min({SafeTail - 1, N})
             tail == Joint!Stripped_(Joint!Suffix(t, w))
  <2> SUFFICES ASSUME Joint!Positions(tail, HardTerminators) = {}
               PROVE  Joint!IsSuffix(tail, Joint!select_safe_local_context(typed))
    BY DEF Joint!RecentTextIsKept
  <2>1. t \in Seq(Chars) /\ Ends(t) /\ N \in Nat
    <3>1. t \in Seq(Chars) /\ Ends(t)
      BY StrippedEnds
    <3> HIDE DEF t
    <3>2. QED
      BY <3>1
  <2> HIDE DEF t
  <2>2. w \in 0 .. N /\ w <= SafeTail - 1
    <3> DEFINE T == {SafeTail - 1, N}
    <3>1. T \subseteq Nat /\ T # {} /\ SafeTail - 1 \in T /\ N \in T
      BY <2>1, JointAssumption
    <3> HIDE DEF T
    <3>2. Joint!Min(T) \in T /\ \A y \in T : Joint!Min(T) <= y
      BY <3>1, Lowest DEF Joint!Min
    <3>3. Joint!Min(T) \in Nat /\ Joint!Min(T) <= N /\ Joint!Min(T) <= SafeTail - 1
      BY <3>1, <3>2
    <3>4. w = Joint!Min(T)
      BY DEF T
    <3> HIDE DEF w, N
    <3>5. QED
      BY <2>1, <3>3, <3>4
  <2> HIDE DEF w, N
  <2> DEFINE k == N - w + 1
  <2>3. k \in 1 .. N + 1 /\ k >= N - SafeTail + 2
    BY <2>1, <2>2, JointAssumption
  <2>4. Joint!Suffix(t, w) = SubSeq(t, k, N)
    BY DEF Joint!Suffix, N
  <2> HIDE DEF k
  <2>5. PICK b \in k .. N + 1 : Joint!Stripped_(SubSeq(t, k, N)) = SubSeq(t, b, N) /\ Begins(t, b)
    <3>1. N = Len(t)
      BY DEF N
    <3>2. QED
      BY <2>1, <2>3, <3>1, StripFrom
  <2>6. tail = SubSeq(t, b, N)
    BY <2>4, <2>5
  <2> HIDE DEF tail
  <2>7. b \in 1 .. N + 1 /\ b >= N - SafeTail + 2
    BY <2>1, <2>3, JointAssumption
  <2>8. N = Len(t)
    BY DEF N
  <2>9. Len(tail) = N - b + 1 /\ tail \in Seq(Chars) /\ \A j \in 1 .. N - b + 1 : tail[j] = t[b + j - 1]
    BY <2>1, <2>6, <2>7, <2>8, FromPlace
  <2>10. \A i \in b .. N : t[i] \notin HardTerminators
    <3> SUFFICES ASSUME NEW i \in b .. N, t[i] \in HardTerminators PROVE FALSE
      OBVIOUS
    <3>1. i - b + 1 \in 1 .. N - b + 1 /\ b + (i - b + 1) - 1 = i
      BY <2>1, <2>7
    <3>2. tail[i - b + 1] = t[i] /\ i - b + 1 \in DOMAIN tail
      BY <2>9, <3>1
    <3>3. QED
      BY <3>2 DEF Joint!Positions
  <2>11. PICK a \in 1 .. b : Joint!select_safe_local_context(typed) = SubSeq(t, a, N)
    <3> DEFINE text == Joint!CutAtComma(Joint!AfterLast(t, HardTerminators))
               context == IF Len(text) > context_chars
                          THEN Joint!Stripped_(Joint!Suffix(text, context_chars)) ELSE text
    <3>1. \E a \in 1 .. b : context = SubSeq(t, a, N)
      BY <2>1, <2>5, <2>7, <2>8, <2>10, ContextFrom
    <3>2. Joint!select_safe_local_context(typed) = context
      BY DEF Joint!select_safe_local_context, t
    <3> HIDE DEF context
    <3>3. QED
      BY <3>1, <3>2
  <2>12. a \in 1 .. N + 1 /\ b \in a .. N + 1
    BY <2>1, <2>7
  <2>13. Joint!IsSuffix(SubSeq(t, b, N), SubSeq(t, a, N))
    BY <2>1, <2>8, <2>12, EndOfEnd
  <2>14. QED
    BY <2>6, <2>11, <2>13
<1>4. QED
  BY <1>1, <1>2, <1>3, PTL DEF Joint!Spec

-----------------------------------------------------------------------------
(***************************************************************************)
(* Several segments at once.                                               *)
(***************************************************************************)
(* What a candidate scores after each of those of the segment before.      *)
Rows(C, i) == 1 .. IF i = 1 THEN 1 ELSE C[i - 1]
IsLattice(S, N, C) ==
  /\ N \in Nat \ {0} /\ C \in [1 .. N -> Nat \ {0}]
  /\ DOMAIN S = 1 .. N /\ Len(S) = N
  /\ \A i \in 1 .. N : \A k \in Rows(C, i) : S[i][k] \in [1 .. C[i] -> Int]

(* The paths through the first i segments that end in one of some candidates. *)
Ways(C, i, K) == {p \in [1 .. i -> Nat] : (\A m \in 1 .. i : p[m] \in 1 .. C[m]) /\ p[i] \in K}

LEMMA JointSum ==
  ASSUME NEW f PROVE Joint!SumFunction(f) = SumFunctionOnSet(f, DOMAIN f)
BY DEF Joint!SumFunction, Joint!SumFunctionOnSet, SumFunctionOnSet,
       Joint!FoldFunctionOnSet, FoldFunctionOnSet, Joint!MapThenFoldSet, MapThenFoldSet

LEMMA JointDescending ==
  ASSUME NEW score PROVE Joint!Descending(score) = Ranking!Descending(score)
BY DEF Joint!Descending, Ranking!Descending, Joint!Ahead, Ranking!Ahead, Joint!Cardinality, Ranking!Cardinality

(* The terms of a path's score. *)
Terms(S, p) == [m \in DOMAIN p |-> S[m][IF m = 1 THEN 1 ELSE p[m - 1]][p[m]]]

LEMMA TermsOf ==
  ASSUME NEW N, NEW C, NEW S, IsLattice(S, N, C), NEW i \in 1 .. N, NEW K, NEW p \in Ways(C, i, K)
  PROVE  /\ DOMAIN Terms(S, p) = 1 .. i
         /\ \A m \in 1 .. i : Terms(S, p)[m] \in Int
         /\ Joint!PathScore(S, p) = SumFunctionOnSet(Terms(S, p), 1 .. i)
         /\ Joint!PathScore(S, p) \in Int
<1> DEFINE f == Terms(S, p)
<1>1. N \in Nat /\ C \in [1 .. N -> Nat \ {0}] /\ i \in Nat /\ i <= N
  BY DEF IsLattice
<1>2. DOMAIN p = 1 .. i /\ \A m \in 1 .. i : p[m] \in 1 .. C[m]
  BY DEF Ways
<1>3. DOMAIN f = 1 .. i
  BY <1>2 DEF Terms
<1>4. \A m \in 1 .. i : f[m] \in Int
  <2> SUFFICES ASSUME NEW m \in 1 .. i PROVE f[m] \in Int
    OBVIOUS
  <2> DEFINE k == IF m = 1 THEN 1 ELSE p[m - 1]
  <2>1. f[m] = S[m][k][p[m]]
    BY <1>2 DEF Terms
  <2>2. m \in 1 .. N /\ p[m] \in 1 .. C[m]
    BY <1>1, <1>2
  <2>3. k \in Rows(C, m)
    <3>1. CASE m = 1
      BY <3>1 DEF Rows
    <3>2. CASE m # 1
      <4>1. m - 1 \in 1 .. i
        BY <1>1, <3>2
      <4>2. QED
        BY <1>2, <3>2, <4>1 DEF Rows
    <3>3. QED
      BY <3>1, <3>2
  <2> HIDE DEF k
  <2>4. S[m][k] \in [1 .. C[m] -> Int]
    BY <2>2, <2>3 DEF IsLattice
  <2>5. QED
    BY <2>1, <2>2, <2>4
<1>5. Joint!PathScore(S, p) = SumFunctionOnSet(f, 1 .. i)
  <2>1. Joint!PathScore(S, p) = Joint!SumFunction(f)
    BY DEF Joint!PathScore, Terms
  <2> HIDE DEF f
  <2>2. QED
    BY <1>3, <2>1, JointSum
<1> HIDE DEF f
<1>6. IsFiniteSet(1 .. i)
  <2>1. 1 \in Int /\ i \in Int
    BY <1>1
  <2>2. QED
    BY <2>1, FS_Interval
<1>7. SumFunctionOnSet(f, 1 .. i) \in Int
  BY <1>4, <1>6, SumTakes
<1>8. QED
  BY <1>3, <1>4, <1>5, <1>7 DEF f

(* One candidate more. *)
Longer(S, C, i, p, j) ==
  /\ Append(p, j) \in Ways(C, i + 1, {j})
  /\ Joint!PathScore(S, Append(p, j)) = Joint!PathScore(S, p) + S[i + 1][p[i]][j]

LEMMA PathLonger ==
  ASSUME NEW N, NEW C, NEW S, IsLattice(S, N, C), NEW i \in 1 .. N, i + 1 \in 1 .. N,
         NEW K, NEW p \in Ways(C, i, K), NEW j \in 1 .. C[i + 1]
  PROVE  Longer(S, C, i, p, j)
<1> DEFINE q == Append(p, j)
           f == Terms(S, q)
           g == Terms(S, p)
           o == i + 1
<1>1. N \in Nat /\ C \in [1 .. N -> Nat \ {0}] /\ i \in Nat /\ i >= 1 /\ o \in Nat
  BY DEF IsLattice
<1>2. p \in [1 .. i -> Nat] /\ \A m \in 1 .. i : p[m] \in 1 .. C[m]
  BY DEF Ways
<1>3. p \in Seq(Nat) /\ Len(p) = i /\ j \in Nat
  BY <1>1, <1>2, IsSequence
<1>4. q \in [1 .. o -> Nat] /\ q[o] = j /\ \A m \in 1 .. i : q[m] = p[m]
  <2>1. q \in Seq(Nat) /\ Len(q) = o /\ q[o] = j /\ \A m \in 1 .. i : q[m] = p[m]
    BY <1>3, AppendProperties
  <2> HIDE DEF q
  <2>2. q \in [1 .. Len(q) -> Nat]
    BY <2>1, LenProperties
  <2>3. QED
    BY <2>1, <2>2
<1> HIDE DEF q
<1>5. \A m \in 1 .. o : m = o \/ m \in 1 .. i
  BY <1>1
<1>6. q \in Ways(C, o, {j})
  <2>1. \A m \in 1 .. o : q[m] \in 1 .. C[m]
    BY <1>2, <1>4, <1>5
  <2>2. QED
    BY <1>4, <2>1 DEF Ways
<1>7. /\ DOMAIN f = 1 .. o /\ \A m \in 1 .. o : f[m] \in Int
      /\ Joint!PathScore(S, q) = SumFunctionOnSet(f, 1 .. o)
  BY <1>6, TermsOf
<1>8. /\ DOMAIN g = 1 .. i /\ \A m \in 1 .. i : g[m] \in Int
      /\ Joint!PathScore(S, p) = SumFunctionOnSet(g, 1 .. i)
  BY TermsOf
<1>9. \A m \in 1 .. i : f[m] = g[m]
  <2> SUFFICES ASSUME NEW m \in 1 .. i PROVE f[m] = g[m]
    OBVIOUS
  <2>1. m \in 1 .. o /\ (m = 1 \/ m - 1 \in 1 .. i)
    BY <1>1
  <2>2. DOMAIN q = 1 .. o /\ DOMAIN p = 1 .. i
    BY <1>2, <1>4
  <2>3. q[m] = p[m] /\ (m = 1 \/ q[m - 1] = p[m - 1])
    BY <1>4, <2>1
  <2>4. QED
    BY <2>1, <2>2, <2>3 DEF Terms
<1>10. f[o] = S[o][p[i]][j]
  <2>1. DOMAIN q = 1 .. o /\ o \in 1 .. o /\ o # 1 /\ o - 1 = i /\ i \in 1 .. i
    BY <1>1, <1>4
  <2>2. q[o - 1] = p[i]
    BY <1>4, <2>1
  <2> HIDE DEF o
  <2>3. QED
    BY <1>4, <2>1, <2>2 DEF Terms
<1> HIDE DEF f, g
<1>11. IsFiniteSet(1 .. o) /\ IsFiniteSet(1 .. i) /\ (1 .. o) \ {o} = 1 .. i /\ o \in 1 .. o
  <2>1. 1 \in Int /\ i \in Int /\ o \in Int
    BY <1>1
  <2>2. IsFiniteSet(1 .. o) /\ IsFiniteSet(1 .. i)
    <3> HIDE DEF o
    <3>1. QED
      BY <2>1, FS_Interval
  <2>3. (1 .. o) \ {o} = 1 .. i /\ o \in 1 .. o
    BY <1>1
  <2>4. QED
    BY <2>2, <2>3
<1>12. SumFunctionOnSet(f, 1 .. o) = f[o] + SumFunctionOnSet(f, 1 .. i)
  <2> HIDE DEF o
  <2>1. SumFunctionOnSet(f, 1 .. o) = f[o] + SumFunctionOnSet(f, (1 .. o) \ {o})
    BY <1>7, <1>11, SumTakes
  <2>2. QED
    BY <1>11, <2>1
<1>13. SumFunctionOnSet(f, 1 .. i) = SumFunctionOnSet(g, 1 .. i) /\ SumFunctionOnSet(g, 1 .. i) \in Int
  <2>1. \A m \in 1 .. i : f[m] \in Int /\ g[m] \in Int /\ f[m] = g[m]
    BY <1>8, <1>9
  <2>2. QED
    BY <1>11, <2>1, SumSame, SumTakes
<1>14. f[o] \in Int
  BY <1>7, <1>11
<1>15. Joint!PathScore(S, q) = Joint!PathScore(S, p) + f[o]
  BY <1>7, <1>8, <1>12, <1>13, <1>14
<1>16. QED
  BY <1>6, <1>10, <1>15 DEF q, Longer

(* One candidate fewer. *)
LEMMA PathShorter ==
  ASSUME NEW N, NEW C, NEW S, IsLattice(S, N, C), NEW i \in 1 .. N, i + 1 \in 1 .. N,
         NEW K, NEW q \in Ways(C, i + 1, K)
  PROVE  \E p \in Ways(C, i, 1 .. C[i]) : q = Append(p, q[i + 1]) /\ p[i] = q[i]
<1> DEFINE p == [m \in 1 .. i |-> q[m]]
           o == i + 1
<1>1. N \in Nat /\ C \in [1 .. N -> Nat \ {0}] /\ i \in Nat /\ i >= 1 /\ o \in Nat
  BY DEF IsLattice
<1>2. q \in [1 .. o -> Nat] /\ \A m \in 1 .. o : q[m] \in 1 .. C[m]
  BY DEF Ways
<1>3. \A m \in 1 .. i : m \in 1 .. o
  BY <1>1
<1>4. p \in [1 .. i -> Nat] /\ \A m \in 1 .. i : p[m] = q[m] /\ p[m] \in 1 .. C[m]
  BY <1>2, <1>3
<1> HIDE DEF p
<1>5. i \in 1 .. i
  BY <1>1
<1>6. p \in Ways(C, i, 1 .. C[i]) /\ p[i] = q[i]
  BY <1>4, <1>5 DEF Ways
<1>7. q = Append(p, q[o])
  <2>1. p \in Seq(Nat) /\ Len(p) = i /\ q \in Seq(Nat) /\ Len(q) = o /\ q[o] \in Nat
    <3>1. o \in 1 .. o
      BY <1>1
    <3> HIDE DEF o
    <3>2. QED
      BY <1>1, <1>2, <1>4, <3>1, IsSequence
  <2> DEFINE a == Append(p, q[o])
  <2>2. a \in Seq(Nat) /\ Len(a) = o /\ a[o] = q[o] /\ \A m \in 1 .. i : a[m] = p[m]
    BY <2>1, AppendProperties
  <2> HIDE DEF a
  <2>3. \A m \in 1 .. o : a[m] = q[m]
    <3>1. \A m \in 1 .. o : m = o \/ m \in 1 .. i
      BY <1>1
    <3>2. QED
      BY <1>4, <2>2, <3>1
  <2>4. a \in [1 .. o -> Nat]
    <3>1. a \in [1 .. Len(a) -> Nat]
      BY <2>2, LenProperties
    <3>2. QED
      BY <2>2, <3>1
  <2>5. a = q
    BY <1>2, <2>3, <2>4
  <2>6. QED
    BY <2>5 DEF a
<1>8. QED
  BY <1>6, <1>7

(* A path as the search keeps it. *)
PathEntry(S, p)      == [score |-> Joint!PathScore(S, p), places |-> p]
Entries(S, C, i, K) == {PathEntry(S, p) : p \in Ways(C, i, K)}

(* Paths that are enough to find the best two of: each, or two as good that go *)
(* on from the same candidate.                                                 *)
Listed(S, C, i, K, paths) ==
  /\ paths \in Seq(Entries(S, C, i, K)) /\ Len(paths) > 0
  /\ \A m, l \in 1 .. Len(paths) : paths[m].places = paths[l].places => m = l
  /\ \A q \in Ways(C, i, K) :
       \/ \E m \in 1 .. Len(paths) : paths[m].places = q
       \/ \E m, l \in 1 .. Len(paths) :
            /\ m # l /\ paths[m].places[i] = q[i] /\ paths[l].places[i] = q[i]
            /\ paths[m].score >= Joint!PathScore(S, q) /\ paths[l].score >= Joint!PathScore(S, q)

(* The best two paths, or the only one. *)
TopTwo(S, C, i, K, t) ==
  /\ t \in Seq(Entries(S, C, i, K)) /\ Len(t) \in {1, 2}
  /\ Len(t) = 2 => t[1].score >= t[2].score /\ t[1].places # t[2].places
  /\ \A q \in Ways(C, i, K) : q = t[1].places \/ (Len(t) = 2 /\ t[2].score >= Joint!PathScore(S, q))

LEMMA BestTwoOfThem ==
  ASSUME NEW N, NEW C, NEW S, IsLattice(S, N, C), NEW i \in 1 .. N, NEW K,
         NEW paths, Listed(S, C, i, K, paths)
  PROVE  TopTwo(S, C, i, K, Joint!BestTwo(paths))
<1> DEFINE n == Len(paths)
           E == Entries(S, C, i, K)
           score == [m \in 1 .. n |-> paths[m].score]
           d == Ranking!Descending(score)
           b == IF n = 1 THEN 1 ELSE 2
           t == [m \in 1 .. b |-> paths[d[m]]]
<1>1. /\ paths \in Seq(E) /\ n \in Nat /\ n >= 1 /\ DOMAIN paths = 1 .. n
      /\ \A m \in 1 .. n : paths[m] \in E
  <2>1. paths \in Seq(E) /\ Len(paths) > 0
    BY DEF Listed
  <2> HIDE DEF E
  <2>2. QED
    BY <2>1, LenProperties
<1>2. \A e \in E : \E p \in Ways(C, i, K) : e.places = p /\ e.score = Joint!PathScore(S, p) /\ e.score \in Int
  <2> SUFFICES ASSUME NEW p \in Ways(C, i, K)
               PROVE  /\ PathEntry(S, p).places = p /\ PathEntry(S, p).score = Joint!PathScore(S, p)
                      /\ PathEntry(S, p).score \in Int
    BY DEF Entries
  <2>1. Joint!PathScore(S, p) \in Int
    BY TermsOf
  <2>2. QED
    BY <2>1 DEF PathEntry
<1> HIDE DEF E
<1>3. score \in [1 .. n -> Int] /\ \A m \in 1 .. n : score[m] = paths[m].score
  BY <1>1, <1>2
<1>4. Joint!BestTwo(paths) = [m \in 1 .. Joint!Min({2, n}) |-> paths[d[m]]]
  <2>1. score = [m \in DOMAIN paths |-> paths[m].score]
    BY <1>1
  <2> HIDE DEF score
  <2>2. QED
    BY <2>1, JointDescending DEF Joint!BestTwo
<1>5. Joint!Min({2, n}) = b
  <2> DEFINE T == {2, n}
  <2>1. T \subseteq Nat /\ T # {}
    BY <1>1
  <2> HIDE DEF T
  <2>2. Joint!Min(T) \in T /\ \A y \in T : Joint!Min(T) <= y
    BY <2>1, Lowest DEF Joint!Min
  <2>3. QED
    BY <1>1, <2>2 DEF T
<1> HIDE DEF score
<1>6. /\ d \in [1 .. n -> 1 .. n]
      /\ \A k, l \in 1 .. n : d[k] = d[l] => k = l
      /\ \A m \in 1 .. n : \E k \in 1 .. n : d[k] = m
      /\ \A k, l \in 1 .. n : k < l => Precedes(score, d[k], d[l])
  BY <1>1, <1>3, SortedHere DEF IsOrder
<1> HIDE DEF d
<1>7. \A k, l \in 1 .. n : k <= l => paths[d[k]].score >= paths[d[l]].score
  <2> SUFFICES ASSUME NEW k \in 1 .. n, NEW l \in 1 .. n, k <= l
               PROVE  paths[d[k]].score >= paths[d[l]].score
    OBVIOUS
  <2>1. score[d[k]] = paths[d[k]].score /\ score[d[l]] = paths[d[l]].score
    BY <1>3, <1>6
  <2>2. score[d[k]] \in Int /\ score[d[l]] \in Int
    BY <1>3, <1>6
  <2>3. CASE k = l
    BY <2>1, <2>2, <2>3
  <2>4. CASE k < l
    <3>1. Precedes(score, d[k], d[l])
      BY <1>6, <2>4
    <3>2. QED
      BY <2>1, <2>2, <3>1 DEF Precedes
  <2>5. QED
    BY <2>3, <2>4
<1>8. b \in 1 .. n /\ b \in {1, 2} /\ 1 \in 1 .. n /\ (b = 1 => n = 1)
  BY <1>1
<1> HIDE DEF n, b
<1>9. t \in Seq(E) /\ Len(t) = b /\ \A m \in 1 .. b : t[m] = paths[d[m]]
  <2>1. \A m \in 1 .. b : m \in 1 .. n
    BY <1>1, <1>8
  <2>2. \A m \in 1 .. b : paths[d[m]] \in E
    BY <1>1, <1>6, <2>1
  <2>3. t \in [1 .. b -> E] /\ b \in Nat
    BY <1>8, <2>2
  <2> HIDE DEF t
  <2>4. t \in Seq(E) /\ Len(t) = b
    BY <2>3, IsSequence
  <2>5. QED
    BY <2>4 DEF t
<1> HIDE DEF t
<1>10. \A m \in 1 .. n : m = d[1] \/ (b = 2 /\ paths[m].score <= t[2].score)
  <2> SUFFICES ASSUME NEW m \in 1 .. n, m # d[1]
               PROVE  b = 2 /\ paths[m].score <= t[2].score
    OBVIOUS
  <2>1. PICK k \in 1 .. n : d[k] = m
    BY <1>6
  <2>2. k # 1 /\ k \in Nat /\ k >= 2 /\ n >= 2
    BY <1>1, <2>1
  <2>3. b = 2 /\ 2 \in 1 .. n
    BY <1>8, <2>2
  <2>4. paths[d[2]].score >= paths[d[k]].score
    BY <1>7, <2>2, <2>3
  <2>5. t[2] = paths[d[2]]
    BY <1>9, <2>3
  <2>6. paths[d[2]].score \in Int /\ paths[m].score \in Int
    BY <1>1, <1>2, <1>6, <2>3
  <2>7. QED
    BY <2>1, <2>3, <2>4, <2>5, <2>6
<1>11. b = 2 => t[1].score >= t[2].score /\ t[1].places # t[2].places
  <2> SUFFICES ASSUME b = 2 PROVE t[1].score >= t[2].score /\ t[1].places # t[2].places
    OBVIOUS
  <2>1. 1 \in 1 .. n /\ 2 \in 1 .. n /\ t[1] = paths[d[1]] /\ t[2] = paths[d[2]]
    <3>1. 1 \in 1 .. b /\ 2 \in 1 .. b /\ 2 \in 1 .. n
      BY <1>8
    <3>2. t[1] = paths[d[1]]
      BY <1>9, <3>1
    <3>3. t[2] = paths[d[2]]
      BY <1>9, <3>1
    <3>4. QED
      BY <1>8, <3>1, <3>2, <3>3
  <2>2. d[1] # d[2] /\ d[1] \in 1 .. n /\ d[2] \in 1 .. n
    <3>1. d[1] \in 1 .. n
      BY <1>6, <2>1
    <3>2. d[2] \in 1 .. n
      BY <1>6, <2>1
    <3>3. d[1] = d[2] => 1 = 2
      BY <1>6, <2>1
    <3>4. QED
      BY <3>1, <3>2, <3>3
  <2>3. paths[d[1]].places # paths[d[2]].places
    BY <2>2 DEF Listed, n
  <2>4. QED
    BY <1>7, <2>1, <2>3
<1>12. t[1] = paths[d[1]] /\ d[1] \in 1 .. n
  <2>1. 1 \in 1 .. b
    BY <1>8
  <2>2. QED
    BY <1>6, <1>8, <1>9, <2>1
<1>13. b = 2 => t[2].score \in Int
  <2> SUFFICES ASSUME b = 2 PROVE t[2].score \in Int
    OBVIOUS
  <2>1. 2 \in 1 .. b /\ 2 \in 1 .. n
    BY <1>8
  <2>2. t[2] = paths[d[2]] /\ d[2] \in 1 .. n
    BY <1>6, <1>9, <2>1
  <2>3. QED
    BY <1>1, <1>2, <2>2
<1>14. ASSUME NEW q \in Ways(C, i, K)
       PROVE  q = t[1].places \/ (b = 2 /\ t[2].score >= Joint!PathScore(S, q))
  <2>0. Joint!PathScore(S, q) \in Int
    BY TermsOf
  <2>1. b = 2 => t[2].score \in Int
    BY <1>13
  <2>2. t[1] = paths[d[1]] /\ d[1] \in 1 .. n
    BY <1>12
  <2>3. CASE \E m \in 1 .. n : paths[m].places = q
    <3>1. PICK m \in 1 .. n : paths[m].places = q
      BY <2>3
    <3>2. paths[m].score = Joint!PathScore(S, q)
      BY <1>1, <1>2, <3>1
    <3>3. QED
      BY <1>10, <2>0, <2>1, <2>2, <3>1, <3>2
  <2>4. CASE \E m, l \in 1 .. n : m # l /\ paths[m].score >= Joint!PathScore(S, q)
                                        /\ paths[l].score >= Joint!PathScore(S, q)
    <3>1. PICK m \in 1 .. n, l \in 1 .. n : m # l /\ paths[m].score >= Joint!PathScore(S, q)
                                                /\ paths[l].score >= Joint!PathScore(S, q)
      BY <2>4
    <3>2. PICK k \in 1 .. n : k # d[1] /\ paths[k].score >= Joint!PathScore(S, q)
      BY <3>1
    <3>3. b = 2 /\ paths[k].score <= t[2].score /\ paths[k].score \in Int
      BY <1>1, <1>2, <1>10, <3>2
    <3>4. QED
      BY <2>0, <2>1, <3>2, <3>3
  <2>5. QED
    BY <2>3, <2>4 DEF Listed, n
<1>15. TopTwo(S, C, i, K, t)
  BY <1>8, <1>9, <1>11, <1>14 DEF TopTwo, E
<1>16. QED
  BY <1>4, <1>5, <1>15 DEF t

(* Sequences in a row, and what they are flattened to. *)
InARow(A, n, ss) == n \in Nat \ {0} /\ ss \in [1 .. n -> Seq(A)]

IsFlat(A, n, ss, flat) ==
  /\ flat \in Seq(A)
  /\ Elements(flat) = UNION {Elements(ss[k]) : k \in 1 .. n}
  /\ Apart(ss, n) => Distinct(flat)

LEMMA Flat ==
  ASSUME NEW A, NEW n, NEW ss, InARow(A, n, ss)
  PROVE  IsFlat(A, n, ss, Joint!FlattenSeq(ss))
<1> DEFINE V == Seq(A)
           apart == /\ \A k \in 1 .. n : Distinct(ss[k])
                    /\ \A k, l \in 1 .. n : k # l => Elements(ss[k]) \cap Elements(ss[l]) = {}
           upto(m) == UNION {Elements(ss[k]) : k \in 1 .. m}
           Good == [m \in 1 .. n |-> {s \in V : Elements(s) = upto(m) /\ (apart => Distinct(s))}]
           next == [m \in 1 .. n |-> [s \in V |-> s \o ss[m]]]
           flatten == CHOOSE f : f = [i \in 1 .. n |-> IF i = 1 THEN ss[i] ELSE f[i - 1] \o ss[i]]
<1>0. n \in Nat \ {0} /\ ss \in [1 .. n -> Seq(A)]
  BY DEF InARow
<1>1. n \in Nat /\ n >= 1 /\ 1 \in 1 .. n /\ n \in 1 .. n /\ n # 0
  BY <1>0
<1>2. Len(ss) = n
  BY <1>0, <1>1, IsSequence
<1>3. Joint!FlattenSeq(ss) = flatten[n]
  BY <1>1, <1>2 DEF Joint!FlattenSeq
<1> HIDE DEF flatten
<1>4. \A k \in 1 .. n : ss[k] \in V
  BY <1>0
<1>5. ss[1] \in Good[1]
  <2>1. upto(1) = Elements(ss[1])
    OBVIOUS
  <2>2. apart => Distinct(ss[1])
    BY <1>1
  <2> HIDE DEF upto, apart, V
  <2>3. QED
    BY <1>1, <1>4, <2>1, <2>2
<1>6. ASSUME NEW m \in 2 .. n, NEW s \in Good[m - 1]
      PROVE  s \o ss[m] \in Good[m]
  <2>1. m \in 1 .. n /\ m - 1 \in 1 .. n /\ 1 .. m = (1 .. m - 1) \cup {m} /\ m \notin 1 .. m - 1
        /\ 1 .. m - 1 \subseteq 1 .. n
    BY <1>1
  <2>2. upto(m) = upto(m - 1) \cup Elements(ss[m])
    BY <2>1
  <2>3. apart => Distinct(ss[m]) /\ upto(m - 1) \cap Elements(ss[m]) = {}
    <3> SUFFICES ASSUME apart
                 PROVE  Distinct(ss[m]) /\ \A x \in upto(m - 1) : x \notin Elements(ss[m])
      OBVIOUS
    <3>1. \A k \in 1 .. m - 1 : k \in 1 .. n /\ k # m
      BY <2>1
    <3>2. \A k \in 1 .. m - 1 : Elements(ss[k]) \cap Elements(ss[m]) = {}
      BY <2>1, <3>1
    <3>3. Distinct(ss[m])
      BY <2>1
    <3>4. QED
      BY <3>2, <3>3
  <2> HIDE DEF upto, apart
  <2>4. s \in V /\ Elements(s) = upto(m - 1) /\ (apart => Distinct(s))
    BY <1>6, <2>1
  <2>5. ss[m] \in V
    BY <1>4, <2>1
  <2>6. /\ s \o ss[m] \in V
        /\ Elements(s \o ss[m]) = Elements(s) \cup Elements(ss[m])
        /\ Distinct(s) /\ Distinct(ss[m]) /\ Elements(s) \cap Elements(ss[m]) = {} => Distinct(s \o ss[m])
    BY <2>4, <2>5, Joined
  <2> HIDE DEF V
  <2>7. QED
    BY <2>1, <2>2, <2>3, <2>4, <2>6
<1>7. \A m \in 1 .. n : Good[m] \subseteq V
  OBVIOUS
<1> HIDE DEF Good
<1>8. \A m \in 2 .. n : \A s \in Good[m - 1] : next[m][s] \in Good[m]
  <2> SUFFICES ASSUME NEW m \in 2 .. n, NEW s \in Good[m - 1] PROVE next[m][s] \in Good[m]
    OBVIOUS
  <2>1. m \in 1 .. n /\ m - 1 \in 1 .. n
    BY <1>1
  <2>2. s \in V
    BY <1>7, <2>1
  <2>3. next[m][s] = s \o ss[m]
    BY <2>1, <2>2
  <2>4. QED
    BY <1>6, <2>3
<1> HIDE DEF V
<1>9. PICK f : From(f, n, V, ss[1], next)
  <2> HIDE DEF next
  <2>1. Keeps(n, V, Good, ss[1], next)
    BY <1>1, <1>5, <1>7, <1>8 DEF Keeps
  <2>2. QED
    BY <2>1, GoesOn
<1>10. f \in [1 .. n -> V] /\ f[1] = ss[1] /\ \A m \in 2 .. n : f[m] = next[m][f[m - 1]]
  <2> HIDE DEF next
  <2>1. QED
    BY <1>9 DEF From
<1>11. f = [i \in 1 .. n |-> IF i = 1 THEN ss[i] ELSE f[i - 1] \o ss[i]]
  <2>1. ASSUME NEW i \in 1 .. n PROVE f[i] = IF i = 1 THEN ss[i] ELSE f[i - 1] \o ss[i]
    <3>1. CASE i = 1
      BY <1>1, <1>10, <3>1
    <3>2. CASE i # 1
      <4>1. i \in 2 .. n /\ i - 1 \in 1 .. n
        BY <1>1, <3>2
      <4>2. f[i - 1] \in V /\ f[i] = next[i][f[i - 1]]
        BY <1>10, <4>1
      <4>3. QED
        BY <3>2, <4>2
    <3>3. QED
      BY <3>1, <3>2
  <2>2. QED
    BY <1>10, <2>1
<1>12. flatten = [i \in 1 .. n |-> IF i = 1 THEN ss[i] ELSE flatten[i - 1] \o ss[i]]
  BY <1>11 DEF flatten
<1>13. flatten[1] \in Good[1]
  BY <1>1, <1>5, <1>12
<1>14. \A m \in 2 .. n : flatten[m - 1] \in Good[m - 1] => flatten[m] \in Good[m]
  <2> SUFFICES ASSUME NEW m \in 2 .. n, flatten[m - 1] \in Good[m - 1] PROVE flatten[m] \in Good[m]
    OBVIOUS
  <2>1. m \in 1 .. n /\ m # 1
    BY <1>1
  <2>2. flatten[m] = flatten[m - 1] \o ss[m]
    BY <1>12, <2>1
  <2>3. QED
    BY <1>6, <2>2
<1>15. \A m \in 1 .. n : flatten[m] \in Good[m]
  BY <1>1, <1>13, <1>14, PlaceByPlace
<1>16. flatten[n] \in Good[n]
  BY <1>1, <1>15
<1>17. flatten[n] \in V /\ Elements(flatten[n]) = upto(n) /\ (apart => Distinct(flatten[n]))
  <2> HIDE DEF upto, apart
  <2>1. QED
    BY <1>1, <1>16 DEF Good
<1>18. QED
  BY <1>3, <1>17 DEF V, Apart, IsFlat

(* Entries are of paths, and tell them apart. *)
LEMMA OfPaths ==
  ASSUME NEW N, NEW C, NEW S, IsLattice(S, N, C), NEW i \in 1 .. N, NEW K, NEW e \in Entries(S, C, i, K)
  PROVE  /\ e.places \in Ways(C, i, K) /\ e = PathEntry(S, e.places)
         /\ e.score = Joint!PathScore(S, e.places) /\ e.score \in Int
         /\ e.places[i] \in K
<1>1. PICK p \in Ways(C, i, K) : e = PathEntry(S, p)
  BY DEF Entries
<1>2. e.places = p /\ e.score = Joint!PathScore(S, p)
  BY <1>1 DEF PathEntry
<1>3. Joint!PathScore(S, p) \in Int
  BY TermsOf
<1>4. p[i] \in K
  BY DEF Ways
<1>5. QED
  BY <1>1, <1>2, <1>3, <1>4

(* The best two for each candidate are enough to go on with. *)
LEMMA FlatListed ==
  ASSUME NEW N, NEW C, NEW S, IsLattice(S, N, C), NEW i \in 1 .. N,
         NEW ss, DOMAIN ss = 1 .. C[i], ss = [k \in 1 .. C[i] |-> ss[k]],
         \A k \in 1 .. C[i] : TopTwo(S, C, i, {k}, ss[k])
  PROVE  Listed(S, C, i, 1 .. C[i], Joint!FlattenSeq(ss))
<1> DEFINE c == C[i]
           A == Entries(S, C, i, 1 .. c)
           flat == Joint!FlattenSeq(ss)
<1>1. c \in Nat \ {0} /\ 1 \in 1 .. c
  <2>1. c \in Nat \ {0}
    BY DEF IsLattice
  <2> HIDE DEF c
  <2>2. QED
    BY <2>1
<1>2. \A k \in 1 .. c : Entries(S, C, i, {k}) \subseteq A
  BY DEF Entries, Ways
<1>3. ASSUME NEW k \in 1 .. c
      PROVE  /\ ss[k] \in Seq(A) /\ Len(ss[k]) \in {1, 2} /\ DOMAIN ss[k] = 1 .. Len(ss[k])
             /\ \A e \in Elements(ss[k]) : e \in A /\ e.places[i] = k
             /\ Distinct(ss[k])
             /\ Len(ss[k]) = 2 => ss[k][1].score >= ss[k][2].score /\ ss[k][1].places # ss[k][2].places
             /\ \A q \in Ways(C, i, {k}) :
                  q = ss[k][1].places \/ (Len(ss[k]) = 2 /\ ss[k][2].score >= Joint!PathScore(S, q))
  <2> DEFINE t == ss[k]
             B == Entries(S, C, i, {k})
  <2>1. /\ t \in Seq(B) /\ Len(t) \in {1, 2}
        /\ Len(t) = 2 => t[1].score >= t[2].score /\ t[1].places # t[2].places
        /\ \A q \in Ways(C, i, {k}) : q = t[1].places \/ (Len(t) = 2 /\ t[2].score >= Joint!PathScore(S, q))
    BY DEF TopTwo
  <2>2. B \subseteq A
    BY <1>2
  <2>3. \A e \in B : e.places[i] = k
    BY OfPaths
  <2> HIDE DEF B, A, t
  <2>4. DOMAIN t = 1 .. Len(t) /\ \A m \in 1 .. Len(t) : t[m] \in B
    BY <2>1, LenProperties
  <2>5. t \in Seq(A)
    BY <2>1, <2>2
  <2>6. \A e \in Elements(t) : e \in A /\ e.places[i] = k
    BY <2>2, <2>3, <2>4 DEF Elements
  <2>7. Distinct(t)
    BY <2>1, <2>4 DEF Distinct
  <2>8. QED
    BY <2>1, <2>4, <2>5, <2>6, <2>7 DEF t
<1> HIDE DEF A
<1>4. /\ flat \in Seq(A) /\ Elements(flat) = UNION {Elements(ss[k]) : k \in 1 .. c}
      /\ Distinct(flat)
  <2>1. ss \in [1 .. c -> Seq(A)]
    BY <1>3
  <2>2. \A k \in 1 .. c : Distinct(ss[k])
    BY <1>3
  <2>3. ASSUME NEW k \in 1 .. c, NEW l \in 1 .. c, k # l, NEW x \in Elements(ss[k])
        PROVE  x \notin Elements(ss[l])
    <3>1. x.places[i] = k
      BY <1>3
    <3>2. x \in Elements(ss[l]) => x.places[i] = l
      BY <1>3
    <3>3. QED
      BY <2>3, <3>1, <3>2
  <2>4. Apart(ss, c)
    BY <2>2, <2>3 DEF Apart
  <2> HIDE DEF c
  <2>5. InARow(A, c, ss)
    BY <1>1, <2>1 DEF InARow
  <2>6. IsFlat(A, c, ss, flat)
    BY <2>5, Flat
  <2> HIDE DEF flat
  <2>7. QED
    BY <2>4, <2>6 DEF IsFlat
<1> HIDE DEF flat
<1>5. DOMAIN flat = 1 .. Len(flat) /\ Len(flat) \in Nat /\ \A m \in 1 .. Len(flat) : flat[m] \in A
  BY <1>4, LenProperties
<1>6. ASSUME NEW k \in 1 .. c, NEW m \in 1 .. Len(ss[k])
      PROVE  \E x \in 1 .. Len(flat) : flat[x] = ss[k][m]
  <2>1. ss[k][m] \in Elements(ss[k])
    BY <1>3 DEF Elements
  <2>2. ss[k][m] \in Elements(flat)
    BY <1>4, <2>1
  <2>3. QED
    BY <1>5, <2>2 DEF Elements
<1>7. Len(flat) > 0
  <2>1. 1 \in 1 .. Len(ss[1])
    <3>1. Len(ss[1]) \in {1, 2}
      BY <1>1, <1>3
    <3>2. QED
      BY <3>1
  <2>2. PICK x \in 1 .. Len(flat) : flat[x] = ss[1][1]
    BY <1>1, <1>6, <2>1
  <2>3. QED
    BY <1>5, <2>2
<1>8. \A m, l \in 1 .. Len(flat) : flat[m].places = flat[l].places => m = l
  <2> SUFFICES ASSUME NEW m \in 1 .. Len(flat), NEW l \in 1 .. Len(flat), flat[m].places = flat[l].places
               PROVE  m = l
    OBVIOUS
  <2>1. flat[m] = PathEntry(S, flat[m].places) /\ flat[l] = PathEntry(S, flat[l].places)
    <3>1. flat[m] \in Entries(S, C, i, 1 .. c) /\ flat[l] \in Entries(S, C, i, 1 .. c)
      BY <1>5 DEF A
    <3>2. QED
      BY <3>1, OfPaths
  <2>2. flat[m] = flat[l]
    BY <2>1
  <2>3. QED
    BY <1>4, <1>5, <2>2 DEF Distinct
<1>9. ASSUME NEW q \in Ways(C, i, 1 .. c)
      PROVE  \/ \E m \in 1 .. Len(flat) : flat[m].places = q
             \/ \E m, l \in 1 .. Len(flat) :
                  /\ m # l /\ flat[m].places[i] = q[i] /\ flat[l].places[i] = q[i]
                  /\ flat[m].score >= Joint!PathScore(S, q) /\ flat[l].score >= Joint!PathScore(S, q)
  <2> DEFINE k == q[i]
             t == ss[k]
  <2>1. k \in 1 .. c /\ q \in Ways(C, i, {k})
    BY DEF Ways
  <2> HIDE DEF k
  <2>2. /\ Len(t) \in {1, 2} /\ DOMAIN t = 1 .. Len(t)
        /\ \A e \in Elements(t) : e \in A /\ e.places[i] = k
        /\ Len(t) = 2 => t[1].score >= t[2].score /\ t[1].places # t[2].places
        /\ q = t[1].places \/ (Len(t) = 2 /\ t[2].score >= Joint!PathScore(S, q))
    BY <1>3, <2>1
  <2>3. \A m \in 1 .. Len(t) : \E x \in 1 .. Len(flat) : flat[x] = t[m]
    BY <1>6, <2>1
  <2> HIDE DEF t
  <2>4. CASE q = t[1].places
    <3>1. 1 \in 1 .. Len(t)
      BY <2>2
    <3>2. PICK x \in 1 .. Len(flat) : flat[x] = t[1]
      BY <2>3, <3>1
    <3>3. QED
      BY <2>4, <3>2
  <2>5. CASE Len(t) = 2 /\ t[2].score >= Joint!PathScore(S, q)
    <3>1. 1 \in 1 .. Len(t) /\ 2 \in 1 .. Len(t)
      BY <2>5
    <3>2. PICK x \in 1 .. Len(flat) : flat[x] = t[1]
      BY <2>3, <3>1
    <3>3. PICK y \in 1 .. Len(flat) : flat[y] = t[2]
      BY <2>3, <3>1
    <3>4. t[1] \in Elements(t) /\ t[2] \in Elements(t)
      BY <2>2, <3>1 DEF Elements
    <3>5. t[1].places[i] = k /\ t[2].places[i] = k
      BY <2>2, <3>4
    <3>6. t[1].score \in Int /\ t[2].score \in Int
      <4>1. t[1] \in Entries(S, C, i, 1 .. c) /\ t[2] \in Entries(S, C, i, 1 .. c)
        BY <2>2, <3>4 DEF A
      <4>2. QED
        BY <4>1, OfPaths
    <3>7. Joint!PathScore(S, q) \in Int
      BY TermsOf
    <3>8. t[1].score >= Joint!PathScore(S, q)
      BY <2>2, <2>5, <3>6, <3>7
    <3>9. x # y
      BY <2>2, <2>5, <3>2, <3>3
    <3>10. QED
      BY <2>5, <3>2, <3>3, <3>5, <3>8, <3>9 DEF k
  <2>6. QED
    BY <2>2, <2>4, <2>5
<1>10. QED
  BY <1>4, <1>7, <1>8, <1>9 DEF Listed, flat, A

(* And what is enough for one segment is for the next. *)
LEMMA ExtendedListed ==
  ASSUME NEW N, NEW C, NEW S, IsLattice(S, N, C), NEW i \in 1 .. N, i + 1 \in 1 .. N,
         NEW paths, Listed(S, C, i, 1 .. C[i], paths), NEW j \in 1 .. C[i + 1]
  PROVE  Listed(S, C, i + 1, {j}, Joint!Extend(paths, S[i + 1], j))
<1> DEFINE n == Len(paths)
           o == i + 1
           A == Entries(S, C, i, 1 .. C[i])
           B == Entries(S, C, o, {j})
           more == Joint!Extend(paths, S[o], j)
<1>1. paths \in Seq(A) /\ n \in Nat /\ n > 0 /\ DOMAIN paths = 1 .. n /\ \A m \in 1 .. n : paths[m] \in A
  <2>1. paths \in Seq(A) /\ Len(paths) > 0
    BY DEF Listed
  <2> HIDE DEF A
  <2>2. QED
    BY <2>1, LenProperties
<1>2. N \in Nat /\ i \in Nat /\ i >= 1 /\ o \in Nat /\ i \in 1 .. i
  BY DEF IsLattice
<1>3. ASSUME NEW p \in Ways(C, i, 1 .. C[i])
      PROVE  /\ Len(p) = i /\ p \in Seq(Nat)
             /\ Append(p, j) \in Ways(C, o, {j})
             /\ Joint!PathScore(S, Append(p, j)) = Joint!PathScore(S, p) + S[o][p[i]][j]
             /\ S[o][p[i]][j] \in Int
  <2>1. p \in [1 .. i -> Nat] /\ p[i] \in 1 .. C[i]
    BY DEF Ways
  <2>2. p \in Seq(Nat) /\ Len(p) = i
    BY <1>2, <2>1, IsSequence
  <2>3. /\ Append(p, j) \in Ways(C, o, {j})
        /\ Joint!PathScore(S, Append(p, j)) = Joint!PathScore(S, p) + S[o][p[i]][j]
    <3> DEFINE K == 1 .. C[i]
    <3>1. p \in Ways(C, i, K)
      OBVIOUS
    <3>2. Longer(S, C, i, p, j)
      <4> HIDE DEF K, n, o, A, B, more
      <4>1. QED
        BY <3>1, PathLonger
    <3>3. QED
      BY <3>2 DEF Longer
  <2>4. p[i] \in Rows(C, o)
    BY <1>2, <2>1 DEF Rows
  <2>5. S[o][p[i]] \in [1 .. C[o] -> Int]
    <3> HIDE DEF o
    <3>1. o \in 1 .. N
      BY DEF o
    <3>2. QED
      BY <2>4, <3>1 DEF IsLattice
  <2>6. QED
    BY <2>2, <2>3, <2>5
<1>4. ASSUME NEW m \in 1 .. n
      PROVE  /\ paths[m].places \in Ways(C, i, 1 .. C[i])
             /\ more[m] = PathEntry(S, Append(paths[m].places, j))
             /\ more[m].places = Append(paths[m].places, j)
             /\ more[m].score = paths[m].score + S[o][paths[m].places[i]][j]
             /\ paths[m].score = Joint!PathScore(S, paths[m].places) /\ paths[m].score \in Int
  <2> DEFINE p == paths[m].places
  <2>1. /\ p \in Ways(C, i, 1 .. C[i])
        /\ paths[m].score = Joint!PathScore(S, p) /\ paths[m].score \in Int
    BY <1>1, OfPaths
  <2>2. more[m] = [score |-> paths[m].score + S[o][p[Len(p)]][j], places |-> Append(p, j)]
    BY <1>1 DEF Joint!Extend
  <2> HIDE DEF p, more, o
  <2>3. /\ Len(p) = i
        /\ Joint!PathScore(S, Append(p, j)) = Joint!PathScore(S, p) + S[o][p[i]][j]
    BY <1>3, <2>1
  <2>4. more[m] = PathEntry(S, Append(p, j))
    BY <2>1, <2>2, <2>3 DEF PathEntry
  <2>5. QED
    BY <2>1, <2>2, <2>3, <2>4 DEF p
<1>5. DOMAIN more = 1 .. n
  BY <1>1 DEF Joint!Extend
<1> HIDE DEF A
<1>6. more \in Seq(B) /\ Len(more) = n
  <2>1. \A m \in 1 .. n : more[m] \in B
    BY <1>3, <1>4 DEF Entries
  <2>2. more = [m \in 1 .. n |-> more[m]]
    BY <1>5 DEF Joint!Extend
  <2> HIDE DEF more, B
  <2>3. more \in [1 .. n -> B]
    BY <2>1, <2>2
  <2>4. QED
    BY <1>1, <2>3, IsSequence
<1> HIDE DEF more, B
<1>7. \A m, l \in 1 .. n : more[m].places = more[l].places => m = l
  <2> SUFFICES ASSUME NEW m \in 1 .. n, NEW l \in 1 .. n, more[m].places = more[l].places PROVE m = l
    OBVIOUS
  <2> DEFINE p == paths[m].places
             q == paths[l].places
  <2>1. p \in Ways(C, i, 1 .. C[i]) /\ q \in Ways(C, i, 1 .. C[i]) /\ Append(p, j) = Append(q, j)
    BY <1>4
  <2>2. p \in [1 .. i -> Nat] /\ q \in [1 .. i -> Nat]
    BY <2>1 DEF Ways
  <2> HIDE DEF p, q
  <2>3. p \in Seq(Nat) /\ Len(p) = i /\ q \in Seq(Nat) /\ Len(q) = i
    BY <1>3, <2>1
  <2>4. \A x \in 1 .. i : Append(p, j)[x] = p[x] /\ Append(q, j)[x] = q[x]
    BY <2>3, AppendProperties
  <2>5. p = q
    <3>1. \A x \in 1 .. i : p[x] = q[x]
      BY <2>1, <2>4
    <3>2. QED
      BY <2>2, <3>1
  <2>6. QED
    BY <2>5 DEF p, q, Listed
<1>8. ASSUME NEW q \in Ways(C, o, {j})
      PROVE  \/ \E m \in 1 .. n : more[m].places = q
             \/ \E m, l \in 1 .. n :
                  /\ m # l /\ more[m].places[o] = q[o] /\ more[l].places[o] = q[o]
                  /\ more[m].score >= Joint!PathScore(S, q) /\ more[l].score >= Joint!PathScore(S, q)
  <2>1. q[o] = j
    BY DEF Ways
  <2>2. PICK p \in Ways(C, i, 1 .. C[i]) : q = Append(p, q[o]) /\ p[i] = q[i]
    BY PathShorter
  <2>3. q = Append(p, j)
    BY <2>1, <2>2
  <2>4. Joint!PathScore(S, q) = Joint!PathScore(S, p) + S[o][p[i]][j] /\ S[o][p[i]][j] \in Int
    BY <1>3, <2>3
  <2>5. Joint!PathScore(S, p) \in Int
    BY TermsOf
  <2> HIDE DEF o
  <2>6. CASE \E m \in 1 .. n : paths[m].places = p
    BY <1>4, <2>3, <2>6
  <2>7. ASSUME NEW m \in 1 .. n, paths[m].places[i] = p[i], paths[m].score >= Joint!PathScore(S, p)
        PROVE  more[m].places[o] = q[o] /\ more[m].score >= Joint!PathScore(S, q)
    <3>1. more[m].score = paths[m].score + S[o][p[i]][j] /\ paths[m].score \in Int
      BY <1>4, <2>7
    <3>2. more[m].score >= Joint!PathScore(S, q)
      BY <2>4, <2>5, <2>7, <3>1
    <3>3. more[m].places \in Ways(C, o, {j})
      BY <1>3, <1>4
    <3>4. more[m].places[o] = j
      BY <3>3 DEF Ways
    <3>5. QED
      BY <2>1, <3>2, <3>4
  <2>8. CASE \E m, l \in 1 .. n :
               /\ m # l /\ paths[m].places[i] = p[i] /\ paths[l].places[i] = p[i]
               /\ paths[m].score >= Joint!PathScore(S, p) /\ paths[l].score >= Joint!PathScore(S, p)
    BY <2>7, <2>8
  <2>9. QED
    BY <2>6, <2>8 DEF Listed
<1>9. QED
  BY <1>1, <1>6, <1>7, <1>8 DEF Listed, more, B

(* The first segment has one path to each candidate. *)
LEMMA FirstPaths ==
  ASSUME NEW N, NEW C, NEW S, IsLattice(S, N, C), NEW j \in 1 .. C[1]
  PROVE  TopTwo(S, C, 1, {j}, << [score |-> S[1][1][j], places |-> <<j>>] >>)
<1> DEFINE p == <<j>>
           f == Terms(S, p)
           e == [score |-> S[1][1][j], places |-> p]
<1>1. 1 \in 1 .. N /\ C[1] \in Nat
  BY DEF IsLattice
<1>2. j \in Nat
  BY <1>1
<1>3. p \in [1 .. 1 -> Nat] /\ p[1] = j /\ DOMAIN p = {1}
  BY <1>2
<1>4. p \in Ways(C, 1, {j})
  <2> HIDE DEF p
  <2>1. \A m \in 1 .. 1 : m = 1
    OBVIOUS
  <2>2. QED
    BY <1>3, <2>1 DEF Ways
<1>5. /\ \A m \in 1 .. 1 : f[m] \in Int
      /\ Joint!PathScore(S, p) = SumFunctionOnSet(f, 1 .. 1)
  <2> DEFINE g == Terms(S, p)
  <2>1. g = f
    OBVIOUS
  <2> HIDE DEF p, f, g
  <2>2. /\ DOMAIN Terms(S, p) = 1 .. 1
        /\ \A m \in 1 .. 1 : Terms(S, p)[m] \in Int
        /\ Joint!PathScore(S, p) = SumFunctionOnSet(Terms(S, p), 1 .. 1)
        /\ Joint!PathScore(S, p) \in Int
    BY <1>1, <1>4, TermsOf
  <2>3. QED
    BY <2>1, <2>2 DEF g
<1>6. f[1] = S[1][1][j]
  BY <1>3 DEF Terms
<1> HIDE DEF f
<1>7. SumFunctionOnSet(f, 1 .. 1) = f[1] + SumFunctionOnSet(f, {})
  <2>1. IsFiniteSet(1 .. 1)
    <3>1. 1 .. 1 = {1}
      OBVIOUS
    <3>2. IsFiniteSet({1})
      BY FS_Singleton
    <3>3. QED
      BY <3>1, <3>2
  <2>2. 1 \in 1 .. 1 /\ (1 .. 1) \ {1} = {}
    OBVIOUS
  <2>3. SumFunctionOnSet(f, 1 .. 1) = f[1] + SumFunctionOnSet(f, (1 .. 1) \ {1})
    BY <1>5, <2>1, <2>2, SumTakes
  <2>4. QED
    BY <2>2, <2>3
<1>8. SumFunctionOnSet(f, {}) = 0
  <2>1. IsFiniteSet({})
    BY FS_EmptySet
  <2>2. QED
    BY <2>1, SumCases
<1>9. Joint!PathScore(S, p) = S[1][1][j]
  <2>1. f[1] \in Int
    BY <1>5
  <2>2. QED
    BY <1>5, <1>6, <1>7, <1>8, <2>1
<1>10. e \in Entries(S, C, 1, {j}) /\ e.places = p
  BY <1>4, <1>9 DEF Entries, PathEntry
<1>11. \A q \in Ways(C, 1, {j}) : q = p
  <2> SUFFICES ASSUME NEW q \in Ways(C, 1, {j}) PROVE q = p
    OBVIOUS
  <2>1. q \in [1 .. 1 -> Nat] /\ q[1] = j
    BY DEF Ways
  <2> HIDE DEF p
  <2>2. \A m \in 1 .. 1 : q[m] = p[m]
    BY <1>3, <2>1
  <2>3. QED
    BY <1>3, <2>1, <2>2
<1> DEFINE E == Entries(S, C, 1, {j})
<1> HIDE DEF E, e, p
<1>12. <<e>> \in Seq(E) /\ Len(<<e>>) = 1 /\ <<e>>[1] = e
  BY <1>10 DEF E
<1>13. TopTwo(S, C, 1, {j}, <<e>>)
  BY <1>10, <1>11, <1>12 DEF TopTwo, E
<1>14. QED
  BY <1>13 DEF e, p

(* What the search keeps of segment i: the best two paths to each candidate. *)
Survived(S, C, i) ==
  {ss \in [1 .. C[i] -> Seq(Entries(S, C, i, 1 .. C[i]))] : \A k \in 1 .. C[i] : TopTwo(S, C, i, {k}, ss[k])}

OneSegment(S, C) == [j \in 1 .. C[1] |-> << [score |-> S[1][1][j], places |-> <<j>>] >>]

LEMMA TopTwoWider ==
  ASSUME NEW S, NEW C, NEW i, NEW k \in 1 .. C[i], NEW t, TopTwo(S, C, i, {k}, t)
  PROVE  t \in Seq(Entries(S, C, i, 1 .. C[i]))
<1> DEFINE A == Entries(S, C, i, {k})
           B == Entries(S, C, i, 1 .. C[i])
<1>1. A \subseteq B
  BY DEF Entries, Ways
<1>2. t \in Seq(A)
  BY DEF TopTwo
<1> HIDE DEF A, B
<1>3. t \in Seq(B)
  BY <1>1, <1>2
<1>4. QED
  BY <1>3 DEF B

LEMMA KeptFirst ==
  ASSUME NEW N, NEW C, NEW S, IsLattice(S, N, C)
  PROVE  OneSegment(S, C) \in Survived(S, C, 1)
<1> DEFINE c == C[1]
           A == Entries(S, C, 1, 1 .. c)
           ss == OneSegment(S, C)
<1>1. \A k \in 1 .. c : ss[k] = << [score |-> S[1][1][k], places |-> <<k>>] >>
  BY DEF OneSegment
<1>2. ASSUME NEW k \in 1 .. c PROVE TopTwo(S, C, 1, {k}, ss[k])
  <2> DEFINE t == << [score |-> S[1][1][k], places |-> <<k>>] >>
  <2>1. TopTwo(S, C, 1, {k}, t)
    BY FirstPaths
  <2>2. ss[k] = t
    BY <1>1
  <2> HIDE DEF t, ss
  <2>3. QED
    BY <2>1, <2>2
<1>3. \A k \in 1 .. c : ss[k] \in Seq(A)
  BY <1>2, TopTwoWider
<1>4. ss = [k \in 1 .. c |-> ss[k]]
  BY DEF OneSegment
<1> HIDE DEF ss, A
<1>5. ss \in [1 .. c -> Seq(A)]
  BY <1>3, <1>4
<1>6. QED
  BY <1>2, <1>5 DEF Survived, A, ss

LEMMA KeptNext ==
  ASSUME NEW N, NEW C, NEW S, IsLattice(S, N, C), NEW i \in 1 .. N, i + 1 \in 1 .. N,
         NEW ss \in Survived(S, C, i)
  PROVE  [j \in 1 .. C[i + 1] |-> Joint!Survivors(Joint!Extend(Joint!FlattenSeq(ss), S[i + 1], j))]
           \in Survived(S, C, i + 1)
<1> DEFINE c == C[i]
           o == i + 1
           d == C[o]
           A == Entries(S, C, i, 1 .. c)
           B == Entries(S, C, o, 1 .. d)
           flat == Joint!FlattenSeq(ss)
           tt == [j \in 1 .. d |-> Joint!Survivors(Joint!Extend(flat, S[o], j))]
<1>1. ss \in [1 .. c -> Seq(A)] /\ \A k \in 1 .. c : TopTwo(S, C, i, {k}, ss[k])
  BY DEF Survived
<1>2. Listed(S, C, i, 1 .. c, flat)
  <2>1. DOMAIN ss = 1 .. c /\ ss = [k \in 1 .. c |-> ss[k]]
    BY <1>1
  <2> HIDE DEF A
  <2>2. QED
    BY <1>1, <2>1, FlatListed
<1> HIDE DEF flat
<1>3. o \in 1 .. N
  OBVIOUS
<1>4. ASSUME NEW j \in 1 .. d
      PROVE  TopTwo(S, C, o, {j}, tt[j])
  <2> DEFINE more == Joint!Extend(flat, S[o], j)
  <2>1. Listed(S, C, o, {j}, more)
    BY <1>2, ExtendedListed
  <2>2. tt[j] = Joint!BestTwo(more)
    BY DEF Joint!Survivors
  <2> HIDE DEF more, tt, o
  <2>3. QED
    BY <1>3, <2>1, <2>2, BestTwoOfThem
<1>5. tt = [j \in 1 .. d |-> tt[j]]
  OBVIOUS
<1> HIDE DEF tt, o
<1>6. \A j \in 1 .. d : tt[j] \in Seq(B)
  BY <1>4, TopTwoWider
<1>7. tt \in [1 .. d -> Seq(B)]
  <2> HIDE DEF B, d
  <2>1. QED
    BY <1>5, <1>6
<1>8. tt \in Survived(S, C, o)
  BY <1>4, <1>7 DEF Survived
<1>9. QED
  BY <1>8 DEF tt, o, flat

(* States, after the last segment. *)
LEMMA StatesKept ==
  ASSUME NEW N, NEW C, NEW S, IsLattice(S, N, C)
  PROVE  Joint!States(S) \in Survived(S, C, N)
<1> DEFINE V == UNION {Survived(S, C, i) : i \in 1 .. N}
           Good == [i \in 1 .. N |-> Survived(S, C, i)]
           step(i, v) == [j \in 1 .. C[i] |-> Joint!Survivors(Joint!Extend(Joint!FlattenSeq(v), S[i], j))]
           next == [i \in 1 .. N |-> [v \in V |-> step(i, v)]]
           first == OneSegment(S, C)
           States_ == CHOOSE f :
             f = [i \in DOMAIN S |->
                    [j \in DOMAIN S[i][1] |->
                       IF i = 1 THEN << [score |-> S[1][1][j], places |-> <<j>>] >>
                       ELSE Joint!Survivors(Joint!Extend(Joint!FlattenSeq(f[i - 1]), S[i], j))]]
<1>1. /\ N \in Nat /\ N >= 1 /\ 1 \in 1 .. N /\ N \in 1 .. N /\ DOMAIN S = 1 .. N /\ Len(S) = N
      /\ \A i \in 1 .. N : DOMAIN S[i][1] = 1 .. C[i]
  <2>1. N \in Nat \ {0} /\ DOMAIN S = 1 .. N /\ Len(S) = N /\ C \in [1 .. N -> Nat \ {0}]
    BY DEF IsLattice
  <2>2. ASSUME NEW i \in 1 .. N PROVE S[i][1] \in [1 .. C[i] -> Int]
    <3>1. 1 \in Rows(C, i)
      <4>1. CASE i = 1
        BY <4>1 DEF Rows
      <4>2. CASE i # 1
        <5>1. i - 1 \in 1 .. N
          BY <2>1, <4>2
        <5>2. C[i - 1] \in Nat \ {0}
          BY <2>1, <5>1
        <5>3. 1 \in 1 .. C[i - 1]
          BY <5>2
        <5>4. QED
          BY <4>2, <5>3 DEF Rows
      <4>3. QED
        BY <4>1, <4>2
    <3>2. QED
      BY <3>1 DEF IsLattice
  <2>3. QED
    BY <2>1, <2>2
<1>2. Joint!States(S) = States_[N]
  BY <1>1 DEF Joint!States
<1> HIDE DEF States_, first
<1>3. first \in Good[1]
  BY <1>1, KeptFirst DEF first
<1>4. ASSUME NEW m \in 2 .. N, NEW s \in Good[m - 1]
      PROVE  step(m, s) \in Good[m]
  <2> DEFINE i == m - 1
  <2>1. i \in 1 .. N /\ i + 1 = m /\ m \in 1 .. N
    BY <1>1
  <2>2. s \in Survived(S, C, i)
    BY <1>4, <2>1
  <2> HIDE DEF i
  <2>3. step(i + 1, s) \in Survived(S, C, i + 1)
    BY <2>1, <2>2, KeptNext
  <2> HIDE DEF step
  <2>4. QED
    BY <2>1, <2>3
<1>5. \A m \in 1 .. N : Good[m] \subseteq V
  OBVIOUS
<1> HIDE DEF Good, V, step
<1>6. \A m \in 2 .. N : \A s \in Good[m - 1] : next[m][s] \in Good[m]
  <2> SUFFICES ASSUME NEW m \in 2 .. N, NEW s \in Good[m - 1] PROVE next[m][s] \in Good[m]
    OBVIOUS
  <2>1. m \in 1 .. N /\ m - 1 \in 1 .. N
    BY <1>1
  <2>2. s \in V
    BY <1>5, <2>1
  <2>3. next[m][s] = step(m, s)
    BY <2>1, <2>2
  <2>4. QED
    BY <1>4, <2>3
<1>7. PICK f : From(f, N, V, first, next)
  <2> HIDE DEF next
  <2>1. Keeps(N, V, Good, first, next)
    BY <1>1, <1>3, <1>5, <1>6 DEF Keeps
  <2>2. QED
    BY <2>1, GoesOn
<1>8. f \in [1 .. N -> V] /\ f[1] = first /\ \A m \in 2 .. N : f[m] = next[m][f[m - 1]]
  <2> HIDE DEF next
  <2>1. QED
    BY <1>7 DEF From
<1> DEFINE body(g, i) == [j \in DOMAIN S[i][1] |->
                            IF i = 1 THEN << [score |-> S[1][1][j], places |-> <<j>>] >>
                            ELSE Joint!Survivors(Joint!Extend(Joint!FlattenSeq(g[i - 1]), S[i], j))]
<1>9. ASSUME NEW g PROVE body(g, 1) = first
  BY <1>1 DEF first, OneSegment
<1>10. ASSUME NEW g, NEW i \in 2 .. N PROVE body(g, i) = step(i, g[i - 1])
  <2>1. i # 1 /\ DOMAIN S[i][1] = 1 .. C[i]
    BY <1>1
  <2>2. QED
    BY <2>1 DEF step
<1>11. ASSUME NEW i \in 1 .. N PROVE f[i] = body(f, i)
  <2>1. CASE i = 1
    BY <1>8, <1>9, <2>1
  <2>2. CASE i # 1
    <3>1. i \in 2 .. N /\ i - 1 \in 1 .. N
      BY <1>1, <2>2
    <3>2. f[i - 1] \in V /\ f[i] = next[i][f[i - 1]]
      BY <1>8, <3>1
    <3> HIDE DEF body
    <3>3. body(f, i) = step(i, f[i - 1])
      BY <1>10, <3>1
    <3>4. next[i][f[i - 1]] = step(i, f[i - 1])
      BY <3>2
    <3>5. QED
      BY <3>2, <3>3, <3>4
  <2>3. QED
    BY <2>1, <2>2
<1>12. f = [i \in DOMAIN S |-> body(f, i)]
  <2> HIDE DEF body
  <2>1. f = [i \in 1 .. N |-> f[i]]
    BY <1>8
  <2>2. QED
    BY <1>1, <1>11, <2>1
<1>13. States_ = [i \in DOMAIN S |-> body(States_, i)]
  BY <1>12 DEF States_
<1> HIDE DEF body
<1>14. \A i \in 1 .. N : States_[i] = body(States_, i)
  BY <1>1, <1>13
<1>15. States_[1] \in Good[1]
  BY <1>1, <1>3, <1>9, <1>14
<1>16. \A m \in 2 .. N : States_[m - 1] \in Good[m - 1] => States_[m] \in Good[m]
  <2> SUFFICES ASSUME NEW m \in 2 .. N, States_[m - 1] \in Good[m - 1] PROVE States_[m] \in Good[m]
    OBVIOUS
  <2>1. m \in 1 .. N
    BY <1>1
  <2>2. States_[m] = step(m, States_[m - 1])
    BY <1>10, <1>14, <2>1
  <2>3. QED
    BY <1>4, <2>2
<1>17. \A m \in 1 .. N : States_[m] \in Good[m]
  BY <1>1, <1>15, <1>16, PlaceByPlace
<1>18. QED
  BY <1>1, <1>2, <1>17 DEF Good

(* The search finds the best two of all the paths there are. *)
LEMMA RankedBest ==
  ASSUME NEW N, NEW C, NEW S, IsLattice(S, N, C)
  PROVE  TopTwo(S, C, N, 1 .. C[N], Joint!RankedPaths(S))
<1> DEFINE c == C[N]
           A == Entries(S, C, N, 1 .. c)
           ss == Joint!States(S)
           flat == Joint!FlattenSeq(ss)
<1>1. N \in 1 .. N
  BY DEF IsLattice
<1>2. ss \in [1 .. c -> Seq(A)] /\ \A k \in 1 .. c : TopTwo(S, C, N, {k}, ss[k])
  BY StatesKept DEF Survived
<1> HIDE DEF ss
<1>3. DOMAIN ss = 1 .. c /\ ss = [k \in 1 .. c |-> ss[k]]
  BY <1>2
<1> HIDE DEF A
<1>4. Listed(S, C, N, 1 .. c, flat)
  BY <1>1, <1>2, <1>3, FlatListed
<1> HIDE DEF flat
<1>5. TopTwo(S, C, N, 1 .. c, Joint!BestTwo(flat))
  BY <1>1, <1>4, BestTwoOfThem
<1>6. QED
  BY <1>5 DEF flat, ss, Joint!RankedPaths

AllWays(C, N) == Ways(C, N, 1 .. C[N])
FirstOfEach(N) == [i \in 1 .. N |-> 1]

(* Mozc's first candidates are a path, and its score is the baseline. *)
LEMMA Baseline ==
  ASSUME NEW N, NEW C, NEW S, IsLattice(S, N, C)
  PROVE  /\ FirstOfEach(N) \in AllWays(C, N)
         /\ Joint!BaselineScore(S) = Joint!PathScore(S, FirstOfEach(N))
<1> DEFINE mozc == FirstOfEach(N)
           f == Terms(S, mozc)
           g == [i \in DOMAIN S |-> S[i][1][1]]
<1>1. N \in Nat \ {0} /\ C \in [1 .. N -> Nat \ {0}] /\ DOMAIN S = 1 .. N
  BY DEF IsLattice
<1>2. mozc \in [1 .. N -> Nat] /\ \A i \in 1 .. N : mozc[i] = 1
  BY DEF FirstOfEach
<1>3. \A i \in 1 .. N : 1 \in 1 .. C[i]
  BY <1>1
<1>4. N \in 1 .. N
  BY <1>1
<1> HIDE DEF mozc
<1>5. mozc \in AllWays(C, N)
  BY <1>2, <1>3, <1>4 DEF AllWays, Ways
<1>6. Joint!PathScore(S, mozc) = Joint!SumFunction(f)
  BY DEF Joint!PathScore, Terms
<1>7. Joint!BaselineScore(S) = Joint!SumFunction(g)
  BY DEF Joint!BaselineScore
<1>8. f = g
  <2>1. \A i \in 1 .. N : i = 1 \/ i - 1 \in 1 .. N
    BY <1>1
  <2>2. \A i \in 1 .. N : (IF i = 1 THEN 1 ELSE mozc[i - 1]) = 1 /\ mozc[i] = 1
    BY <1>2, <2>1
  <2>3. DOMAIN mozc = 1 .. N
    BY <1>2
  <2>4. \A i \in 1 .. N : S[i][IF i = 1 THEN 1 ELSE mozc[i - 1]][mozc[i]] = S[i][1][1]
    BY <2>2
  <2>5. QED
    BY <1>1, <2>3, <2>4 DEF Terms
<1>9. QED
  BY <1>5, <1>6, <1>7, <1>8 DEF mozc

(* A path that beats Mozc's by 0.55 and every other by 0.30. *)
Dominates(S, C, N, p) ==
  /\ N > 1
  /\ Joint!PathScore(S, p) >= Joint!PathScore(S, FirstOfEach(N)) + 55
  /\ \A q \in AllWays(C, N) \ {p} : Joint!PathScore(S, p) >= Joint!PathScore(S, q) + 30

(* There is one exactly when the two margins of the search hold, and it is the search's best. *)
LEMMA SafeIffDominates ==
  ASSUME NEW N, NEW C, NEW S, IsLattice(S, N, C)
  PROVE  LET best == Joint!RankedPaths(S)[1].places IN
         /\ best \in AllWays(C, N)
         /\ Joint!joint_safe(S) => Dominates(S, C, N, best)
         /\ \A p \in AllWays(C, N) : Dominates(S, C, N, p) => Joint!joint_safe(S) /\ p = best
<1> DEFINE t == Joint!RankedPaths(S)
           W == AllWays(C, N)
           E == Entries(S, C, N, 1 .. C[N])
           score(p) == Joint!PathScore(S, p)
           best == t[1].places
           mozc == FirstOfEach(N)
<1>1. /\ t \in Seq(E) /\ Len(t) \in {1, 2}
      /\ Len(t) = 2 => t[1].score >= t[2].score /\ t[1].places # t[2].places
      /\ \A q \in W : q = t[1].places \/ (Len(t) = 2 /\ t[2].score >= score(q))
  BY RankedBest DEF TopTwo, AllWays
<1>2. N \in Nat /\ N \in 1 .. N /\ Len(S) = N
  <2>1. N \in Nat \ {0} /\ Len(S) = N
    BY DEF IsLattice
  <2>2. QED
    BY <2>1
<1>3. mozc \in W /\ Joint!BaselineScore(S) = score(mozc)
  BY Baseline
<1>4. \A p \in W : score(p) \in Int
  BY <1>2, TermsOf DEF AllWays
<1>5. Joint!joint_safe(S) <=> /\ N > 1 /\ t[1].score - score(mozc) >= 55
                              /\ Len(t) = 1 \/ t[1].score - t[2].score >= 30
  <2>1. Joint!joint_safe(S) <=> /\ Len(S) > 1 /\ t[1].score - Joint!BaselineScore(S) >= Joint!MIN_PATH_GAIN
                                /\ Len(t) = 1 \/ t[1].score - t[2].score >= Joint!MIN_PATH_MARGIN
    BY DEF Joint!joint_safe
  <2> HIDE DEF t, mozc, score
  <2>2. QED
    BY <1>2, <1>3, <2>1 DEF Joint!MIN_PATH_GAIN, Joint!MIN_PATH_MARGIN
<1>6. \A e \in E : e.places \in W /\ e.score = score(e.places) /\ e.score \in Int
  BY <1>2, OfPaths DEF AllWays
<1> HIDE DEF t, E, mozc, score, W
<1>7. t[1] \in E /\ (Len(t) = 2 => t[2] \in E)
  <2>1. 1 \in 1 .. Len(t) /\ (Len(t) = 2 => 2 \in 1 .. Len(t))
    BY <1>1
  <2>2. \A m \in 1 .. Len(t) : t[m] \in E
    BY <1>1, LenProperties
  <2>3. QED
    BY <2>1, <2>2
<1>8. /\ best \in W /\ t[1].score = score(best) /\ score(best) \in Int
      /\ Len(t) = 2 => /\ t[2].places \in W /\ t[2].score = score(t[2].places) /\ t[2].score \in Int
                       /\ best # t[2].places /\ score(best) >= t[2].score
  BY <1>1, <1>6, <1>7
<1>9. score(mozc) \in Int
  BY <1>3, <1>4
<1> HIDE DEF best
<1>10. \A q \in W : q = best \/ (Len(t) = 2 /\ t[2].score >= score(q))
  BY <1>1 DEF best
<1> DEFINE Dom(p) == /\ N > 1 /\ score(p) >= score(mozc) + 55
                     /\ \A q \in W \ {p} : score(p) >= score(q) + 30
<1>11. ASSUME Joint!joint_safe(S) PROVE Dom(best)
  <2>1. N > 1 /\ score(best) >= score(mozc) + 55
    BY <1>5, <1>8, <1>9, <1>11
  <2>2. ASSUME NEW q \in W, q # best PROVE score(best) >= score(q) + 30
    <3>1. Len(t) = 2 /\ t[2].score >= score(q)
      BY <1>10, <2>2
    <3>2. t[2].score \in Int /\ score(q) \in Int
      BY <1>4, <1>8, <3>1
    <3>3. score(best) - t[2].score >= 30
      BY <1>5, <1>8, <1>11, <3>1
    <3>4. QED
      BY <1>8, <3>1, <3>2, <3>3
  <2>3. QED
    BY <2>1, <2>2
<1>12. ASSUME NEW p \in W, Dom(p) PROVE Joint!joint_safe(S) /\ p = best
  <2>1. p = best
    <3> SUFFICES ASSUME p # best PROVE FALSE
      OBVIOUS
    <3>1. score(p) >= score(best) + 30 /\ score(p) \in Int
      BY <1>4, <1>8, <1>12
    <3>2. Len(t) = 2 /\ t[2].score >= score(p)
      BY <1>10
    <3>3. QED
      BY <1>8, <3>1, <3>2
  <2>2. N > 1 /\ score(best) - score(mozc) >= 55
    BY <1>8, <1>9, <1>12, <2>1
  <2>3. Len(t) = 1 \/ score(best) - t[2].score >= 30
    <3>1. CASE Len(t) = 2
      <4>1. score(best) >= score(t[2].places) + 30
        BY <1>8, <1>12, <2>1, <3>1
      <4>2. QED
        BY <1>8, <3>1, <4>1
    <3>2. QED
      BY <1>1, <3>1
  <2>4. QED
    BY <1>5, <1>8, <2>1, <2>2, <2>3
<1>13. QED
  BY <1>8, <1>11, <1>12 DEF Dominates, best, t, W, mozc, score

(* Where no context counts, no path is better than Mozc's. *)
LEMMA NoneDominates ==
  ASSUME NEW N, NEW C, NEW S, IsLattice(S, N, C),
         \A i \in 1 .. N : \A k \in Rows(C, i) : \A j \in 1 .. C[i] : S[i][k][j] = -100 * (j - 1),
         NEW p \in AllWays(C, N)
  PROVE  ~Dominates(S, C, N, p)
<1> DEFINE mozc == FirstOfEach(N)
           f == Terms(S, p)
           g == Terms(S, mozc)
<1>1. N \in Nat /\ N \in 1 .. N /\ IsFiniteSet(1 .. N) /\ C \in [1 .. N -> Nat \ {0}]
  <2>1. N \in Nat \ {0} /\ C \in [1 .. N -> Nat \ {0}]
    BY DEF IsLattice
  <2>2. 1 \in Int /\ N \in Int /\ N \in 1 .. N
    BY <2>1
  <2>3. QED
    BY <2>1, <2>2, FS_Interval
<1>2. ASSUME NEW q \in AllWays(C, N)
      PROVE  /\ Joint!PathScore(S, q) = SumFunctionOnSet(Terms(S, q), 1 .. N)
             /\ \A i \in 1 .. N : Terms(S, q)[i] \in Int /\ Terms(S, q)[i] = -100 * (q[i] - 1) /\ q[i] \in Nat /\ q[i] >= 1
  <2>1. q \in Ways(C, N, 1 .. C[N])
    BY DEF AllWays
  <2>2. /\ Joint!PathScore(S, q) = SumFunctionOnSet(Terms(S, q), 1 .. N)
        /\ \A i \in 1 .. N : Terms(S, q)[i] \in Int
    BY <1>1, <2>1, TermsOf
  <2>3. DOMAIN q = 1 .. N /\ \A i \in 1 .. N : q[i] \in 1 .. C[i]
    BY DEF AllWays, Ways
  <2>4. ASSUME NEW i \in 1 .. N PROVE Terms(S, q)[i] = -100 * (q[i] - 1) /\ q[i] \in Nat /\ q[i] >= 1
    <3> DEFINE k == IF i = 1 THEN 1 ELSE q[i - 1]
    <3>1. Terms(S, q)[i] = S[i][k][q[i]]
      BY <2>3 DEF Terms
    <3>2. k \in Rows(C, i)
      <4>1. CASE i = 1
        BY <4>1 DEF Rows
      <4>2. CASE i # 1
        <5>1. i - 1 \in 1 .. N
          BY <1>1, <4>2
        <5>2. QED
          BY <2>3, <4>2, <5>1 DEF Rows
      <4>3. QED
        BY <4>1, <4>2
    <3> HIDE DEF k
    <3>3. q[i] \in 1 .. C[i]
      BY <2>3
    <3>4. S[i][k][q[i]] = -100 * (q[i] - 1)
      BY <3>2, <3>3
    <3>5. C[i] \in Nat
      BY <1>1
    <3>6. QED
      BY <3>1, <3>3, <3>4, <3>5
  <2>5. QED
    BY <2>2, <2>4
<1>3. mozc \in AllWays(C, N)
  BY Baseline
<1>4. \A i \in 1 .. N : mozc[i] = 1
  BY DEF FirstOfEach
<1>5. /\ Joint!PathScore(S, p) = SumFunctionOnSet(f, 1 .. N)
      /\ Joint!PathScore(S, mozc) = SumFunctionOnSet(g, 1 .. N)
      /\ \A i \in 1 .. N : f[i] \in Int /\ g[i] \in Int /\ f[i] <= g[i]
  <2>1. /\ Joint!PathScore(S, p) = SumFunctionOnSet(f, 1 .. N)
        /\ \A i \in 1 .. N : f[i] \in Int /\ f[i] = -100 * (p[i] - 1) /\ p[i] \in Nat /\ p[i] >= 1
    BY <1>2
  <2>2. /\ Joint!PathScore(S, mozc) = SumFunctionOnSet(g, 1 .. N)
        /\ \A i \in 1 .. N : g[i] \in Int /\ g[i] = -100 * (mozc[i] - 1)
    BY <1>2, <1>3
  <2> HIDE DEF f, g, mozc
  <2>3. \A i \in 1 .. N : f[i] <= 0 /\ g[i] = 0
    BY <1>4, <2>1, <2>2
  <2>4. QED
    BY <2>1, <2>2, <2>3
<1> HIDE DEF f, g, mozc
<1>6. PICK one \in Int : one = 1
  OBVIOUS
<1>7. \A i \in 1 .. N : one * f[i] <= one * g[i]
  BY <1>5, <1>6
<1>8. one * SumFunctionOnSet(f, 1 .. N) <= one * SumFunctionOnSet(g, 1 .. N)
  BY <1>1, <1>5, <1>6, <1>7, SumCompared
<1>9. SumFunctionOnSet(f, 1 .. N) \in Int /\ SumFunctionOnSet(g, 1 .. N) \in Int
  BY <1>1, <1>5, SumTakes
<1>10. Joint!PathScore(S, p) <= Joint!PathScore(S, mozc) /\ Joint!PathScore(S, p) \in Int
       /\ Joint!PathScore(S, mozc) \in Int
  BY <1>5, <1>6, <1>8, <1>9
<1>11. QED
  BY <1>10 DEF Dominates, mozc

(* The first of the best is the first of the order. *)
LEMMA FirstBestIs ==
  ASSUME NEW n \in Nat \ {0}, NEW score \in [1 .. n -> Int]
  PROVE  Joint!FirstBest(score) = Joint!Descending(score)[1] /\ Joint!FirstBest(score) \in 1 .. n
<1> DEFINE d == Ranking!Descending(score)
           First(j) == \A k \in 1 .. n : score[k] < score[j] \/ (score[k] = score[j] /\ j <= k)
<1>1. n \in Nat /\ 1 \in 1 .. n /\ DOMAIN score = 1 .. n
  OBVIOUS
<1>2. /\ d \in [1 .. n -> 1 .. n]
      /\ \A i \in 1 .. n : \E k \in 1 .. n : d[k] = i
      /\ \A k, l \in 1 .. n : k < l => Precedes(score, d[k], d[l])
  BY <1>1, SortedHere DEF IsOrder
<1> HIDE DEF d
<1>3. d[1] \in 1 .. n
  BY <1>1, <1>2
<1>4. First(d[1])
  <2> SUFFICES ASSUME NEW i \in 1 .. n PROVE score[i] < score[d[1]] \/ (score[i] = score[d[1]] /\ d[1] <= i)
    OBVIOUS
  <2>1. PICK k \in 1 .. n : d[k] = i
    BY <1>2
  <2>2. score[i] \in Int /\ score[d[1]] \in Int
    BY <1>3
  <2>3. CASE k = 1
    BY <1>3, <2>1, <2>3
  <2>4. CASE k # 1
    <3>1. 1 < k
      BY <1>1, <2>4
    <3>2. Precedes(score, d[1], i)
      BY <1>1, <1>2, <2>1, <3>1
    <3>3. QED
      BY <1>3, <2>2, <3>2 DEF Precedes
  <2>5. QED
    BY <2>3, <2>4
<1>5. \A i, j \in 1 .. n : First(i) /\ First(j) => i = j
  <2> SUFFICES ASSUME NEW i \in 1 .. n, NEW j \in 1 .. n, First(i), First(j) PROVE i = j
    OBVIOUS
  <2>1. score[i] \in Int /\ score[j] \in Int
    OBVIOUS
  <2>2. score[j] < score[i] \/ (score[j] = score[i] /\ i <= j)
    OBVIOUS
  <2>3. score[i] < score[j] \/ (score[i] = score[j] /\ j <= i)
    OBVIOUS
  <2>4. QED
    BY <2>1, <2>2, <2>3
<1>6. Joint!FirstBest(score) = CHOOSE j \in 1 .. n : First(j)
  BY <1>1 DEF Joint!FirstBest
<1> HIDE DEF First
<1>7. Joint!FirstBest(score) = d[1]
  BY <1>3, <1>4, <1>5, <1>6
<1>8. QED
  BY <1>3, <1>7, JointDescending DEF d

(* Without a context the first place is the best. *)
LEMMA FirstOfWeak ==
  ASSUME NEW n \in Nat \ {0}
  PROVE  Joint!FirstBest([j \in 1 .. n |-> -100 * (j - 1)]) = 1
<1> DEFINE score == [j \in 1 .. n |-> -100 * (j - 1)]
           First(j) == \A k \in 1 .. n : score[k] < score[j] \/ (score[k] = score[j] /\ j <= k)
<1>1. 1 \in 1 .. n /\ DOMAIN score = 1 .. n /\ \A j \in 1 .. n : score[j] = -100 * (j - 1) /\ j \in Nat /\ j >= 1
  OBVIOUS
<1>2. Joint!FirstBest(score) = CHOOSE j \in 1 .. n : First(j)
  BY <1>1 DEF Joint!FirstBest
<1> HIDE DEF score
<1>3. First(1)
  BY <1>1
<1>4. \A j \in 1 .. n : First(j) => j = 1
  <2> SUFFICES ASSUME NEW j \in 1 .. n, First(j) PROVE j = 1
    OBVIOUS
  <2>1. score[1] < score[j] \/ (score[1] = score[j] /\ j <= 1)
    BY <1>1
  <2>2. QED
    BY <1>1, <2>1
<1> HIDE DEF First
<1>5. QED
  BY <1>1, <1>2, <1>3, <1>4 DEF score

(* Replacing the first candidate by itself leaves a text as it is. *)
LEMMA Unreplaced ==
  ASSUME NEW previous, NEW current, current.preceding \in Text, previous.candidates[1] \in Text
  PROVE  Joint!_alternative_prefix(previous, current, previous.candidates[1]) = current.preceding
<1> DEFINE text == current.preceding
           original == previous.candidates[1]
           at == Joint!LastAt(text, original)
           n == Len(text)
           m == Len(original)
           trailing == n - at - m
           result == SubSeq(text, 1, at) \o original \o Joint!Suffix(text, trailing)
<1>1. Joint!_alternative_prefix(previous, current, original) = result
        \/ Joint!_alternative_prefix(previous, current, original) = text
  BY DEF Joint!_alternative_prefix
<1>2. Joint!_alternative_prefix(previous, current, original) = text \/ at >= 0
  BY DEF Joint!_alternative_prefix
<1>3. n \in Nat /\ m \in Nat /\ text \in Seq(STRING) /\ original \in Seq(STRING)
  BY DEF Text
<1> HIDE DEF text, original
<1>4. ASSUME at >= 0
      PROVE  at \in 0 .. n - m /\ SubSeq(text, at + 1, at + m) = original
  <2> DEFINE P == {i \in 0 .. n - m : SubSeq(text, i + 1, i + m) = original}
             T == {-1} \cup P
  <2>1. at = Joint!Max(T)
    BY DEF Joint!LastAt
  <2>2. \A x \in P : x \in 0 .. n - m /\ SubSeq(text, x + 1, x + m) = original
    OBVIOUS
  <2>3. \E x \in T : \A y \in T : x >= y
    <3>1. CASE P = {}
      <4>1. T = {-1}
        BY <3>1
      <4>2. \A y \in {-1} : -1 >= y
        OBVIOUS
      <4>3. QED
        BY <4>1, <4>2
    <3>2. CASE P # {}
      <4>1. P \subseteq 0 .. n
        BY <1>3
      <4> DEFINE x == CHOOSE x \in P : \A y \in P : x >= y
      <4> HIDE DEF P
      <4>2. x \in P /\ \A y \in P : x >= y
        BY <1>3, <3>2, <4>1, Greatest
      <4> HIDE DEF x
      <4>3. x >= -1
        BY <1>3, <4>1, <4>2
      <4>4. QED
        BY <4>2, <4>3
    <3>3. QED
      BY <3>1, <3>2
  <2> HIDE DEF T
  <2>4. Joint!Max(T) \in T
    BY <2>3 DEF Joint!Max
  <2> HIDE DEF at
  <2>5. at \in T /\ at # -1
    BY <1>4, <2>1, <2>4
  <2> HIDE DEF P
  <2>6. at \in P
    BY <2>5 DEF T
  <2>7. QED
    BY <2>2, <2>6
<1> HIDE DEF at
<1>5. ASSUME at >= 0 PROVE result = text
  <2> DEFINE left == SubSeq(text, 1, at)
             right == SubSeq(text, at + m + 1, n)
  <2>1. at \in Nat /\ at + m <= n /\ at \in Int /\ SubSeq(text, at + 1, at + m) = original
    BY <1>3, <1>4, <1>5
  <2>2. \A i \in 1 .. n : text[i] \in STRING
    BY <1>3
  <2>3. left \in Seq(STRING) /\ Len(left) = at /\ \A i \in 1 .. at : left[i] = text[i]
    <3>1. \A i \in 1 .. at : text[i] \in STRING
      BY <1>3, <2>1, <2>2
    <3>2. /\ left \in Seq(STRING) /\ Len(left) = (IF 1 <= at THEN at - 1 + 1 ELSE 0)
          /\ \A i \in 1 .. at - 1 + 1 : left[i] = text[1 + i - 1]
      BY <2>1, <3>1, SubSeqProperties
    <3> HIDE DEF left
    <3>3. \A i \in 1 .. at : i \in 1 .. at - 1 + 1 /\ 1 + i - 1 = i
      BY <2>1
    <3>4. QED
      BY <2>1, <3>2, <3>3
  <2>4. \A i \in 1 .. m : original[i] = text[at + i]
    <3> DEFINE u == SubSeq(text, at + 1, at + m)
    <3>1. \A i \in at + 1 .. at + m : text[i] \in STRING
      BY <1>3, <2>1, <2>2
    <3>2. at + 1 \in Int /\ at + m \in Int
      BY <1>3, <2>1
    <3>3. \A i \in 1 .. (at + m) - (at + 1) + 1 : u[i] = text[(at + 1) + i - 1]
      BY <3>1, <3>2, SubSeqProperties
    <3>4. \A i \in 1 .. m : i \in 1 .. (at + m) - (at + 1) + 1 /\ (at + 1) + i - 1 = at + i
      BY <1>3, <2>1
    <3> HIDE DEF u
    <3>5. \A i \in 1 .. m : u[i] = text[at + i]
      BY <3>3, <3>4
    <3>6. QED
      BY <2>1, <3>5 DEF u
  <2>5. Joint!Suffix(text, trailing) = right
    <3>1. n - trailing + 1 = at + m + 1
      BY <1>3, <2>1
    <3> HIDE DEF trailing
    <3>2. QED
      BY <3>1 DEF Joint!Suffix
  <2>6. right \in Seq(STRING) /\ Len(right) = n - (at + m) /\ \A i \in 1 .. n - (at + m) : right[i] = text[at + m + i]
    <3> DEFINE k == at + m + 1
    <3>1. \A i \in k .. n : text[i] \in STRING
      BY <1>3, <2>1, <2>2
    <3>2. k \in Int /\ n \in Int /\ k <= n + 1
      BY <1>3, <2>1
    <3>3. k = at + m + 1
      OBVIOUS
    <3> HIDE DEF k
    <3>4. /\ SubSeq(text, k, n) \in Seq(STRING)
          /\ Len(SubSeq(text, k, n)) = (IF k <= n THEN n - k + 1 ELSE 0)
          /\ \A i \in 1 .. n - k + 1 : SubSeq(text, k, n)[i] = text[k + i - 1]
      BY <3>1, <3>2, SubSeqProperties
    <3>5. right = SubSeq(text, k, n)
      BY <3>3
    <3> HIDE DEF right
    <3>6. Len(right) = n - (at + m)
      BY <1>3, <2>1, <3>2, <3>3, <3>4, <3>5
    <3>7. \A i \in 1 .. n - (at + m) : i \in 1 .. n - k + 1 /\ k + i - 1 = at + m + i
      BY <1>3, <2>1, <3>3
    <3>8. \A i \in 1 .. n - (at + m) : right[i] = text[at + m + i]
      BY <3>4, <3>5, <3>7
    <3>9. QED
      BY <3>4, <3>5, <3>6, <3>8
  <2> DEFINE a == left \o original
             b == a \o right
  <2> HIDE DEF left, right
  <2>7. /\ a \in Seq(STRING) /\ Len(a) = at + m
        /\ \A i \in 1 .. at + m : a[i] = text[i]
    <3>1. /\ a \in Seq(STRING) /\ Len(a) = at + m
          /\ \A i \in 1 .. at + m : a[i] = IF i <= at THEN left[i] ELSE original[i - at]
      BY <1>3, <2>3, ConcatProperties
    <3> HIDE DEF a
    <3>2. \A i \in 1 .. at + m : i \in 1 .. at \/ (~(i <= at) /\ i - at \in 1 .. m /\ at + (i - at) = i)
      BY <1>3, <2>1
    <3>3. ASSUME NEW i \in 1 .. at + m PROVE a[i] = text[i]
      <4>1. CASE i \in 1 .. at
        <5>1. a[i] = left[i]
          BY <2>1, <3>1, <4>1
        <5>2. QED
          BY <2>3, <4>1, <5>1
      <4>2. CASE ~(i <= at) /\ i - at \in 1 .. m /\ at + (i - at) = i
        <5>1. a[i] = original[i - at]
          BY <3>1, <4>2
        <5>2. original[i - at] = text[at + (i - at)]
          BY <2>4, <4>2
        <5>3. QED
          BY <4>2, <5>1, <5>2
      <4>3. QED
        BY <3>2, <4>1, <4>2
    <3>4. QED
      BY <3>1, <3>3
  <2> HIDE DEF a
  <2>8. b \in Seq(STRING) /\ Len(b) = n /\ \A i \in 1 .. n : b[i] = text[i]
    <3> DEFINE c == at + m
    <3>0. c \in Nat /\ c <= n /\ Len(a) = c /\ Len(right) = n - c
      BY <1>3, <2>1, <2>6, <2>7
    <3>1. /\ b \in Seq(STRING) /\ Len(b) = c + (n - c)
          /\ \A i \in 1 .. c + (n - c) : b[i] = IF i <= c THEN a[i] ELSE right[i - c]
      <4>1. a \in Seq(STRING) /\ right \in Seq(STRING)
        BY <2>6, <2>7
      <4>2. /\ b \in Seq(STRING) /\ Len(b) = Len(a) + Len(right)
            /\ \A i \in 1 .. Len(a) + Len(right) : b[i] = IF i <= Len(a) THEN a[i] ELSE right[i - Len(a)]
        BY <4>1, ConcatProperties
      <4> HIDE DEF b, c
      <4>3. QED
        BY <3>0, <4>2
    <3>2. \A i \in 1 .. c : a[i] = text[i]
      BY <2>7
    <3>3. \A i \in 1 .. n - c : right[i] = text[c + i]
      BY <2>6
    <3> HIDE DEF b, c
    <3>4. c + (n - c) = n
      BY <1>3, <3>0
    <3>5. \A i \in 1 .. n : i \in 1 .. c \/ (~(i <= c) /\ i - c \in 1 .. n - c /\ c + (i - c) = i)
      BY <1>3, <3>0
    <3>6. QED
      BY <3>0, <3>1, <3>2, <3>3, <3>4, <3>5
  <2>9. b = text
    <3> HIDE DEF b
    <3>1. QED
      BY <1>3, <2>8, SeqEqual
  <2>10. QED
    BY <2>5, <2>9 DEF a, b, left
<1>6. QED
  BY <1>1, <1>2, <1>5 DEF text, original

(* What the score of a candidate is made of are numbers. *)
LEMMA JointBonusIsInt ==
  ASSUME NEW prefix, NEW suffix, NEW text
  PROVE  Joint!contextual_candidate_bonus(prefix, suffix, text) \in Int
<1>1. Joint!contextual_candidate_bonus(prefix, suffix, text)
        = Ranking!contextual_candidate_bonus(prefix, suffix, text)
  BY DEF Joint!contextual_candidate_bonus, Ranking!contextual_candidate_bonus,
         Joint!SelectInSeq, Ranking!SelectInSeq, Joint!Stripped, Ranking!Stripped,
         Joint!Occurs, Ranking!Occurs, Joint!IsSuffix, Ranking!IsSuffix,
         Joint!IsPrefix, Ranking!IsPrefix, Joint!Reverse, Ranking!Reverse, Joint!Min, Ranking!Min
<1>2. QED
  BY <1>1, BonusIsInt

LEMMA RulesSum ==
  ASSUME NEW rules \in {ParticleRules, TopicRules}, NEW those, those \subseteq rules
  PROVE  Joint!SumFunction([r \in those |-> r.bonus]) \in Int
<1> DEFINE f == [r \in those |-> r.bonus]
<1>1. DOMAIN f = those /\ IsFiniteSet(rules) /\ \A r \in those : f[r] = r.bonus /\ r.bonus \in Int
  BY JointAssumption
<1>2. IsFiniteSet(those)
  BY <1>1, FS_Subset
<1> HIDE DEF f
<1>3. SumFunctionOnSet(f, those) \in Int
  BY <1>1, <1>2, SumTakes
<1>4. Joint!SumFunction(f) \in Int
  BY <1>1, <1>3, JointSum
<1>5. QED
  BY <1>4 DEF f

LEMMA GrammarIsInt ==
  ASSUME NEW prefix, NEW word
  PROVE  Joint!compute_grammatical_particle_bonus(prefix, word) \in Int
<1> DEFINE p == Joint!Stripped_(prefix)
           ends(rule)  == \E x \in rule.particles : Joint!IsSuffix(x, p)
                            \/ \E c \in Commas : Joint!IsSuffix(Append(x, c), p)
           about(rule) == \E x \in rule.topics : Joint!Occurs(p, x)
           P == {x \in ParticleRules : ends(x) /\ word \in x.words}
           T == {x \in TopicRules : about(x) /\ word \in x.words}
           f == [r \in P |-> r.bonus]
           g == [r \in T |-> r.bonus]
<1>1. Joint!compute_grammatical_particle_bonus(prefix, word) =
        IF p = <<>> \/ word = <<>> THEN 0 ELSE Joint!SumFunction(f) + Joint!SumFunction(g)
  BY DEF Joint!compute_grammatical_particle_bonus
<1> HIDE DEF ends, about, p
<1>2. P \subseteq ParticleRules /\ T \subseteq TopicRules
  OBVIOUS
<1> HIDE DEF P, T
<1>3. Joint!SumFunction(f) \in Int
  BY <1>2, RulesSum
<1>4. Joint!SumFunction(g) \in Int
  BY <1>2, RulesSum
<1> HIDE DEF f, g
<1>5. QED
  BY <1>1, <1>3, <1>4

LEMMA KeptLength ==
  ASSUME NEW s \in Text, NEW those
  PROVE  Len(Joint!Kept(s, those)) \in Nat
<1>1. Joint!Kept(s, those) = Kept(s, those)
  BY DEF Kept, Joint!Kept
<1>2. Kept(s, those) \in Seq(STRING \cap those)
  BY KeptOnly DEF Text
<1>3. QED
  BY <1>1, <1>2, LenProperties

LEMMA MoraIsInt ==
  ASSUME NEW word \in Text, NEW reading_ \in Text
  PROVE  Joint!compute_length_and_mora_penalty(word, reading_) \in Int
<1> DEFINE mora == Joint!estimate_mora_length(reading_)
           kanji == Len(Joint!Kept(word, Kanji))
           expected == Joint!Max({1, (mora + 1) \div 2})
           n == Len(word)
<1>1. mora \in Nat
  BY KeptLength DEF Joint!estimate_mora_length
<1>2. kanji \in Nat
  BY KeptLength
<1>3. n \in Nat
  BY LenProperties DEF Text
<1>4. Joint!compute_length_and_mora_penalty(word, reading_) =
        IF reading_ = <<>> \/ word = <<>> THEN 0
        ELSE (IF kanji > expected + 1 THEN 25 * (kanji - expected) ELSE 0)
           + (IF n > mora + 2 THEN 20 * (n - mora - 1) ELSE 0)
  BY DEF Joint!compute_length_and_mora_penalty
<1> HIDE DEF mora, kanji, n
<1>5. expected \in Int
  <2> DEFINE h == (mora + 1) \div 2
             M == {1, h}
  <2>1. h \in Int
    BY <1>1
  <2> HIDE DEF h
  <2>2. \E x \in M : \A y \in M : x >= y
    <3>1. h >= 1 \/ 1 >= h
      BY <2>1
    <3>2. QED
      BY <2>1, <3>1
  <2>3. M \subseteq Int
    BY <2>1
  <2> HIDE DEF M
  <2>4. Joint!Max(M) \in M
    BY <2>2 DEF Joint!Max
  <2>5. QED
    BY <2>3, <2>4 DEF M, h
<1> HIDE DEF expected
<1>6. QED
  BY <1>1, <1>2, <1>3, <1>4, <1>5

LEMMA ScoreIsInt ==
  ASSUME NEW prefix, NEW segment, segment.candidates \in Seq(Text), segment.candidates # <<>>,
         segment.reading \in Text, NEW cosine,
         \A j \in DOMAIN segment.candidates : cosine[<<prefix, segment.candidates[j]>>] \in Int
  PROVE  /\ Len(segment.candidates) \in Nat \ {0}
         /\ Joint!_score_segment_candidates(prefix, segment, cosine) \in [1 .. Len(segment.candidates) -> Int]
<1> DEFINE words == segment.candidates
           n == Len(words)
           A(j) == 2 * cosine[<<prefix, words[j]>>]
           B(j) == Joint!compute_grammatical_particle_bonus(prefix, words[j])
           D(j) == IF lexical_grounding
                   THEN Joint!contextual_candidate_bonus(prefix, segment.following, words[j]) ELSE 0
           E(j) == Joint!compute_length_and_mora_penalty(words[j], segment.reading)
           F(j) == Joint!reading_identity_penalty(words[j], segment.reading, words)
           G(j) == (4 * (n - j)) \div n
<1>1. n \in Nat \ {0} /\ DOMAIN words = 1 .. n /\ \A j \in 1 .. n : words[j] \in Text
  <2> HIDE DEF words
  <2>1. words \in Seq(Text) /\ words # <<>>
    BY DEF words
  <2>2. QED
    BY <2>1, LenProperties
<1>2. \A j \in 1 .. n : A(j) \in Int
  <2>1. \A j \in 1 .. n : cosine[<<prefix, words[j]>>] \in Int
    BY <1>1
  <2>2. \A x \in Int : 2 * x \in Int
    OBVIOUS
  <2>3. QED
    BY <2>1, <2>2
<1>3. \A j \in 1 .. n : B(j) \in Int
  BY GrammarIsInt
<1>4. \A j \in 1 .. n : D(j) \in Int
  BY JointBonusIsInt
<1>5. \A j \in 1 .. n : E(j) \in Int
  BY <1>1, MoraIsInt
<1>6. \A j \in 1 .. n : F(j) \in Int
  BY DEF Joint!reading_identity_penalty
<1>7. \A j \in 1 .. n : G(j) \in Int
  <2>1. n \in Nat \ {0}
    BY <1>1
  <2> HIDE DEF n
  <2>2. \A j \in 1 .. n : 4 * (n - j) \in Int
    BY <2>1
  <2>3. \A x \in Int : x \div n \in Int
    BY <2>1
  <2>4. QED
    BY <2>2, <2>3
<1>8. Joint!_score_segment_candidates(prefix, segment, cosine) =
        [j \in 1 .. n |-> A(j) + B(j) + D(j) - E(j) - F(j) + G(j)]
  BY <1>1 DEF Joint!_score_segment_candidates
<1> HIDE DEF A, B, D, E, F, G, n, words
<1>9. \A j \in 1 .. n : A(j) + B(j) + D(j) - E(j) - F(j) + G(j) \in Int
  BY <1>2, <1>3, <1>4, <1>5, <1>6, <1>7
<1>10. QED
  BY <1>1, <1>8, <1>9 DEF n, words

(* Segments as they are sent. *)
AreSegments(segs, N) ==
  /\ N \in Nat \ {0} /\ DOMAIN segs = 1 .. N /\ Len(segs) = N
  /\ \A i \in 1 .. N : /\ segs[i].preceding \in Text /\ segs[i].reading \in Text
                       /\ segs[i].candidates \in Seq(Text) /\ segs[i].candidates # <<>>

Counts(segs) == [i \in DOMAIN segs |-> Len(segs[i].candidates)]

LEMMA Sizes ==
  ASSUME NEW N, NEW segs, AreSegments(segs, N)
  PROVE  /\ Counts(segs) \in [1 .. N -> Nat \ {0}]
         /\ \A i \in 1 .. N : /\ DOMAIN segs[i].candidates = 1 .. Counts(segs)[i]
                              /\ Counts(segs)[i] = Len(segs[i].candidates)
                              /\ \A k \in 1 .. Counts(segs)[i] : segs[i].candidates[k] \in Text
<1>1. DOMAIN segs = 1 .. N
  BY DEF AreSegments
<1>2. ASSUME NEW i \in 1 .. N
      PROVE  /\ Len(segs[i].candidates) \in Nat \ {0}
             /\ DOMAIN segs[i].candidates = 1 .. Len(segs[i].candidates)
             /\ \A k \in 1 .. Len(segs[i].candidates) : segs[i].candidates[k] \in Text
  <2> DEFINE words == segs[i].candidates
  <2>1. words \in Seq(Text) /\ words # <<>>
    BY DEF AreSegments
  <2> HIDE DEF words
  <2>2. Len(words) \in Nat \ {0} /\ DOMAIN words = 1 .. Len(words) /\ \A k \in 1 .. Len(words) : words[k] \in Text
    BY <2>1, LenProperties
  <2>3. QED
    BY <2>2 DEF words
<1>3. QED
  BY <1>1, <1>2 DEF Counts

(* The contexts of a segment: one for each candidate of the segment before, *)
(* and for Mozc's own the segment's safe context.                           *)
LEMMA ContextRows ==
  ASSUME NEW N, NEW segs, AreSegments(segs, N)
  PROVE  LET rows == Joint!_context_plan(segs) IN
         /\ DOMAIN rows = 1 .. N
         /\ \A i \in 1 .. N : /\ DOMAIN rows[i] = Rows(Counts(segs), i)
                              /\ 1 \in DOMAIN rows[i]
                              /\ rows[i][1] = Joint!select_safe_local_context(segs[i].preceding)
<1> DEFINE rows == Joint!_context_plan(segs)
           C == Counts(segs)
           safe(i) == Joint!select_safe_local_context(segs[i].preceding)
           other(i, k) == Joint!select_safe_local_context(
                            Joint!_alternative_prefix(segs[i - 1], segs[i], segs[i - 1].candidates[k]))
<1>1. N \in Nat \ {0} /\ DOMAIN segs = 1 .. N
  BY DEF AreSegments
<1>2. rows = [i \in 1 .. N |-> IF i = 1 THEN <<safe(1)>>
                               ELSE [k \in DOMAIN segs[i - 1].candidates |-> other(i, k)]]
  BY <1>1 DEF Joint!_context_plan
<1>3. ASSUME NEW i \in 1 .. N, i # 1
      PROVE  /\ i - 1 \in 1 .. N /\ DOMAIN segs[i - 1].candidates = 1 .. C[i - 1]
             /\ C[i - 1] \in Nat \ {0} /\ 1 \in 1 .. C[i - 1]
             /\ other(i, 1) = safe(i)
  <2>1. i - 1 \in 1 .. N
    BY <1>1, <1>3
  <2>2. C[i - 1] \in Nat \ {0} /\ DOMAIN segs[i - 1].candidates = 1 .. C[i - 1]
    <3> DEFINE m == i - 1
    <3>1. m \in 1 .. N
      BY <2>1
    <3>2. C \in [1 .. N -> Nat \ {0}] /\ \A l \in 1 .. N : DOMAIN segs[l].candidates = 1 .. C[l]
      BY Sizes
    <3> HIDE DEF m, C
    <3>3. C[m] \in Nat \ {0} /\ DOMAIN segs[m].candidates = 1 .. C[m]
      BY <3>1, <3>2
    <3>4. QED
      BY <3>3 DEF m
  <2>3. 1 \in 1 .. C[i - 1]
    BY <2>2
  <2>4. segs[i - 1].candidates[1] \in Text
    BY <2>1, <2>3, Sizes
  <2>5. segs[i].preceding \in Text
    BY DEF AreSegments
  <2>6. Joint!_alternative_prefix(segs[i - 1], segs[i], segs[i - 1].candidates[1]) = segs[i].preceding
    BY <2>4, <2>5, Unreplaced
  <2>7. QED
    BY <2>1, <2>2, <2>3, <2>6
<1> HIDE DEF rows, C, safe, other
<1>4. ASSUME NEW i \in 1 .. N
      PROVE  DOMAIN rows[i] = Rows(C, i) /\ 1 \in DOMAIN rows[i] /\ rows[i][1] = safe(i)
  <2>1. CASE i = 1
    <3>1. rows[i] = <<safe(1)>>
      BY <1>2, <2>1
    <3>2. DOMAIN rows[i] = 1 .. 1 /\ rows[i][1] = safe(1)
      BY <3>1
    <3>3. QED
      BY <2>1, <3>2 DEF Rows
  <2>2. CASE i # 1
    <3>1. rows[i] = [k \in DOMAIN segs[i - 1].candidates |-> other(i, k)]
      BY <1>2, <2>2
    <3>2. QED
      BY <1>3, <2>2, <3>1 DEF Rows
  <2>3. QED
    BY <2>1, <2>2
<1>5. DOMAIN rows = 1 .. N
  BY <1>2
<1>6. QED
  BY <1>4, <1>5 DEF rows, C, safe

WeakScores(n) == [j \in 1 .. n |-> -100 * (j - 1)]

(* The scores are those of a lattice; after Mozc's own candidate they are    *)
(* those of the segment by itself.                                          *)
LEMMA ScoresLattice ==
  ASSUME NEW N, NEW segs, AreSegments(segs, N), NEW cosine \in [Joint!Compared(segs) -> Similarities]
  PROVE  LET S == Joint!Lattice(segs, cosine)
             C == Counts(segs)
             rows == Joint!_context_plan(segs)
         IN  /\ IsLattice(S, N, C)
             /\ \A i \in 1 .. N : \A k \in Rows(C, i) :
                  S[i][k] = IF Joint!FewSigns(rows[i][k]) THEN WeakScores(C[i])
                            ELSE Joint!_score_segment_candidates(rows[i][k], segs[i], cosine)
<1> DEFINE S == Joint!Lattice(segs, cosine)
           C == Counts(segs)
           rows == Joint!_context_plan(segs)
           words(i) == segs[i].candidates
           score(i, k) == Joint!_score_segment_candidates(rows[i][k], segs[i], cosine)
           few(i, k) == Joint!FewSigns(rows[i][k])
<1>1. N \in Nat \ {0} /\ DOMAIN segs = 1 .. N
  BY DEF AreSegments
<1>2. C \in [1 .. N -> Nat \ {0}] /\ \A i \in 1 .. N : DOMAIN words(i) = 1 .. C[i] /\ C[i] = Len(words(i))
  BY Sizes
<1>3. DOMAIN rows = 1 .. N /\ \A i \in 1 .. N : DOMAIN rows[i] = Rows(C, i)
  BY ContextRows
<1>4. S = [i \in 1 .. N |-> [k \in DOMAIN rows[i] |->
             IF few(i, k) THEN [j \in DOMAIN words(i) |-> -100 * (j - 1)] ELSE score(i, k)]]
  BY <1>1 DEF Joint!Lattice
<1>5. ASSUME NEW i \in 1 .. N, NEW k \in DOMAIN rows[i], ~few(i, k)
      PROVE  score(i, k) \in [1 .. C[i] -> Int]
  <2> DEFINE c == rows[i][k]
  <2>1. ASSUME NEW j \in DOMAIN words(i) PROVE cosine[<<c, words(i)[j]>>] \in Int
    <3> DEFINE R == Joint!ToSet(rows[i]) \ {x \in Joint!ToSet(rows[i]) : Joint!FewSigns(x)}
               T == Joint!ToSet(words(i))
    <3>1. c \in R
      BY <1>5 DEF Joint!ToSet
    <3>2. words(i)[j] \in T
      BY DEF Joint!ToSet
    <3>3. R \X T \subseteq Joint!Compared(segs)
      BY <1>1 DEF Joint!Compared
    <3> HIDE DEF R, T, c, words
    <3>4. <<c, words(i)[j]>> \in Joint!Compared(segs)
      BY <3>1, <3>2, <3>3
    <3>5. cosine[<<c, words(i)[j]>>] \in Similarities
      BY <3>4
    <3>6. QED
      BY <3>5, JointAssumption
  <2>2. segs[i].candidates \in Seq(Text) /\ segs[i].candidates # <<>> /\ segs[i].reading \in Text
    BY DEF AreSegments
  <2> HIDE DEF c
  <2>3. Joint!_score_segment_candidates(c, segs[i], cosine) \in [1 .. Len(segs[i].candidates) -> Int]
    BY <2>1, <2>2, ScoreIsInt
  <2>4. QED
    BY <1>2, <2>3 DEF c
<1> HIDE DEF rows, C, words, score, few, S
<1>6. ASSUME NEW i \in 1 .. N, NEW k \in Rows(C, i)
      PROVE  S[i][k] = (IF few(i, k) THEN WeakScores(C[i]) ELSE score(i, k)) /\ S[i][k] \in [1 .. C[i] -> Int]
  <2>1. k \in DOMAIN rows[i] /\ DOMAIN words(i) = 1 .. C[i] /\ C[i] \in Nat
    BY <1>2, <1>3
  <2>2. S[i][k] = IF few(i, k) THEN [j \in DOMAIN words(i) |-> -100 * (j - 1)] ELSE score(i, k)
    BY <1>4, <2>1
  <2>3. [j \in DOMAIN words(i) |-> -100 * (j - 1)] = WeakScores(C[i])
    BY <2>1 DEF WeakScores
  <2>4. WeakScores(C[i]) \in [1 .. C[i] -> Int]
    BY <2>1 DEF WeakScores
  <2>5. QED
    BY <1>5, <2>1, <2>2, <2>3, <2>4
<1>7. S \in Seq({S[i] : i \in 1 .. N}) /\ Len(S) = N /\ DOMAIN S = 1 .. N
  <2>1. S \in [1 .. N -> {S[i] : i \in 1 .. N}]
    BY <1>4
  <2>2. N \in Nat
    BY <1>1
  <2>3. QED
    BY <2>1, <2>2, IsSequence
<1>8. IsLattice(S, N, C)
  BY <1>1, <1>2, <1>6, <1>7 DEF IsLattice
<1>9. QED
  BY <1>6, <1>8 DEF S, C, rows, few, score

(* What is sent of a batch. *)
LEMMA SentAre ==
  ASSUME NEW text \in Text, NEW parts \in Batches
  PROVE  LET segs == Joint!Sent(text, parts) IN
         /\ AreSegments(segs, Len(parts))
         /\ DOMAIN parts = 1 .. Len(parts)
         /\ \A i \in 1 .. Len(parts) : segs[i].candidates = parts[i].candidates
<1> DEFINE N == Len(parts)
           P == [place : Nat, gap : Text, reading : Text, candidates : Seq(Text) \ {<<>>}]
           segs == Joint!Sent(text, parts)
           piece(i) == parts[i].gap \o parts[i].candidates[1]
           earlier(i) == Joint!FlattenSeq([n \in 1 .. i - 1 |-> piece(n)])
           preceding(i) == text \o earlier(i) \o parts[i].gap
<1>1. parts \in Seq(P) /\ parts # <<>>
  BY JointAssumption
<1>2. \A x \in P : /\ x.gap \in Text /\ x.reading \in Text /\ x.candidates \in Seq(Text)
                   /\ x.candidates # <<>> /\ x.candidates[1] \in Text
  <2> SUFFICES ASSUME NEW x \in P PROVE x.candidates[1] \in Text
    OBVIOUS
  <2> DEFINE c == x.candidates
  <2>1. c \in Seq(Text) /\ c # <<>>
    OBVIOUS
  <2> HIDE DEF c
  <2>2. 1 \in 1 .. Len(c)
    BY <2>1
  <2>3. c[1] \in Text
    BY <2>1, <2>2
  <2>4. QED
    BY <2>3 DEF c
<1> HIDE DEF P
<1>3. N \in Nat \ {0} /\ DOMAIN parts = 1 .. N /\ \A i \in 1 .. N : parts[i] \in P
  BY <1>1, LenProperties
<1>4. segs = [i \in 1 .. N |-> [place |-> parts[i].place, reading |-> parts[i].reading,
                                candidates |-> parts[i].candidates, preceding |-> preceding(i),
                                following |-> <<>>]]
  BY <1>3 DEF Joint!Sent
<1>5. \A a, b \in Text : a \o b \in Text
  BY DEF Text
<1>6. \A i \in 1 .. N : piece(i) \in Text
  <2> SUFFICES ASSUME NEW i \in 1 .. N PROVE piece(i) \in Text
    OBVIOUS
  <2>1. parts[i].gap \in Text /\ parts[i].candidates[1] \in Text
    BY <1>2, <1>3
  <2>2. QED
    BY <1>5, <2>1
<1> HIDE DEF piece, N
<1>7. ASSUME NEW i \in 1 .. N PROVE earlier(i) \in Text
  <2> DEFINE m == i - 1
             ss == [n \in 1 .. m |-> piece(n)]
  <2>1. m \in Nat /\ \A n \in 1 .. m : n \in 1 .. N
    BY <1>3
  <2> HIDE DEF m
  <2>2. ss \in [1 .. m -> Text]
    BY <1>6, <2>1
  <2>3. earlier(i) = Joint!FlattenSeq(ss)
    BY DEF m
  <2> HIDE DEF ss
  <2>4. CASE m = 0
    <3>1. ss \in Seq(STRING) /\ Len(ss) = 0
      <4>1. ss \in [1 .. 0 -> STRING]
        BY <2>2, <2>4
      <4>2. QED
        BY <4>1, IsSequence
    <3>2. Joint!FlattenSeq(ss) = ss
      BY <3>1 DEF Joint!FlattenSeq
    <3>3. QED
      BY <2>3, <3>1, <3>2 DEF Text
  <2>5. CASE m # 0
    <3>1. InARow(STRING, m, ss)
      BY <2>1, <2>2, <2>5 DEF InARow, Text
    <3>2. IsFlat(STRING, m, ss, Joint!FlattenSeq(ss))
      BY <3>1, Flat
    <3>3. QED
      BY <2>3, <3>2 DEF IsFlat, Text
  <2>6. QED
    BY <2>4, <2>5
<1> HIDE DEF earlier
<1>8. ASSUME NEW i \in 1 .. N PROVE preceding(i) \in Text
  <2>1. earlier(i) \in Text /\ parts[i].gap \in Text
    BY <1>2, <1>3, <1>7
  <2>2. QED
    BY <1>5, <2>1
<1> HIDE DEF preceding, segs
<1>9. DOMAIN segs = 1 .. N /\ Len(segs) = N
  <2>1. segs \in [1 .. N -> {segs[i] : i \in 1 .. N}]
    BY <1>4
  <2>2. N \in Nat
    BY <1>3
  <2>3. QED
    BY <2>1, <2>2, IsSequence
<1>10. ASSUME NEW i \in 1 .. N
       PROVE  /\ segs[i].preceding \in Text /\ segs[i].reading \in Text
              /\ segs[i].candidates = parts[i].candidates
              /\ segs[i].candidates \in Seq(Text) /\ segs[i].candidates # <<>>
  <2>1. /\ segs[i].preceding = preceding(i) /\ segs[i].reading = parts[i].reading
        /\ segs[i].candidates = parts[i].candidates
    BY <1>4
  <2>2. QED
    BY <1>2, <1>3, <1>8, <2>1
<1>11. AreSegments(segs, N)
  BY <1>3, <1>9, <1>10 DEF AreSegments
<1>12. QED
  BY <1>3, <1>10, <1>11 DEF segs, N

(* What the base class decides of a segment is the best of it by itself. *)
LEMMA DecidedAlone ==
  ASSUME NEW N, NEW segs, AreSegments(segs, N), NEW cosine \in [Joint!Compared(segs) -> Similarities],
         NEW i \in 1 .. N
  PROVE  LET score == Joint!Lattice(segs, cosine)[i][1]
             first == Joint!FirstBest(score)
             alone == Joint!RankedAlone(segs, cosine)[i]
             few   == Joint!FewSigns(Joint!SafePrefixes(segs)[i])
         IN  /\ Joint!rank(segs[i], cosine)[1] = first /\ alone.winner = first
             /\ few => first = 1
             /\ ~few => alone = [winner |-> first, confidence |-> Joint!_softmax_confidence(score)]
             /\ few = Joint!FewSigns(Joint!_context_plan(segs)[i][1])
<1> DEFINE S == Joint!Lattice(segs, cosine)
           C == Counts(segs)
           rows == Joint!_context_plan(segs)
           score == S[i][1]
           prefix == Joint!select_safe_local_context(segs[i].preceding)
           own == Joint!_score_segment_candidates(prefix, segs[i], cosine)
           few == Joint!FewSigns(prefix)
<1>1. DOMAIN segs = 1 .. N
  BY DEF AreSegments
<1>2. 1 \in Rows(C, i) /\ rows[i][1] = prefix
  BY ContextRows
<1>3. IsLattice(S, N, C)
  BY ScoresLattice
<1>4. score = IF Joint!FewSigns(rows[i][1]) THEN WeakScores(C[i]) ELSE Joint!_score_segment_candidates(rows[i][1], segs[i], cosine)
  BY <1>2, ScoresLattice
<1>5. score \in [1 .. C[i] -> Int]
  BY <1>2, <1>3 DEF IsLattice
<1>6. C[i] \in Nat \ {0} /\ DOMAIN segs[i].candidates = 1 .. C[i] /\ 1 \in 1 .. C[i]
  <2>1. C \in [1 .. N -> Nat \ {0}] /\ \A l \in 1 .. N : DOMAIN segs[l].candidates = 1 .. C[l]
    BY Sizes
  <2> HIDE DEF C
  <2>2. C[i] \in Nat \ {0} /\ DOMAIN segs[i].candidates = 1 .. C[i]
    BY <2>1
  <2>3. QED
    BY <2>2
<1>7. Joint!SafePrefixes(segs)[i] = prefix
  BY <1>1 DEF Joint!SafePrefixes
<1>8. Joint!RankedAlone(segs, cosine)[i] =
        IF few THEN [winner |-> 1, confidence |-> 5000]
        ELSE [winner |-> Joint!FirstBest(own), confidence |-> Joint!_softmax_confidence(own)]
  BY <1>1, <1>7 DEF Joint!RankedAlone
<1>9. Joint!rank(segs[i], cosine) =
        IF few THEN [j \in 1 .. C[i] |-> j] ELSE Joint!Descending(own)
  BY <1>6 DEF Joint!rank
<1> HIDE DEF C, S, rows, prefix, own, few, score
<1>10. score = IF few THEN WeakScores(C[i]) ELSE own
  BY <1>2, <1>4 DEF few, own
<1>11. CASE few
  <2>1. Joint!FirstBest(score) = 1
    BY <1>6, <1>10, <1>11, FirstOfWeak DEF WeakScores
  <2>2. Joint!rank(segs[i], cosine)[1] = 1
    BY <1>6, <1>9, <1>11
  <2>3. Joint!RankedAlone(segs, cosine)[i].winner = 1
    BY <1>8, <1>11
  <2>4. QED
    BY <1>2, <1>7, <1>11, <2>1, <2>2, <2>3 DEF few, score, S, rows
<1>12. CASE ~few
  <2>1. score = own
    BY <1>10, <1>12
  <2>2. Joint!FirstBest(score) = Joint!Descending(score)[1]
    BY <1>5, <1>6, FirstBestIs
  <2>3. Joint!rank(segs[i], cosine)[1] = Joint!FirstBest(score)
    BY <1>9, <1>12, <2>1, <2>2
  <2>4. Joint!RankedAlone(segs, cosine)[i] =
          [winner |-> Joint!FirstBest(score), confidence |-> Joint!_softmax_confidence(score)]
    BY <1>8, <1>12, <2>1
  <2>5. QED
    BY <1>2, <1>7, <1>12, <2>3, <2>4 DEF few, score, S, rows
<1>13. QED
  BY <1>11, <1>12

Converted ==
  /\ batch \in Batches
  /\ sim \in [Joint!Compared(Joint!Sent(typed, batch)) -> Similarities]
  /\ decided = Joint!rank_batch(Joint!Sent(typed, batch), sim)

(* The paths there are, and those that dominate. *)
LEMMA PathsAreWays ==
  ASSUME typed \in Text, Converted
  PROVE  Joint!Paths = AllWays(Counts(Joint!Sent(typed, batch)), Len(batch))
<1> DEFINE N == Len(batch)
           segs == Joint!Sent(typed, batch)
           C == Counts(segs)
           H == Joint!Max({Len(batch[i].candidates) : i \in DOMAIN batch})
<1>1. AreSegments(segs, N) /\ DOMAIN batch = 1 .. N /\ \A i \in 1 .. N : segs[i].candidates = batch[i].candidates
  BY SentAre DEF Converted
<1>2. N \in Nat \ {0} /\ N \in Nat /\ N \in 1 .. N
  <2>1. N \in Nat \ {0}
    BY <1>1 DEF AreSegments
  <2> HIDE DEF N
  <2>2. QED
    BY <2>1
<1>3. C \in [1 .. N -> Nat \ {0}] /\ \A i \in 1 .. N : C[i] = Len(batch[i].candidates)
  <2> HIDE DEF N, segs
  <2>1. QED
    BY <1>1, Sizes
<1>4. Joint!Paths = {p \in [1 .. N -> 1 .. H] : \A i \in 1 .. N : p[i] <= C[i]}
  BY <1>1, <1>3 DEF Joint!Paths
<1>5. H \in Int /\ \A i \in 1 .. N : C[i] <= H
  <2> DEFINE V == {C[i] : i \in 1 .. N}
  <2>1. {Len(batch[i].candidates) : i \in DOMAIN batch} = V
    BY <1>1, <1>3
  <2>2. H = Joint!Max(V)
    BY <2>1
  <2> HIDE DEF H, C, N
  <2>3. C \in [1 .. N -> Int] /\ 1 .. N # {} /\ 1 .. N \subseteq 1 .. N
    BY <1>2, <1>3
  <2>4. Ranking!Max(V) \in Int /\ \A i \in 1 .. N : C[i] <= Ranking!Max(V)
    BY <1>2, <2>3, Highest
  <2>5. Joint!Max(V) = Ranking!Max(V)
    BY DEF Joint!Max, Ranking!Max
  <2>6. QED
    BY <2>2, <2>4, <2>5
<1> HIDE DEF H, C, N, segs
<1>6. ASSUME NEW p \in [1 .. N -> 1 .. H], \A i \in 1 .. N : p[i] <= C[i]
      PROVE  p \in AllWays(C, N)
  <2>1. \A i \in 1 .. N : p[i] \in 1 .. C[i] /\ p[i] \in Nat
    <3> SUFFICES ASSUME NEW i \in 1 .. N PROVE p[i] \in 1 .. C[i] /\ p[i] \in Nat
      OBVIOUS
    <3>1. p[i] \in 1 .. H /\ p[i] <= C[i] /\ C[i] \in Nat
      BY <1>3, <1>6
    <3>2. QED
      BY <1>5, <3>1
  <2>2. p \in [1 .. N -> Nat]
    BY <2>1
  <2>3. QED
    BY <1>2, <2>1, <2>2 DEF AllWays, Ways
<1>7. ASSUME NEW p \in AllWays(C, N)
      PROVE  p \in [1 .. N -> 1 .. H] /\ \A i \in 1 .. N : p[i] <= C[i]
  <2>1. p \in [1 .. N -> Nat] /\ \A i \in 1 .. N : p[i] \in 1 .. C[i]
    BY DEF AllWays, Ways
  <2>2. \A i \in 1 .. N : p[i] <= C[i] /\ p[i] \in 1 .. H
    <3> SUFFICES ASSUME NEW i \in 1 .. N PROVE p[i] <= C[i] /\ p[i] \in 1 .. H
      OBVIOUS
    <3>1. p[i] \in 1 .. C[i] /\ C[i] \in Nat /\ C[i] <= H
      BY <1>3, <1>5, <2>1
    <3>2. QED
      BY <1>5, <3>1
  <2>3. QED
    BY <2>1, <2>2
<1>8. Joint!Paths = AllWays(C, N)
  BY <1>4, <1>6, <1>7
<1>9. QED
  BY <1>8 DEF C, N, segs

LEMMA DominantAre ==
  ASSUME typed \in Text, Converted
  PROVE  LET N == Len(batch)
             C == Counts(Joint!Sent(typed, batch))
         IN  Joint!Dominant = {p \in AllWays(C, N) : Dominates(Joint!Scores, C, N, p)}
<1> DEFINE N == Len(batch)
           segs == Joint!Sent(typed, batch)
           C == Counts(segs)
           S == Joint!Scores
           W == AllWays(C, N)
           mozc == [i \in DOMAIN batch |-> 1]
           total == [p \in Joint!Paths |-> Joint!PathScore(S, p)]
<1>1. AreSegments(segs, N) /\ DOMAIN batch = 1 .. N
  BY SentAre DEF Converted
<1>2. Joint!Paths = W
  BY PathsAreWays
<1>3. IsLattice(S, N, C)
  <2>1. S = Joint!Lattice(segs, sim)
    BY DEF Joint!Scores, Joint!Segments
  <2>2. sim \in [Joint!Compared(segs) -> Similarities]
    BY DEF Converted
  <2> HIDE DEF segs, N, S
  <2>3. QED
    BY <1>1, <2>1, <2>2, ScoresLattice
<1>4. mozc = FirstOfEach(N) /\ FirstOfEach(N) \in W
  <2>1. mozc = FirstOfEach(N)
    BY <1>1 DEF FirstOfEach
  <2> HIDE DEF S, C, N
  <2>2. QED
    BY <1>3, <2>1, Baseline
<1>5. Joint!Dominant = {p \in Joint!Paths :
                          /\ N > 1
                          /\ total[p] >= total[mozc] + 55
                          /\ \A q \in Joint!Paths \ {p} : total[p] >= total[q] + 30}
  BY DEF Joint!Dominant, Joint!MIN_PATH_GAIN, Joint!MIN_PATH_MARGIN
<1> HIDE DEF W, S, C, N, segs, mozc
<1>6. \A p \in W : total[p] = Joint!PathScore(S, p)
  BY <1>2
<1> HIDE DEF total
<1>7. Joint!Dominant = {p \in W : Dominates(S, C, N, p)}
  <2>1. ASSUME NEW p \in W
        PROVE  Dominates(S, C, N, p) <=> /\ N > 1
                                         /\ total[p] >= total[mozc] + 55
                                         /\ \A q \in W \ {p} : total[p] >= total[q] + 30
    <3>1. total[p] = Joint!PathScore(S, p) /\ total[mozc] = Joint!PathScore(S, FirstOfEach(N))
      BY <1>4, <1>6
    <3>2. \A q \in W \ {p} : total[q] = Joint!PathScore(S, q)
      BY <1>6
    <3>3. QED
      BY <3>1, <3>2 DEF Dominates, W
  <2>2. QED
    BY <1>2, <1>5, <2>1
<1>8. QED
  BY <1>7 DEF W, S, C, N, segs

(* What is answered, of one batch. *)
LEMMA DecidedRight ==
  ASSUME typed \in Text, Converted
  PROVE  Joint!TogetherIffDominant
<1> DEFINE N == Len(batch)
           segs == Joint!Sent(typed, batch)
           C == Counts(segs)
           S == Joint!Lattice(segs, sim)
           rows == Joint!_context_plan(segs)
           best == Joint!RankedPaths(S)[1].places
           dominant == {p \in AllWays(C, N) : Dominates(S, C, N, p)}
           first(i) == Joint!FirstBest(S[i][1])
           share(i) == Joint!_softmax_confidence(S[i][1])
           alone(i) == Joint!RankedAlone(segs, sim)[i]
           own(i) == Joint!rank(segs[i], sim)[1]
           few(i) == Joint!FewSigns(Joint!SafePrefixes(segs)[i])
           safe == Joint!joint_safe(S)
<1>1. AreSegments(segs, N) /\ DOMAIN batch = 1 .. N /\ DOMAIN segs = 1 .. N /\ N \in Nat /\ N >= 1
  <2>1. AreSegments(segs, N) /\ DOMAIN batch = 1 .. N
    BY SentAre DEF Converted
  <2>2. DOMAIN segs = 1 .. N /\ N \in Nat \ {0}
    BY <2>1 DEF AreSegments
  <2> HIDE DEF N, segs
  <2>3. QED
    BY <2>1, <2>2
<1>2. sim \in [Joint!Compared(segs) -> Similarities] /\ decided = Joint!rank_batch(segs, sim)
  BY DEF Converted
<1>3. Joint!Segments = segs /\ Joint!Scores = S
  BY DEF Joint!Scores, Joint!Segments
<1>4. Joint!Dominant = dominant
  <2>1. Joint!Dominant = {p \in AllWays(C, N) : Dominates(Joint!Scores, C, N, p)}
    BY DominantAre
  <2>2. QED
    BY <1>3, <2>1
<1>5. decided = IF \A i \in DOMAIN rows : \A k \in DOMAIN rows[i] : Joint!FewSigns(rows[i][k])
                THEN [i \in 1 .. N |-> [winner |-> 1, confidence |-> 5000]]
                ELSE Joint!Decide(segs, S)
  BY <1>1, <1>2 DEF Joint!rank_batch
<1>6. Joint!Decide(segs, S) =
        [i \in 1 .. N |-> IF safe THEN [winner |-> best[i], confidence |-> Joint!CONFIDENT_PATH]
                          ELSE [winner |-> first(i), confidence |-> share(i)]]
  BY <1>1 DEF Joint!Decide
<1>7. Joint!TogetherIffDominant <=>
        (decided # Joint!NotDecided =>
          /\ \A p \in dominant : decided = Joint!Together(p)
          /\ dominant = {} => \A i \in 1 .. N : /\ decided[i].winner = own(i)
                                                /\ decided[i].winner = alone(i).winner
                                                /\ few(i) \/ decided[i] = alone(i))
  BY <1>1, <1>3, <1>4 DEF Joint!TogetherIffDominant, Joint!Decided
<1>8. \A p : Joint!Together(p) = [i \in 1 .. N |-> [winner |-> p[i], confidence |-> Joint!CONFIDENT_PATH]]
  BY <1>1 DEF Joint!Together
<1> HIDE DEF segs, N
<1>9. /\ IsLattice(S, N, C)
      /\ \A i \in 1 .. N : \A k \in Rows(C, i) :
           Joint!FewSigns(rows[i][k]) => S[i][k] = WeakScores(C[i])
  BY <1>1, <1>2, ScoresLattice
<1>10. DOMAIN rows = 1 .. N /\ \A i \in 1 .. N : DOMAIN rows[i] = Rows(C, i) /\ 1 \in DOMAIN rows[i]
  BY <1>1, ContextRows
<1>11. ASSUME NEW i \in 1 .. N
       PROVE  /\ own(i) = first(i) /\ alone(i).winner = first(i)
              /\ few(i) => first(i) = 1
              /\ few(i) \/ alone(i) = [winner |-> first(i), confidence |-> share(i)]
              /\ few(i) = Joint!FewSigns(rows[i][1])
  BY <1>1, <1>2, DecidedAlone
<1>12. /\ safe => best \in dominant
       /\ \A p \in dominant : safe /\ p = best
  <2> HIDE DEF C, S
  <2>1. QED
    BY <1>9, SafeIffDominates
<1>13. C \in [1 .. N -> Nat \ {0}]
  BY <1>9 DEF IsLattice
<1> HIDE DEF own, first, alone, few, share, C, S, rows, best, safe
<1>14. CASE \A i \in DOMAIN rows : \A k \in DOMAIN rows[i] : Joint!FewSigns(rows[i][k])
  <2>1. decided = [i \in 1 .. N |-> [winner |-> 1, confidence |-> 5000]]
    BY <1>5, <1>14
  <2>2. \A i \in 1 .. N : \A k \in Rows(C, i) : \A j \in 1 .. C[i] : S[i][k][j] = -100 * (j - 1)
    <3>1. \A i \in 1 .. N : \A k \in Rows(C, i) : S[i][k] = WeakScores(C[i])
      BY <1>9, <1>10, <1>14
    <3>2. \A n : \A j \in 1 .. n : WeakScores(n)[j] = -100 * (j - 1)
      BY DEF WeakScores
    <3>3. QED
      BY <3>1, <3>2
  <2>3. dominant = {}
    BY <1>9, <2>2, NoneDominates
  <2>4. \A i \in 1 .. N : few(i)
    BY <1>10, <1>11, <1>14
  <2>5. \A i \in 1 .. N : decided[i].winner = own(i) /\ decided[i].winner = alone(i).winner
    BY <1>11, <2>1, <2>4
  <2> HIDE DEF dominant
  <2>6. QED
    BY <1>7, <2>3, <2>4, <2>5
<1>15. CASE ~(\A i \in DOMAIN rows : \A k \in DOMAIN rows[i] : Joint!FewSigns(rows[i][k]))
  <2>1. decided = [i \in 1 .. N |-> IF safe THEN [winner |-> best[i], confidence |-> Joint!CONFIDENT_PATH]
                                    ELSE [winner |-> first(i), confidence |-> share(i)]]
    BY <1>5, <1>6, <1>15
  <2> HIDE DEF dominant
  <2>2. \A p \in dominant : decided = Joint!Together(p)
    BY <1>8, <1>12, <2>1
  <2>3. ASSUME dominant = {}, NEW i \in 1 .. N
        PROVE  /\ decided[i].winner = own(i) /\ decided[i].winner = alone(i).winner
               /\ few(i) \/ decided[i] = alone(i)
    <3>1. ~safe
      BY <1>12, <2>3
    <3>2. decided[i] = [winner |-> first(i), confidence |-> share(i)]
      BY <2>1, <3>1
    <3>3. QED
      BY <1>11, <3>2
  <2>4. QED
    BY <1>7, <2>2, <2>3
<1>16. QED
  BY <1>14, <1>15

(* onnx_dual_encoder_ranker.py:228-262, base.py:643-756: all segments are      *)
(* decided together exactly when one path of all there are beats Mozc's and    *)
(* every other by the two margins, and without one each is decided as by       *)
(* itself: for any texts, numbers of segments and of candidates, any cosines   *)
(* and any rules.                                                              *)
THEOREM PathsAreExact == Joint!Spec => []TogetherIffDominant
<1> DEFINE Inv == typed \in Text /\ (decided # Joint!NotDecided => Converted)
<1>1. Joint!Init => Inv
  BY DEF Joint!Init, Text
<1>2. Inv /\ [Joint!Next]_(Joint!vars) => Inv'
  <2> SUFFICES ASSUME Inv, [Joint!Next]_(Joint!vars) PROVE Inv'
    OBVIOUS
  <2>1. CASE Joint!Type
    <3>1. PICK c \in Chars : typed' = Append(typed, c)
      BY <2>1 DEF Joint!Type
    <3>2. c \in STRING /\ typed \in Seq(STRING)
      BY JointAssumption DEF Text
    <3>3. typed' \in Text
      BY <3>1, <3>2, AppendProperties DEF Text
    <3>4. decided' = Joint!NotDecided
      BY <2>1 DEF Joint!Type
    <3>5. QED
      BY <3>3, <3>4
  <2>2. CASE Joint!Convert
    <3>1. Converted' /\ typed' = typed
      BY <2>2 DEF Joint!Convert, Converted
    <3>2. QED
      BY <3>1
  <2>3. CASE UNCHANGED Joint!vars
    <3>1. typed' = typed /\ batch' = batch /\ sim' = sim /\ decided' = decided
      BY <2>3 DEF Joint!vars
    <3>2. Converted' <=> Converted
      BY <3>1 DEF Converted
    <3>3. QED
      BY <3>1, <3>2
  <2>4. QED
    BY <2>1, <2>2, <2>3 DEF Joint!Next
<1>3. Inv => TogetherIffDominant
  <2>1. CASE decided = Joint!NotDecided
    BY <2>1 DEF TogetherIffDominant, Joint!TogetherIffDominant, Joint!Decided
  <2>2. CASE decided # Joint!NotDecided
    BY <2>2, DecidedRight DEF TogetherIffDominant
  <2>3. QED
    BY <2>1, <2>2
<1>4. QED
  BY <1>1, <1>2, <1>3, PTL DEF Joint!Spec
=============================================================================

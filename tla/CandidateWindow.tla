-------------------------- MODULE CandidateWindow --------------------------
(***************************************************************************)
(* The pure part of rewriter/ai_rewriter.cc: which candidates of a segment *)
(* are shown to the ranker, as which texts, between which contexts, and    *)
(* what its answer does to their order.                                    *)
(*                                                                         *)
(* A text is a sequence of characters.  A candidate is a record of its     *)
(* text and of the two attributes this code sets; a segment has a reading, *)
(* candidates and whether Mozc lets it be reordered.                       *)
(***************************************************************************)
EXTENDS Selection, SequencesExt, FiniteSetsExt

CONSTANTS
  SupplementalSurfaceSpecs,        \* the table: reading -> surface
  kMaxAiCandidateSurfaceLimit,
  kNormalCandidateSurfaceLimit,
  kMinInternalPhraseContextChars

IsSequence(s) == Len(s) \in Nat /\ s = [i \in 1 .. Len(s) |-> s[i]]

ASSUME WindowAssumption ==
  /\ \A reading \in DOMAIN SupplementalSurfaceSpecs :
       IsSequence(reading) /\ IsSequence(SupplementalSurfaceSpecs[reading])
  /\ kNormalCandidateSurfaceLimit \in Nat \ {0}
  /\ kMaxAiCandidateSurfaceLimit = kNormalCandidateSurfaceLimit + 1
  /\ kMinInternalPhraseContextChars \in Nat \ {0}

Plain(value) == [value |-> value, supplemental |-> FALSE, reranked |-> FALSE]

Values(segment) == {segment.candidates[i].value : i \in DOMAIN segment.candidates}

Top(segment) == IF segment.candidates = <<>> THEN segment.reading
                                             ELSE segment.candidates[1].value

-----------------------------------------------------------------------------
(* Supplements. *)

LongestKey(reading) ==
  LET keys == {k \in DOMAIN SupplementalSurfaceSpecs : IsPrefix(k, reading)}
  IN {k \in keys : \A other \in keys : Len(other) <= Len(k)}

SupplementalSurfacesForReading(reading) ==
  {SupplementalSurfaceSpecs[k] \o SubSeq(reading, Len(k) + 1, Len(reading)) :
     k \in LongestKey(reading)}

SupplementalPrefixChars(reading) == Max({0} \cup {Len(k) : k \in LongestKey(reading)})

(* The copy of the first candidate keeps that candidate's other attributes. *)
AddSupplementalCandidates(segment) ==
  LET missing == SupplementalSurfacesForReading(segment.reading) \ Values(segment)
      added   == {[[segment.candidates[1] EXCEPT !.value = v] EXCEPT !.supplemental = TRUE] :
                    v \in missing}
  IN IF segment.candidates = <<>> THEN segment
     ELSE [segment EXCEPT !.candidates = @ \o SetToSeq(added)]

-----------------------------------------------------------------------------
(* The window. *)

(* |window| with those positions of |order|, as far as there is room, whose *)
(* texts are not in it yet.                                                 *)
Admit(segment, window, order, limit) ==
  LET text(i) == segment.candidates[i].value
      shown   == {text(i) : i \in ToSet(window)}
      fresh   == Kept(order, {i \in ToSet(order) :
                                /\ text(i) \notin shown
                                /\ \A j \in ToSet(order) : j < i => text(j) # text(i)})
  IN SubSeq(window \o fresh, 1, Min({limit, Len(window) + Len(fresh)}))

(* One pass over the candidates, then the supplements it has put aside, then *)
(* the ordinary ones again.  A supplement whose text an earlier ordinary     *)
(* candidate has is dropped by either test of the code.                      *)
SelectDistinctCandidateSurfaces(segment) ==
  LET all      == [i \in DOMAIN segment.candidates |-> i]
      ordinary == Kept(all, {i \in ToSet(all) : ~segment.candidates[i].supplemental})
      aside    == Kept(all, {i \in ToSet(all) : segment.candidates[i].supplemental})
      normal   == Admit(segment, <<>>, ordinary, kNormalCandidateSurfaceLimit)
      both     == Admit(segment, normal, aside, kMaxAiCandidateSurfaceLimit)
  IN Admit(segment, both, ordinary, kMaxAiCandidateSurfaceLimit)

(* How many characters all of the texts begin (end) with. *)
CommonPrefix(texts, limit) ==
  Max({n \in 0 .. limit : \A s, t \in texts : SubSeq(s, 1, n) = SubSeq(t, 1, n)})

CommonSuffix(texts, limit) ==
  Max({n \in 0 .. limit : \A s, t \in texts :
         SubSeq(s, Len(s) - n + 1, Len(s)) = SubSeq(t, Len(t) - n + 1, Len(t))})

SharedCandidateContextChars(left, right) ==
  LET limit  == Min({Len(left), Len(right)})
      prefix == CommonPrefix({left, right}, limit)
  IN prefix + CommonSuffix({left, right}, limit - prefix)

NoAffixes == [prefix |-> <<>>, suffix |-> <<>>]

SharedCandidateAffixesForSegment(segment, selected) ==
  LET texts    == {segment.candidates[i].value : i \in ToSet(selected)}
      first    == segment.candidates[selected[1]].value
      shortest == Min({Len(t) : t \in texts})
      p        == CommonPrefix(texts, shortest)
      s        == CommonSuffix(texts, shortest - p)
  IN IF Len(selected) < 2 THEN NoAffixes
     ELSE IF p + s < kMinInternalPhraseContextChars THEN NoAffixes
     ELSE [prefix |-> SubSeq(first, 1, p),
           suffix |-> SubSeq(first, Len(first) - s + 1, Len(first))]

CandidateFocusText(value, affixes) ==
  IF Len(value) <= Len(affixes.prefix) + Len(affixes.suffix) THEN value
  ELSE SubSeq(value, Len(affixes.prefix) + 1, Len(value) - Len(affixes.suffix))

AppendIfNotAlreadyAtEnd(base, suffix) ==
  IF IsSuffix(suffix, base) THEN base ELSE base \o suffix

HasCandidateInternalPhraseContext(segment) ==
  LET selected == SelectDistinctCandidateSurfaces(segment)
  IN \E n \in 2 .. Len(selected) :
       SharedCandidateContextChars(segment.candidates[selected[1]].value,
                                   segment.candidates[selected[n]].value)
         >= kMinInternalPhraseContextChars

-----------------------------------------------------------------------------
(* The request. *)

Tops(segments, from, to) ==
  FlattenSeq([i \in 1 .. (IF to < from THEN 0 ELSE to - from + 1) |-> Top(segments[from + i - 1])])

ContextBeforeSegment(segments, index, before) == before \o Tops(segments, 1, index - 1)

ContextAfterSegment(segments, index, after) ==
  Tops(segments, index + 1, Len(segments)) \o after

(* Mutant: a candidate is named by its place in the window. *)
BuildBatchSegmentInputByPlace(segments, index, before, after) ==
  LET segment  == segments[index]
      selected == SelectDistinctCandidateSurfaces(segment)
      affixes  == SharedCandidateAffixesForSegment(segment, selected)
  IN [id |-> index,
      preceding |-> AppendIfNotAlreadyAtEnd(
                      ContextBeforeSegment(segments, index, before), affixes.prefix),
      following |-> affixes.suffix \o ContextAfterSegment(segments, index, after),
      reading |-> segment.reading,
      candidates |-> [n \in DOMAIN selected |->
                        [id |-> n,
                         text |-> CandidateFocusText(
                                    segment.candidates[selected[n]].value, affixes)]]]

BuildBatchSegmentInput(segments, index, before, after) ==
  LET segment  == segments[index]
      selected == SelectDistinctCandidateSurfaces(segment)
      affixes  == SharedCandidateAffixesForSegment(segment, selected)
  IN [id |-> index,
      preceding |-> AppendIfNotAlreadyAtEnd(
                      ContextBeforeSegment(segments, index, before), affixes.prefix),
      following |-> affixes.suffix \o ContextAfterSegment(segments, index, after),
      reading |-> segment.reading,
      candidates |-> [n \in DOMAIN selected |->
                        [id |-> selected[n],
                         text |-> CandidateFocusText(
                                    segment.candidates[selected[n]].value, affixes)]]]

CommittedConversionValue(segments) ==
  FlattenSeq([i \in DOMAIN segments |->
                IF segments[i].candidates = <<>> THEN <<>> ELSE Top(segments[i])])

(* Readings and texts in a row: where a segment ends is not in the key. *)
MakeCandidatePrefetchKey(segments) ==
  FlattenSeq([i \in DOMAIN segments |->
    LET selected == SelectDistinctCandidateSurfaces(segments[i])
    IN <<segments[i].reading>>
         \o [n \in DOMAIN selected |-> segments[i].candidates[selected[n]].value]])

-----------------------------------------------------------------------------
(* The answer. *)

MoveToFront(s, i) == <<s[i]>> \o SubSeq(s, 1, i - 1) \o SubSeq(s, i + 1, Len(s))

(* Confidences are told apart by the two thresholds only. *)
AtLeast(confidence, minimum) ==
  confidence \in (IF minimum = "retry" THEN {"middle", "high"} ELSE {"high"})

ApplyWinner(segment, result, minimum) ==
  IF AtLeast(result.confidence, minimum) /\ result.winner # 1
  THEN [segment EXCEPT !.candidates =
          [MoveToFront(@, result.winner) EXCEPT ![1].reranked = TRUE]]
  ELSE segment

(* One move at a time: |ids| are the positions the candidates came from.  *)
(* Not called in the product, which asks for winners only.                *)
Moved(ids, target, wanted) ==
  LET current == CHOOSE i \in target .. Len(ids) : ids[i] = wanted
  IN SubSeq(ids, 1, target - 1) \o <<wanted>>
       \o SubSeq(ids, target, current - 1) \o SubSeq(ids, current + 1, Len(ids))

ApplySelectedPermutation(segment, ranked) ==
  LET count   == Len(segment.candidates)
      rest    == SelectSeq([i \in 1 .. count |-> i], LAMBDA i : i \notin ToSet(ranked))
      desired == ranked \o rest
      ids     == FoldLeft(LAMBDA order, target : Moved(order, target, desired[target]),
                          [i \in 1 .. count |-> i], [i \in 1 .. count |-> i])
      sorted  == [i \in 1 .. count |-> segment.candidates[ids[i]]]
  IN IF \/ ToSet(ranked) # ToSet(SelectDistinctCandidateSurfaces(segment))
        \/ ~IsInjective(ranked)
     THEN segment
     ELSE [segment EXCEPT !.candidates =
             IF count > 0 /\ desired[1] # 1 THEN [sorted EXCEPT ![1].reranked = TRUE]
                                            ELSE sorted]
=============================================================================

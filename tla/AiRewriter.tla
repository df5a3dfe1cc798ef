----------------------------- MODULE AiRewriter -----------------------------
(***************************************************************************)
(* AiRewriter of rewriter/ai_rewriter.cc, called by Mozc for one           *)
(* conversion after another: boundary planning, candidate prefetch while   *)
(* the user types, ranking in one batch and retries when he asks for the   *)
(* conversion, context prefetch after the commit.  Its calls of the ranker *)
(* are those of RankCall, numbered as NextRequestId numbers them.          *)
(*                                                                         *)
(* In the list of rewriter/rewriter.cc it stands twice, as two objects:    *)
(* AiBoundaryPlanner passes only the boundary on, FinalAiRewriter all the  *)
(* rest, and what Mozc's own rewriters do to the order lies in between.    *)
(***************************************************************************)
EXTENDS CandidateWindow

CONSTANTS
  Conversions,           \* what Mozc may offer: sequences of segments
  UserHistory,           \* texts the user has chosen before, which Mozc puts first
  Contexts,              \* texts it may stand between, the host's and Mozc's own
  kMaxSegments,          \* segments the client puts into one request
  kMaxCandidatesPerSegment,
  Unescapable,           \* characters EscapeJson refuses
  MaxCalls,              \* bound: requests of a run
  MaxPrefetches          \* bound: prefetches among them

VARIABLES
  phase,                 \* where the Mozc thread stands
  segments,              \* the conversion being edited
  offered,               \* ... as it was when Rewrite was entered
  before, history, after,\* preceding text of the host, of Mozc, following text
  resized,
  late,                  \* the 400 ms of this Rewrite have passed
  todo,                  \* the segments of the batch that wait for a retry
  retries,               \* history: the answered retries of this Rewrite, by request id
  lastContextKey,        \* last_context_prefetch_key_
  lastCandidateKey,      \* last_candidate_prefetch_key_
  asked,                 \* requests built so far; the index is the request id
  call, runs             \* RankCall

(* No prefetch remembered: the keys begin as empty strings. *)
NoKey == <<>>

(* What Mozc offers has candidates, which are texts, and none of them from here. *)
ASSUME RewriterAssumption ==
  /\ MaxCalls \in Nat
  /\ \A offer \in Conversions :
       /\ IsSequence(offer)
       /\ \A i \in 1 .. Len(offer) :
            /\ offer[i] = [reading |-> offer[i].reading, free |-> offer[i].free,
                           candidates |-> offer[i].candidates]
            /\ Len(offer[i].candidates) \in Nat \ {0}
            /\ offer[i].candidates = [n \in 1 .. Len(offer[i].candidates) |->
                                       Plain(offer[i].candidates[n].value)]
            /\ IsSequence(offer[i].reading)
            /\ \A n \in 1 .. Len(offer[i].candidates) : IsSequence(offer[i].candidates[n].value)

conversionVars == <<segments, offered, before, history, after, resized>>
prefetchVars == <<lastContextKey, lastCandidateKey>>
callVars == <<asked, call, runs>>
vars == <<phase, segments, offered, before, history, after, resized, late, todo, retries,
          lastContextKey, lastCandidateKey, asked, call, runs>>

Ranker == INSTANCE RankCall WITH Requests <- 1 .. MaxCalls

Phases == {"away", "composing", "warming", "ranking", "retrying", "asking", "finishing"}

Init ==
  /\ phase = "away"
  /\ segments = <<>> /\ offered = <<>>
  /\ before = <<>> /\ history = <<>> /\ after = <<>>
  /\ resized = FALSE /\ late = FALSE
  /\ todo = {}
  /\ retries = <<>>
  /\ lastContextKey = NoKey /\ lastCandidateKey = NoKey
  /\ asked = <<>>
  /\ Ranker!Init

-----------------------------------------------------------------------------
(* Requests. *)

Texts(input) == {input.preceding, input.following, input.reading}
                  \cup {input.candidates[n].text : n \in DOMAIN input.candidates}

BuildBatchPayload(batch) ==
  /\ Len(batch) \in 1 .. kMaxSegments
  /\ \A k \in DOMAIN batch :
       /\ Len(batch[k].candidates) \in 1 .. kMaxCandidatesPerSegment
       /\ \A text \in Texts(batch[k]) : ToSet(text) \cap Unescapable = {}

Pending == Len(asked)

(* The call goes out. *)
Send(trigger, batch, key) ==
  /\ Pending < MaxCalls
  /\ trigger # "explicit" =>
       Len(SelectSeq(asked, LAMBDA r : r.trigger # "explicit")) < MaxPrefetches
  /\ asked' = Append(asked, [trigger |-> trigger, batch |-> batch, key |-> key])
  /\ Ranker!Begin(Pending + 1)

Answered == call[Pending] = "pending" /\ Ranker!Answer(Pending) /\ UNCHANGED asked
Failed   == call[Pending] = "pending" /\ Ranker!Fail(Pending) /\ UNCHANGED asked

(* One winner and one confidence for each segment asked about: all that *)
(* ParseBatchResponse lets through.                                     *)
Answers(batch) ==
  {answer \in [DOMAIN batch ->
                 [winner : UNION {{batch[k].candidates[n].id : n \in DOMAIN batch[k].candidates} :
                                    k \in DOMAIN batch},
                  confidence : {"low", "middle", "high"}]] :
     \A k \in DOMAIN batch :
       \E n \in DOMAIN batch[k].candidates : batch[k].candidates[n].id = answer[k].winner}

-----------------------------------------------------------------------------
(* Conversions. *)

(* Mozc offers a conversion: the first one, or another one for more typing. *)
Offer ==
  /\ \/ phase = "away"
     \/ phase = "composing" /\ offered = <<>>
  /\ segments' \in Conversions
  /\ \E context \in Contexts : /\ before' = context.before
                               /\ history' = context.history
                               /\ after' = context.after
  /\ offered' = <<>>
  /\ retries' = <<>>
  /\ resized' = FALSE
  /\ late' = FALSE
  /\ phase' = "composing"
  /\ UNCHANGED <<todo, prefetchVars, callVars>>

(* CheckResizeSegmentsRequest; the converter answers it with segments of the *)
(* same reading whose first one is as long as asked.                         *)
FullReading(s) == FlattenSeq([i \in DOMAIN s |-> s[i].reading])

Resize ==
  /\ phase = "composing"
  /\ ~resized
  /\ Len(segments) \in 1 .. 6
  /\ SupplementalPrefixChars(FullReading(segments)) \in 1 .. 12
  /\ \E offer \in Conversions :
       /\ FullReading(offer) = FullReading(segments)
       /\ Len(offer[1].reading) = SupplementalPrefixChars(FullReading(segments))
       /\ segments' = offer
  /\ resized' = TRUE
  /\ offered' = <<>>
  /\ retries' = <<>>
  /\ UNCHANGED <<phase, before, history, after, late, todo, prefetchVars, callVars>>

(* Of the rewriters in between one matters here: the history rewriter, *)
(* which puts what the user chose before in front.                     *)
OrdinaryRewriters ==
  /\ phase = "composing" /\ offered = <<>>
  /\ \E i \in DOMAIN segments : \E n \in DOMAIN segments[i].candidates :
       /\ segments[i].free /\ n # 1
       /\ segments[i].candidates[n].value \in UserHistory
       /\ segments' = [segments EXCEPT ![i].candidates = MoveToFront(@, n)]
  /\ UNCHANGED <<phase, offered, before, history, after, resized, late, todo, retries,
                 prefetchVars, callVars>>

-----------------------------------------------------------------------------
(* Rewrite while the composition changes. *)

(* Mutant: the whole candidates instead of what distinguishes them. *)
BuildPrefetchBatchWhole ==
  [i \in DOMAIN segments |->
     LET input == BuildBatchSegmentInput(segments, i, before, after)
     IN [input EXCEPT !.candidates =
           [n \in DOMAIN input.candidates |->
              [input.candidates[n] EXCEPT
                 !.text = segments[i].candidates[input.candidates[n].id].value]]]]

BuildPrefetchBatch ==
  [i \in DOMAIN segments |-> BuildBatchSegmentInput(segments, i, before, after)]

Warm ==
  /\ phase = "composing"
  /\ Pending < MaxCalls
  /\ MakeCandidatePrefetchKey(segments) # lastCandidateKey
  /\ BuildBatchPayload(BuildPrefetchBatch)
  /\ Send("candidate_prefetch", BuildPrefetchBatch, MakeCandidatePrefetchKey(segments))
  /\ phase' = "warming"
  /\ UNCHANGED <<conversionVars, late, todo, retries, prefetchVars>>

(* Mutant: the key is remembered whatever became of the call. *)
WarmedAnyway ==
  /\ phase = "warming"
  /\ \/ Answered
     \/ Failed
  /\ lastCandidateKey' = asked[Pending].key
  /\ phase' = "composing"
  /\ UNCHANGED <<conversionVars, late, todo, retries, lastContextKey>>

Warmed ==
  /\ phase = "warming"
  /\ \/ Answered /\ lastCandidateKey' = asked[Pending].key
     \/ Failed /\ UNCHANGED lastCandidateKey
  /\ phase' = "composing"
  /\ UNCHANGED <<conversionVars, late, todo, retries, lastContextKey>>

-----------------------------------------------------------------------------
(* Rewrite when the user asks for the conversion. *)

Preceding == IF before = <<>> THEN history ELSE before

HasContext ==
  \/ Preceding # <<>>
  \/ resized
  \/ after # <<>>
  \/ Len(segments) > 1
  \/ HasCandidateInternalPhraseContext(segments[1])

Rerankable(segment) == segment.free /\ Len(segment.candidates) >= 2

Supplemented ==
  [i \in DOMAIN segments |->
     IF Rerankable(segments[i]) THEN AddSupplementalCandidates(segments[i]) ELSE segments[i]]

(* Segments ahead have their supplements, those behind do not have them yet; *)
(* the contexts are made of first candidates, which a supplement never is.   *)
BatchIndices ==
  Kept([i \in DOMAIN segments |-> i],
       {i \in DOMAIN segments :
          Rerankable(segments[i]) /\ Len(SelectDistinctCandidateSurfaces(Supplemented[i])) >= 2})

Batch == [k \in DOMAIN BatchIndices |->
            BuildBatchSegmentInput(Supplemented, BatchIndices[k], Preceding, after)]

Enter ==
  /\ phase = "composing"
  /\ Pending + 1 + Len(segments) <= MaxCalls
  /\ HasContext
  /\ \E i \in DOMAIN segments : Rerankable(segments[i])
  /\ offered' = segments
  /\ segments' = Supplemented
  /\ retries' = <<>>
  /\ IF BuildBatchPayload(Batch)
     THEN /\ Send("explicit", Batch, NoKey)
          /\ late' = FALSE
          /\ phase' = "ranking"
     ELSE /\ UNCHANGED callVars
          /\ UNCHANGED late
          /\ phase' = "composing"
  /\ todo' = {}
  /\ UNCHANGED <<before, history, after, resized, prefetchVars>>

(* RemainingBudgetMs has reached zero. *)
Late ==
  /\ phase \in {"ranking", "retrying", "asking"}
  /\ ~late
  /\ late' = TRUE
  /\ UNCHANGED <<phase, conversionVars, todo, retries, prefetchVars, callVars>>

Uncertain(batch, answer) ==
  {batch[k].id : k \in {k \in DOMAIN batch : ~AtLeast(answer[k].confidence, "batch")}}

(* A segment is asked about once. *)
Won(batch, answer, i) ==
  IF \E k \in DOMAIN batch : batch[k].id = i
  THEN ApplyWinner(segments[i], answer[CHOOSE k \in DOMAIN batch : batch[k].id = i], "batch")
  ELSE segments[i]

Ranked ==
  /\ phase = "ranking"
  /\ Answered
  /\ LET batch == asked[Pending].batch
     IN \E answer \in Answers(batch) :
          /\ segments' = [i \in DOMAIN segments |-> Won(batch, answer, i)]
          /\ todo' = Uncertain(batch, answer)
  /\ phase' = "retrying"
  /\ UNCHANGED <<offered, before, history, after, resized, late, retries, prefetchVars>>

NotRanked ==
  /\ phase = "ranking"
  /\ Failed
  /\ phase' = "composing"
  /\ UNCHANGED <<conversionVars, late, todo, retries, prefetchVars>>

(* Retries go from the first segment to the last. *)
Foremost == CHOOSE i \in todo : \A j \in todo : i <= j

(* Mutant: the contexts of the first pass. *)
RetryInputOfBatch(i) ==
  BuildBatchSegmentInput([offered EXCEPT ![i] = segments[i]], i, Preceding, after)

(* The segment again, with the winners so far in its context. *)
RetryInput(i) == BuildBatchSegmentInput(segments, i, Preceding, after)

Retry ==
  /\ phase = "retrying"
  /\ todo # {}
  /\ ~late
  /\ LET retry == <<RetryInput(Foremost)>>
     IN IF BuildBatchPayload(retry)
        THEN Send("explicit", retry, NoKey) /\ phase' = "asking" /\ UNCHANGED todo
        ELSE UNCHANGED <<callVars, phase>> /\ todo' = todo \ {Foremost}
  /\ UNCHANGED <<conversionVars, late, retries, prefetchVars>>

Retried ==
  /\ phase = "asking"
  /\ \/ /\ Answered
        /\ \E answer \in Answers(asked[Pending].batch) :
             segments' = [segments EXCEPT ![Foremost] = ApplyWinner(@, answer[1], "retry")]
        /\ retries' = Append(retries, Pending)
     \/ Failed /\ UNCHANGED <<segments, retries>>
  /\ todo' = todo \ {Foremost}
  /\ phase' = "retrying"
  /\ UNCHANGED <<offered, before, history, after, resized, late, prefetchVars>>

(* Mutant: what a late pass has left over is taken along. *)
LeaveKeeping ==
  /\ phase = "retrying"
  /\ todo = {} \/ late
  /\ phase' = "composing"
  /\ UNCHANGED <<conversionVars, late, todo, retries, prefetchVars, callVars>>

Leave ==
  /\ phase = "retrying"
  /\ todo = {} \/ late
  /\ todo' = {}
  /\ phase' = "composing"
  /\ UNCHANGED <<conversionVars, late, retries, prefetchVars, callVars>>

-----------------------------------------------------------------------------
(* Finish. *)

ContextAfterCommit == AppendIfNotAlreadyAtEnd(Preceding, CommittedConversionValue(segments))

MakeNextContextPrefetchKey == <<ContextAfterCommit, after>>

BuildNextContextPrefetchBatch ==
  <<[id |-> "post-commit-context", preceding |-> ContextAfterCommit, following |-> after,
     reading |-> <<>>, candidates |-> <<[id |-> 1, text |-> <<>>]>>]>>

Close ==
  /\ segments' = <<>> /\ offered' = <<>>
  /\ before' = <<>> /\ history' = <<>> /\ after' = <<>>
  /\ resized' = FALSE /\ late' = FALSE
  /\ retries' = <<>>

Commit ==
  /\ phase = "composing"
  /\ IF /\ CommittedConversionValue(segments) # <<>>
        /\ MakeNextContextPrefetchKey # lastContextKey
        /\ BuildBatchPayload(BuildNextContextPrefetchBatch)
     THEN /\ Send("context_prefetch", BuildNextContextPrefetchBatch, MakeNextContextPrefetchKey)
          /\ phase' = "finishing"
     ELSE UNCHANGED callVars /\ phase' = "away"
  /\ Close
  /\ UNCHANGED <<todo, prefetchVars>>

Finished ==
  /\ phase = "finishing"
  /\ \/ Answered /\ lastContextKey' = asked[Pending].key
     \/ Failed /\ UNCHANGED lastContextKey
  /\ phase' = "away"
  /\ UNCHANGED <<conversionVars, late, todo, retries, lastCandidateKey>>

-----------------------------------------------------------------------------
(* The ranker takes a request in, also one whose caller has gone. *)
Run ==
  /\ \E r \in DOMAIN asked : Ranker!Run(r)
  /\ UNCHANGED <<phase, conversionVars, late, todo, retries, prefetchVars, asked>>

AiBoundaryPlanner == Resize

FinalAiRewriter ==
  \/ Warm \/ Warmed
  \/ Enter \/ Late \/ Ranked \/ NotRanked \/ Retry \/ Retried \/ Leave
  \/ Commit \/ Finished

Next ==
  \/ Offer
  \/ AiBoundaryPlanner
  \/ OrdinaryRewriters
  \/ FinalAiRewriter
  \/ Run

Spec == Init /\ [][Next]_vars

-----------------------------------------------------------------------------
Idle == phase \in {"away", "composing"}

TypeOK ==
  /\ phase \in Phases
  /\ \A i \in DOMAIN segments : segments[i].candidates # <<>>
  /\ todo \subseteq DOMAIN segments
  /\ Len(asked) <= MaxCalls
  /\ \A r \in 1 .. MaxCalls :
       /\ call[r] = "idle" <=> r > Len(asked)
       /\ call[r] = "pending" => r = Len(asked) /\ ~Idle

ValuesOf(candidates) == [n \in DOMAIN candidates |-> candidates[n].value]

(* A candidate comes to the top only by an answer about its segment, and it *)
(* is the one whose text was shown under the name in the answer: positions  *)
(* are those of the candidates now (ai_rewriter.cc:745-749, 779-780).       *)
FocusOf(segment, value) ==
  CandidateFocusText(value, SharedCandidateAffixesForSegment(segment,
                              SelectDistinctCandidateSurfaces(segment)))

ShownAndMoved(choice, old, new) ==
  /\ choice.id # 1
  /\ ValuesOf(new.candidates) = MoveToFront(ValuesOf(old.candidates), choice.id)
  /\ choice.text = FocusOf(old, Top(new))

PromotedAsShown ==
  [][\A i \in DOMAIN segments :
       /\ phase' = "retrying"
       /\ segments'[i] # segments[i]
       => /\ call[Pending] = "pending" /\ call'[Pending] = "answered"
          /\ \E k \in DOMAIN asked[Pending].batch :
               /\ asked[Pending].batch[k].id = i
               /\ \E n \in DOMAIN asked[Pending].batch[k].candidates :
                    ShownAndMoved(asked[Pending].batch[k].candidates[n],
                                  segments[i], segments'[i])]_vars

(* "each later retry can see earlier winners" (ai_rewriter.cc:752-753): what *)
(* a retry was told to stand before its segment is what stands there when    *)
(* Rewrite returns.                                                          *)
RetrySeesWinners ==
  \A n \in DOMAIN retries :
    LET told == asked[retries[n]].batch[1]
    IN told.preceding = BuildBatchSegmentInput(segments, told.id, Preceding, after).preceding

(* A prefetch is remembered, and not sent again, only when the ranker has it *)
(* (ai_rewriter.cc:669-672, 801-803).                                        *)
TakenIn(trigger, key) ==
  \E r \in DOMAIN asked : asked[r].trigger = trigger /\ asked[r].key = key /\ runs[r] = 1

RememberedWasTakenIn ==
  /\ lastCandidateKey # NoKey => TakenIn("candidate_prefetch", lastCandidateKey)
  /\ lastContextKey # NoKey => TakenIn("context_prefetch", lastContextKey)

(* "Space can then perform dot products only" (ai_rewriter.cc:401-404): of a *)
(* conversion whose candidates have been prefetched every text that is       *)
(* ranked, in the batch or in a retry, is one the ranker was given before,   *)
(* if no supplement joined the conversion in between.                        *)
Shown(r) == UNION {{asked[r].batch[k].candidates[n].text :
                      n \in DOMAIN asked[r].batch[k].candidates} : k \in DOMAIN asked[r].batch}

Prefetched ==
  /\ phase \in {"ranking", "asking"}
  /\ lastCandidateKey = MakeCandidatePrefetchKey(offered)

PrefetchCovers ==
  \E r \in DOMAIN asked :
    /\ asked[r].trigger = "candidate_prefetch" /\ runs[r] = 1
    /\ Shown(Pending) \subseteq Shown(r)

NoNewTexts ==
  Prefetched /\ (\A i \in DOMAIN offered :
                   Len(segments[i].candidates) = Len(offered[i].candidates))
  => PrefetchCovers
=============================================================================

--------------------------- MODULE RankerAnswers ---------------------------
(***************************************************************************)
(* One request of the Mozc server through the whole of a backend without   *)
(* vectors: the client writes it, process_line checks it, ranks it, checks *)
(* the answer and writes it, and the client parses it.  Then it is asked   *)
(* again with the winner's text a little better in the models' eyes.       *)
(***************************************************************************)
EXTENDS CrossEncoders, WireProtocol

CONSTANTS
  Requests,        \* sequences of segments: [reading, preceding, following, candidates]
  Backends,        \* name -> config
  Opinions(_),     \* what a backend's model may say of a text, in hundredths
  CandidateNames,  \* "c" and a number; a sequence, as the next
  SegmentNames,    \* "s" and a number
  Lift             \* by how much a better opinion is better

VARIABLES
  backend, trigger, segments, logits,
  reply, read, before,
  counted     \* ime_reordered_requests and ime_top_changed_requests

vars == <<backend, trigger, segments, logits, reply, read, before, counted>>

NoLine   == [kind |-> "nothing"]
NoAnswer == [ok |-> FALSE, winners |-> <<>>]
Texts    == UNION {ToSet(segments[i].candidates) : i \in DOMAIN segments}

-----------------------------------------------------------------------------
(* The request as the client writes it. *)

CandidateId(i)  == CandidateNames[i]
SegmentId(i)    == SegmentNames[i]
PlaceOf(i, id)  == CHOOSE j \in DOMAIN segments[i].candidates : CandidateId(j) = id

Input(i) ==
  [id |-> SegmentId(i), preceding |-> segments[i].preceding, following |-> segments[i].following,
   reading |-> segments[i].reading,
   candidates |-> [j \in DOMAIN segments[i].candidates |->
     [id |-> CandidateId(j), value |-> segments[i].candidates[j], original_rank |-> j]]]

Inputs == [i \in DOMAIN segments |-> Input(i)]

(* A request the client's own checks refuse is not sent. *)
Builds == IF trigger = "rank" THEN RankBuilds(Input(1)) ELSE BatchBuilds(Inputs)

Init ==
  /\ backend \in DOMAIN Backends
  /\ segments \in Requests
  /\ trigger \in {"rank", "explicit", "context_prefetch", "candidate_prefetch"}
  /\ trigger = "rank" => Len(segments) = 1
  /\ Builds
  /\ logits \in [1 .. Backends[backend].models -> [Texts -> Opinions(backend)]]
  /\ reply = NoLine /\ read = NoAnswer /\ before = NoAnswer
  /\ counted = [reordered |-> 0, top_changed |-> 0]

SendBatchRequest(inference_trigger) ==
  BuildBatchPayload("mozc-1", inference_trigger, Inputs)

RankBatch              == SendBatchRequest("explicit")
PrefetchContextBatch   == SendBatchRequest("context_prefetch")
PrefetchCandidateBatch == SendBatchRequest("candidate_prefetch")

Prefetches == {"context_prefetch", "candidate_prefetch"}
Payload ==
  CASE trigger = "rank" -> RankPayload("mozc-1", Input(1))
    [] trigger = "explicit" -> RankBatch
    [] trigger = "context_prefetch" -> PrefetchContextBatch
    [] trigger = "candidate_prefetch" -> PrefetchCandidateBatch

-----------------------------------------------------------------------------
(* The ranker. *)

config == Backends[backend]

Raw(i) ==
  LET view(k) == [j \in DOMAIN segments[i].candidates |-> logits[k][segments[i].candidates[j]]]
  IN [k \in DOMAIN logits |-> view(k)]

ByScore(score) == [order |-> Descending(score), score |-> score]

(* What the backend's rank answers for segment i: the order and the scores. *)
Ranked(i) ==
  CASE config.family \in {"onnx", "ruri"} ->
         Judge(config, segments[i],
               IF config.models = 1 THEN Raw(i)[1] ELSE Ensemble(config, segments[i], Raw(i)))
    [] config.family = "qwen" -> ByScore(QwenScores(config.variant, Raw(i)))
    [] config.family = "rule" -> ByScore(RuleScores(segments[i]))

Rankings == [i \in DOMAIN segments |-> Ranked(i)]

Entry(id, rest) == Object(<< <<"id", String(id)>> >> \o rest)

BatchReply(winners, confidences) ==
  Object(<< <<"request_id", Get(Payload, "request_id")>>,
            <<"segments", Array([i \in DOMAIN segments |->
               Entry(SegmentId(i), << <<"winner_id", String(CandidateId(winners[i]))>>,
                                      <<"confidence", confidences[i]>> >>)])>> >>)

(* A confidence from the fallback is a share that may be as small as it likes. *)
ShareConfidence(share) == Real(share, share = 0)

(* Mutant: the members of a candidate are written in another order. *)
RankReplyReordered(ranked) ==
  Object(<< <<"request_id", Get(Payload, "request_id")>>,
            <<"candidates", Array([n \in DOMAIN ranked.order |->
               Object(<< <<"rank", Number(n)>>,
                         <<"id", String(CandidateId(ranked.order[n]))>>,
                         <<"score", Real(ranked.score[ranked.order[n]], FALSE)>> >>)])>> >>)

RankReply(ranked) ==
  Object(<< <<"request_id", Get(Payload, "request_id")>>,
            <<"candidates", Array([n \in DOMAIN ranked.order |->
               Entry(CandidateId(ranked.order[n]),
                     << <<"score", Real(ranked.score[ranked.order[n]], FALSE)>>,
                        <<"rank", Number(n)>> >>)])>> >>)

_prefetch_response ==
  BatchReply([i \in DOMAIN segments |-> 1], [i \in DOMAIN segments |-> Real(0, FALSE)])

Confidence(ranked) ==
  IF config.has_rank_batch THEN Real(BatchConfidence(ranked), FALSE)
  ELSE ShareConfidence(WinnerShare(ranked.order, ranked.score))

Answered(rankings) ==
  CASE trigger = "rank" -> RankReply(rankings[1])
    [] trigger = "explicit" ->
         BatchReply([i \in DOMAIN segments |-> rankings[i].order[1]],
                    [i \in DOMAIN segments |-> Confidence(rankings[i])])
    [] trigger \in Prefetches -> _prefetch_response

-----------------------------------------------------------------------------
(* What the status file counts of the explicit requests that were answered:  *)
(* the requests whose order changed, and the changed first candidates.       *)

summarize_reorder(answer) ==
  LET ids  == [j \in DOMAIN segments[1].candidates |-> CandidateId(j)]
      said == [n \in DOMAIN ids |-> Get(Get(answer, "candidates").items[n], "id").text]
  IN [reordered |-> IF said # ids THEN 1 ELSE 0, top_changed |-> IF said[1] # ids[1] THEN 1 ELSE 0]

summarize_batch_reorder(answer) ==
  LET promoted == {i \in DOMAIN segments :
                     Get(Get(answer, "segments").items[i], "winner_id").text # CandidateId(1)}
  IN [reordered |-> IF promoted # {} THEN 1 ELSE 0, top_changed |-> Cardinality(promoted)]

Count(answer) ==
  LET more == CASE answer.kind # "object" \/ trigger \in Prefetches ->
                     [reordered |-> 0, top_changed |-> 0]
                [] answer.kind = "object" /\ trigger = "rank" -> summarize_reorder(answer)
                [] answer.kind = "object" /\ trigger = "explicit" -> summarize_batch_reorder(answer)
  IN counted' = [f \in DOMAIN counted |-> counted[f] + more[f]]

(* process_line; a line that fails a check is answered by none. *)
Accepted(request, answer) ==
  /\ Strict(request)
  /\ IF trigger = "rank"
     THEN validate_request(request) /\ validate_response(answer, request)
     ELSE validate_batch_request(request) /\ validate_batch_response(answer, request)

Checked(answer) == IF Accepted(Payload, answer) THEN answer ELSE [kind |-> "dropped"]

process_line ==
  /\ reply = NoLine
  /\ reply' = Checked(Answered(Rankings))
  /\ Count(reply')
  /\ UNCHANGED <<backend, trigger, segments, logits, read, before>>

-----------------------------------------------------------------------------
(* The client reads the line: the winner of each segment, or nothing. *)

CandidateIds(i) == {CandidateId(j) : j \in DOMAIN segments[i].candidates}
Allowed == [id \in {SegmentId(i) : i \in DOMAIN segments} |->
              CandidateIds(CHOOSE i \in DOMAIN segments : SegmentId(i) = id)]

Readable ==
  /\ reply.kind = "object"
  /\ IF trigger = "rank" THEN ParseResponse(reply, "mozc-1", CandidateIds(1))
     ELSE ParseBatchResponse(reply, "mozc-1", Allowed)

Read ==
  /\ reply # NoLine
  /\ read = NoAnswer
  /\ read' = IF ~Readable THEN [ok |-> FALSE, winners |-> <<0>>]
             ELSE [ok |-> TRUE,
                   winners |-> IF trigger = "rank"
                               THEN <<PlaceOf(1, Get(Get(reply, "candidates").items[1], "id").text)>>
                               ELSE [i \in DOMAIN segments |->
                                      PlaceOf(i, Get(Get(reply, "segments").items[i], "winner_id").text)]]
  /\ UNCHANGED <<backend, trigger, segments, logits, reply, before, counted>>

(* Every model thinks better of the winner's text. *)
Improve ==
  /\ trigger = "rank" /\ read.ok /\ before = NoAnswer
  /\ logits' = [k \in DOMAIN logits |->
                  [logits[k] EXCEPT ![segments[1].candidates[read.winners[1]]] = @ + Lift]]
  /\ before' = read
  /\ reply' = NoLine /\ read' = NoAnswer
  /\ UNCHANGED <<backend, trigger, segments, counted>>

Next == process_line \/ Read \/ Improve

Spec == Init /\ [][Next]_vars
-----------------------------------------------------------------------------
(***************************************************************************)
(* Properties.                                                             *)
(***************************************************************************)
Gated == config.family \in {"onnx", "ruri"} /\ config.gate

(* protocol.py:4-6: "the same checks are applied at both ends of the IPC     *)
(* boundary": what the server lets out, the client takes in.                 *)
BothEndsAgree == reply.kind = "object" => Readable

(* protocol.py:4-6, ai_ranker_client.cc:181-234: a request the client could  *)
(* write is answered, whatever the backend (no answer of a backend fails the *)
(* server's own checks), and for answers of one segment both ends do agree.  *)
(* What the status file says has changed is what the client read.            *)
Promoted(answer) == IF answer.ok THEN Cardinality({i \in DOMAIN answer.winners : answer.winners[i] # 1})
                    ELSE 0
RankingsAreRead ==
  /\ reply.kind # "dropped"
  /\ trigger = "rank" /\ reply.kind = "object" => Readable
  /\ read.ok => counted.top_changed = Promoted(before) + Promoted(read)

(* scoring.py:288-402, "the rounded values favor preserving a correct Mozc   *)
(* result when the neural evidence is weak": where a gate is, a candidate    *)
(* comes before Mozc's first only with evidence that leads it by 0.35 (0.25  *)
(* where several models agree), with some context around or inside the       *)
(* candidates, and an echo of the reading only ahead of every other by 0.75. *)
WellEarned(segment, ranked, local) ==
  LET top   == ranked.order[1]
      texts == segment.candidates
  IN top # 1 =>
       /\ ranked.evidence[top] - ranked.evidence[1] >= Min({35, Thresholds(config).delta})
       /\ \/ Len(local.prefix \o local.suffix) >= 3
          \/ shared_candidate_context_length(texts[top], texts[1]) >= 4
       /\ candidate_surface_type(texts[top], segment.reading) = "reading_passthrough" =>
            \A j \in DOMAIN texts \ {top} : ranked.evidence[top] - ranked.evidence[j] >= 75

PromotionEarned ==
  Gated => \A i \in DOMAIN segments :
             WellEarned(segments[i], Ranked(i), LocalContext(config, segments[i]))

(* scoring.py:288-402, the five ways past the gate: a candidate that was      *)
(* promoted stays promoted when the models think better of it.               *)
BetterStillWins == read.ok /\ before.ok /\ before.winners # <<1>> => read.winners = before.winners
=============================================================================

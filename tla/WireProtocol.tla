---------------------------- MODULE WireProtocol ----------------------------
(***************************************************************************)
(* The two ends of the pipe as readers and writers of messages: the checks *)
(* of ranker/protocol.py, and what rewriter/ai_ranker_client.cc builds and *)
(* parses.                                                                 *)
(*                                                                         *)
(* A message is a JSON value: an object is the sequence of its members as  *)
(* they were written, so that a name may occur twice.  A number carries    *)
(* what the two ends ask about it: is it an integer, is it finite, and     *)
(* |tiny|, whether Python writes it with an exponent (0 < n < 0.0001).     *)
(* A confidence is counted in ten-thousandths.                             *)
(***************************************************************************)
EXTENDS Integers, Sequences, FiniteSets

CONSTANTS
  MAX_CANDIDATES, MAX_SEGMENTS, MAX_CANDIDATES_PER_SEGMENT,
  MAX_ID, MAX_SEGMENT_ID, MAX_READ, MAX_TEXT, MAX_CANDIDATE_TEXT,
  Unsafe,          \* ids that SafeId refuses
  Unescapable      \* texts with a control character EscapeJson refuses

Object(members) == [kind |-> "object", members |-> members]
Array(items)    == [kind |-> "array", items |-> items]
String(text)    == [kind |-> "string", text |-> text]
Number(n)       == [kind |-> "number", value |-> n, integer |-> TRUE, finite |-> TRUE, tiny |-> FALSE]
Real(n, tiny)   == [kind |-> "number", value |-> n, integer |-> FALSE, finite |-> TRUE, tiny |-> tiny]

Names(object)    == {object.members[i][1] : i \in DOMAIN object.members}
Member(object, name) ==
  (CHOOSE i \in DOMAIN object.members : object.members[i][1] = name)
Get(object, name) == object.members[Member(object, name)][2]
Is(value, kind) == value.kind = kind

(* _reject_duplicate_keys and _reject_constant, wherever they occur: in a     *)
(* request, its segments, one of them, its candidates, or one of these.       *)
Strict(value) ==
  LET Allowable(v, Inside(_)) ==
        /\ v.kind = "object" =>
             /\ Cardinality(Names(v)) = Len(v.members)
             /\ \A i \in DOMAIN v.members : Inside(v.members[i][2])
        /\ v.kind = "array" => \A i \in DOMAIN v.items : Inside(v.items[i])
        /\ v.kind = "number" => v.finite
      Scalar(v)     == Allowable(v, LAMBDA w : FALSE)
      Candidate(v)  == Allowable(v, Scalar)
      Candidates(v) == Allowable(v, Candidate)
      Segment(v)    == Allowable(v, Candidates)
      Segments(v)   == Allowable(v, Segment)
  IN Allowable(value, Segments)

-----------------------------------------------------------------------------
(* The server's checks. *)

IsString(value, max) == Is(value, "string") /\ Len(value.text) <= max
IsId(value, max)     == IsString(value, max) /\ value.text # ""
IsRank(value, n)     == Is(value, "number") /\ value.integer /\ value.value = n

Triggers == {"explicit", "interactive", "prefetch", "context_prefetch", "candidate_prefetch"}
IsTrigger(value) == Is(value, "string") /\ value.text \in Triggers

CandidatesValid(value, max) ==
  /\ Is(value, "array") /\ Len(value.items) \in 1 .. max
  /\ \A i \in DOMAIN value.items :
       /\ Is(value.items[i], "object")
       /\ Names(value.items[i]) = {"id", "text", "rank"}
       /\ IsId(Get(value.items[i], "id"), MAX_ID)
       /\ IsString(Get(value.items[i], "text"), MAX_CANDIDATE_TEXT)
       /\ IsRank(Get(value.items[i], "rank"), i)
       /\ \A j \in 1 .. i - 1 : Get(value.items[j], "id") # Get(value.items[i], "id")

validate_request(m) ==
  /\ Is(m, "object")
  /\ LET required == {"request_id", "preceding_text", "read", "candidates"}
     IN /\ required \subseteq Names(m)
        /\ Names(m) \subseteq required \cup {"following_text", "inference_trigger"}
  /\ IsId(Get(m, "request_id"), MAX_ID)
  /\ \A name \in {"preceding_text", "following_text"} \cap Names(m) : IsString(Get(m, name), MAX_TEXT)
  /\ "inference_trigger" \in Names(m) => IsTrigger(Get(m, "inference_trigger"))
  /\ IsString(Get(m, "read"), MAX_READ)
  /\ CandidatesValid(Get(m, "candidates"), MAX_CANDIDATES)

SegmentValid(s) ==
  /\ Is(s, "object")
  /\ Names(s) = {"id", "preceding_text", "following_text", "read", "candidates"}
  /\ IsId(Get(s, "id"), MAX_SEGMENT_ID)
  /\ \A name \in {"preceding_text", "following_text"} : IsString(Get(s, name), MAX_TEXT)
  /\ IsString(Get(s, "read"), MAX_READ)
  /\ CandidatesValid(Get(s, "candidates"), MAX_CANDIDATES_PER_SEGMENT)

(* MAX_BATCH_CANDIDATES is the product of the two other limits. *)
validate_batch_request(m) ==
  /\ Is(m, "object")
  /\ Names(m) = {"request_id", "inference_trigger", "segments"}
  /\ IsId(Get(m, "request_id"), MAX_ID)
  /\ IsTrigger(Get(m, "inference_trigger"))
  /\ Is(Get(m, "segments"), "array")
  /\ LET segments == Get(m, "segments").items
     IN /\ Len(segments) \in 1 .. MAX_SEGMENTS
        /\ \A i \in DOMAIN segments :
             /\ SegmentValid(segments[i])
             /\ \A j \in 1 .. i - 1 : Get(segments[j], "id") # Get(segments[i], "id")

(* The ids of a value that CandidatesValid accepts. *)
IdsIn(value) == {Get(value.items[i], "id").text : i \in DOMAIN value.items}

validate_response(m, request) ==
  LET allowed == IdsIn(Get(request, "candidates"))
      items   == Get(m, "candidates").items
  IN /\ Is(m, "object") /\ Names(m) = {"request_id", "candidates"}
     /\ Get(m, "request_id") = Get(request, "request_id")
     /\ Is(Get(m, "candidates"), "array")
     /\ Len(items) = Cardinality(allowed)
     /\ \A i \in DOMAIN items :
          /\ Is(items[i], "object") /\ Names(items[i]) = {"id", "score", "rank"}
          /\ IsString(Get(items[i], "id"), MAX_ID)
          /\ Get(items[i], "id").text \in allowed
          /\ \A j \in 1 .. i - 1 : Get(items[j], "id") # Get(items[i], "id")
          /\ Is(Get(items[i], "score"), "number") /\ Get(items[i], "score").finite
          /\ IsRank(Get(items[i], "rank"), i)

SegmentOf(request, id) ==
  CHOOSE s \in {Get(request, "segments").items[i] : i \in DOMAIN Get(request, "segments").items} :
    Get(s, "id").text = id

Certain == 10000    \* a confidence of one

ConfidenceValid(value) == Is(value, "number") /\ value.finite /\ value.value \in 0 .. Certain

validate_batch_response(m, request) ==
  LET expected == IdsIn(Get(request, "segments"))
      items    == Get(m, "segments").items
  IN /\ Is(m, "object") /\ Names(m) = {"request_id", "segments"}
     /\ Get(m, "request_id") = Get(request, "request_id")
     /\ Is(Get(m, "segments"), "array")
     /\ Len(items) = Cardinality(expected)
     /\ \A i \in DOMAIN items :
          /\ Is(items[i], "object") /\ Names(items[i]) = {"id", "winner_id", "confidence"}
          /\ IsString(Get(items[i], "id"), MAX_SEGMENT_ID)
          /\ IsString(Get(items[i], "winner_id"), MAX_ID)
          /\ Get(items[i], "id").text \in expected
          /\ \A j \in 1 .. i - 1 : Get(items[j], "id") # Get(items[i], "id")
          /\ Get(items[i], "winner_id").text
               \in IdsIn(Get(SegmentOf(request, Get(items[i], "id").text), "candidates"))
          /\ ConfidenceValid(Get(items[i], "confidence"))

-----------------------------------------------------------------------------
(* The client's side.  A segment here is the client's own structure: an id, *)
(* three texts, and candidates with an id, a value and an original rank.     *)

SafeId(id)   == id # "" /\ Len(id) <= MAX_ID /\ id \notin Unsafe
Sendable(text, max) == Len(text) <= max /\ text \notin Unescapable

CandidatesSendable(candidates, max) ==
  /\ Len(candidates) \in 1 .. max
  /\ \A i \in DOMAIN candidates :
       /\ SafeId(candidates[i].id)
       /\ Sendable(candidates[i].value, MAX_CANDIDATE_TEXT)
       /\ candidates[i].original_rank = i
       /\ \A j \in 1 .. i - 1 : candidates[j].id # candidates[i].id

CandidatesWritten(candidates) ==
  Array([i \in DOMAIN candidates |->
           Object(<< <<"id", String(candidates[i].id)>>, <<"text", String(candidates[i].value)>>,
                     <<"rank", Number(candidates[i].original_rank)>> >>)])

SegmentSendable(s) ==
  /\ SafeId(s.id)
  /\ Sendable(s.preceding, MAX_TEXT) /\ Sendable(s.following, MAX_TEXT)
  /\ Sendable(s.reading, MAX_READ)

(* Client::Rank; FALSE from the function is a payload that is not built. *)
RankBuilds(s) == /\ SegmentSendable([s EXCEPT !.id = "any"])
                 /\ CandidatesSendable(s.candidates, MAX_CANDIDATES)
RankPayload(request_id, s) ==
  Object(<< <<"request_id", String(request_id)>>, <<"inference_trigger", String("explicit")>>,
            <<"preceding_text", String(s.preceding)>>, <<"following_text", String(s.following)>>,
            <<"read", String(s.reading)>>, <<"candidates", CandidatesWritten(s.candidates)>> >>)

BatchBuilds(segments) ==
  /\ Len(segments) \in 1 .. MAX_SEGMENTS
  /\ \A i \in DOMAIN segments :
       /\ SegmentSendable(segments[i])
       /\ CandidatesSendable(segments[i].candidates, MAX_CANDIDATES_PER_SEGMENT)
       /\ \A j \in 1 .. i - 1 : segments[j].id # segments[i].id

BuildBatchPayload(request_id, trigger, segments) ==
  Object(<< <<"request_id", String(request_id)>>, <<"inference_trigger", String(trigger)>>,
            <<"segments", Array([i \in DOMAIN segments |->
               Object(<< <<"id", String(segments[i].id)>>,
                         <<"preceding_text", String(segments[i].preceding)>>,
                         <<"following_text", String(segments[i].following)>>,
                         <<"read", String(segments[i].reading)>>,
                         <<"candidates", CandidatesWritten(segments[i].candidates)>> >>)])>> >>)

(* The expressions the client matches name the members in their order; an id *)
(* is one SafeId accepts, and a confidence is written without an exponent.    *)
MembersInOrder(object, names) == [i \in DOMAIN object.members |-> object.members[i][1]] = names

ParseResponse(m, request_id, allowed) ==
  LET items == Get(m, "candidates").items
  IN /\ MembersInOrder(m, <<"request_id", "candidates">>)
     /\ Get(m, "request_id").text = request_id
     /\ Len(items) = Cardinality(allowed)
     /\ \A i \in DOMAIN items :
          /\ MembersInOrder(items[i], <<"id", "score", "rank">>)
          /\ Get(items[i], "id").text \in allowed
          /\ Get(items[i], "rank").value = i
          /\ \A j \in 1 .. i - 1 : Get(items[j], "id") # Get(items[i], "id")

(* |allowed| maps the ids of the segments to those of their candidates. *)
ParseBatchResponse(m, request_id, allowed) ==
  LET items == Get(m, "segments").items
  IN /\ MembersInOrder(m, <<"request_id", "segments">>)
     /\ Get(m, "request_id").text = request_id
     /\ Len(items) = Cardinality(DOMAIN allowed)
     /\ \A i \in DOMAIN items :
          /\ MembersInOrder(items[i], <<"id", "winner_id", "confidence">>)
          /\ Get(items[i], "id").text \in DOMAIN allowed
          /\ \A j \in 1 .. i - 1 : Get(items[j], "id") # Get(items[i], "id")
          /\ Get(items[i], "winner_id").text \in allowed[Get(items[i], "id").text]
          /\ ~Get(items[i], "confidence").tiny
          /\ Get(items[i], "confidence").value \in 0 .. Certain
=============================================================================

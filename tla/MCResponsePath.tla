--------------------------- MODULE MCResponsePath ---------------------------
(***************************************************************************)
(* The resident ranker's request path for TLC: what stands before the      *)
(* model (ResponsePath), what the cross-encoders answer and the client     *)
(* reads of it (RankerAnswers), what the dual encoder decides              *)
(* (JointDecoding), the surfaces a reading is supplemented with            *)
(* (NumberReading), and how a ranker process comes up (RankerStartup).     *)
(* They share no state: a behaviour of the run is one of one of them.      *)
(*                                                                         *)
(* ResponsePath has one request of each kind, and a cache too small for    *)
(* all of them.  A unit of its time is half a second, with the lifetimes   *)
(* scaled to keep their order: settle < forget < ttl.                      *)
(***************************************************************************)
EXTENDS ResponsePath, SequencesExt, FiniteSetsExt, TLC

CONSTANTS
  Part,     \* the parts the run is about

  \* Characters, words and rules of the policy.
  Boundaries, Noise, Digits, KanjiDigits, KanjiNumber, Hiragana, Katakana, Kanji,
  Abbreviations, NaturalKana, Endings, ContextRules, Lexicon, Affixes,
  RuriAffixes, RightContextCompounds, LexiconRules, RankerRules,

  \* Messages, and the requests and backends they are about.
  MAX_CANDIDATES, MAX_SEGMENTS, MAX_CANDIDATES_PER_SEGMENT,
  MAX_ID, MAX_SEGMENT_ID, MAX_READ, MAX_TEXT, MAX_CANDIDATE_TEXT, Unsafe, Unescapable,
  CandidateNames, SegmentNames,
  Segmented, Backends, Opinions(_), Lift,

  \* The dual encoder's contexts and batches.
  HardTerminators, Commas, Blanks, LongText, SafeTail, VagueChars, SmallKana,
  ParticleRules, TopicRules, context_chars, lexical_grounding, MaxTrailing,
  Chars, MaxTyped, MaxConverted, Batches, Similarities,

  \* Ranker processes, and what they are started with.
  Pids, Rankers, Startings

VARIABLES
  part,
  backend, trigger, segments, logits, reply, read, before, counted,
  typed, batch, sim, decided,
  number, counter, reading, cut, surfaces, prepared,
  machine, config, proc, ranker, instance, status, unwritten

-----------------------------------------------------------------------------
(* The words: of kana a, b and g, kanji K to N, a numeral I, letters.        *)

MCKanjiNumber   == "I" :> <<"1">>
MCAbbreviations == {<<"w">>}
MCNaturalKana   == {<<"b">>}
MCEndings       == {<< <<"b">>, <<>> >>}
MCContextRules ==
  << [needles |-> {<<"m">>, <<"n">>}, candidate |-> <<"K">>, bonus |-> 300],
     [needles |-> {<<"L">>}, candidate |-> <<"N">>, bonus |-> 100] >>
MCLexicon       == <<"a", "b">> :> {<<"K">>} @@ <<"a", "b", "a", "b">> :> {<<"N">>, <<"M", "L">>}
MCAffixes       == {<<"b">>, <<"a">>}
MCRightContextCompounds == <<"y">> :> (<<"L">> :> 10000)
MCLexiconRules  == << [needs |-> {{<<"m">>}, {<<"n">>, <<"x">>}}, bonus |-> <<"K">> :> 1000] >>
MCRankerRules   == << [needs |-> {{<<"x">>}}, bonus |-> <<"L">> :> 10000 @@ <<"K">> :> 800] >>

-----------------------------------------------------------------------------
(* The requests of one segment or two, and the backends: as onnx_ranker sets *)
(* itself up for one model and for two, both with the other's gate as well,  *)
(* ruri_ranker, the two forms of qwen_ranker, and the rules.                 *)

Segment(around, kana, texts) ==
  [preceding |-> around[1], following |-> around[2], reading |-> kana, candidates |-> texts]

MCSegmented ==
  LET echo    == Segment(<< <<"x", "x", "m">>, <<>> >>, <<"a", "b">>,
                         << <<"L">>, <<"K">>, <<"a", "b">> >>)
      alone   == Segment(<< <<"x", "x", "x", ".">>, <<"-", "-">> >>, <<"a", "b", "a", "b">>,
                         << <<"K">>, <<"L">>, <<"N", "b">> >>)
      numeric == Segment(<< <<"x", "x", "x">>, <<>> >>, <<"b">>,
                         << <<"1", "M">>, <<"M">>, <<"I", "M">> >>)
      inside  == Segment(<< <<>>, <<"y">> >>, <<"g">>,
                         << <<"x", "x", "K", "x", "x">>, <<"x", "x", "L", "x", "x">> >>)
      right   == Segment(<< <<>>, <<"y">> >>, <<"a", "b">>, << <<"K">>, <<"L">> >>)
  IN {<<echo>>, <<alone>>, <<numeric>>, <<inside>>, <<right, [echo EXCEPT !.candidates = << <<"K">>, <<"L">> >>]>>}

Config(family, models, gate, prior, lexicon, native, variant) ==
  [family |-> family, models |-> models, gate |-> gate, prior |-> prior, lexicon |-> lexicon,
   context_enabled |-> TRUE, context_chars |-> 4, has_rank_batch |-> native, variant |-> variant]

MCBackends ==
  "onnx"       :> Config("onnx", 1, TRUE, TRUE, TRUE, TRUE, "")
  @@ "bare"    :> Config("onnx", 1, FALSE, TRUE, FALSE, TRUE, "")
  @@ "two"     :> Config("onnx", 2, FALSE, FALSE, TRUE, TRUE, "")
  @@ "gated"   :> Config("onnx", 2, TRUE, FALSE, TRUE, TRUE, "")
  @@ "ruri"    :> Config("ruri", 1, TRUE, TRUE, TRUE, FALSE, "")
  @@ "qwen"    :> Config("qwen", 2, FALSE, FALSE, FALSE, FALSE, "dual")
  @@ "qwen1"   :> Config("qwen", 1, FALSE, FALSE, FALSE, FALSE, "single")
  @@ "rule"    :> Config("rule", 0, FALSE, FALSE, FALSE, FALSE, "")

MCOpinions(name) ==
  CASE name \in {"onnx", "bare"} -> {0, 32, 60, 200}
    [] name \in {"two", "gated"} -> {0, 60, 200}
    [] name = "ruri" -> {0, 32, 1000}
    [] name \in {"qwen", "qwen1"} -> {10, 60}
    [] name = "rule" -> {}

MCCandidateNames == <<"c0", "c1", "c2">>
MCSegmentNames   == <<"s0", "s1">>

Ranking == INSTANCE RankerAnswers WITH Requests <- Segmented

Text == Seq(STRING)

(* A request's segments have candidates, texts are of characters, and what a *)
(* model or a rule says of a text is a number.                               *)
ASSUME RankingAssumption ==
  /\ Segmented \subseteq Seq([preceding : Text, following : Text, reading : Text,
                              candidates : Seq(Text) \ {<<>>}])
  /\ \A name \in DOMAIN Backends :
       /\ Backends[name].family \in {"onnx", "ruri"} => Backends[name].models \in {1, 2}
       /\ Backends[name].context_chars \in Nat
       /\ Opinions(name) \subseteq Int
  /\ ContextRules \in Seq([needles : SUBSET Text, candidate : Text, bonus : Int])
  /\ Lift \in Nat

(* The names are short enough for both ends, and a backend is one of those    *)
(* there are: rank_batch is the cross-encoders', the dual form of qwen has     *)
(* two views of a candidate, and what a rule says of a text is a number.      *)
ASSUME AnswersAssumption ==
  /\ Len("mozc-1") <= MAX_ID
  /\ \A request \in Segmented : \A i \in DOMAIN request : Len(SegmentNames[i]) <= MAX_SEGMENT_ID
  /\ \A name \in DOMAIN Backends :
       /\ Backends[name].family \in {"onnx", "ruri", "qwen", "rule"}
       /\ Backends[name].has_rank_batch => Backends[name].family \in {"onnx", "ruri"}
       /\ Backends[name].family = "qwen" =>
            Backends[name].models = (IF Backends[name].variant = "dual" THEN 2 ELSE 1)
  /\ \A r \in DOMAIN RightContextCompounds : \A text \in DOMAIN RightContextCompounds[r] :
       RightContextCompounds[r][text] \in Int
  /\ \A rules \in {LexiconRules, RankerRules} :
       /\ Len(rules) \in Nat
       /\ \A i \in 1 .. Len(rules) : \A text \in DOMAIN rules[i].bonus : rules[i].bonus[text] \in Int

-----------------------------------------------------------------------------
(* Joint decoding: two and three segments, two with one left out in between, *)
(* and one alone.                                                            *)

MCParticleRules == {[particles |-> {<<"g">>}, words |-> {<<"N">>}, bonus |-> 20]}
MCTopicRules    == {[topics |-> {<<"x", "x">>}, words |-> {<<"L">>}, bonus |-> 35]}

MCBatches ==
  LET part_of(place, gap, kana, texts) ==
        [place |-> place, gap |-> gap, reading |-> kana, candidates |-> texts]
      first == part_of(0, <<>>, <<"a", "b">>, << <<"K">>, <<"L">> >>)
      kana  == << <<"M">>, <<"N">>, <<"a">> >>
  IN {<<first, part_of(1, <<>>, <<"a">>, kana)>>,
      <<first, part_of(2, <<"g">>, <<"a">>, << <<"M">>, <<"N">> >>)>>,
      <<first, part_of(1, <<>>, <<"a">>, << <<"M">>, <<"N">> >>),
               part_of(2, <<>>, <<"a">>, << <<"M">>, <<"L">> >>)>>,
      <<part_of(1, <<"g">>, <<"a">>, kana)>>}

Joint == INSTANCE JointDecoding WITH answer <- decided

(* Where context is used at all, at least as much as no comma may cut off.   *)
(* What is converted has a segment, each segment a candidate, and a cosine   *)
(* and what a rule says are numbers.                                         *)
ASSUME JointAssumption ==
  /\ SafeTail \in Nat \ {0} /\ context_chars \in Nat /\ context_chars >= SafeTail - 1
  /\ Chars \subseteq STRING
  /\ Batches \subseteq Seq([place : Nat, gap : Text, reading : Text,
                           candidates : Seq(Text) \ {<<>>}]) \ {<<>>}
  /\ Similarities \subseteq Int
  /\ \A rules \in {ParticleRules, TopicRules} :
       IsFiniteSet(rules) /\ \A rule \in rules : rule.bonus \in Int

-----------------------------------------------------------------------------
(* Readings of numbers: all to a hundred, the hundreds and thousands, some   *)
(* beyond; and readings that begin with a supplemented one.                  *)

Words ==
  <<"ke", "n", "shi", "n">> :> "kenshin" @@ <<"a", "i">> :> "AI"
  @@ <<"a", "i", "re">> :> "AI rensaku"
PrefixWords   == {<<"ke", "n", "shi", "n">>, <<"a", "i", "re">>}
PrefixNumbers ==
  << <<"ji", "yu", "u", "go", "ni", "chi">>, <<"ji", "yu", "tsu", "ko">>,
     <<"da", "i", "go", "i">>, <<"i", "chi", "i">> >>
Numbers ==
  (1 .. 100) \cup {100 * i + k : i \in 1 .. 32, k \in {0, 22}}
  \cup {10000 * i + k : i \in {1, 2, 9}, k \in {0, 5, 300, 2001}}
Following == {<<>>, <<"o">>, <<"da", "tsu", "ta">>}

Supplements == INSTANCE NumberReading
  WITH segments <- cut, Endings <- Following, MaxCuts <- 2

-----------------------------------------------------------------------------
(* Two rankers of one installation, for each set of models that a packaged    *)
(* copy, an older one and a developer's tree may have.                        *)

Precisions(family) == {<<family, "fp16">>, <<family, "int8">>}
Installed ==
  {Precisions("dual"), Precisions("lora3") \cup Precisions("lora6"),
   {<<"dual", "fp32">>, <<"single", "int8">>, <<"single", "fp16">>, <<"ruri", "base">>, <<"qwen", "base">>}}

MCRankers ==
  {[gpus |-> g, files |-> f, tokenizer |-> TRUE, windows |-> TRUE] :
     g \in {{}, {"directml"}, {"cuda", "directml"}}, f \in Installed}
  \cup {[gpus |-> {}, files |-> Precisions("dual"), tokenizer |-> t, windows |-> ~t] : t \in BOOLEAN}

Started(entry, name, device, pipe) ==
  {[entry |-> entry, backend |-> name, mode |-> m, device |-> device, pipe |-> pipe] :
     m \in {"auto", "gpu", "cpu"}}
Separator == <<"\\">>
Prefix    == Separator \o Separator \o <<".\\pipe\\">>
PipeName  == <<"ai_ime_ranker">>
MCStartings ==
  Started("tray", "", "", PipeName)
  \cup (UNION {Started("hand", b, "", PipeName) : b \in {"dual_encoder", "onnx", "ruri"}})
  \cup Started("hand", "ruri", "cuda", PipeName)
  \cup Started("hand", "qwen", "", PipeName) \cup Started("hand", "rule", "", <<>>)
  \cup (UNION {Started("hand", "rule", "", name) :
                 name \in {Prefix \o PipeName, Prefix \o Prefix \o PipeName, Prefix,
                          Prefix \o <<".\\pipe\\">> \o Separator \o PipeName, Prefix \o <<".">>}})

Startup == INSTANCE RankerStartup
  WITH Processes <- Pids, Machines <- Rankers, Configs <- Startings, None <- "none"

(* A name is that of the Mozc server's pipe, or none, behind any number of   *)
(* separators and of what stands before a pipe's name.                       *)
ASSUME StartupAssumption ==
  \A c \in Startings :
    /\ c.pipe \in Seq({"\\", ".\\pipe\\", ".", "..", "ai_ime_ranker"})
    /\ \E n \in 0 .. Len(c.pipe) :
         /\ \A i \in 1 .. n : c.pipe[i] \in {"\\", ".\\pipe\\"}
         /\ SubSeq(c.pipe, n + 1, Len(c.pipe)) \in {<<>>, <<".">>, <<"..">>, Startup!MozcPipe}

-----------------------------------------------------------------------------
rankingVars == <<backend, trigger, segments, logits, reply, read, before, counted>>
jointVars   == <<typed, batch, sim, decided>>
numberVars  == <<number, counter, reading, cut, surfaces, prepared>>
startupVars == <<machine, config, proc, ranker, instance, status, unwritten>>
mcvars      == <<part, vars, rankingVars, jointVars, numberVars, startupVars>>

NoRanking == backend = "" /\ trigger = "" /\ segments = <<>> /\ logits = <<>>
             /\ reply = Ranking!NoLine /\ read = Ranking!NoAnswer /\ before = Ranking!NoAnswer
             /\ counted = <<>>
NoNumber  == number = 0 /\ counter = <<>> /\ reading = <<>> /\ cut = <<>>
             /\ surfaces = <<>> /\ prepared = <<>>
NoStartup == machine = "" /\ config = "" /\ proc = <<>> /\ ranker = <<>>
             /\ instance = "" /\ status = Startup!NoStatus /\ unwritten = {}

MCInit ==
  /\ part \in Part
  /\ Init
  /\ IF part = "ranking" THEN Ranking!Init ELSE NoRanking
  /\ Joint!Init
  /\ IF part = "numbers" THEN Supplements!Init ELSE NoNumber
  /\ IF part = "startup" THEN Startup!Init ELSE NoStartup

MCNext ==
  \/ part = "path" /\ Next /\ UNCHANGED <<part, rankingVars, jointVars, numberVars, startupVars>>
  \/ part = "ranking" /\ Ranking!Next /\ UNCHANGED <<part, vars, jointVars, numberVars, startupVars>>
  \/ part = "joint" /\ Joint!Next /\ UNCHANGED <<part, vars, rankingVars, numberVars, startupVars>>
  \/ part = "numbers" /\ Supplements!Next /\ UNCHANGED <<part, vars, rankingVars, jointVars, startupVars>>
  \/ part = "startup" /\ Startup!Next /\ UNCHANGED <<part, vars, rankingVars, jointVars, numberVars>>
  \/ part # "path" /\ UNCHANGED mcvars    \* these come to an end

MCSpec == MCInit /\ [][MCNext]_mcvars

-----------------------------------------------------------------------------
(* The properties of the other modules; the comments there say what they are. *)

(* ranker/protocol.py:4-6: what the server lets out, the client takes in. *)
BothEndsAgree == part = "ranking" => Ranking!BothEndsAgree

(* ai_ranker_client.cc:181-234: for one segment they do agree. *)
RankingsAreRead == part = "ranking" => Ranking!RankingsAreRead

(* ranker/scoring.py:288-402: what it takes to come before Mozc's first. *)
PromotionEarned == part = "ranking" => Ranking!PromotionEarned

(* ranker/scoring.py:288-402: a promoted candidate stays so when it is better. *)
BetterStillWins == part = "ranking" => Ranking!BetterStillWins

(* onnx_dual_encoder_ranker.py:228-262: the path search is exact. *)
TogetherIffDominant == Joint!TogetherIffDominant

(* onnx_dual_encoder_base.py:49-56: what was typed last is in the context. *)
RecentTextIsKept == Joint!RecentTextIsKept

(* candidate_supplements.py:126-147: a number read out is written. *)
NumbersAreWritten == Supplements!NumbersAreWritten

(* onnx_ranker.py:291-294: what the status file says of the device is so. *)
StatusIsTrue == part = "startup" => Startup!StatusIsTrue
=============================================================================

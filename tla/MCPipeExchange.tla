--------------------------- MODULE MCPipeExchange ---------------------------
(***************************************************************************)
(* What goes on beside a ranking while it is under way: its caller may     *)
(* give up on the pipe (PipeExchange) or come back for it (the speculative *)
(* ranker), and a pill is shown for it (LoadingIndicator).  The three      *)
(* share no state, so a behaviour of the run is one of one of them.  On    *)
(* the pipe at most two calls meet: conversions, or one and a probe.       *)
(***************************************************************************)
EXTENDS PipeExchange, Integers, FiniteSets

CONSTANTS Twice, Callers, settle_seconds, cache_ttl_seconds, cache_size, MaxTime, Nobody,
          MaxConversions, Conversions, context_enabled, context_chars,
          Enabled, Screen, Pill, Points

(* Twice: the calls whose request and answer do not fit into one piece. *)
MCParts == [r \in Requests |-> IF r \in Twice THEN 2 ELSE 1]

VARIABLES
  part, met,
  now, pending_key, pending_at, cache, lock, worker, caller, asked, answer,
  loop, thread, hwnd, ready, window, at, posted, ranked

(* Two of the three conversions differ only where the delegate does not look. *)
Typed(prefix, suffix) ==
  [prefix |-> prefix, suffix |-> suffix, read |-> "hashi", candidates |-> <<"bridge", "chopsticks">>]

MCConversions == {Typed(<<"a", "b">>, <<"c">>), Typed(<<"b">>, <<"c", "a">>),
                  Typed(<<"b", "a">>, <<>>)}

(* A caret or cursor on the screen, or by its lower right corner. *)
MCScreen == [w |-> 8, h |-> 6]
MCPill   == [w |-> 3, h |-> 1]
MCPoints == {[x |-> 2, y |-> 2], [x |-> 7, y |-> 5]}

(* Sizes and lives are lengths; neither the worker nor nobody calls. *)
ASSUME SpeculativeAssumption ==
  /\ cache_ttl_seconds \in Nat /\ cache_size \in Nat
  /\ "worker" \notin Callers /\ Nobody \notin Callers \cup {"worker"}

(* The screen has room for the pill and a margin. *)
ASSUME IndicatorAssumption ==
  /\ Screen.w \in Int /\ Screen.h \in Int /\ Pill.w \in Int /\ Pill.h \in Int
  /\ Screen.w > Pill.w /\ Screen.h > Pill.h
  /\ Points \subseteq [x : Int, y : Int]

Speculative == INSTANCE SpeculativeRanker WITH pending <- pending_key

Indicator == INSTANCE LoadingIndicator

speculativeVars == <<now, pending_key, pending_at, cache, lock, worker, caller, asked, answer>>
indicatorVars == <<loop, thread, hwnd, ready, window, at, posted, ranked>>
mcvars == <<part, met, vars, speculativeVars, indicatorVars>>

MCInit ==
  /\ part \in {"pipe", "speculative", "indicator"}
  /\ met \in IF part = "pipe" THEN {pair \in SUBSET Requests : Cardinality(pair) = 2} ELSE {Requests}
  /\ Init /\ Speculative!Init /\ Indicator!Init

MCNext ==
  \/ /\ part = "pipe" /\ Next
     /\ \A r \in Requests \ met : client'[r] = "idle"
     /\ UNCHANGED <<part, met, speculativeVars, indicatorVars>>
  \/ part = "speculative" /\ Speculative!Next /\ UNCHANGED <<part, met, vars, indicatorVars>>
  \/ part = "indicator" /\ Indicator!Next /\ UNCHANGED <<part, met, vars, speculativeVars>>
  \/ part = "indicator" /\ loop = "gone" /\ UNCHANGED mcvars

ClientTurn(r) ==
  part = "pipe" /\ Client(r) /\ UNCHANGED <<part, met, speculativeVars, indicatorVars>>
ClientLate(r) ==
  part = "pipe" /\ Expire(r) /\ UNCHANGED <<part, met, speculativeVars, indicatorVars>>
ServerTurn ==
  part = "pipe" /\ Serve /\ UNCHANGED <<part, met, speculativeVars, indicatorVars>>
CallerTurn(c) ==
  /\ part = "speculative"
  /\ Speculative!CallerStep(c)
  /\ UNCHANGED <<part, met, vars, indicatorVars>>
WorkerTurn ==
  /\ part = "speculative"
  /\ Speculative!Take \/ Speculative!Begin \/ Speculative!End
  /\ UNCHANGED <<part, met, vars, indicatorVars>>

MCSpec ==
  /\ MCInit /\ [][MCNext]_mcvars
  /\ \A r \in Requests : WF_mcvars(ClientLate(r)) /\ WF_mcvars(ClientTurn(r))
  /\ WF_mcvars(ServerTurn)
  /\ \A c \in Callers : WF_mcvars(CallerTurn(c))
  /\ WF_mcvars(WorkerTurn)

-----------------------------------------------------------------------------
(* The properties of the other two; the comments there say what they are. *)

(* speculative.py:100-113: an answer is of its request and within its lifetime. *)
AnswersFresh == Speculative!AnswersFresh

(* speculative.py:180-181: the model is not called again for what it has just ranked. *)
NoSameCall == Speculative!NoSameCall

(* speculative.py:151-153: a conversion waiting for the model gets it. *)
ConversionEnds == Speculative!ConversionEnds

(* loading_ui.py:3-4: no pill without a ranking, and none off the screen. *)
PillOnlyWhileRanking == Indicator!PillOnlyWhileRanking
=============================================================================

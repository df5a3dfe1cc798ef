---------------------------- MODULE ResponsePath ----------------------------
(***************************************************************************)
(* What stands between the pipe and the model in the resident ranker:      *)
(* process_line, the ResponseCache, the InteractiveBurstGuard inside it,   *)
(* and the model behind both.  One thread serves one request at a time;    *)
(* time passes between requests and while the model runs.                  *)
(*                                                                         *)
(* A request is what the caches key it by: everything in it but its        *)
(* request_id.  An answer is an order of the candidates, Mozc's own or the *)
(* model's, with the time the model made it.                               *)
(***************************************************************************)
EXTENDS Integers, Sequences

CONSTANTS
  Explicit,       \* single-segment requests of Space or Convert
  Batch,          \* explicit requests of several segments
  Interactive,    \* requests of older clients, which name no trigger
  Bare,           \* those of them with no text before or after
  Weak,           \* requests whose context carries under two signs
  Settle,         \* settle_seconds
  Forget,         \* forget_seconds
  TTL,            \* ttl_seconds
  MaxEntries,     \* max_entries
  MaxTime,        \* bound on the clock
  None

Requests == Explicit \cup Batch \cup Interactive
Times == 0..MaxTime

ASSUME ResponsePathAssumption ==
  /\ Batch \cap (Explicit \cup Interactive) = {}
  /\ Explicit \cap Interactive = {}
  /\ Bare \subseteq Interactive
  /\ Weak \subseteq Requests
  /\ None \notin Requests
  /\ None \notin Int
  /\ Settle \in Nat /\ Forget \in Nat /\ Settle <= Forget
  /\ TTL \in Nat /\ MaxTime \in Nat /\ MaxEntries \in Nat \ {0}

VARIABLES
  now,         \* time.perf_counter()
  entries,     \* _entries of the cache, least recently used first
  first_seen,  \* _first_seen of the guard: request -> time, or None
  ranked,      \* _ranked of the guard: request -> answer, or NoAnswer
  busy,        \* the request the model works on, or None
  answer,      \* the last answer sent: for which request, and when
  shown        \* history: when the guard last gave a request Mozc's order, in
               \* the Forget units before now

vars == <<now, entries, first_seen, ranked, busy, answer, shown>>

Mozc == [by |-> "mozc", made |-> 0]
Model(t) == [by |-> "model", made |-> t]
Answers == {Mozc} \cup {Model(t) : t \in Times}
NoAnswer == [by |-> "nobody", made |-> 0]

InitCache == entries = <<>>
InitGuard ==
  /\ first_seen = [r \in Interactive |-> None]
  /\ ranked = [r \in Interactive |-> NoAnswer]

Init ==
  /\ now = 0
  /\ InitCache
  /\ InitGuard
  /\ busy = None
  /\ answer = [to |-> None, what |-> NoAnswer, at |-> 0]
  /\ shown = [r \in Interactive |-> {}]

Send(r, a) == answer' = [to |-> r, what |-> a, at |-> now]
-----------------------------------------------------------------------------
(***************************************************************************)
(* ResponseCache.                                                          *)
(***************************************************************************)
EntryOf(r) == {i \in DOMAIN entries : entries[i].key = r}
Fresh(r) == \E i \in EntryOf(r) : now - entries[i].at <= TTL

\* entries.pop(key), if there is one.
Others(r) ==
  IF EntryOf(r) = {} THEN entries
  ELSE LET at == CHOOSE i \in EntryOf(r) : TRUE
       IN [i \in 1 .. Len(entries) - 1 |-> entries[IF i < at THEN i ELSE i + 1]]

\* A hit that has not expired becomes the most recently used entry.
ServeCached(r) ==
  /\ busy = None
  /\ Fresh(r)
  /\ \E i \in EntryOf(r) :
       /\ entries' = Append(Others(r), entries[i])
       /\ Send(r, entries[i].what)
  /\ UNCHANGED <<now, first_seen, ranked, busy, shown>>

\* A miss: an expired entry is dropped before the delegate is asked.
Misses(r) == busy = None /\ ~Fresh(r)

\* The delegate's answer becomes the newest entry, and the oldest makes room.
\* Mutant: room is made one entry too late.
TrimmedLate(s) == IF Len(s) > MaxEntries + 1 THEN Tail(s) ELSE s

Trimmed(s) == IF Len(s) > MaxEntries THEN Tail(s) ELSE s
Store(r, a) ==
  entries' = Trimmed(Append(Others(r), [key |-> r, at |-> now, what |-> a]))
-----------------------------------------------------------------------------
(***************************************************************************)
(* InteractiveBurstGuard, for requests that are not explicit.              *)
(***************************************************************************)
\* What the guard still remembers once the loop over _first_seen is done.
Forgotten(k) == first_seen[k] # None /\ now - first_seen[k] > Forget
Remembered(k) == IF Forgotten(k) THEN None ELSE first_seen[k]

\* Mutant: the guard forgets when it saw a request, and not its ranking.
RankedKept(k) == ranked[k]

RankedStill(k) == IF Forgotten(k) THEN NoAnswer ELSE ranked[k]

GuardAnswers(r, a) ==
  /\ Send(r, a)
  /\ Store(r, a)
  /\ ranked' = [k \in Interactive |-> RankedStill(k)]
  /\ UNCHANGED <<now, busy>>

\* The guard has the model's answer to this request.
ServeRanked(r) ==
  /\ Misses(r)
  /\ RankedStill(r) # NoAnswer
  /\ GuardAnswers(r, ranked[r])
  /\ first_seen' = [k \in Interactive |-> Remembered(k)]
  /\ UNCHANGED shown

\* It has not, and the request is new or has not settled: Mozc's order.
Defer(r) ==
  /\ Misses(r)
  /\ RankedStill(r) = NoAnswer
  /\ \/ /\ Remembered(r) = None
        /\ first_seen' = [k \in Interactive |->
                            IF k = r THEN now ELSE Remembered(k)]
     \/ /\ Remembered(r) # None
        /\ now - first_seen[r] < Settle
        /\ first_seen' = [k \in Interactive |-> Remembered(k)]
  /\ GuardAnswers(r, Mozc)
  /\ shown' = [shown EXCEPT ![r] = @ \cup {now}]

\* Mutant: a request counts as settled as soon as it comes a second time.
BeginSettledAtOnce(r) ==
  /\ Misses(r)
  /\ RankedStill(r) = NoAnswer
  /\ Remembered(r) # None
  /\ entries' = Others(r)
  /\ first_seen' = [k \in Interactive |-> Remembered(k)]
  /\ ranked' = [k \in Interactive |-> RankedStill(k)]
  /\ busy' = r
  /\ UNCHANGED <<now, answer, shown>>

\* It has settled: the model is asked.
BeginSettled(r) ==
  /\ Misses(r)
  /\ RankedStill(r) = NoAnswer
  /\ Remembered(r) # None
  /\ now - first_seen[r] >= Settle
  /\ entries' = Others(r)
  /\ first_seen' = [k \in Interactive |-> Remembered(k)]
  /\ ranked' = [k \in Interactive |-> RankedStill(k)]
  /\ busy' = r
  /\ UNCHANGED <<now, answer, shown>>
-----------------------------------------------------------------------------
(***************************************************************************)
(* process_line, and the model.                                            *)
(***************************************************************************)
\* A legacy request with no text around it never reaches the ranker.
AnswerBare(r) ==
  /\ busy = None
  /\ Send(r, Mozc)
  /\ UNCHANGED <<now, entries, first_seen, ranked, busy, shown>>

\* The model is asked without the guard; an expired entry is gone by then.
Ask(r) ==
  /\ Misses(r)
  /\ entries' = Others(r)
  /\ busy' = r
  /\ UNCHANGED <<now, first_seen, ranked, answer, shown>>

\* An explicit request goes past the guard.
BeginExplicit(r) == r \in Explicit /\ Ask(r)

\* So does rank_batch, which the guard does not define.
BeginBatch(r) == r \in Batch /\ Ask(r)

\* The model's answer: Mozc's order when the context is too weak to tell.
Verdict(r) == IF r \in Weak THEN Mozc ELSE Model(now)

\* Mutant: a batch fallback is stored like any answer.
FallBackStored ==
  /\ busy \in Batch
  /\ Send(busy, Mozc)
  /\ Store(busy, Mozc)
  /\ busy' = None
  /\ UNCHANGED <<now, first_seen, ranked, shown>>

\* rank_batch has too little context, or could not complete the caches: its
\* answer is marked as not cacheable.
FallBack ==
  /\ busy \in Batch
  /\ Send(busy, Mozc)
  /\ busy' = None
  /\ UNCHANGED <<now, entries, first_seen, ranked, shown>>

Finish ==
  /\ busy # None
  /\ busy \notin Batch \cap Weak
  /\ Send(busy, Verdict(busy))
  /\ Store(busy, Verdict(busy))
  /\ ranked' = [k \in Interactive |-> IF k = busy THEN Verdict(busy)
                                      ELSE ranked[k]]
  /\ busy' = None
  /\ UNCHANGED <<now, first_seen, shown>>

\* The backend raises: process_line answers no line at all.
Raise ==
  /\ busy # None
  /\ Send(busy, NoAnswer)
  /\ busy' = None
  /\ UNCHANGED <<now, entries, first_seen, ranked, shown>>

Tick ==
  /\ now < MaxTime
  /\ now' = now + 1
  /\ shown' = [r \in Interactive |-> {t \in shown[r] : now + 1 - t <= Forget}]
  /\ UNCHANGED <<entries, first_seen, ranked, busy, answer>>
-----------------------------------------------------------------------------
ProcessLine(r) ==
  \/ r \in Bare /\ AnswerBare(r)
  \/ r \notin Bare /\ ServeCached(r)
  \/ r \in Interactive \ Bare /\ (ServeRanked(r) \/ Defer(r) \/ BeginSettled(r))
  \/ BeginExplicit(r)
  \/ BeginBatch(r)

Next ==
  \/ \E r \in Requests : ProcessLine(r)
  \/ Finish
  \/ FallBack
  \/ Raise
  \/ Tick

Spec == Init /\ [][Next]_vars
-----------------------------------------------------------------------------
(***************************************************************************)
(* Properties.                                                             *)
(***************************************************************************)
\* Type correctness; the cache has one entry a request, and MaxEntries at most.
Entry == [key : Requests, at : Times, what : Answers]
TypeOK ==
  /\ now \in Times
  /\ entries \in Seq(Entry)
  /\ Len(entries) <= MaxEntries
  /\ \A i, j \in DOMAIN entries : entries[i].key = entries[j].key => i = j
  /\ first_seen \in [Interactive -> Times \cup {None}]
  /\ ranked \in [Interactive -> Answers \cup {NoAnswer}]
  /\ busy \in Requests \cup {None}
  /\ answer \in [to : Requests \cup {None}, what : Answers \cup {NoAnswer},
                at : Times]
  /\ shown \in [Interactive -> SUBSET Times]

\* Two caches stand in a row, and each keeps what the other gave it: an explicit
\* answer is nevertheless never older than the cache's lifetime, and one for an
\* interactive request than both lifetimes, less the time it took to settle.
StalenessBound(r) == IF r \in Interactive THEN TTL + Forget - Settle ELSE TTL
AnswersAreRecent ==
  answer.what.by = "model"
    => answer.at - answer.what.made <= StalenessBound(answer.to)

\* "typing never starts model inference": the model begins on an interactive
\* request only if the user was shown Mozc's order for it, at least Settle and at
\* most Forget ago.
TypingNeverStartsInference ==
  [][busy = None /\ busy' \in Interactive
       => \E t \in shown[busy'] : now - t >= Settle]_vars

\* What rank_batch answers because a prefetch had not arrived is never replayed:
\* the cache holds no fallback for a batch.
FallbackNeverReplayed ==
  \A i \in DOMAIN entries :
    entries[i].key \in Batch => entries[i].what.by = "model"

\* The comment in main: "return Mozc order immediately until the same request is
\* stable for 500 ms".  A request with context that was answered in Mozc's order
\* at least Settle ago, and comes again, is not answered in Mozc's order again.
StableIsRanked ==
  [][\A r \in Interactive \ (Weak \cup Bare) :
       answer'.to = r /\ answer'.what = Mozc /\ answer' # answer
         => \A t \in shown[r] : now - t < Settle]_vars
=============================================================================

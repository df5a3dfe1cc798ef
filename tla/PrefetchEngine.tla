--------------------------- MODULE PrefetchEngine ---------------------------
(***************************************************************************)
(* The shared embedding caches of the resident dual-encoder ranker and the *)
(* four threads that work on them:                                         *)
(*                                                                         *)
(*   "pipe"       the named-pipe request thread: it queues prefetches and  *)
(*                answers explicit conversions (rank_batch and rank);      *)
(*   "context"    the context-prefetch worker;                             *)
(*   "candidate"  the candidate-prefetch worker;                           *)
(*   "warmup"     the bulk dictionary warmup.                              *)
(*                                                                         *)
(* A step is what one thread does between two points where it gives up a   *)
(* lock.  The tokenizer's truncation length is shared mutable state, so a  *)
(* vector is abstracted to the truncation it was tokenised under: a        *)
(* context must be tokenised under "context" (context_chars), a candidate  *)
(* under "candidate" (16).                                                 *)
(***************************************************************************)
EXTENDS Naturals, Sequences

CONSTANTS
  Requests,        \* conversion snapshots the client may send
  Queries,         \* safe context strings, the keys of context_cache
  Words,           \* candidate surfaces, the keys of candidate_cache
  Plan,            \* request -> its unique context queries, in order
  WordsOf,         \* request -> its candidate surfaces
  Sent,            \* side -> the snapshots the client sends to be prefetched
  Weak,            \* the requests whose context carries under two signs
  Batches,         \* the vocabulary, in the warmup's batches
  Persisted,       \* the words earlier sessions left in the store
  EncoderMayFail,  \* whether a model call may raise
  StoreMayFail,    \* whether SQLite may refuse a read or a write
  NoRequest        \* an empty slot (None)

\* The two kinds of text, of pending slot and of prefetch worker.
Sides == {"context", "candidate"}

ASSUME PrefetchAssumption ==
  /\ Plan \in [Requests -> Seq(Queries)]
  /\ \A r \in Requests : Plan[r] # <<>>
  /\ WordsOf \in [Requests -> SUBSET Words]
  /\ Sent \in [Sides -> SUBSET Requests]
  /\ Weak \subseteq Requests
  /\ Batches \in Seq(SUBSET Words)
  /\ Persisted \subseteq Words
  /\ EncoderMayFail \in BOOLEAN /\ StoreMayFail \in BOOLEAN
  /\ NoRequest \notin Requests

Workers == Sides
Threads == Sides \cup {"pipe", "warmup"}

\* A cache entry: absent, or the truncation its text was tokenised under.
Absent == "absent"
Entry == Sides \cup {Absent}

VARIABLES
  pc,              \* where each thread is
  req,             \* the request each thread works on
  missing,         \* the texts each thread is about to encode
  got,             \* the truncation each thread's last encoding ran under
  pending,         \* _pending_context_prefetch, _pending_candidate_prefetch
  context_cache,
  candidate_cache,
  store,           \* the persistent embedding store, by word
  signature,       \* _context_prefetch_signature
  model_lock,      \* the holder of _model_lock, or "free"
  joint_lock,      \* the holder of _joint_context_lock, or "free"
  truncation,      \* the tokenizer's current truncation
  op,              \* what the pipe thread serves: "batch" or "single"
  hit,             \* rank_batch found every context vector at first sight
  cache_ready,     \* what _wait_for_prefetch_cache returned
  batch,           \* the warmup's next vocabulary batch
  cleared          \* history: the context cache was emptied under the explicit
                   \* conversion in progress

vars == <<pc, req, missing, got, pending, context_cache, candidate_cache,
          store, signature, model_lock, joint_lock, truncation, op, hit,
          cache_ready, cleared, batch>>

caches == <<context_cache, candidate_cache, store>>
locks == <<model_lock, joint_lock, truncation>>
serving == <<op, hit, cache_ready, cleared>>
-----------------------------------------------------------------------------
Init ==
  /\ pc = [t \in Threads |-> CASE t = "pipe" -> "idle"
                               [] t = "warmup" -> "yield"
                               [] OTHER -> "off"]
  /\ req = [t \in Threads |-> NoRequest]
  /\ missing = [t \in Threads |-> {}]
  /\ got = [t \in Threads |-> Absent]
  /\ pending = [s \in Sides |-> NoRequest]
  /\ context_cache = [q \in Queries |-> Absent]
  /\ candidate_cache = [w \in Words |-> Absent]
  /\ store = [w \in Words |-> IF w \in Persisted THEN "candidate" ELSE Absent]
  /\ signature = <<>>
  /\ model_lock = "free"
  /\ joint_lock = "free"
  /\ truncation = Absent
  /\ op = "batch"
  /\ hit = FALSE
  /\ cache_ready = FALSE
  /\ batch = 1
  /\ cleared = FALSE

\* The context queries thread t wants: the joint plan of its request, or for a
\* single-segment rank the one query of that segment.
Wanted(t) ==
  IF t = "pipe" /\ op = "single"
  THEN {Plan[req[t]][1]}
  ELSE {Plan[req[t]][i] : i \in 1..Len(Plan[req[t]])}

Cached(cache, keys) == \A k \in keys : cache[k] # Absent

\* Whether thread t may run, and where it stands for each kind of text.
Encoding == [context |-> "ctx_encode", candidate |-> "cand_encode"]
Running  == [context |-> "ctx_model",  candidate |-> "cand_model"]

\* Where a thread goes once its context vectors, or its candidates, are there.
AfterContexts(t) ==
  CASE t = "context" -> "take"
    [] t = "pipe" /\ op = "batch" /\ cache_ready -> "score"
    [] OTHER -> "cand_lookup"
AfterCandidates(t) == IF t = "pipe" THEN "score" ELSE "take"

\* A `with _joint_context_lock` block ends, normally or by an exception.
ReleaseJoint(t) == joint_lock' = IF joint_lock = t THEN "free" ELSE joint_lock

\* The pipe thread's handler returns, and its locals are gone.
Return ==
  /\ req' = [req EXCEPT !["pipe"] = NoRequest]
  /\ op' = "batch"
  /\ hit' = FALSE
  /\ cache_ready' = FALSE
  /\ cleared' = FALSE

\* An exception leaves thread t's handler: the worker logs it and loops, the
\* warmup ends; rank_batch answers Mozc's order, and rank answers nothing.
Abandon(t) ==
  /\ pc' = [pc EXCEPT ![t] = CASE t = "pipe" -> "idle"
                               [] t = "warmup" -> "off"
                               [] OTHER -> "take"]
  /\ missing' = [missing EXCEPT ![t] = {}]
  /\ ReleaseJoint(t)
  /\ IF t = "pipe" THEN Return ELSE UNCHANGED <<req, serving>>
-----------------------------------------------------------------------------
(***************************************************************************)
(* Queueing, on the pipe thread, and the prefetch workers.                 *)
(***************************************************************************)
\* _queue_prefetch: the slot keeps the newest snapshot; a worker is started
\* unless the slot's worker still runs.
QueuePrefetch(s, r) ==
  /\ pc["pipe"] = "idle"
  /\ pending' = [pending EXCEPT ![s] = r]
  /\ pc' = [pc EXCEPT ![s] = IF pc[s] = "off" THEN "take" ELSE @]
  /\ UNCHANGED <<req, missing, got, caches, signature, locks, serving, batch>>

\* _run_pending_prefetch, first critical section: take what is pending.
TakePending(s) ==
  /\ pc[s] = "take"
  /\ pending' = [pending EXCEPT ![s] = NoRequest]
  /\ req' = [req EXCEPT ![s] = pending[s]]
  /\ pc' = [pc EXCEPT ![s] = CASE pending[s] = NoRequest -> "retire"
                               [] pending[s] \in Requests /\ s = "context"
                                    -> "generation"
                               [] OTHER -> "cand_lookup"]
  /\ UNCHANGED <<missing, got, caches, signature, locks, serving, batch>>

\* Mutant: the worker empties its pending slot as it ends.
RetireClearing(s) ==
  /\ pc[s] = "retire"
  /\ pc' = [pc EXCEPT ![s] = "off"]
  /\ pending' = [pending EXCEPT ![s] = NoRequest]
  /\ UNCHANGED <<req, missing, got, caches, signature, locks, serving, batch>>

\* Its second critical section, entered when nothing was pending: the worker's
\* slot is emptied and the thread ends, whatever has been queued meanwhile.
Retire(s) ==
  /\ pc[s] = "retire"
  /\ pc' = [pc EXCEPT ![s] = "off"]
  /\ UNCHANGED <<req, missing, got, pending, caches, signature, locks,
                 serving, batch>>

\* _clear_context_cache.
ClearContexts == context_cache' = [q \in Queries |-> Absent]

\* prefetch_context_batch: another signature starts another generation.
NewGeneration ==
  /\ pc["context"] = "generation"
  /\ pc' = [pc EXCEPT !["context"] = "ctx_lock"]
  /\ signature' = Plan[req["context"]]
  /\ \/ /\ signature' # signature
        /\ ClearContexts
        /\ cleared' = (pc["pipe"] # "idle")
     \/ /\ signature' = signature
        /\ UNCHANGED <<context_cache, cleared>>
  /\ UNCHANGED <<req, missing, got, pending, candidate_cache, store, locks,
                 op, hit, cache_ready, batch>>
-----------------------------------------------------------------------------
(***************************************************************************)
(* encode_texts: _model_lock is held from setting the truncation to the    *)
(* end of the model call.                                                  *)
(***************************************************************************)
\* Mutant: model calls are not serialized.
BeginEncodeUnlocked(t) ==
  \E k \in Sides :
    /\ pc[t] = Encoding[k]
    /\ model_lock' = t
    /\ truncation' = k
    /\ pc' = [pc EXCEPT ![t] = Running[k]]
    /\ UNCHANGED <<req, missing, got, pending, caches, signature, joint_lock,
                   serving, batch>>

BeginEncode(t) ==
  \E k \in Sides :
    /\ pc[t] = Encoding[k]
    /\ model_lock = "free"
    /\ model_lock' = t
    /\ truncation' = k
    /\ pc' = [pc EXCEPT ![t] = Running[k]]
    /\ UNCHANGED <<req, missing, got, pending, caches, signature, joint_lock,
                   serving, batch>>

FinishEncode(t) ==
  /\ pc[t] \in {"ctx_model", "cand_model"}
  /\ got' = [got EXCEPT ![t] = truncation]
  /\ model_lock' = "free"
  /\ pc' = [pc EXCEPT ![t] = CASE @ = "ctx_model" -> "ctx_fill"
                               [] @ = "cand_model" /\ t = "warmup" -> "cand_save"
                               [] OTHER -> "cand_fill"]
  /\ UNCHANGED <<req, missing, pending, caches, signature, joint_lock,
                 truncation, serving, batch>>

\* Mutant: the lock is not given back when the model call raises.
FailEncodeLocked(t) ==
  /\ EncoderMayFail
  /\ pc[t] \in {"ctx_model", "cand_model"}
  /\ Abandon(t)
  /\ UNCHANGED <<got, pending, caches, signature, model_lock, truncation, batch>>

\* The tokenizer or the session raises: `with` gives the lock back.
FailEncode(t) ==
  /\ EncoderMayFail
  /\ pc[t] \in {"ctx_model", "cand_model"}
  /\ model_lock' = "free"
  /\ Abandon(t)
  /\ UNCHANGED <<got, pending, caches, signature, truncation, batch>>
-----------------------------------------------------------------------------
(***************************************************************************)
(* _get_context_vectors, by the context worker and by rank_batch under     *)
(* _joint_context_lock, by rank without it.                                *)
(***************************************************************************)
\* Mutant: _get_context_vectors is entered without _joint_context_lock.
LockJointUnguarded(t) ==
  /\ pc[t] = "ctx_lock"
  /\ joint_lock' = t
  /\ pc' = [pc EXCEPT ![t] = "ctx_lookup"]
  /\ UNCHANGED <<req, missing, got, pending, caches, signature, model_lock,
                 truncation, serving, batch>>

LockJoint(t) ==
  /\ pc[t] = "ctx_lock"
  /\ joint_lock = "free"
  /\ joint_lock' = t
  /\ pc' = [pc EXCEPT ![t] = "ctx_lookup"]
  /\ UNCHANGED <<req, missing, got, pending, caches, signature, model_lock,
                 truncation, serving, batch>>

\* Mutant: the plan counts as cached when its first query is.
LookupFirstContext(t) ==
  LET absent == {q \in {Plan[req[t]][1]} : context_cache[q] = Absent} IN
  /\ pc[t] = "ctx_lookup"
  /\ missing' = [missing EXCEPT ![t] = absent]
  /\ pc' = [pc EXCEPT ![t] = IF absent = {} THEN "ctx_stack" ELSE "ctx_encode"]
  /\ UNCHANGED <<req, got, pending, caches, signature, locks, serving, batch>>

LookupContexts(t) ==
  LET absent == {q \in Wanted(t) : context_cache[q] = Absent} IN
  /\ pc[t] = "ctx_lookup"
  /\ missing' = [missing EXCEPT ![t] = absent]
  /\ pc' = [pc EXCEPT ![t] = IF absent = {} THEN "ctx_stack" ELSE "ctx_encode"]
  /\ UNCHANGED <<req, got, pending, caches, signature, locks, serving, batch>>

FillContexts(t) ==
  /\ pc[t] = "ctx_fill"
  /\ context_cache' = [q \in Queries |-> IF q \in missing[t] THEN got[t]
                                         ELSE context_cache[q]]
  /\ missing' = [missing EXCEPT ![t] = {}]
  /\ got' = [got EXCEPT ![t] = Absent]
  /\ pc' = [pc EXCEPT ![t] = "ctx_stack"]
  /\ UNCHANGED <<req, pending, candidate_cache, store, signature, locks,
                 serving, batch>>

StackContexts(t) ==
  /\ pc[t] = "ctx_stack"
  /\ Cached(context_cache, Wanted(t))
  /\ pc' = [pc EXCEPT ![t] = AfterContexts(t)]
  /\ ReleaseJoint(t)
  /\ UNCHANGED <<req, missing, got, pending, caches, signature, model_lock,
                 truncation, serving, batch>>

\* A query looked up, or stored, a moment ago has been cleared: KeyError.
StackRaises(t) ==
  /\ pc[t] = "ctx_stack"
  /\ ~Cached(context_cache, Wanted(t))
  /\ Abandon(t)
  /\ UNCHANGED <<got, pending, caches, signature, model_lock, truncation,
                 batch>>
-----------------------------------------------------------------------------
(***************************************************************************)
(* preload_candidates, by the candidate worker and by explicit requests.   *)
(***************************************************************************)
LookupCandidates(t) ==
  LET absent == {w \in WordsOf[req[t]] : candidate_cache[w] = Absent} IN
  /\ pc[t] = "cand_lookup"
  /\ missing' = [missing EXCEPT ![t] = absent]
  /\ pc' = [pc EXCEPT ![t] = IF absent = {} THEN AfterCandidates(t)
                             ELSE "cand_restore"]
  /\ UNCHANGED <<req, got, pending, caches, signature, locks, serving, batch>>

\* What get_many may find of a set of words, as many chunks as SQLite serves.
Readable(words) ==
  LET stored == {w \in words : store[w] # Absent} IN
  {found \in SUBSET stored : found = stored \/ StoreMayFail}

\* get_many, and the cache updated with what the store had.
RestoreCandidates(t) ==
  /\ pc[t] = "cand_restore"
  /\ \E persisted \in Readable(missing[t]) :
       /\ candidate_cache' = [w \in Words |->
                                IF w \in persisted THEN store[w]
                                ELSE candidate_cache[w]]
       /\ missing' = [missing EXCEPT ![t] = @ \ persisted]
       /\ pc' = [pc EXCEPT ![t] = IF missing[t] = persisted
                                  THEN AfterCandidates(t) ELSE "cand_encode"]
  /\ UNCHANGED <<req, got, pending, context_cache, store, signature, locks,
                 serving, batch>>

FillCandidates(t) ==
  /\ pc[t] = "cand_fill"
  /\ candidate_cache' = [w \in Words |-> IF w \in missing[t] THEN got[t]
                                         ELSE candidate_cache[w]]
  /\ pc' = [pc EXCEPT ![t] = "cand_save"]
  /\ UNCHANGED <<req, missing, got, pending, context_cache, store, signature,
                 locks, serving, batch>>

\* Mutant: a warmup batch is counted twice.
SaveCandidatesTwice(t) ==
  /\ pc[t] = "cand_save"
  /\ store' = [w \in Words |-> IF w \in missing[t] THEN got[t] ELSE store[w]]
  /\ missing' = [missing EXCEPT ![t] = {}]
  /\ got' = [got EXCEPT ![t] = Absent]
  /\ pc' = [pc EXCEPT ![t] = IF t = "warmup" THEN "yield"
                             ELSE AfterCandidates(t)]
  /\ batch' = IF t = "warmup" THEN batch + 2 ELSE batch
  /\ UNCHANGED <<req, pending, context_cache, candidate_cache, signature,
                 locks, serving>>

\* put_many, the last step of preload_candidates and of a warmup batch: one
\* transaction, whose failure nobody is told of.
SaveCandidates(t) ==
  /\ pc[t] = "cand_save"
  /\ \/ store' = [w \in Words |-> IF w \in missing[t] THEN got[t] ELSE store[w]]
     \/ StoreMayFail /\ store' = store
  /\ missing' = [missing EXCEPT ![t] = {}]
  /\ got' = [got EXCEPT ![t] = Absent]
  /\ pc' = [pc EXCEPT ![t] = IF t = "warmup" THEN "yield"
                             ELSE AfterCandidates(t)]
  /\ batch' = IF t = "warmup" THEN batch + 1 ELSE batch
  /\ UNCHANGED <<req, pending, context_cache, candidate_cache, signature,
                 locks, serving>>
-----------------------------------------------------------------------------
(***************************************************************************)
(* Explicit conversions on the pipe thread.                                *)
(***************************************************************************)
\* A request without meaningful context is answered in Mozc's order.  rank_batch
\* changes nothing then; rank clears the context cache.
GateSingle(r) ==
  /\ pc["pipe"] = "idle"
  /\ r \in Weak
  /\ ClearContexts
  /\ UNCHANGED <<pc, req, missing, got, pending, candidate_cache, store,
                 signature, locks, serving, batch>>

BeginExplicit(r, kind) ==
  /\ pc["pipe"] = "idle"
  /\ r \notin Weak
  /\ req' = [req EXCEPT !["pipe"] = r]
  /\ op' = kind
  /\ pc' = [pc EXCEPT !["pipe"] = IF kind = "batch" THEN "peek"
                                  ELSE "ctx_lookup"]
  /\ UNCHANGED <<missing, got, pending, caches, signature, locks, hit,
                 cache_ready, cleared, batch>>

\* rank_batch reads the cached vectors, under the joint lock for a moment.
Peek ==
  /\ pc["pipe"] = "peek"
  /\ joint_lock = "free"
  /\ hit' = Cached(context_cache, Wanted("pipe"))
  /\ pc' = [pc EXCEPT !["pipe"] = "wait"]
  /\ UNCHANGED <<req, missing, got, pending, caches, signature, locks, op,
                 cache_ready, cleared, batch>>

\* Mutant: the wait looks at the context cache alone.
WaitForContexts ==
  /\ pc["pipe"] = "wait"
  /\ cache_ready' = Cached(context_cache, Wanted("pipe"))
  /\ pc' = [pc EXCEPT !["pipe"] = CASE ~hit -> "ctx_lock"
                                    [] hit /\ cache_ready' -> "score"
                                    [] OTHER -> "cand_lookup"]
  /\ UNCHANGED <<req, missing, got, pending, caches, signature, locks, op, hit,
                 cleared, batch>>

\* _wait_for_prefetch_cache returns: true once everything is cached, false when
\* the deadline passes or no worker could bring what is missing.  Waiting is
\* not taking this step.
WaitForPrefetch ==
  /\ pc["pipe"] = "wait"
  /\ cache_ready' = (/\ Cached(context_cache, Wanted("pipe"))
                     /\ Cached(candidate_cache, WordsOf[req["pipe"]]))
  /\ pc' = [pc EXCEPT !["pipe"] = CASE ~hit -> "ctx_lock"
                                    [] hit /\ cache_ready' -> "score"
                                    [] OTHER -> "cand_lookup"]
  /\ UNCHANGED <<req, missing, got, pending, caches, signature, locks, op, hit,
                 cleared, batch>>

\* The scores are computed from the vectors in hand, and the answer is sent.
Score ==
  /\ pc["pipe"] = "score"
  /\ Return
  /\ pc' = [pc EXCEPT !["pipe"] = "idle"]
  /\ UNCHANGED <<missing, got, pending, caches, signature, locks, batch>>
-----------------------------------------------------------------------------
(***************************************************************************)
(* _warm_candidate_dictionary.                                             *)
(***************************************************************************)
\* _prefetch_active: a snapshot is queued or a worker runs, also one about to end.
PrefetchActive == \E s \in Sides : pending[s] # NoRequest \/ pc[s] # "off"

\* _wait_for_live_prefetch looks again every 20 ms, and lets the batch through
\* only when it sees no prefetch at that moment.
LetThrough == ~PrefetchActive

\* The next batch is let through, and missing_words says what the store lacks
\* of it.
WarmBatch ==
  /\ pc["warmup"] = "yield"
  /\ batch <= Len(Batches)
  /\ LetThrough
  /\ \E found \in Readable(Batches[batch]) :
       LET absent == Batches[batch] \ found IN
       /\ missing' = [missing EXCEPT !["warmup"] = absent]
       /\ \/ /\ absent = {}
             /\ batch' = batch + 1
             /\ UNCHANGED pc
          \/ /\ absent # {}
             /\ pc' = [pc EXCEPT !["warmup"] = "cand_encode"]
             /\ UNCHANGED batch
  /\ UNCHANGED <<req, got, pending, caches, signature, locks, serving>>

\* The vocabulary is exhausted, or the store could not be opened and nothing is
\* warmed at all.
WarmupDone ==
  /\ pc["warmup"] = "yield"
  /\ batch > Len(Batches) \/ (StoreMayFail /\ batch = 1)
  /\ pc' = [pc EXCEPT !["warmup"] = "off"]
  /\ UNCHANGED <<req, missing, got, pending, caches, signature, locks, serving,
                 batch>>
-----------------------------------------------------------------------------
\* What the client makes the pipe thread begin.
Client ==
  \/ \E s \in Sides : \E r \in Sent[s] : QueuePrefetch(s, r)
  \/ \E r \in Requests : GateSingle(r)
  \/ \E r \in Requests, kind \in {"batch", "single"} : BeginExplicit(r, kind)

ContextStep(t) ==
  \/ LockJoint(t)
  \/ LookupContexts(t)
  \/ FillContexts(t)
  \/ StackContexts(t)
  \/ StackRaises(t)

CandidateStep(t) ==
  \/ LookupCandidates(t)
  \/ RestoreCandidates(t)
  \/ FillCandidates(t)
  \/ SaveCandidates(t)

EncodeStep(t) ==
  \/ BeginEncode(t)
  \/ FinishEncode(t)
  \/ FailEncode(t)

\* What thread t does next of its own accord.
Step(t) ==
  \/ EncodeStep(t)
  \/ ContextStep(t)
  \/ CandidateStep(t)
  \/ t \in Workers /\ (TakePending(t) \/ Retire(t))
  \/ t = "context" /\ NewGeneration
  \/ t = "pipe" /\ (Peek \/ WaitForPrefetch \/ Score)
  \/ t = "warmup" /\ (WarmBatch \/ WarmupDone)

Next == Client \/ \E t \in Threads : Step(t)

Spec == Init /\ [][Next]_vars

\* The operating system runs every thread that can run; the client owes nothing.
FairSpec == Spec /\ \A t \in Threads : WF_vars(Step(t))
-----------------------------------------------------------------------------
(***************************************************************************)
(* Properties.                                                             *)
(***************************************************************************)
\* Where each thread can stand.
ContextPC == {"ctx_lookup", "ctx_encode", "ctx_model", "ctx_fill", "ctx_stack"}
CandidatePC == {"cand_lookup", "cand_restore", "cand_encode", "cand_model",
                "cand_fill", "cand_save"}
Places(t) ==
  CASE t = "pipe" ->
         {"idle", "peek", "wait", "score", "ctx_lock"} \cup ContextPC
           \cup CandidatePC
    [] t = "context" ->
         {"off", "take", "retire", "generation", "ctx_lock"} \cup ContextPC
    [] t = "candidate" -> {"off", "take", "retire"} \cup CandidatePC
    [] OTHER -> {"off", "yield", "cand_encode", "cand_model", "cand_save"}
PC == UNION {Places(t) : t \in Threads}

\* Type correctness of the engine's state.
TypeOK ==
  /\ pc \in [Threads -> PC]
  /\ \A t \in Threads : pc[t] \in Places(t)
  /\ req \in [Threads -> Requests \cup {NoRequest}]
  /\ missing \in [Threads -> SUBSET (Queries \cup Words)]
  /\ got \in [Threads -> Entry]
  /\ pending \in [Sides -> Requests \cup {NoRequest}]
  /\ context_cache \in [Queries -> Entry]
  /\ candidate_cache \in [Words -> Entry]
  /\ store \in [Words -> Entry]
  /\ signature \in Seq(Queries)
  /\ model_lock \in Threads \cup {"free"}
  /\ joint_lock \in Threads \cup {"free"}
  /\ truncation \in Entry
  /\ op \in {"batch", "single"}
  /\ hit \in BOOLEAN
  /\ cache_ready \in BOOLEAN
  /\ batch \in 1..(Len(Batches) + 1)
  /\ cleared \in BOOLEAN

\* Every vector anyone can read, in memory or on disk, was tokenised under the
\* truncation of its kind, whatever the four threads encode at the same time:
\* what "serialize model calls" in encode_texts is for.
VectorsExact ==
  /\ \A q \in Queries : context_cache[q] \in {Absent, "context"}
  /\ \A w \in Words : candidate_cache[w] \in {Absent, "candidate"}
  /\ \A w \in Words : store[w] \in {Absent, "candidate"}

\* A prefetch and a batch conversion never encode the same context query at the
\* same time: _joint_context_lock coalesces them.
EncodingContexts(t) == pc[t] \in {"ctx_encode", "ctx_model", "ctx_fill"}
ContextsCoalesced ==
  EncodingContexts("context") /\ EncodingContexts("pipe") /\ op = "batch"
    => missing["context"] \cap missing["pipe"] = {}

\* When the scores are computed without encoding, every candidate vector of the
\* request is there, whichever of the wait, the store and the encoder brought it.
ScoringFindsCandidates ==
  pc["pipe"] = "score" => Cached(candidate_cache, WordsOf[req["pipe"]])

\* The pipe thread gives a conversion up, for Mozc's order or no answer at all,
\* only if its own model call fails or the context cache was emptied under it.
GivesUp == pc["pipe"] \notin {"idle", "score"} /\ pc'["pipe"] = "idle"
GivesUpOnlyWhenDisturbed ==
  [][GivesUp => cleared \/ pc["pipe"] \in {"ctx_model", "cand_model"}]_vars

\* A queued snapshot leaves its slot only into the worker's hands, or for a
\* newer snapshot: what is queued while the worker is busy is never dropped.
NewestNeverDropped ==
  [][\A s \in Sides : pending[s] # NoRequest /\ pending'[s] = NoRequest
        => req'[s] = pending[s]]_vars

\* Whatever the workers and the warmup do with the locks, the pipe thread comes
\* back from every request.
PipeAlwaysReturns == pc["pipe"] # "idle" ~> pc["pipe"] = "idle"

\* The docstring of prefetch_context_batch_async: "Queue the newest context
\* snapshot".  A queued snapshot is eventually taken, or replaced and taken.
QueuedIsTaken ==
  \A s \in Sides : pending[s] # NoRequest ~> pending[s] = NoRequest

\* The comment in rank_batch: "Complete those misses on the explicit conversion
\* path".  With an encoder that never fails, rank_batch is never given up.
MissesAreCompleted == [][~(GivesUp /\ op = "batch")]_vars
=============================================================================

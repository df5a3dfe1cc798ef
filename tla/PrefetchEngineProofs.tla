------------------------ MODULE PrefetchEngineProofs ------------------------
(***************************************************************************)
(* Safety of PrefetchEngine for every set of requests, every plan and      *)
(* every vocabulary.                                                       *)
(***************************************************************************)
EXTENDS PrefetchEngine, TLAPS

\* A thread that works has a request to work on, and the warmup a batch.
HasWork ==
  /\ pc["pipe"] # "idle" => req["pipe"] \in Requests
  /\ \A s \in Sides : pc[s] \notin {"off", "take", "retire"}
                        => req[s] \in Requests
  /\ pc["warmup"] \in {"cand_encode", "cand_model", "cand_save"}
       => batch <= Len(Batches)

\* Whoever runs the model holds the model lock and set the truncation; what a
\* thread brings back from the model is what it went there for.
ModelLockHeld ==
  \A t \in Threads :
    /\ pc[t] = "ctx_model" => model_lock = t /\ truncation = "context"
    /\ pc[t] = "cand_model" => model_lock = t /\ truncation = "candidate"
    /\ pc[t] = "ctx_fill" => got[t] = "context"
    /\ pc[t] \in {"cand_fill", "cand_save"} => got[t] = "candidate"

\* The context worker and rank_batch look contexts up under the joint lock.
JointLockHeld ==
  /\ pc["context"] \in ContextPC => joint_lock = "context"
  /\ pc["pipe"] \in ContextPC /\ op = "batch" => joint_lock = "pipe"

\* On its way to the scores, the pipe thread has or is fetching every candidate.
PipeCandidates ==
  /\ cache_ready => /\ pc["pipe"] # "idle"
                    /\ Cached(candidate_cache, WordsOf[req["pipe"]])
  /\ pc["pipe"] \in {"cand_restore", "cand_encode", "cand_model", "cand_fill"}
       => \A w \in WordsOf[req["pipe"]] :
            w \in missing["pipe"] \/ candidate_cache[w] # Absent
  /\ pc["pipe"] \in {"cand_save", "score"}
       => Cached(candidate_cache, WordsOf[req["pipe"]])

\* So has it every context, as long as nobody empties the context cache.
PipeContexts ==
  ~cleared =>
    /\ pc["pipe"] \in {"ctx_encode", "ctx_model", "ctx_fill"}
         => \A q \in Wanted("pipe") :
              q \in missing["pipe"] \/ context_cache[q] # Absent
    /\ pc["pipe"] = "ctx_stack" => Cached(context_cache, Wanted("pipe"))

IndInv ==
  /\ TypeOK
  /\ HasWork
  /\ ModelLockHeld
  /\ JointLockHeld
  /\ PipeCandidates
  /\ PipeContexts
  /\ VectorsExact
-----------------------------------------------------------------------------
LEMMA QueuePrefetchStep ==
  ASSUME IndInv, NEW s \in Sides, NEW r \in Sent[s], QueuePrefetch(s, r)
  PROVE  IndInv'
<1> USE PrefetchAssumption
        DEF IndInv, TypeOK, QueuePrefetch, Sides, Workers,
            Threads, Entry, Absent, caches, locks, serving
<1>1. TypeOK'
  BY DEF Places, PC, ContextPC, CandidatePC
<1>2. HasWork'
  BY DEF HasWork
<1>3. ModelLockHeld'
  BY DEF ModelLockHeld
<1>4. JointLockHeld'
  BY DEF JointLockHeld, ContextPC
<1>5. PipeCandidates'
  BY DEF PipeCandidates, Cached
<1>6. PipeContexts'
  BY DEF PipeContexts, Wanted
<1>7. VectorsExact'
  BY DEF VectorsExact
<1>8. QED
  BY <1>1, <1>2, <1>3, <1>4, <1>5, <1>6, <1>7 DEF IndInv

LEMMA TakePendingStep ==
  ASSUME IndInv, NEW s \in Workers, TakePending(s)
  PROVE  IndInv'
<1> USE PrefetchAssumption
        DEF IndInv, TypeOK, TakePending, Sides, Workers,
            Threads, Entry, Absent, caches, locks, serving
<1>1. TypeOK'
  BY DEF Places, PC, ContextPC, CandidatePC
<1>2. HasWork'
  <2>1. CASE pending[s] = NoRequest
    <3>1. pc' = [pc EXCEPT ![s] = "retire"]
      BY <2>1
    <3>2. req' = [req EXCEPT ![s] = NoRequest] /\ UNCHANGED batch
      BY <2>1
    <3>3. QED
      BY <3>1, <3>2 DEF HasWork
  <2>2. CASE pending[s] # NoRequest
    BY <2>2 DEF HasWork
  <2>3. QED
    BY <2>1, <2>2
<1>3. ModelLockHeld'
  BY DEF ModelLockHeld
<1>4. JointLockHeld'
  BY DEF JointLockHeld, ContextPC
<1>5. PipeCandidates'
  BY DEF PipeCandidates, Cached
<1>6. PipeContexts'
  BY DEF PipeContexts, Wanted
<1>7. VectorsExact'
  BY DEF VectorsExact
<1>8. QED
  BY <1>1, <1>2, <1>3, <1>4, <1>5, <1>6, <1>7 DEF IndInv

LEMMA RetireStep ==
  ASSUME IndInv, NEW s \in Workers, Retire(s)
  PROVE  IndInv'
<1> USE PrefetchAssumption
        DEF IndInv, TypeOK, Retire, Sides, Workers,
            Threads, Entry, Absent, caches, locks, serving
<1>1. TypeOK'
  BY DEF Places, PC, ContextPC, CandidatePC
<1>2. HasWork'
  BY DEF HasWork
<1>3. ModelLockHeld'
  BY DEF ModelLockHeld
<1>4. JointLockHeld'
  BY DEF JointLockHeld, ContextPC
<1>5. PipeCandidates'
  BY DEF PipeCandidates, Cached
<1>6. PipeContexts'
  BY DEF PipeContexts, Wanted
<1>7. VectorsExact'
  BY DEF VectorsExact
<1>8. QED
  BY <1>1, <1>2, <1>3, <1>4, <1>5, <1>6, <1>7 DEF IndInv

LEMMA NewGenerationStep ==
  ASSUME IndInv, NewGeneration
  PROVE  IndInv'
<1> USE PrefetchAssumption
        DEF IndInv, TypeOK, NewGeneration, ClearContexts, Sides, Workers,
            Threads, Entry, Absent, caches, locks, serving
<1>1. TypeOK'
  <2>1. pc' \in [Threads -> PC] /\ \A u \in Threads : pc'[u] \in Places(u)
    BY DEF Places, PC, ContextPC, CandidatePC
  <2>2. signature' \in Seq(Queries)
    BY DEF HasWork
  <2>3. context_cache' \in [Queries -> Entry] /\ cleared' \in BOOLEAN
    OBVIOUS
  <2>4. UNCHANGED <<req, missing, got, pending, candidate_cache, store, locks,
                    op, hit, cache_ready, batch>>
    OBVIOUS
  <2>5. QED
    BY <2>1, <2>2, <2>3, <2>4
<1>2. HasWork'
  BY DEF HasWork
<1>3. ModelLockHeld'
  BY DEF ModelLockHeld
<1>4. JointLockHeld'
  BY DEF JointLockHeld, ContextPC
<1>5. PipeCandidates'
  BY DEF PipeCandidates, Cached
<1>6. PipeContexts'
  <2>1. pc'["pipe"] = pc["pipe"] /\ Wanted("pipe")' = Wanted("pipe")
    BY DEF Wanted
  <2>2. CASE signature' # signature
    BY <2>1, <2>2 DEF PipeContexts, Places, ContextPC, CandidatePC
  <2>3. CASE signature' = signature
    BY <2>1, <2>3 DEF PipeContexts, Cached
  <2>4. QED
    BY <2>2, <2>3
<1>7. VectorsExact'
  BY DEF VectorsExact
<1>8. QED
  BY <1>1, <1>2, <1>3, <1>4, <1>5, <1>6, <1>7 DEF IndInv

LEMMA BeginEncodeStep ==
  ASSUME IndInv, NEW t \in Threads, BeginEncode(t)
  PROVE  IndInv'
<1> USE PrefetchAssumption
        DEF IndInv, TypeOK, BeginEncode, Encoding, Running, Sides, Workers,
            Threads, Entry, Absent, caches, locks, serving
<1>1. TypeOK'
  BY DEF Places, PC, ContextPC, CandidatePC
<1>2. HasWork'
  BY DEF HasWork
<1>3. ModelLockHeld'
  BY DEF ModelLockHeld
<1>4. JointLockHeld'
  BY DEF JointLockHeld, ContextPC
<1>5. PipeCandidates'
  BY DEF PipeCandidates, Cached
<1>6. PipeContexts'
  BY DEF PipeContexts, Wanted
<1>7. VectorsExact'
  BY DEF VectorsExact
<1>8. QED
  BY <1>1, <1>2, <1>3, <1>4, <1>5, <1>6, <1>7 DEF IndInv

LEMMA FinishEncodeStep ==
  ASSUME IndInv, NEW t \in Threads, FinishEncode(t)
  PROVE  IndInv'
<1> USE PrefetchAssumption
        DEF IndInv, TypeOK, FinishEncode, Sides, Workers,
            Threads, Entry, Absent, caches, locks, serving
<1>1. TypeOK'
  BY DEF HasWork, Places, PC, ContextPC, CandidatePC
<1>2. HasWork'
  BY DEF HasWork
<1>3. ModelLockHeld'
  <2> SUFFICES ASSUME NEW u \in Threads
               PROVE  ModelLockHeld!(u)'
    BY DEF ModelLockHeld
  <2>1. CASE u = t
    <3>1. CASE pc[t] = "ctx_model"
      <4>1. got'[t] = "context" /\ pc'[t] = "ctx_fill"
        BY <3>1 DEF ModelLockHeld
      <4>2. QED
        BY <2>1, <4>1
    <3>2. CASE pc[t] = "cand_model"
      <4>1. got'[t] = "candidate" /\ pc'[t] \in {"cand_fill", "cand_save"}
        BY <3>2 DEF ModelLockHeld
      <4>2. QED
        BY <2>1, <4>1
    <3>3. QED
      BY <3>1, <3>2
  <2>2. CASE u # t
    BY <2>2 DEF ModelLockHeld
  <2>3. QED
    BY <2>1, <2>2
<1>4. JointLockHeld'
  BY DEF JointLockHeld, ContextPC
<1>5. PipeCandidates'
  BY DEF PipeCandidates, Cached
<1>6. PipeContexts'
  BY DEF PipeContexts, Wanted
<1>7. VectorsExact'
  BY DEF VectorsExact
<1>8. QED
  BY <1>1, <1>2, <1>3, <1>4, <1>5, <1>6, <1>7 DEF IndInv

LEMMA FailEncodeStep ==
  ASSUME IndInv, NEW t \in Threads, FailEncode(t)
  PROVE  IndInv'
<1> USE PrefetchAssumption
        DEF IndInv, TypeOK, FailEncode, Abandon, Return, ReleaseJoint, Sides, Workers,
            Threads, Entry, Absent, caches, locks, serving
<1>1. TypeOK'
  <2>1. pc' \in [Threads -> PC] /\ \A u \in Threads : pc'[u] \in Places(u)
    <3>1. CASE t = "pipe"
      BY <3>1 DEF Places, PC, ContextPC, CandidatePC
    <3>2. CASE t # "pipe"
      BY <3>2 DEF Places, PC, ContextPC, CandidatePC
    <3>3. QED
      BY <3>1, <3>2
  <2>2. QED
    BY <2>1
<1>2. HasWork'
  BY DEF HasWork
<1>3. ModelLockHeld'
  BY DEF ModelLockHeld
<1>4. JointLockHeld'
  BY DEF JointLockHeld, ContextPC
<1>5. PipeCandidates'
  BY DEF PipeCandidates, Cached
<1>6. PipeContexts'
  BY DEF ModelLockHeld, PipeContexts, Wanted, Cached
<1>7. VectorsExact'
  BY DEF VectorsExact
<1>8. QED
  BY <1>1, <1>2, <1>3, <1>4, <1>5, <1>6, <1>7 DEF IndInv

LEMMA LockJointStep ==
  ASSUME IndInv, NEW t \in Threads, LockJoint(t)
  PROVE  IndInv'
<1> USE PrefetchAssumption
        DEF IndInv, TypeOK, LockJoint, Sides, Workers,
            Threads, Entry, Absent, caches, locks, serving
<1>1. TypeOK'
  BY DEF Places, PC, ContextPC, CandidatePC
<1>2. HasWork'
  BY DEF HasWork
<1>3. ModelLockHeld'
  BY DEF ModelLockHeld
<1>4. JointLockHeld'
  BY DEF JointLockHeld, ContextPC
<1>5. PipeCandidates'
  BY DEF PipeCandidates, Cached
<1>6. PipeContexts'
  BY DEF PipeContexts, Wanted
<1>7. VectorsExact'
  BY DEF VectorsExact
<1>8. QED
  BY <1>1, <1>2, <1>3, <1>4, <1>5, <1>6, <1>7 DEF IndInv

LEMMA LookupContextsStep ==
  ASSUME IndInv, NEW t \in Threads, LookupContexts(t)
  PROVE  IndInv'
<1> USE PrefetchAssumption
        DEF IndInv, TypeOK, LookupContexts, Sides, Workers,
            Threads, Entry, Absent, caches, locks, serving
<1>1. TypeOK'
  <2>1. pc[t] = "ctx_lookup"
        /\ \/ pc' = [pc EXCEPT ![t] = "ctx_stack"]
           \/ pc' = [pc EXCEPT ![t] = "ctx_encode"]
    OBVIOUS
  <2>2. pc' \in [Threads -> PC] /\ \A u \in Threads : pc'[u] \in Places(u)
    BY <2>1 DEF Places, PC, ContextPC, CandidatePC
  <2>3. req[t] \in Requests
    BY <2>1 DEF HasWork, Places, CandidatePC
  <2>4. Wanted(t) \subseteq Queries
    BY <2>3 DEF Wanted
  <2>5. missing' \in [Threads -> SUBSET (Queries \cup Words)]
    BY <2>4
  <2>6. QED
    BY <2>2, <2>5
<1>2. HasWork'
  BY DEF HasWork
<1>3. ModelLockHeld'
  BY DEF ModelLockHeld
<1>4. JointLockHeld'
  BY DEF JointLockHeld, ContextPC
<1>5. PipeCandidates'
  BY DEF PipeCandidates, Cached
<1>6. PipeContexts'
  <2>1. Wanted("pipe")' = Wanted("pipe")
    BY DEF Wanted
  <2>2. CASE t = "pipe"
    BY <2>1, <2>2 DEF PipeContexts, Cached
  <2>3. CASE t # "pipe"
    BY <2>1, <2>3 DEF PipeContexts, Cached
  <2>4. QED
    BY <2>2, <2>3
<1>7. VectorsExact'
  BY DEF VectorsExact
<1>8. QED
  BY <1>1, <1>2, <1>3, <1>4, <1>5, <1>6, <1>7 DEF IndInv

LEMMA FillContextsStep ==
  ASSUME IndInv, NEW t \in Threads, FillContexts(t)
  PROVE  IndInv'
<1> USE PrefetchAssumption
        DEF IndInv, TypeOK, FillContexts, Sides, Workers,
            Threads, Entry, Absent, caches, locks, serving
<1>1. TypeOK'
  <2>1. pc[t] = "ctx_fill" /\ pc' = [pc EXCEPT ![t] = "ctx_stack"]
    OBVIOUS
  <2>2. pc' \in [Threads -> PC] /\ \A u \in Threads : pc'[u] \in Places(u)
    BY <2>1 DEF Places, PC, ContextPC, CandidatePC
  <2>3. context_cache' \in [Queries -> Entry]
    OBVIOUS
  <2>4. missing' \in [Threads -> SUBSET (Queries \cup Words)]
        /\ got' \in [Threads -> Entry]
    OBVIOUS
  <2>5. QED
    BY <2>2, <2>3, <2>4
<1>2. HasWork'
  BY DEF HasWork
<1>3. ModelLockHeld'
  BY DEF ModelLockHeld
<1>4. JointLockHeld'
  BY DEF JointLockHeld, ContextPC
<1>5. PipeCandidates'
  BY DEF PipeCandidates, Cached
<1>6. PipeContexts'
  BY DEF HasWork, ModelLockHeld, PipeContexts, Cached, Wanted
<1>7. VectorsExact'
  BY DEF ModelLockHeld, VectorsExact
<1>8. QED
  BY <1>1, <1>2, <1>3, <1>4, <1>5, <1>6, <1>7 DEF IndInv

LEMMA StackContextsStep ==
  ASSUME IndInv, NEW t \in Threads, StackContexts(t)
  PROVE  IndInv'
<1> USE PrefetchAssumption
        DEF IndInv, TypeOK, StackContexts, ReleaseJoint, AfterContexts, Sides, Workers,
            Threads, Entry, Absent, caches, locks, serving
<1>1. TypeOK'
  <2>1. pc' \in [Threads -> PC] /\ \A u \in Threads : pc'[u] \in Places(u)
    <3>1. CASE t = "pipe"
      BY <3>1 DEF Places, PC, ContextPC, CandidatePC
    <3>2. CASE t = "context"
      BY <3>2 DEF Places, PC, ContextPC, CandidatePC
    <3>3. t \notin {"candidate", "warmup"}
      BY DEF Places, CandidatePC
    <3>4. QED
      BY <3>1, <3>2, <3>3
  <2>2. QED
    BY <2>1
<1>2. HasWork'
  BY DEF HasWork
<1>3. ModelLockHeld'
  BY DEF ModelLockHeld
<1>4. JointLockHeld'
  BY DEF JointLockHeld, ContextPC
<1>5. PipeCandidates'
  BY DEF PipeCandidates, Cached
<1>6. PipeContexts'
  BY DEF PipeContexts, Wanted
<1>7. VectorsExact'
  BY DEF VectorsExact
<1>8. QED
  BY <1>1, <1>2, <1>3, <1>4, <1>5, <1>6, <1>7 DEF IndInv

LEMMA StackRaisesStep ==
  ASSUME IndInv, NEW t \in Threads, StackRaises(t)
  PROVE  IndInv'
<1> USE PrefetchAssumption
        DEF IndInv, TypeOK, StackRaises, Abandon, Return, ReleaseJoint, Sides, Workers,
            Threads, Entry, Absent, caches, locks, serving
<1>1. TypeOK'
  <2>1. pc' \in [Threads -> PC] /\ \A u \in Threads : pc'[u] \in Places(u)
    <3>1. CASE t = "pipe"
      BY <3>1 DEF Places, PC, ContextPC, CandidatePC
    <3>2. CASE t # "pipe"
      BY <3>2 DEF Places, PC, ContextPC, CandidatePC
    <3>3. QED
      BY <3>1, <3>2
  <2>2. req' \in [Threads -> Requests \cup {NoRequest}]
        /\ missing' \in [Threads -> SUBSET (Queries \cup Words)]
    OBVIOUS
  <2>3. joint_lock' \in Threads \cup {"free"}
    OBVIOUS
  <2>4. /\ op' \in {"batch", "single"} /\ hit' \in BOOLEAN
        /\ cache_ready' \in BOOLEAN /\ cleared' \in BOOLEAN
    OBVIOUS
  <2>5. QED
    BY <2>1, <2>2, <2>3, <2>4
<1>2. HasWork'
  BY DEF HasWork
<1>3. ModelLockHeld'
  BY DEF ModelLockHeld
<1>4. JointLockHeld'
  BY DEF JointLockHeld, ContextPC
<1>5. PipeCandidates'
  BY DEF PipeCandidates, Cached
<1>6. PipeContexts'
  BY DEF ModelLockHeld, PipeContexts, Wanted, Cached
<1>7. VectorsExact'
  BY DEF VectorsExact
<1>8. QED
  BY <1>1, <1>2, <1>3, <1>4, <1>5, <1>6, <1>7 DEF IndInv

LEMMA LookupCandidatesStep ==
  ASSUME IndInv, NEW t \in Threads, LookupCandidates(t)
  PROVE  IndInv'
<1> USE PrefetchAssumption
        DEF IndInv, TypeOK, LookupCandidates, AfterCandidates, Sides, Workers,
            Threads, Entry, Absent, caches, locks, serving
<1>1. TypeOK'
  <2>1. CASE t \in {"pipe", "candidate"}
    <3>1. pc' \in [Threads -> PC] /\ \A u \in Threads : pc'[u] \in Places(u)
      BY <2>1 DEF Places, PC, ContextPC, CandidatePC
    <3>2. missing' \in [Threads -> SUBSET (Queries \cup Words)]
      BY <2>1 DEF HasWork, CandidatePC
    <3>3. QED
      BY <3>1, <3>2
  <2>2. t \notin {"context", "warmup"}
    BY DEF Places, ContextPC
  <2>3. QED
    BY <2>1, <2>2
<1>2. HasWork'
  BY DEF HasWork
<1>3. ModelLockHeld'
  BY DEF ModelLockHeld
<1>4. JointLockHeld'
  BY DEF JointLockHeld, ContextPC
<1>5. PipeCandidates'
  BY DEF PipeCandidates, Cached
<1>6. PipeContexts'
  BY DEF PipeContexts, Wanted
<1>7. VectorsExact'
  BY DEF VectorsExact
<1>8. QED
  BY <1>1, <1>2, <1>3, <1>4, <1>5, <1>6, <1>7 DEF IndInv

LEMMA RestoreCandidatesStep ==
  ASSUME IndInv, NEW t \in Threads, RestoreCandidates(t)
  PROVE  IndInv'
<1> USE PrefetchAssumption
        DEF IndInv, TypeOK, RestoreCandidates, AfterCandidates, Sides, Workers,
            Threads, Entry, Absent, caches, locks, serving
<1>1. TypeOK'
  BY DEF Places, PC, ContextPC, CandidatePC
<1>2. HasWork'
  BY DEF HasWork, Places, ContextPC, CandidatePC
<1>3. ModelLockHeld'
  BY DEF ModelLockHeld
<1>4. JointLockHeld'
  BY DEF JointLockHeld, ContextPC
<1>5. PipeCandidates'
  <2>1. PICK found \in Readable(missing[t]) :
          /\ candidate_cache' = [w \in Words |-> IF w \in found THEN store[w]
                                                ELSE candidate_cache[w]]
          /\ missing' = [missing EXCEPT ![t] = @ \ found]
          /\ pc' = [pc EXCEPT ![t] = IF missing[t] = found
                                     THEN AfterCandidates(t) ELSE "cand_encode"]
    OBVIOUS
  <2>2. \A w \in found : store[w] # Absent
    BY DEF Readable
  <2>3. \A w \in Words : w \in found \/ candidate_cache[w] # Absent
                          => candidate_cache'[w] # Absent
    BY <2>1, <2>2
  <2>4. CASE t = "pipe"
    BY <2>1, <2>3, <2>4 DEF HasWork, PipeCandidates, Cached
  <2>5. CASE t # "pipe"
    BY <2>1, <2>3, <2>5 DEF HasWork, PipeCandidates, Cached
  <2>6. QED
    BY <2>4, <2>5
<1>6. PipeContexts'
  BY DEF PipeContexts, Wanted
<1>7. VectorsExact'
  BY DEF VectorsExact
<1>8. QED
  BY <1>1, <1>2, <1>3, <1>4, <1>5, <1>6, <1>7 DEF IndInv

LEMMA FillCandidatesStep ==
  ASSUME IndInv, NEW t \in Threads, FillCandidates(t)
  PROVE  IndInv'
<1> USE PrefetchAssumption
        DEF IndInv, TypeOK, FillCandidates, Sides, Workers,
            Threads, Entry, Absent, caches, locks, serving
<1>1. TypeOK'
  BY DEF Places, PC, ContextPC, CandidatePC
<1>2. HasWork'
  BY DEF HasWork, Places, ContextPC, CandidatePC
<1>3. ModelLockHeld'
  BY DEF ModelLockHeld
<1>4. JointLockHeld'
  BY DEF JointLockHeld, ContextPC
<1>5. PipeCandidates'
  BY DEF HasWork, ModelLockHeld, PipeCandidates, Cached
<1>6. PipeContexts'
  BY DEF PipeContexts, Wanted
<1>7. VectorsExact'
  BY DEF ModelLockHeld, VectorsExact
<1>8. QED
  BY <1>1, <1>2, <1>3, <1>4, <1>5, <1>6, <1>7 DEF IndInv

LEMMA SaveCandidatesStep ==
  ASSUME IndInv, NEW t \in Threads, SaveCandidates(t)
  PROVE  IndInv'
<1> USE PrefetchAssumption
        DEF IndInv, TypeOK, SaveCandidates, AfterCandidates, Sides, Workers,
            Threads, Entry, Absent, caches, locks, serving
<1>1. TypeOK'
  BY DEF HasWork, Places, PC, ContextPC, CandidatePC
<1>2. HasWork'
  BY DEF HasWork
<1>3. ModelLockHeld'
  BY DEF ModelLockHeld
<1>4. JointLockHeld'
  BY DEF JointLockHeld, ContextPC
<1>5. PipeCandidates'
  BY DEF PipeCandidates, Cached
<1>6. PipeContexts'
  BY DEF PipeContexts, Wanted
<1>7. VectorsExact'
  BY DEF ModelLockHeld, VectorsExact
<1>8. QED
  BY <1>1, <1>2, <1>3, <1>4, <1>5, <1>6, <1>7 DEF IndInv

LEMMA GateSingleStep ==
  ASSUME IndInv, NEW r \in Requests, GateSingle(r)
  PROVE  IndInv'
<1> USE PrefetchAssumption
        DEF IndInv, TypeOK, GateSingle, ClearContexts, Sides, Workers,
            Threads, Entry, Absent, caches, locks, serving
<1>1. TypeOK'
  BY DEF Places, PC, ContextPC, CandidatePC
<1>2. HasWork'
  BY DEF HasWork
<1>3. ModelLockHeld'
  BY DEF ModelLockHeld
<1>4. JointLockHeld'
  BY DEF JointLockHeld, ContextPC
<1>5. PipeCandidates'
  BY DEF PipeCandidates, Cached
<1>6. PipeContexts'
  BY DEF PipeContexts, Wanted
<1>7. VectorsExact'
  BY DEF VectorsExact
<1>8. QED
  BY <1>1, <1>2, <1>3, <1>4, <1>5, <1>6, <1>7 DEF IndInv

LEMMA BeginExplicitStep ==
  ASSUME IndInv, NEW r \in Requests, NEW kind \in {"batch", "single"}, BeginExplicit(r, kind)
  PROVE  IndInv'
<1> USE PrefetchAssumption
        DEF IndInv, TypeOK, BeginExplicit, Sides, Workers,
            Threads, Entry, Absent, caches, locks, serving
<1>1. TypeOK'
  BY DEF Places, PC, ContextPC, CandidatePC
<1>2. HasWork'
  BY DEF HasWork
<1>3. ModelLockHeld'
  BY DEF ModelLockHeld
<1>4. JointLockHeld'
  BY DEF JointLockHeld, ContextPC
<1>5. PipeCandidates'
  BY DEF PipeCandidates, Cached
<1>6. PipeContexts'
  BY DEF PipeContexts, Wanted
<1>7. VectorsExact'
  BY DEF VectorsExact
<1>8. QED
  BY <1>1, <1>2, <1>3, <1>4, <1>5, <1>6, <1>7 DEF IndInv

LEMMA PeekStep ==
  ASSUME IndInv, Peek
  PROVE  IndInv'
<1> USE PrefetchAssumption
        DEF IndInv, TypeOK, Peek, Sides, Workers,
            Threads, Entry, Absent, caches, locks, serving
<1>1. TypeOK'
  <2>1. pc' \in [Threads -> PC] /\ \A u \in Threads : pc'[u] \in Places(u)
    BY DEF Places, PC, ContextPC, CandidatePC
  <2>2. hit' \in BOOLEAN
    BY DEF Cached
  <2>3. QED
    BY <2>1, <2>2
<1>2. HasWork'
  BY DEF HasWork
<1>3. ModelLockHeld'
  BY DEF ModelLockHeld
<1>4. JointLockHeld'
  BY DEF JointLockHeld, ContextPC
<1>5. PipeCandidates'
  BY DEF PipeCandidates, Cached
<1>6. PipeContexts'
  BY DEF PipeContexts, Wanted
<1>7. VectorsExact'
  BY DEF VectorsExact
<1>8. QED
  BY <1>1, <1>2, <1>3, <1>4, <1>5, <1>6, <1>7 DEF IndInv

LEMMA WaitForPrefetchStep ==
  ASSUME IndInv, WaitForPrefetch
  PROVE  IndInv'
<1> USE PrefetchAssumption
        DEF IndInv, TypeOK, WaitForPrefetch, Cached, Sides, Workers,
            Threads, Entry, Absent, caches, locks, serving
<1>1. TypeOK'
  BY DEF Places, PC, ContextPC, CandidatePC
<1>2. HasWork'
  BY DEF HasWork
<1>3. ModelLockHeld'
  BY DEF ModelLockHeld
<1>4. JointLockHeld'
  BY DEF JointLockHeld, ContextPC
<1>5. PipeCandidates'
  BY DEF PipeCandidates, Cached
<1>6. PipeContexts'
  BY DEF PipeContexts, Wanted
<1>7. VectorsExact'
  BY DEF VectorsExact
<1>8. QED
  BY <1>1, <1>2, <1>3, <1>4, <1>5, <1>6, <1>7 DEF IndInv

LEMMA ScoreStep ==
  ASSUME IndInv, Score
  PROVE  IndInv'
<1> USE PrefetchAssumption
        DEF IndInv, TypeOK, Score, Return, Sides, Workers,
            Threads, Entry, Absent, caches, locks, serving
<1>1. TypeOK'
  <2>1. pc' \in [Threads -> PC] /\ \A u \in Threads : pc'[u] \in Places(u)
    BY DEF Places, PC, ContextPC, CandidatePC
  <2>2. req' \in [Threads -> Requests \cup {NoRequest}]
    OBVIOUS
  <2>3. QED
    BY <2>1, <2>2 DEF HasWork, Wanted
<1>2. HasWork'
  BY DEF HasWork
<1>3. ModelLockHeld'
  BY DEF ModelLockHeld
<1>4. JointLockHeld'
  BY DEF JointLockHeld, ContextPC
<1>5. PipeCandidates'
  BY DEF PipeCandidates, Cached
<1>6. PipeContexts'
  BY DEF PipeContexts, Wanted
<1>7. VectorsExact'
  BY DEF VectorsExact
<1>8. QED
  BY <1>1, <1>2, <1>3, <1>4, <1>5, <1>6, <1>7 DEF IndInv

LEMMA WarmBatchStep ==
  ASSUME IndInv, WarmBatch
  PROVE  IndInv'
<1> USE PrefetchAssumption
        DEF IndInv, TypeOK, WarmBatch, LetThrough, PrefetchActive, Sides, Workers,
            Threads, Entry, Absent, caches, locks, serving
<1>1. TypeOK'
  BY DEF Places, PC, ContextPC, CandidatePC
<1>2. HasWork'
  BY DEF HasWork
<1>3. ModelLockHeld'
  BY DEF ModelLockHeld
<1>4. JointLockHeld'
  BY DEF JointLockHeld, ContextPC
<1>5. PipeCandidates'
  BY DEF PipeCandidates, Cached
<1>6. PipeContexts'
  BY DEF PipeContexts, Wanted
<1>7. VectorsExact'
  BY DEF VectorsExact
<1>8. QED
  BY <1>1, <1>2, <1>3, <1>4, <1>5, <1>6, <1>7 DEF IndInv

LEMMA WarmupDoneStep ==
  ASSUME IndInv, WarmupDone
  PROVE  IndInv'
<1> USE PrefetchAssumption
        DEF IndInv, TypeOK, WarmupDone, Sides, Workers,
            Threads, Entry, Absent, caches, locks, serving
<1>1. TypeOK'
  BY DEF Places, PC, ContextPC, CandidatePC
<1>2. HasWork'
  BY DEF HasWork
<1>3. ModelLockHeld'
  BY DEF ModelLockHeld
<1>4. JointLockHeld'
  BY DEF JointLockHeld, ContextPC
<1>5. PipeCandidates'
  BY DEF PipeCandidates, Cached
<1>6. PipeContexts'
  BY DEF PipeContexts, Wanted
<1>7. VectorsExact'
  BY DEF VectorsExact
<1>8. QED
  BY <1>1, <1>2, <1>3, <1>4, <1>5, <1>6, <1>7 DEF IndInv
-----------------------------------------------------------------------------
\* The initial state satisfies the inductive invariant.
LEMMA InitInv == Init => IndInv
<1> SUFFICES ASSUME Init
             PROVE  IndInv
  OBVIOUS
<1> USE PrefetchAssumption DEF Init, Sides, Workers, Threads, Entry, Absent
<1>1. TypeOK
  <2>1. pc \in [Threads -> PC] /\ \A t \in Threads : pc[t] \in Places(t)
    BY DEF Places, PC
  <2>2. signature \in Seq(Queries) /\ batch \in 1..(Len(Batches) + 1)
    OBVIOUS
  <2>3. store \in [Words -> Entry]
    OBVIOUS
  <2>4. QED
    BY <2>1, <2>2, <2>3 DEF TypeOK
<1>2. HasWork /\ ModelLockHeld
  BY DEF HasWork, ModelLockHeld
<1>3. JointLockHeld /\ PipeCandidates /\ PipeContexts
  BY DEF JointLockHeld, PipeCandidates, PipeContexts, ContextPC
<1>4. VectorsExact
  BY DEF VectorsExact
<1>5. QED
  BY <1>1, <1>2, <1>3, <1>4 DEF IndInv

\* A step that changes nothing keeps it.
LEMMA StutterInv == IndInv /\ UNCHANGED vars => IndInv'
BY DEF IndInv, TypeOK, HasWork, ModelLockHeld, JointLockHeld, PipeCandidates,
       PipeContexts, VectorsExact, Cached, Wanted, vars, caches, locks, serving

\* Every step of the engine keeps it.
LEMMA NextInv == IndInv /\ [Next]_vars => IndInv'
<1> SUFFICES ASSUME IndInv, [Next]_vars
             PROVE  IndInv'
  OBVIOUS
<1>1. CASE UNCHANGED vars
  BY <1>1, StutterInv
<1>2. CASE Client
  <2>1. ASSUME NEW s \in Sides, NEW r \in Sent[s], QueuePrefetch(s, r)
        PROVE  IndInv'
    BY <2>1, QueuePrefetchStep
  <2>2. ASSUME NEW r \in Requests, GateSingle(r)
        PROVE  IndInv'
    BY <2>2, GateSingleStep
  <2>3. ASSUME NEW r \in Requests, NEW kind \in {"batch", "single"},
               BeginExplicit(r, kind)
        PROVE  IndInv'
    BY <2>3, BeginExplicitStep
  <2>4. QED
    BY <1>2, <2>1, <2>2, <2>3 DEF Client
<1>3. ASSUME NEW t \in Threads, Step(t)
      PROVE  IndInv'
  <2>1. CASE EncodeStep(t)
    BY <2>1, BeginEncodeStep, FinishEncodeStep, FailEncodeStep DEF EncodeStep
  <2>2. CASE ContextStep(t)
    BY <2>2, LockJointStep, LookupContextsStep, FillContextsStep,
       StackContextsStep, StackRaisesStep DEF ContextStep
  <2>3. CASE CandidateStep(t)
    BY <2>3, LookupCandidatesStep, RestoreCandidatesStep, FillCandidatesStep,
       SaveCandidatesStep DEF CandidateStep
  <2>4. CASE t \in Workers /\ (TakePending(t) \/ Retire(t))
    BY <2>4, TakePendingStep, RetireStep
  <2>5. CASE t = "context" /\ NewGeneration
    BY <2>5, NewGenerationStep
  <2>6. CASE t = "pipe" /\ (Peek \/ WaitForPrefetch \/ Score)
    BY <2>6, PeekStep, WaitForPrefetchStep, ScoreStep
  <2>7. CASE t = "warmup" /\ (WarmBatch \/ WarmupDone)
    BY <2>7, WarmBatchStep, WarmupDoneStep
  <2>8. QED
    BY <1>3, <2>1, <2>2, <2>3, <2>4, <2>5, <2>6, <2>7 DEF Step
<1>4. QED
  BY <1>1, <1>2, <1>3 DEF Next

\* The inductive invariant holds of every execution.
THEOREM Inductive == Spec => []IndInv
BY InitInv, NextInv, PTL DEF Spec
-----------------------------------------------------------------------------
\* The engine's state always has its type: no thread is ever at a line that is
\* not in its own code, and the warmup never runs past the vocabulary.
THEOREM TypeCorrect == Spec => []TypeOK
<1>1. IndInv => TypeOK
  BY DEF IndInv
<1>2. QED
  BY <1>1, Inductive, PTL

\* No cache and no store ever holds a vector tokenised under the other kind's
\* truncation, however the four threads' encode_texts calls interleave.
THEOREM VectorsAlwaysExact == Spec => []VectorsExact
<1>1. IndInv => VectorsExact
  BY DEF IndInv
<1>2. QED
  BY <1>1, Inductive, PTL

\* The context worker and a batch conversion never encode the same query twice:
\* both do it under _joint_context_lock, and only one of them holds it.
THEOREM ContextsAlwaysCoalesced == Spec => []ContextsCoalesced
<1>1. IndInv => ContextsCoalesced
  BY DEF IndInv, JointLockHeld, ContextsCoalesced, EncodingContexts, ContextPC
<1>2. QED
  BY <1>1, Inductive, PTL

\* The scores are never computed with a candidate vector missing, whether the
\* wait, the store or the encoder brought it.
THEOREM ScoringAlwaysFindsCandidates == Spec => []ScoringFindsCandidates
<1>1. IndInv => ScoringFindsCandidates
  BY DEF IndInv, PipeCandidates, ScoringFindsCandidates
<1>2. QED
  BY <1>1, Inductive, PTL
-----------------------------------------------------------------------------
\* A conversion the pipe thread gives up has lost its model call, or its cache.
LEMMA GivesUpStep ==
  ASSUME IndInv, NEW t \in Threads, Step(t), GivesUp
  PROVE  cleared \/ pc["pipe"] \in {"ctx_model", "cand_model"}
<1> USE DEF IndInv, TypeOK, GivesUp, Threads, Sides, Workers
<1>1. CASE EncodeStep(t)
  BY <1>1 DEF EncodeStep, BeginEncode, FinishEncode, FailEncode, Abandon,
     Encoding, Running
<1>2. CASE ContextStep(t)
  <2>1. CASE LockJoint(t) \/ LookupContexts(t) \/ FillContexts(t)
    BY <2>1 DEF LockJoint, LookupContexts, FillContexts
  <2>2. CASE StackContexts(t)
    <3>1. CASE t = "pipe"
      BY <2>2, <3>1 DEF StackContexts, AfterContexts
    <3>2. CASE t # "pipe"
      BY <2>2, <3>2 DEF StackContexts
    <3>3. QED
      BY <3>1, <3>2
  <2>3. CASE StackRaises(t)
    BY <2>3 DEF StackRaises, PipeContexts, Abandon
  <2>4. QED
    BY <1>2, <2>1, <2>2, <2>3 DEF ContextStep
<1>3. CASE CandidateStep(t)
  BY <1>3 DEF CandidateStep, LookupCandidates, RestoreCandidates,
     FillCandidates, SaveCandidates, AfterCandidates
<1>4. CASE t \in Workers /\ (TakePending(t) \/ Retire(t))
  BY <1>4 DEF TakePending, Retire
<1>5. CASE t = "context" /\ NewGeneration
  BY <1>5 DEF NewGeneration
<1>6. CASE t = "pipe" /\ (Peek \/ WaitForPrefetch \/ Score)
  BY <1>6 DEF Peek, WaitForPrefetch, Score
<1>7. CASE t = "warmup" /\ (WarmBatch \/ WarmupDone)
  BY <1>7 DEF WarmBatch, WarmupDone
<1>8. QED
  BY <1>1, <1>2, <1>3, <1>4, <1>5, <1>6, <1>7 DEF Step

\* rank_batch and rank fall back only when the pipe thread's own model call
\* raises, or when the context worker emptied the cache under it: no other
\* interleaving with the prefetches and the warmup costs the user the ranking.
THEOREM NoOtherGiveUp == Spec => GivesUpOnlyWhenDisturbed
<1> DEFINE Disturbed == cleared \/ pc["pipe"] \in {"ctx_model", "cand_model"}
<1>1. IndInv /\ [Next]_vars => [GivesUp => Disturbed]_vars
  <2> SUFFICES ASSUME IndInv, Next, GivesUp
               PROVE  Disturbed
    OBVIOUS
  <2>1. CASE Client
    BY <2>1 DEF Client, QueuePrefetch, GateSingle, BeginExplicit, GivesUp
  <2>2. CASE \E t \in Threads : Step(t)
    BY <2>2, GivesUpStep
  <2>3. QED
    BY <2>1, <2>2 DEF Next
<1>2. QED
  BY <1>1, Inductive, PTL DEF Spec, GivesUpOnlyWhenDisturbed

\* A pending slot is emptied only by its own worker, taking what is in it.
LEMMA PendingStep ==
  ASSUME IndInv, Next, NEW s \in Sides,
         pending[s] # NoRequest, pending'[s] = NoRequest
  PROVE  req'[s] = pending[s]
<1> USE DEF IndInv, TypeOK, Threads, Sides, Workers
<1>1. CASE Client
  BY <1>1, PrefetchAssumption
     DEF Client, QueuePrefetch, GateSingle, BeginExplicit
<1>2. ASSUME NEW t \in Threads, Step(t), ~(t \in Workers /\ TakePending(t))
      PROVE  UNCHANGED pending
  <2>1. CASE EncodeStep(t)
    BY <2>1 DEF EncodeStep, BeginEncode, FinishEncode, FailEncode
  <2>2. CASE ContextStep(t)
    BY <2>2 DEF ContextStep, LockJoint, LookupContexts, FillContexts,
       StackContexts, StackRaises
  <2>3. CASE CandidateStep(t)
    BY <2>3 DEF CandidateStep, LookupCandidates, RestoreCandidates,
       FillCandidates, SaveCandidates
  <2>4. CASE t \in Workers /\ (TakePending(t) \/ Retire(t))
    BY <1>2, <2>4 DEF Retire
  <2>5. CASE t = "context" /\ NewGeneration
    BY <2>5 DEF NewGeneration
  <2>6. CASE t = "pipe" /\ (Peek \/ WaitForPrefetch \/ Score)
    BY <2>6 DEF Peek, WaitForPrefetch, Score
  <2>7. CASE t = "warmup" /\ (WarmBatch \/ WarmupDone)
    BY <2>7 DEF WarmBatch, WarmupDone
  <2>8. QED
    BY <1>2, <2>1, <2>2, <2>3, <2>4, <2>5, <2>6, <2>7 DEF Step
<1>3. ASSUME NEW t \in Workers, TakePending(t)
      PROVE  req'[s] = pending[s]
  BY <1>3 DEF TakePending
<1>4. QED
  BY <1>1, <1>2, <1>3 DEF Next

\* What _queue_prefetch stored leaves the slot only into the worker's hands:
\* nothing queued while the worker is busy, or ends, is dropped.
THEOREM QueuedNeverDropped == Spec => NewestNeverDropped
<1> DEFINE Kept == \A s \in Sides :
             pending[s] # NoRequest /\ pending'[s] = NoRequest
               => req'[s] = pending[s]
<1>1. IndInv /\ [Next]_vars => [Kept]_vars
  BY PendingStep
<1>2. QED
  BY <1>1, Inductive, PTL DEF Spec, NewestNeverDropped
=============================================================================

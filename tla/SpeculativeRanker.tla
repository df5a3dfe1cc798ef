------------------------- MODULE SpeculativeRanker -------------------------
(***************************************************************************)
(* SpeculativeRanker of ranker/speculative.py: prefetches made while the   *)
(* user types wait in one slot until typing settles, a background worker   *)
(* ranks the newest, and a conversion takes the result from a cache or     *)
(* ranks on its own.  Callers and worker share the slot and the cache      *)
(* under _condition, and the model under _inference_lock.                  *)
(*                                                                         *)
(* Slot, cache, worker and callers are followed by the keys of their       *)
(* requests, which is all that is compared.  Times are those of            *)
(* time.monotonic().                                                       *)
(***************************************************************************)
EXTENDS Integers, Selection, SequencesExt, FiniteSetsExt

CONSTANTS
  Conversions,           \* requests: prefix, suffix, read and candidates
  context_enabled, context_chars, \* of the delegate
  Callers,               \* threads that call rank
  settle_seconds,
  cache_ttl_seconds,
  cache_size,
  MaxTime,               \* bound on the clock
  Nobody                 \* no request, no holder

VARIABLES
  now,
  pending, pending_at,   \* _pending and _pending_at
  cache,                 \* _cache, least recently used first
  lock,                  \* who holds _inference_lock
  worker,                \* what the worker does, and for which request
  caller,                \* what each caller does, and for which request
  asked,                 \* history: when a caller's request missed the cache
  answer                 \* history: the last answer of a conversion

vars == <<now, pending, pending_at, cache, lock, worker, caller, asked, answer>>

Idle == [at |-> "idle", key |-> Nobody]

Init ==
  /\ now = 0
  /\ pending = Nobody /\ pending_at = 0
  /\ cache = <<>>
  /\ lock = Nobody
  /\ worker = Idle
  /\ caller = [c \in Callers |-> Idle]
  /\ asked = [c \in Callers |-> 0]
  /\ answer = [key |-> Nobody, of |-> Nobody, made |-> 0, at |-> 0]

-----------------------------------------------------------------------------
(* The key of a request is what the delegate can see of it. *)

_context_limit == IF context_enabled THEN Max({0, context_chars}) ELSE 0

Ending(text, n)    == SubSeq(text, Max({1, Len(text) - n + 1}), Len(text))
Beginning(text, n) == SubSeq(text, 1, Min({n, Len(text)}))

_key(request) ==
  [prefix     |-> Ending(request.prefix, _context_limit),
   suffix     |-> Beginning(request.suffix, _context_limit),
   read       |-> request.read,
   candidates |-> request.candidates]

-----------------------------------------------------------------------------
(* The cache. *)

Alive(entries) == Kept(entries, {e \in ToSet(entries) : now - e.at <= cache_ttl_seconds})

_prune_locked(entries) ==
  LET alive == Alive(entries)
  IN SubSeq(alive, Max({1, Len(alive) - cache_size + 1}), Len(alive))

Of(entries, key)     == Kept(entries, {e \in ToSet(entries) : e.key = key})
Others(entries, key) == Kept(entries, {e \in ToSet(entries) : e.key # key})

Hits(key) == {e \in ToSet(_prune_locked(cache)) : e.key = key}

_store(key, result) ==
  cache' = _prune_locked(Append(Others(cache, key), [key |-> key, at |-> now, result |-> result]))

(* Mutant: a hit is good for another lifetime. *)
TouchedRenewed(key) ==
  LET pruned == _prune_locked(cache)
      hit    == Of(pruned, key)
  IN Others(pruned, key) \o [i \in DOMAIN hit |-> [hit[i] EXCEPT !.at = now]]

(* A lookup prunes the cache and makes a hit its newest entry. *)
Touched(key) ==
  LET pruned == _prune_locked(cache)
  IN Others(pruned, key) \o Of(pruned, key)

(* What the model makes of a request now. *)
Ranking(key) == [of |-> key, made |-> now]

Reply(key, result) ==
  answer' = [key |-> key, of |-> result.of, made |-> result.made, at |-> now]

-----------------------------------------------------------------------------
(* rank. *)

(* A prefetch replaces the one that waits; the caller gets Mozc's order. *)
_schedule(c, key) ==
  /\ caller[c] = Idle
  /\ pending' = key
  /\ pending_at' = now
  /\ UNCHANGED <<now, cache, lock, worker, caller, asked, answer>>

Lookup(c, key) ==
  /\ caller[c] = Idle
  /\ cache' = Touched(key)
  /\ IF Hits(key) # {}
     THEN /\ \E e \in Hits(key) : Reply(key, e.result)
          /\ UNCHANGED <<caller, asked>>
     ELSE /\ caller' = [caller EXCEPT ![c] = [at |-> "missed", key |-> key]]
          /\ asked' = [asked EXCEPT ![c] = now]
          /\ UNCHANGED answer
  /\ UNCHANGED <<now, pending, pending_at, lock, worker>>

(* The copy of this very request that still waits for typing to settle. *)
Discard(c) ==
  /\ caller[c].at = "missed"
  /\ pending' = IF pending = caller[c].key THEN Nobody ELSE pending
  /\ caller' = [caller EXCEPT ![c].at = "waiting"]
  /\ UNCHANGED <<now, pending_at, cache, lock, worker, asked, answer>>

(* Mutant: the model is called without a second look at the cache. *)
EnterUnchecked(c) ==
  /\ caller[c].at = "waiting"
  /\ lock = Nobody
  /\ cache' = Touched(caller[c].key)
  /\ lock' = c
  /\ caller' = [caller EXCEPT ![c].at = "ranking"]
  /\ UNCHANGED answer
  /\ UNCHANGED <<now, pending, pending_at, worker, asked>>

Enter(c) ==
  /\ caller[c].at = "waiting"
  /\ lock = Nobody
  /\ cache' = Touched(caller[c].key)
  /\ IF Hits(caller[c].key) # {}
     THEN /\ \E e \in Hits(caller[c].key) : Reply(caller[c].key, e.result)
          /\ caller' = [caller EXCEPT ![c] = Idle]
          /\ UNCHANGED lock
     ELSE /\ lock' = c
          /\ caller' = [caller EXCEPT ![c].at = "ranking"]
          /\ UNCHANGED answer
  /\ UNCHANGED <<now, pending, pending_at, worker, asked>>

Rank(c) ==
  /\ caller[c].at = "ranking"
  /\ _store(caller[c].key, Ranking(caller[c].key))
  /\ Reply(caller[c].key, Ranking(caller[c].key))
  /\ lock' = Nobody
  /\ caller' = [caller EXCEPT ![c] = Idle]
  /\ UNCHANGED <<now, pending, pending_at, worker, asked>>

(* The model raises: so does rank, and the lock is given back. *)
RankRaises(c) ==
  /\ caller[c].at = "ranking"
  /\ lock' = Nobody
  /\ caller' = [caller EXCEPT ![c] = Idle]
  /\ UNCHANGED <<now, pending, pending_at, cache, worker, asked, answer>>

-----------------------------------------------------------------------------
(* _worker_loop. *)

(* However often it is woken, it takes what has waited its time. *)
Take ==
  /\ worker = Idle
  /\ pending # Nobody
  /\ now - pending_at >= settle_seconds
  /\ worker' = [at |-> "taken", key |-> pending]
  /\ pending' = Nobody
  /\ UNCHANGED <<now, pending_at, cache, lock, caller, asked, answer>>

Begin ==
  /\ worker.at = "taken"
  /\ lock = Nobody
  /\ lock' = "worker"
  /\ worker' = [worker EXCEPT !.at = "ranking"]
  /\ UNCHANGED <<now, pending, pending_at, cache, caller, asked, answer>>

(* Mutant: a failed pass keeps the model to itself. *)
EndKeeping ==
  /\ worker.at = "ranking"
  /\ \/ _store(worker.key, Ranking(worker.key)) /\ lock' = Nobody
     \/ UNCHANGED <<cache, lock>>
  /\ worker' = Idle
  /\ UNCHANGED <<now, pending, pending_at, caller, asked, answer>>

End ==
  /\ worker.at = "ranking"
  /\ \/ _store(worker.key, Ranking(worker.key))
     \/ UNCHANGED cache
  /\ lock' = Nobody
  /\ worker' = Idle
  /\ UNCHANGED <<now, pending, pending_at, caller, asked, answer>>

Tick ==
  /\ now < MaxTime
  /\ now' = now + 1
  /\ UNCHANGED <<pending, pending_at, cache, lock, worker, caller, asked, answer>>

-----------------------------------------------------------------------------
CallerStep(c) == Discard(c) \/ Enter(c) \/ Rank(c) \/ RankRaises(c)

Next ==
  \/ \E c \in Callers : \/ \E request \in Conversions : _schedule(c, _key(request)) \/ Lookup(c, _key(request))
                        \/ CallerStep(c)
  \/ Take \/ Begin \/ End
  \/ Tick

Spec == Init /\ [][Next]_vars

FairSpec ==
  /\ Spec
  /\ \A c \in Callers : WF_vars(CallerStep(c))
  /\ WF_vars(Take \/ Begin \/ End)

-----------------------------------------------------------------------------
(* An answer is made of this request, and no older than the cache lets it be, *)
(* whoever made it (speculative.py:100-113).                                   *)
AnswersFresh ==
  answer.key # Nobody => /\ answer.of = answer.key
                         /\ answer.at - answer.made <= cache_ttl_seconds

(* "Re-check before doing the same model call" (speculative.py:180-181): while *)
(* a caller has the model, no ranking of the same request was finished between  *)
(* its look at the cache and its turn.                                          *)
NoSameCall ==
  \A c \in Callers : caller[c].at = "ranking" =>
    \A e \in ToSet(cache) : e.key = caller[c].key =>
      e.at < asked[c] \/ now - e.at > cache_ttl_seconds

(* A waiting conversion gets its turn whatever the background does and whether *)
(* or not it raises (speculative.py:151-153).                                   *)
ConversionEnds == \A c \in Callers : caller[c].at = "waiting" ~> caller[c].at # "waiting"
=============================================================================

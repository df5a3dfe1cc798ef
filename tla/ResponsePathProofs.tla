------------------------- MODULE ResponsePathProofs -------------------------
(***************************************************************************)
(* Safety of ResponsePath for every set of requests, every lifetime and    *)
(* every size of the cache, and of the modules MCResponsePath sets beside  *)
(* it.                                                                     *)
(***************************************************************************)
EXTENDS MCResponsePath, RecursionProofs, FiniteSetTheorems

\* What the cache is made of: TypeOK's part about a list of entries.
Cache(s) ==
  /\ s \in Seq(Entry)
  /\ Len(s) <= MaxEntries
  /\ \A i, j \in DOMAIN s : s[i].key = s[j].key => i = j

\* Nothing is in the cache from later than now; and what was made by the model
\* was new when it was stored, but for the guard's ranking of an interactive
\* request, which the guard itself may have kept.
Held(r) == IF r \in Interactive THEN Forget - Settle ELSE 0
EntriesRecent ==
  \A i \in DOMAIN entries :
    /\ entries[i].at <= now
    /\ entries[i].what.by = "model"
         => entries[i].at - entries[i].what.made <= Held(entries[i].key)

\* What the guard knows of a request: when it showed it Mozc's order, and, if it
\* has a ranking, that it was made Settle later at least.
GuardKnows ==
  /\ \A k \in Interactive : first_seen[k] # None =>
       /\ first_seen[k] <= now
       /\ now - first_seen[k] <= Forget => first_seen[k] \in shown[k]
  /\ \A k \in Interactive : ranked[k].by = "model" =>
       first_seen[k] # None /\ ranked[k].made - first_seen[k] >= Settle
  /\ busy \in Interactive => first_seen[busy] # None /\ now - first_seen[busy] >= Settle

IndInv ==
  /\ TypeOK
  /\ EntriesRecent
  /\ GuardKnows
  /\ AnswersAreRecent
  /\ FallbackNeverReplayed
-----------------------------------------------------------------------------
(* The list of entries. *)

\* Popping a request leaves a cache, of the old entries of the other requests.
LEMMA OthersIsCache ==
  ASSUME Cache(entries), NEW r
  PROVE  /\ Cache(Others(r))
         /\ \A i \in DOMAIN Others(r) :
              /\ \E j \in DOMAIN entries : Others(r)[i] = entries[j]
              /\ Others(r)[i].key # r
         /\ EntryOf(r) # {} => Len(Others(r)) < Len(entries)
<1> DEFINE o == Others(r)
<1>0. entries \in Seq(Entry) /\ Len(entries) \in Nat /\ DOMAIN entries = 1 .. Len(entries)
  BY DEF Cache
<1>1. CASE EntryOf(r) = {}
  BY <1>0, <1>1 DEF Others, EntryOf, Cache
<1>2. CASE EntryOf(r) # {}
  <2> DEFINE at == CHOOSE i \in EntryOf(r) : TRUE
             from(i) == IF i < at THEN i ELSE i + 1
  <2>1. at \in 1 .. Len(entries) /\ entries[at].key = r
    BY <1>0, <1>2 DEF EntryOf
  <2>2. o = [i \in 1 .. Len(entries) - 1 |-> entries[from(i)]]
    BY <1>2 DEF Others
  <2>3. Len(entries) - 1 \in Nat
    BY <1>0, <2>1
  <2> HIDE DEF at
  <2>4. \A i \in 1 .. Len(entries) - 1 : from(i) \in 1 .. Len(entries) /\ from(i) # at
    BY <1>0, <2>1
  <2>5. \A i \in 1 .. Len(entries) - 1 : entries[from(i)] \in Entry
    <3> HIDE DEF from
    <3> QED BY <1>0, <2>4
  <2>6. o \in Seq(Entry) /\ Len(o) = Len(entries) - 1 /\ DOMAIN o = 1 .. Len(entries) - 1
    <3> HIDE DEF from
    <3> QED BY <2>2, <2>3, <2>5
  <2>7. \A i, j \in 1 .. Len(entries) - 1 : from(i) = from(j) => i = j
    BY <1>0, <2>1
  <2>8. \A i \in DOMAIN o : o[i].key # r /\ \E j \in DOMAIN entries : o[i] = entries[j]
    <3> HIDE DEF from
    <3> QED BY <1>0, <2>1, <2>2, <2>4, <2>6 DEF Cache
  <2>9. \A i, j \in DOMAIN o : o[i].key = o[j].key => i = j
    <3> HIDE DEF from
    <3> QED BY <1>0, <2>2, <2>4, <2>6, <2>7 DEF Cache
  <2>10. QED
    BY <1>0, <2>3, <2>6, <2>8, <2>9, ResponsePathAssumption DEF Cache
<1>3. QED
  BY <1>1, <1>2

\* So does an entry for the request that goes to the end, if the oldest then makes
\* room where there is none.
LEMMA AppendIsCache ==
  ASSUME Cache(entries), NEW r, NEW e \in Entry, e.key = r
  PROVE  LET s == Append(Others(r), e)
         IN /\ Len(s) <= MaxEntries => Cache(s)
            /\ Cache(Trimmed(s))
            /\ \A i \in DOMAIN s :
                 s[i] = e \/ \E j \in DOMAIN entries : s[i] = entries[j]
            /\ \A i \in DOMAIN Trimmed(s) :
                 Trimmed(s)[i] = e \/ \E j \in DOMAIN entries : Trimmed(s)[i] = entries[j]
<1> DEFINE o == Others(r)
           s == Append(o, e)
           t == Trimmed(s)
<1>1. /\ o \in Seq(Entry) /\ Len(o) \in Nat /\ DOMAIN o = 1 .. Len(o)
      /\ Len(o) <= MaxEntries
      /\ \A i, j \in 1 .. Len(o) : o[i].key = o[j].key => i = j
      /\ \A i \in 1 .. Len(o) : /\ o[i].key # r
                               /\ \E j \in DOMAIN entries : o[i] = entries[j]
  <2>1. /\ Cache(o)
        /\ \A i \in DOMAIN o : o[i].key # r /\ \E j \in DOMAIN entries : o[i] = entries[j]
    BY OthersIsCache
  <2> HIDE DEF o
  <2>2. o \in Seq(Entry) /\ Len(o) \in Nat /\ DOMAIN o = 1 .. Len(o)
    BY <2>1 DEF Cache
  <2>3. QED
    BY <2>1, <2>2 DEF Cache
<1> HIDE DEF o
<1>2. /\ s \in Seq(Entry) /\ Len(s) = Len(o) + 1 /\ DOMAIN s = 1 .. Len(o) + 1
      /\ s[Len(o) + 1] = e
      /\ \A i \in 1 .. Len(o) : s[i] = o[i]
  BY <1>1
<1> HIDE DEF s
<1>3. \A i \in DOMAIN s : s[i] = e \/ \E j \in DOMAIN entries : s[i] = entries[j]
  BY <1>1, <1>2
<1>4. \A i, j \in DOMAIN s : s[i].key = s[j].key => i = j
  BY <1>1, <1>2
<1>5. CASE Len(s) > MaxEntries
  <2>1. /\ t \in Seq(Entry) /\ Len(t) = Len(o) /\ DOMAIN t = 1 .. Len(o)
        /\ \A i \in 1 .. Len(o) : t[i] = s[i + 1]
    BY <1>1, <1>2, <1>5 DEF Trimmed
  <2> HIDE DEF t
  <2>2. \A i \in DOMAIN t : i + 1 \in DOMAIN s
    BY <1>1, <1>2, <2>1
  <2>3. \A i, j \in DOMAIN t : t[i].key = t[j].key => i = j
    <3> SUFFICES ASSUME NEW i \in DOMAIN t, NEW j \in DOMAIN t, t[i].key = t[j].key
                 PROVE  i = j
      OBVIOUS
    <3>1. i + 1 = j + 1
      BY <1>4, <2>1, <2>2
    <3>2. QED
      BY <3>1, <1>1, <2>1
  <2>4. Cache(t)
    BY <1>1, <2>1, <2>3 DEF Cache
  <2>5. \A i \in DOMAIN t : t[i] = e \/ \E j \in DOMAIN entries : t[i] = entries[j]
    BY <1>3, <2>1, <2>2
  <2>6. ~(Len(s) <= MaxEntries)
    BY <1>1, <1>2, <1>5, ResponsePathAssumption
  <2>7. QED
    BY <1>3, <2>4, <2>5, <2>6 DEF t, s, o
<1>6. CASE ~(Len(s) > MaxEntries)
  <2>1. t = s
    BY <1>6 DEF Trimmed
  <2>2. Cache(s)
    BY <1>1, <1>2, <1>4, <1>6, ResponsePathAssumption DEF Cache
  <2>3. QED
    BY <1>3, <2>1, <2>2 DEF s, o
<1>7. QED
  BY <1>5, <1>6

LEMMA CacheOfType ==
  ASSUME TypeOK
  PROVE  Cache(entries) /\ now \in Int
BY DEF TypeOK, Cache, Times

\* Old entries are as recent as they were, and as little of a fallback.
LEMMA EntriesKept ==
  ASSUME IndInv, now' = now,
         \A i \in DOMAIN entries' : \E j \in DOMAIN entries : entries'[i] = entries[j]
  PROVE  EntriesRecent' /\ FallbackNeverReplayed'
BY DEF IndInv, EntriesRecent, FallbackNeverReplayed, Held

\* Popping an entry, or moving it to the end.
LEMMA PopStep ==
  ASSUME IndInv, now' = now, NEW r, entries' = Others(r)
  PROVE  Cache(entries') /\ EntriesRecent' /\ FallbackNeverReplayed'
<1>1. Cache(entries)
  BY CacheOfType DEF IndInv
<1>2. QED
  BY <1>1, OthersIsCache, EntriesKept

LEMMA TouchStep ==
  ASSUME IndInv, now' = now, NEW r, NEW i \in EntryOf(r),
         entries' = Append(Others(r), entries[i])
  PROVE  Cache(entries') /\ EntriesRecent' /\ FallbackNeverReplayed'
<1>1. Cache(entries)
  BY CacheOfType DEF IndInv
<1>2. i \in DOMAIN entries /\ entries[i] \in Entry /\ entries[i].key = r
  BY <1>1 DEF EntryOf, Cache
<1>3. Len(entries') <= MaxEntries
  <2>1. Others(r) \in Seq(Entry) /\ Len(Others(r)) < Len(entries)
    BY <1>1, OthersIsCache DEF Cache
  <2>2. Len(entries') = Len(Others(r)) + 1
    BY <1>2, <2>1
  <2>3. Len(entries) \in Nat /\ Len(Others(r)) \in Nat /\ Len(entries) <= MaxEntries
    BY <1>1, <2>1 DEF Cache
  <2>4. QED
    BY <2>1, <2>2, <2>3, ResponsePathAssumption
<1>4. /\ Cache(entries')
      /\ \A k \in DOMAIN entries' :
           entries'[k] = entries[i] \/ \E j \in DOMAIN entries : entries'[k] = entries[j]
  BY <1>1, <1>2, <1>3, AppendIsCache
<1>5. \A k \in DOMAIN entries' : \E j \in DOMAIN entries : entries'[k] = entries[j]
  BY <1>2, <1>4
<1>6. QED
  BY <1>4, <1>5, EntriesKept

\* Storing an answer that is not held too long, and for a batch no fallback.
LEMMA StoreStep ==
  ASSUME IndInv, now' = now, NEW r \in Requests, NEW a \in Answers, Store(r, a),
         a.by = "model" => now - a.made <= Held(r),
         r \in Batch => a.by = "model"
  PROVE  Cache(entries') /\ EntriesRecent' /\ FallbackNeverReplayed'
<1> DEFINE e == [key |-> r, at |-> now, what |-> a]
<1>1. Cache(entries)
  BY CacheOfType DEF IndInv
<1>2. e \in Entry /\ e.key = r
  BY DEF Entry, IndInv, TypeOK
<1>3. entries' = Trimmed(Append(Others(r), e))
  BY DEF Store
<1>4. /\ Cache(entries')
      /\ \A i \in DOMAIN entries' :
           entries'[i] = e \/ \E j \in DOMAIN entries : entries'[i] = entries[j]
  <2> HIDE DEF e
  <2> QED BY <1>1, <1>2, <1>3, AppendIsCache
<1>5. now \in Int
  BY CacheOfType DEF IndInv
<1>6. EntriesRecent'
  BY <1>4, <1>5 DEF IndInv, EntriesRecent, Held
<1>7. FallbackNeverReplayed'
  BY <1>4 DEF IndInv, FallbackNeverReplayed
<1>8. QED
  BY <1>4, <1>6, <1>7
-----------------------------------------------------------------------------
(* The steps. *)

LEMMA ServeCachedStep ==
  ASSUME IndInv, NEW r \in Requests, ServeCached(r)
  PROVE  IndInv'
<1> USE ResponsePathAssumption DEF Times
<1>1. PICK i \in EntryOf(r) : /\ entries' = Append(Others(r), entries[i])
                             /\ Send(r, entries[i].what)
  BY DEF ServeCached
<1>2. UNCHANGED <<now, first_seen, ranked, busy, shown>>
  BY DEF ServeCached
<1>3. Cache(entries') /\ EntriesRecent' /\ FallbackNeverReplayed'
  BY <1>1, <1>2, TouchStep
<1>4. /\ i \in DOMAIN entries /\ entries[i] \in Entry /\ entries[i].key = r
      /\ now - entries[i].at <= TTL
  <2>1. Cache(entries)
    BY CacheOfType DEF IndInv
  <2>2. PICK j \in EntryOf(r) : now - entries[j].at <= TTL
    BY DEF ServeCached, Fresh
  <2>3. i = j
    BY <2>1, <2>2 DEF EntryOf, Cache
  <2>4. QED
    BY <2>1, <2>2, <2>3 DEF EntryOf, Cache
<1>5. TypeOK'
  BY <1>1, <1>2, <1>3, <1>4 DEF IndInv, TypeOK, Cache, Send, Entry
<1>6. GuardKnows'
  BY <1>2 DEF IndInv, GuardKnows
<1>7. AnswersAreRecent'
  <2>1. /\ answer' = [to |-> r, what |-> entries[i].what, at |-> now]
        /\ now \in Int /\ entries[i].at \in Int /\ entries[i].what.made \in Int
    BY <1>1, <1>4 DEF Send, IndInv, TypeOK, Entry, Answers, Mozc, Model
  <2>2. entries[i].what.by = "model" => entries[i].at - entries[i].what.made <= Held(r)
    BY <1>4 DEF IndInv, EntriesRecent
  <2>3. QED
    BY <1>4, <2>1, <2>2 DEF AnswersAreRecent, StalenessBound, Held
<1>8. QED
  BY <1>3, <1>5, <1>6, <1>7 DEF IndInv

\* What the guard remembers of a request it has not forgotten.
LEMMA GuardTyped ==
  ASSUME IndInv
  PROVE  /\ [k \in Interactive |-> Remembered(k)] \in [Interactive -> Times \cup {None}]
         /\ [k \in Interactive |-> RankedStill(k)] \in [Interactive -> Answers \cup {NoAnswer}]
BY DEF IndInv, TypeOK, Remembered, RankedStill

LEMMA ServeRankedStep ==
  ASSUME IndInv, NEW r \in Interactive, ServeRanked(r)
  PROVE  IndInv'
<1> USE ResponsePathAssumption DEF Times
<1>1. /\ Send(r, ranked[r]) /\ Store(r, ranked[r])
      /\ first_seen' = [k \in Interactive |-> Remembered(k)]
      /\ ranked' = [k \in Interactive |-> RankedStill(k)]
      /\ UNCHANGED <<now, busy, shown>>
      /\ RankedStill(r) # NoAnswer /\ busy = None
  BY DEF ServeRanked, GuardAnswers, Misses
<1>2. r \in Requests /\ r \notin Batch /\ None \notin Interactive
  BY DEF Requests
<1>3. ranked[r] \in Answers /\ ~Forgotten(r)
  BY <1>1 DEF RankedStill, IndInv, TypeOK
<1>4. now \in Int /\ ranked[r].made \in Int
  BY <1>3 DEF IndInv, TypeOK, Answers, Mozc, Model
<1>5. ranked[r].by = "model" => now - ranked[r].made <= Held(r)
  <2> SUFFICES ASSUME ranked[r].by = "model"
               PROVE  now - ranked[r].made <= Forget - Settle
    BY DEF Held
  <2>1. first_seen[r] # None /\ ranked[r].made - first_seen[r] >= Settle
    BY DEF IndInv, GuardKnows
  <2>2. now - first_seen[r] <= Forget /\ first_seen[r] \in Int
    BY <1>3, <1>4, <2>1 DEF Forgotten, IndInv, TypeOK
  <2>3. QED
    BY <1>4, <2>1, <2>2
<1>6. Cache(entries') /\ EntriesRecent' /\ FallbackNeverReplayed'
  BY <1>1, <1>2, <1>3, <1>5, StoreStep
<1>7. TypeOK'
  BY <1>1, <1>2, <1>3, <1>6, GuardTyped DEF IndInv, TypeOK, Cache, Send
<1>8. GuardKnows'
  BY <1>1, <1>2 DEF IndInv, TypeOK, GuardKnows, Remembered, RankedStill, Forgotten, NoAnswer
<1>9. AnswersAreRecent'
  BY <1>1, <1>4, <1>5 DEF AnswersAreRecent, StalenessBound, Held, Send
<1>10. QED
  BY <1>6, <1>7, <1>8, <1>9 DEF IndInv

LEMMA DeferStep ==
  ASSUME IndInv, NEW r \in Interactive, Defer(r)
  PROVE  IndInv'
<1> USE ResponsePathAssumption DEF Times
<1>1. /\ Send(r, Mozc) /\ Store(r, Mozc)
      /\ ranked' = [k \in Interactive |-> RankedStill(k)]
      /\ UNCHANGED <<now, busy>>
      /\ shown' = [shown EXCEPT ![r] = @ \cup {now}]
      /\ RankedStill(r) = NoAnswer /\ busy = None
  BY DEF Defer, GuardAnswers, Misses
<1>2. \/ /\ Remembered(r) = None
         /\ first_seen' = [k \in Interactive |-> IF k = r THEN now ELSE Remembered(k)]
      \/ first_seen' = [k \in Interactive |-> Remembered(k)]
  BY DEF Defer
<1>3. r \in Requests /\ r \notin Batch /\ None \notin Interactive
  BY DEF Requests
<1>4. Mozc \in Answers /\ Mozc.by # "model" /\ NoAnswer.by # "model"
  BY DEF Answers, Mozc, NoAnswer
<1>5. Cache(entries') /\ EntriesRecent' /\ FallbackNeverReplayed'
  BY <1>1, <1>3, <1>4, StoreStep
<1>6. now \in Int /\ now \in 0 .. MaxTime
  BY DEF IndInv, TypeOK
<1>7. TypeOK'
  <2>1. first_seen' \in [Interactive -> Times \cup {None}]
    BY <1>2, <1>6 DEF Remembered, IndInv, TypeOK
  <2>2. ranked' \in [Interactive -> Answers \cup {NoAnswer}]
    BY <1>1, GuardTyped
  <2>3. shown' \in [Interactive -> SUBSET Times]
    BY <1>1, <1>6 DEF IndInv, TypeOK
  <2>4. QED
    BY <1>1, <1>3, <1>4, <1>5, <2>1, <2>2, <2>3 DEF IndInv, TypeOK, Cache, Send
<1>8. GuardKnows'
  <2>1. \A k \in Interactive : first_seen'[k] # None =>
          /\ first_seen'[k] <= now
          /\ now - first_seen'[k] <= Forget => first_seen'[k] \in shown'[k]
    BY <1>1, <1>2, <1>6 DEF IndInv, TypeOK, GuardKnows, Remembered
  <2>2. \A k \in Interactive : ranked'[k].by = "model" =>
          first_seen'[k] # None /\ ranked'[k].made - first_seen'[k] >= Settle
    BY <1>1, <1>2, <1>4 DEF IndInv, TypeOK, GuardKnows, Remembered, RankedStill
  <2>3. QED
    BY <1>1, <1>3, <2>1, <2>2 DEF GuardKnows
<1>9. AnswersAreRecent'
  BY <1>1, <1>4 DEF AnswersAreRecent, Send
<1>10. QED
  BY <1>5, <1>7, <1>8, <1>9 DEF IndInv

LEMMA BeginSettledStep ==
  ASSUME IndInv, NEW r \in Interactive, BeginSettled(r)
  PROVE  IndInv'
<1> USE ResponsePathAssumption DEF Times
<1>1. /\ entries' = Others(r)
      /\ first_seen' = [k \in Interactive |-> Remembered(k)]
      /\ ranked' = [k \in Interactive |-> RankedStill(k)]
      /\ busy' = r
      /\ UNCHANGED <<now, answer, shown>>
      /\ Remembered(r) # None /\ now - first_seen[r] >= Settle
  BY DEF BeginSettled
<1>2. Cache(entries') /\ EntriesRecent' /\ FallbackNeverReplayed'
  BY <1>1, PopStep
<1>3. TypeOK'
  BY <1>1, <1>2, GuardTyped DEF IndInv, TypeOK, Cache, Requests
<1>4. GuardKnows'
  BY <1>1 DEF IndInv, TypeOK, GuardKnows, Remembered, RankedStill, Forgotten, NoAnswer
<1>5. AnswersAreRecent'
  BY <1>1 DEF IndInv, AnswersAreRecent
<1>6. QED
  BY <1>2, <1>3, <1>4, <1>5 DEF IndInv

LEMMA AskStep ==
  ASSUME IndInv, NEW r \in Explicit \cup Batch, Ask(r)
  PROVE  IndInv'
<1> USE ResponsePathAssumption DEF Times
<1>1. entries' = Others(r) /\ busy' = r /\ UNCHANGED <<now, first_seen, ranked, answer, shown>>
  BY DEF Ask
<1>2. r \in Requests /\ r \notin Interactive
  BY DEF Requests
<1>3. Cache(entries') /\ EntriesRecent' /\ FallbackNeverReplayed'
  BY <1>1, PopStep
<1>4. TypeOK'
  BY <1>1, <1>2, <1>3 DEF IndInv, TypeOK, Cache
<1>5. GuardKnows' /\ AnswersAreRecent'
  BY <1>1, <1>2 DEF IndInv, GuardKnows, AnswersAreRecent
<1>6. QED
  BY <1>3, <1>4, <1>5 DEF IndInv

\* What leaves the caches and the guard alone, and says nothing of the model's.
LEMMA PlainAnswerStep ==
  ASSUME IndInv, NEW r \in Requests, NEW a \in {Mozc, NoAnswer}, Send(r, a),
         busy' \in {busy, None}, UNCHANGED <<now, entries, first_seen, ranked, shown>>
  PROVE  IndInv'
<1> USE ResponsePathAssumption DEF Times
<1>1. a \in Answers \cup {NoAnswer} /\ a.by # "model" /\ None \notin Interactive
  BY DEF Answers, Mozc, NoAnswer, Requests
<1>2. TypeOK'
  BY <1>1 DEF IndInv, TypeOK, Send
<1>3. EntriesRecent' /\ FallbackNeverReplayed'
  BY EntriesKept
<1>4. GuardKnows'
  BY <1>1 DEF IndInv, GuardKnows
<1>5. AnswersAreRecent'
  BY <1>1 DEF AnswersAreRecent, Send
<1>6. QED
  BY <1>2, <1>3, <1>4, <1>5 DEF IndInv

LEMMA FinishStep ==
  ASSUME IndInv, Finish
  PROVE  IndInv'
<1> USE ResponsePathAssumption DEF Times
<1> DEFINE v == Verdict(busy)
<1>1. /\ Send(busy, v) /\ Store(busy, v)
      /\ ranked' = [k \in Interactive |-> IF k = busy THEN v ELSE ranked[k]]
      /\ busy' = None
      /\ UNCHANGED <<now, first_seen, shown>>
      /\ busy \in Requests /\ busy \notin Batch \cap Weak
  BY DEF Finish, IndInv, TypeOK
<1>2. now \in Int /\ now \in 0 .. MaxTime /\ None \notin Interactive
  BY DEF IndInv, TypeOK, Requests
<1>3. /\ v \in Answers
      /\ v.by = "model" => v.made = now
      /\ busy \in Batch => v.by = "model"
  BY <1>1, <1>2 DEF Verdict, Answers, Mozc, Model
<1> HIDE DEF v
<1>4. v.by = "model" => now - v.made <= Held(busy)
  BY <1>2, <1>3 DEF Held
<1>5. Cache(entries') /\ EntriesRecent' /\ FallbackNeverReplayed'
  BY <1>1, <1>3, <1>4, StoreStep
<1>6. TypeOK'
  BY <1>1, <1>3, <1>5 DEF IndInv, TypeOK, Cache, Send
<1>7. GuardKnows'
  BY <1>1, <1>2, <1>3 DEF IndInv, TypeOK, GuardKnows
<1>8. AnswersAreRecent'
  BY <1>1, <1>2, <1>3 DEF AnswersAreRecent, StalenessBound, Send
<1>9. QED
  BY <1>5, <1>6, <1>7, <1>8 DEF IndInv

LEMMA TickStep ==
  ASSUME IndInv, Tick
  PROVE  IndInv'
<1> USE ResponsePathAssumption DEF Times
<1>1. /\ now < MaxTime /\ now' = now + 1
      /\ shown' = [r \in Interactive |-> {t \in shown[r] : now + 1 - t <= Forget}]
      /\ UNCHANGED <<entries, first_seen, ranked, busy, answer>>
      /\ now \in Int /\ now \in 0 .. MaxTime
  BY DEF Tick, IndInv, TypeOK
<1>2. TypeOK'
  BY <1>1 DEF IndInv, TypeOK
<1>3. EntriesRecent'
  <2>1. \A i \in DOMAIN entries : entries[i].at \in Int
    <3>1. \A i \in DOMAIN entries : entries[i] \in Entry
      BY CacheOfType DEF IndInv, Cache
    <3>2. QED
      BY <3>1 DEF Entry
  <2>2. QED
    BY <1>1, <2>1 DEF IndInv, EntriesRecent, Held
<1>4. GuardKnows'
  BY <1>1 DEF IndInv, TypeOK, GuardKnows, Requests
<1>5. AnswersAreRecent' /\ FallbackNeverReplayed'
  BY <1>1 DEF IndInv, AnswersAreRecent, FallbackNeverReplayed
<1>6. QED
  BY <1>2, <1>3, <1>4, <1>5 DEF IndInv
-----------------------------------------------------------------------------
LEMMA InitEstablishes == Init => IndInv
<1> SUFFICES ASSUME Init PROVE IndInv
  OBVIOUS
<1> USE ResponsePathAssumption DEF Init, InitCache, InitGuard, NoAnswer, Times
<1>1. TypeOK
  BY DEF TypeOK, Requests
<1>2. EntriesRecent /\ FallbackNeverReplayed
  BY DEF EntriesRecent, FallbackNeverReplayed
<1>3. GuardKnows /\ AnswersAreRecent
  BY DEF GuardKnows, AnswersAreRecent, Requests
<1>4. QED
  BY <1>1, <1>2, <1>3 DEF IndInv

LEMMA StepPreserves == IndInv /\ [Next]_vars => IndInv'
<1> SUFFICES ASSUME IndInv, [Next]_vars
             PROVE  IndInv'
  OBVIOUS
<1>1. ASSUME NEW r \in Requests, ProcessLine(r)
      PROVE  IndInv'
  <2>1. CASE r \in Bare /\ AnswerBare(r)
    BY <2>1, PlainAnswerStep DEF AnswerBare
  <2>2. CASE ServeCached(r)
    BY <2>2, ServeCachedStep
  <2>3. CASE r \in Interactive /\ ServeRanked(r)
    BY <2>3, ServeRankedStep
  <2>4. CASE r \in Interactive /\ Defer(r)
    BY <2>4, DeferStep
  <2>5. CASE r \in Interactive /\ BeginSettled(r)
    BY <2>5, BeginSettledStep
  <2>6. CASE BeginExplicit(r) \/ BeginBatch(r)
    BY <2>6, AskStep DEF BeginExplicit, BeginBatch
  <2>7. QED
    BY <1>1, <2>1, <2>2, <2>3, <2>4, <2>5, <2>6 DEF ProcessLine
<1>2. CASE Finish
  BY <1>2, FinishStep
<1>3. CASE FallBack
  <2>1. busy \in Requests
    BY <1>3 DEF FallBack, Requests
  <2>2. QED
    BY <1>3, <2>1, PlainAnswerStep DEF FallBack
<1>4. CASE Raise
  <2>1. busy \in Requests
    BY <1>4 DEF Raise, IndInv, TypeOK
  <2>2. QED
    BY <1>4, <2>1, PlainAnswerStep DEF Raise
<1>5. CASE Tick
  BY <1>5, TickStep
<1>6. CASE UNCHANGED vars
  BY <1>6 DEF vars, IndInv, TypeOK, EntriesRecent, GuardKnows, AnswersAreRecent,
              FallbackNeverReplayed
<1>7. QED
  BY <1>1, <1>2, <1>3, <1>4, <1>5, <1>6 DEF Next

LEMMA InvariantHolds == Spec => []IndInv
BY InitEstablishes, StepPreserves, PTL DEF Spec

\* The resident ranker's request path keeps its types, and its cache one entry a
\* request and no more than its size (ranker.py:178-232).
THEOREM TypesHold == Spec => []TypeOK
<1>1. IndInv => TypeOK
  BY DEF IndInv
<1>2. QED
  BY <1>1, InvariantHolds, PTL

\* However the two caches hand answers to each other, no ranking that is sent is
\* older than the bound (ranker.py:178-302).
THEOREM RankingsRecent == Spec => []AnswersAreRecent
<1>1. IndInv => AnswersAreRecent
  BY DEF IndInv
<1>2. QED
  BY <1>1, InvariantHolds, PTL

\* The cache never holds what rank_batch answered for want of a vector
\* (onnx_dual_encoder_ranker.py:107-110, ranker.py:178-232).
THEOREM FallbacksForgotten == Spec => []FallbackNeverReplayed
<1>1. IndInv => FallbackNeverReplayed
  BY DEF IndInv
<1>2. QED
  BY <1>1, InvariantHolds, PTL

\* The model begins on an interactive request only when Mozc's order was shown for
\* it Settle ago or earlier, and not so long ago that it is forgotten.
THEOREM InferenceIsAsked == Spec => TypingNeverStartsInference
<1> DEFINE A == busy = None /\ busy' \in Interactive
                  => \E t \in shown[busy'] : now - t >= Settle
<1>1. IndInv /\ [Next]_vars => [A]_vars
  <2> SUFFICES ASSUME IndInv, Next, busy = None, busy' \in Interactive
               PROVE  \E t \in shown[busy'] : now - t >= Settle
    OBVIOUS
  <2> USE ResponsePathAssumption
  <2>1. PICK r \in Interactive : BeginSettled(r)
    BY DEF Next, ProcessLine, AnswerBare, ServeCached, ServeRanked, Defer, GuardAnswers,
           BeginExplicit, BeginBatch, Ask, Finish, FallBack, Raise, Tick, Requests
  <2>2. busy' = r /\ first_seen[r] # None /\ ~Forgotten(r) /\ now - first_seen[r] >= Settle
    BY <2>1 DEF BeginSettled, Remembered
  <2>3. first_seen[r] \in Int /\ now \in Int
    BY <2>2 DEF IndInv, TypeOK, Times
  <2>4. first_seen[r] \in shown[r]
    BY <2>2, <2>3 DEF IndInv, GuardKnows, Forgotten
  <2>5. QED
    BY <2>2, <2>4
<1>2. QED
  BY <1>1, InvariantHolds, PTL DEF Spec, TypingNeverStartsInference
-----------------------------------------------------------------------------
(* How a ranker comes up (RankerStartup). *)

(* The name left of a pipe's. *)
LEMMA NameIs ==
  ASSUME NEW c \in Startings
  PROVE  Startup!normalize_windows_pipe_name(c.pipe) \in {<<>>, Startup!MozcPipe}
<1> DEFINE given == c.pipe
           S == {"\\", ".\\pipe\\", ".", "..", "ai_ime_ranker"}
           T == {i \in DOMAIN given : given[i] \notin {"\\", ".\\pipe\\"}} \cup {Len(given) + 1}
           first == CHOOSE x \in T : \A y \in T : x =< y
           name == SubSeq(given, first, Len(given))
<1>1. given \in Seq(S) /\ Len(given) \in Nat /\ DOMAIN given = 1 .. Len(given)
  BY StartupAssumption
<1>2. PICK n \in 0 .. Len(given) :
        /\ \A i \in 1 .. n : given[i] \in {"\\", ".\\pipe\\"}
        /\ SubSeq(given, n + 1, Len(given)) \in {<<>>, <<".">>, <<"..">>, Startup!MozcPipe}
  BY StartupAssumption
<1>3. Startup!normalize_windows_pipe_name(given) = IF name \in {<<".">>, <<"..">>} THEN <<>> ELSE name
  BY DEF Startup!normalize_windows_pipe_name, Startup!Min
<1> HIDE DEF given
<1>4. first \in T /\ \A y \in T : first <= y
  <2>1. T \subseteq Nat /\ T # {}
    BY <1>1
  <2> HIDE DEF T
  <2>2. QED
    BY <2>1, Lowest
<1>5. CASE n = Len(given)
  <2>1. T = {Len(given) + 1}
    BY <1>1, <1>2, <1>5
  <2> HIDE DEF T
  <2>2. first = Len(given) + 1
    BY <1>4, <2>1
  <2> HIDE DEF first
  <2>3. name = <<>>
    BY <1>1, <2>2, SubSeqEmpty
  <2>4. QED
    BY <1>3, <2>3 DEF given
<1>6. CASE n < Len(given)
  <2> DEFINE rest == SubSeq(given, n + 1, Len(given))
  <2>1. rest[1] = given[n + 1] /\ Len(rest) = Len(given) - n
    <3>1. n + 1 \in 1 .. Len(given) + 1
      BY <1>1
    <3>2. /\ Len(rest) = Len(given) - (n + 1) + 1
          /\ \A i \in 1 .. Len(given) - (n + 1) + 1 : rest[i] = given[n + 1 + i - 1]
      BY <1>1, <3>1, FromPlace
    <3> HIDE DEF rest
    <3>3. QED
      BY <1>1, <1>6, <3>2
  <2>2. given[n + 1] \notin {"\\", ".\\pipe\\"}
    <3>1. rest \in {<<".">>, <<"..">>, <<"ai_ime_ranker">>}
      <4>1. rest # <<>>
        <5>1. Len(given) \in Nat /\ n \in Int
          BY <1>1
        <5> HIDE DEF rest
        <5>2. Len(rest) > 0
          BY <1>6, <2>1, <5>1
        <5>3. QED
          BY <5>2
      <4>2. QED
        BY <1>2, <4>1 DEF Startup!MozcPipe
    <3> HIDE DEF rest
    <3>2. rest[1] \in {".", "..", "ai_ime_ranker"}
      <4>1. <<".">>[1] = "." /\ <<"..">>[1] = ".." /\ <<"ai_ime_ranker">>[1] = "ai_ime_ranker"
        OBVIOUS
      <4>2. QED
        BY <3>1, <4>1
    <3>3. QED
      BY <2>1, <3>2
  <2>3. first = n + 1
    <3>1. n + 1 \in T /\ \A i \in T : n + 1 <= i
      BY <1>1, <1>2, <1>6, <2>2
    <3>2. T \subseteq Int /\ n + 1 \in Int
      BY <1>1
    <3> HIDE DEF T
    <3>3. first \in Int /\ first <= n + 1 /\ n + 1 <= first
      BY <1>4, <3>1, <3>2
    <3> HIDE DEF first
    <3>4. QED
      BY <3>2, <3>3
  <2>4. name = rest
    BY <2>3
  <2>5. name \in {<<>>, <<".">>, <<"..">>, Startup!MozcPipe}
    BY <1>2, <2>4
  <2>6. Startup!normalize_windows_pipe_name(given) \in {<<>>, Startup!MozcPipe}
    <3>1. CASE name \in {<<".">>, <<"..">>}
      <4>1. Startup!normalize_windows_pipe_name(given) = <<>>
        BY <1>3, <3>1
      <4>2. QED
        BY <4>1
    <3>2. CASE name \notin {<<".">>, <<"..">>}
      <4>1. Startup!normalize_windows_pipe_name(given) = name
        BY <1>3, <3>2
      <4> HIDE DEF name
      <4>2. QED
        BY <2>5, <3>2, <4>1, Zenon
    <3>3. QED
      BY <3>1, <3>2
  <2>7. QED
    BY <2>6, Zenon DEF given
<1>7. n = Len(given) \/ n < Len(given)
  <2>1. Len(given) \in Nat
    BY <1>1
  <2> HIDE DEF S, T, first, name
  <2>2. QED
    BY <2>1
<1>8. QED
  BY <1>5, <1>6, <1>7

(* What a backend that has come up runs on, and says it does. *)
AsAsked(r) ==
  Startup!Guarded /\ config.device = "" =>
    /\ config.mode = "cpu" => r.device = "cpu"
    /\ Startup!Arguments.backend # "dual_encoder" =>
         /\ config.mode = "gpu" => r.device # "cpu"
         /\ r.says = r.device

LEMMA DeviceAsAsked ==
  ASSUME NEW r \in Startup!Constructed, r # Startup!Failed
  PROVE  AsAsked(r)
<1> SUFFICES ASSUME Startup!Guarded, config.device = ""
             PROVE  AsAsked(r)
  BY DEF AsAsked
<1> USE DEF AsAsked, Startup!Loaded, Startup!Sessions, Startup!use_gpu, Startup!gpu_provider
<1>1. CASE Startup!Arguments.backend = "dual_encoder"
  <2>1. r \in Startup!OnnxDualEncoderIMEReranker(Startup!Arguments.models)
    BY <1>1 DEF Startup!Constructed
  <2> DEFINE given == Startup!Arguments.models
             models == IF given # <<>> THEN given
                       ELSE Startup!Resolve("dual", IF Startup!use_gpu THEN <<"fp16", "fp32">>
                                                    ELSE <<"int8", "fp16">>)
             says == IF Startup!use_gpu THEN "gpu" ELSE "cpu"
  <2>2. PICK d \in Startup!Sessions : r.device = d
    <3> HIDE DEF Startup!use_gpu, Startup!Sessions
    <3>1. r \in IF models = <<>> \/ ~machine.tokenizer THEN {Startup!Failed}
                ELSE {Startup!Loaded(says, d, models) : d \in Startup!Sessions}
      BY <2>1 DEF Startup!OnnxDualEncoderIMEReranker
    <3> HIDE DEF models, says, Startup!Loaded
    <3>2. PICK d \in Startup!Sessions : r = Startup!Loaded(says, d, models)
      BY <3>1
    <3>3. r.device = d
      BY <3>2 DEF Startup!Loaded
    <3>4. QED
      BY <3>3
  <2>4. config.mode = "cpu" => d = "cpu"
    BY <2>2 DEF Startup!use_gpu
  <2>5. QED
    BY <1>1, <2>2, <2>4
<1>2. CASE Startup!Arguments.backend = "onnx"
  <2>1. r \in Startup!OnnxRuriReranker(Startup!Arguments.models)
    BY <1>2 DEF Startup!Constructed
  <2> DEFINE given == Startup!Arguments.models
             models == IF given # <<>> THEN given
                       ELSE Startup!Resolve("single", IF Startup!use_gpu THEN <<"fp16", "fp32">>
                                                      ELSE <<"int8", "fp32">>)
  <2>2. PICK d \in Startup!Sessions :
          r.device = d /\ r.says = d /\ ~(config.mode = "gpu" /\ d = "cpu")
    <3> HIDE DEF Startup!use_gpu, Startup!Sessions
    <3>1. r \in IF \/ config.mode = "gpu" /\ ~Startup!use_gpu
                   \/ models = <<>> \/ ~machine.tokenizer
                THEN {Startup!Failed}
                ELSE {IF config.mode = "gpu" /\ d = "cpu" THEN Startup!Failed
                      ELSE Startup!Loaded(d, d, models) : d \in Startup!Sessions}
      BY <2>1 DEF Startup!OnnxRuriReranker
    <3> HIDE DEF models
    <3>2. PICK d \in Startup!Sessions :
            r = IF config.mode = "gpu" /\ d = "cpu" THEN Startup!Failed
                ELSE Startup!Loaded(d, d, models)
      BY <3>1
    <3>3. QED
      BY <3>2
  <2>4. config.mode = "cpu" => d = "cpu"
    BY <2>2 DEF Startup!use_gpu
  <2>5. QED
    BY <1>2, <2>2, <2>4
<1>3. CASE Startup!Arguments.backend = "ruri"
  <2>1. r \in Startup!RuriReranker
    BY <1>3 DEF Startup!Constructed
  <2> DEFINE cuda == "cuda" \in machine.gpus
             device == IF config.mode = "cpu" \/ ~cuda THEN "cpu" ELSE "cuda"
             models == Startup!Resolve("ruri", <<"tuned", "base">>)
  <2>2. r \in IF (config.mode = "gpu" /\ ~cuda) \/ (device = "cuda" /\ ~cuda) \/ models = <<>>
              THEN {Startup!Failed} ELSE {Startup!Loaded(device, device, models)}
    BY <2>1 DEF Startup!RuriReranker
  <2> HIDE DEF models
  <2>3. r.says = device /\ r.device = device /\ ~(config.mode = "gpu" /\ ~cuda)
    <3> HIDE DEF device, cuda, Startup!Loaded
    <3>1. ~(config.mode = "gpu" /\ ~cuda) /\ r = Startup!Loaded(device, device, models)
      BY <2>2
    <3>2. QED
      BY <3>1 DEF Startup!Loaded
  <2>4. QED
    BY <1>3, <2>3
<1>4. QED
  BY <1>1, <1>2, <1>3 DEF Startup!Guarded

Loading == {"announcing", "opening", "creating", "serving", "closing"}

Name == Startup!normalize_windows_pipe_name(config.pipe)

(* A ranker that is past its loading has its backend, and a name for its pipe. *)
Ready ==
  \A p \in Pids :
    /\ proc[p] \in Loading => AsAsked(ranker[p])
    /\ proc[p] \in Loading \ {"announcing"} => Name # <<>>

(* The status file says "on" only of a ranker that has come so far. *)
Announced ==
  status.state = "on" =>
    /\ status.pid \in Pids /\ proc[status.pid] \notin {"none", "loading"}
    /\ \/ proc[status.pid] \in {"creating", "serving", "closing", "killed"}
       \/ status.pid \in unwritten
    /\ status.pipe = Name /\ Name # <<>>
    /\ AsAsked(ranker[status.pid])
    /\ status.device = ranker[status.pid].says

Processes == proc = [p \in Pids |-> proc[p]] /\ ranker = [p \in Pids |-> ranker[p]]

StartupInv == Processes /\ config \in Startings /\ Ready /\ Announced

(* The machine and what a ranker was started with stay. *)
LEMMA SameStart ==
  ASSUME UNCHANGED <<machine, config>>
  PROVE  Name' = Name /\ \A r : AsAsked(r)' <=> AsAsked(r)
<1>1. Name' = Name
  BY DEF Name
<1>2. Startup!Packaged' = Startup!Packaged
  BY DEF Startup!Packaged, Startup!use_gpu, Startup!gpu_provider
<1>3. Startup!Arguments' = Startup!Arguments
  BY <1>2 DEF Startup!Arguments
<1>4. QED
  BY <1>1, <1>3 DEF AsAsked, Startup!Guarded

LEMMA StartupStep ==
  ASSUME StartupInv, Startup!Next
  PROVE  StartupInv'
<1> USE DEF StartupInv, Processes, Ready, Announced, Loading, Startup!Enter
<1>1. PICK p \in Pids :
        \/ Startup!Launch(p) \/ Startup!Load(p) \/ Startup!Misnamed(p) \/ Startup!Announce(p)
        \/ Startup!OpenFails(p) \/ Startup!Open(p) \/ Startup!CreateNamedPipe(p)
        \/ Startup!Serve(p) \/ Startup!Close(p) \/ Startup!serve_stdio(p) \/ Startup!Kill(p)
  BY DEF Startup!Next
<1>2. /\ UNCHANGED <<machine, config>>
      /\ proc' = [proc EXCEPT ![p] = proc'[p]]
      /\ proc[p] # "loading" => UNCHANGED ranker
  BY <1>1 DEF Startup!Launch, Startup!Load, Startup!Misnamed, Startup!Announce, Startup!OpenFails,
     Startup!Open, Startup!CreateNamedPipe, Startup!Serve, Startup!Close, Startup!serve_stdio,
     Startup!Kill
<1>3. Name' = Name /\ \A r : AsAsked(r)' <=> AsAsked(r)
  BY <1>2, SameStart
<1>4. CASE Startup!Launch(p)
  <2>1. proc'[p] = "loading" /\ proc[p] = "none" /\ UNCHANGED <<ranker, status, unwritten>>
    BY <1>4 DEF Startup!Launch
  <2>2. QED
    BY <1>2, <1>3, <2>1
<1>5. CASE Startup!Load(p)
  <2>1. PICK r \in Startup!Constructed :
          /\ ranker' = [ranker EXCEPT ![p] = r]
          /\ proc' = [proc EXCEPT ![p] = IF r = Startup!Failed THEN "gone"
                                         ELSE IF config.pipe # <<>> THEN "announcing" ELSE "stdio"]
    BY <1>5 DEF Startup!Load
  <2>2. r # Startup!Failed => AsAsked(r)
    BY DeviceAsAsked
  <2>3. proc[p] = "loading" /\ UNCHANGED <<status, unwritten>>
    BY <1>5 DEF Startup!Load
  <2>4. Processes'
    BY <2>1
  <2>5. ranker'[p] = r /\ proc'[p] \in {"gone", "announcing", "stdio"}
        /\ (proc'[p] = "announcing" => r # Startup!Failed)
        /\ \A q \in Pids \ {p} : ranker'[q] = ranker[q] /\ proc'[q] = proc[q]
    BY <2>1
  <2>6. Ready'
    BY <1>3, <2>2, <2>5
  <2>7. Announced'
    BY <1>3, <2>3, <2>5
  <2>8. QED
    BY <1>2, <2>4, <2>6, <2>7
<1>6. CASE UNCHANGED status /\ UNCHANGED ranker /\ unwritten \subseteq unwritten'
           /\ proc[p] \notin {"none", "loading"} /\ proc'[p] \notin {"none", "loading"}
           /\ (proc[p] \in {"creating", "serving", "closing", "killed"} =>
                 proc'[p] \in {"creating", "serving", "closing", "killed"} \/ p \in unwritten')
           /\ (proc'[p] \in Loading => proc[p] \in Loading)
           /\ (proc'[p] \in Loading \ {"announcing"} => Name # <<>>)
  <2>1. \A q \in Pids : q # p => proc'[q] = proc[q]
    BY <1>2
  <2>2. Ready'
    BY <1>3, <1>6, <2>1
  <2>3. Announced'
    BY <1>3, <1>6, <2>1
  <2>4. QED
    BY <1>2, <1>6, <2>2, <2>3
<1>7. CASE /\ status'.state # "on" \/ status' = [pid |-> p, state |-> "on",
                 device |-> ranker[p].says, pipe |-> Name]
           /\ status'.state = "on" => proc'[p] \in {"creating", "serving", "closing", "killed"}
           /\ UNCHANGED <<ranker, unwritten>>
           /\ proc[p] \in Loading /\ proc'[p] \notin {"none", "loading", "announcing"} /\ Name # <<>>
  <2>1. \A q \in Pids : q # p => proc'[q] = proc[q]
    BY <1>2
  <2>2. Ready'
    BY <1>3, <1>7, <2>1
  <2>3. status'.state = "on" => /\ status'.pid = p /\ status'.device = ranker[p].says
                               /\ status'.pipe = Name
    BY <1>7
  <2>4. Announced'
    BY <1>3, <1>7, <2>3
  <2>5. QED
    BY <1>2, <1>7, <2>2, <2>4
<1>8. CASE Startup!Misnamed(p) \/ Startup!OpenFails(p) \/ Startup!CreateNamedPipe(p)
           \/ Startup!serve_stdio(p) \/ Startup!Kill(p)
  <2>1. CASE Startup!Misnamed(p)
    BY <1>2, <1>6, <2>1 DEF Startup!Misnamed, Name
  <2>2. CASE Startup!OpenFails(p)
    BY <1>2, <1>6, <2>2 DEF Startup!OpenFails
  <2>3. CASE Startup!CreateNamedPipe(p)
    BY <1>2, <1>6, <2>3 DEF Startup!CreateNamedPipe
  <2>4. CASE Startup!serve_stdio(p)
    BY <1>2, <1>6, <2>4 DEF Startup!serve_stdio
  <2>5. CASE Startup!Kill(p)
    <3>1. proc'[p] = "killed" /\ \A q \in Pids \ {p} : proc'[q] = proc[q]
      BY <1>2, <2>5 DEF Startup!Kill
    <3>2. UNCHANGED <<status, ranker, unwritten>>
      BY <2>5 DEF Startup!Kill
    <3>3. Announced'
      BY <1>3, <3>1, <3>2
    <3>4. Ready'
      BY <1>3, <3>1, <3>2
    <3>5. QED
      BY <1>2, <3>2, <3>3, <3>4
  <2>6. QED
    BY <1>8, <2>1, <2>2, <2>3, <2>4, <2>5
<1>9. CASE Startup!Announce(p)
  BY <1>2, <1>6, <1>7, <1>9 DEF Startup!Announce, Startup!Write, Name
<1>10. CASE Startup!Open(p)
  BY <1>2, <1>6, <1>7, <1>10 DEF Startup!Open, Startup!Write, Name
<1>11. CASE Startup!Serve(p)
  BY <1>2, <1>6, <1>7, <1>11 DEF Startup!Serve, Startup!Write, Name
<1>12. CASE Startup!Close(p)
  BY <1>2, <1>6, <1>7, <1>12 DEF Startup!Close, Startup!Write, Name
<1>13. QED
  BY <1>1, <1>4, <1>5, <1>8, <1>9, <1>10, <1>11, <1>12

(* A status file that says "on" is of a ranker that is up, or was killed, or *)
(* could not write; what it says of the device and of the pipe is so, and is *)
(* what was asked for (onnx_ranker.py:291-294): for any number of rankers of *)
(* one installation, on any machine, with any models.                        *)
THEOREM StatusStaysTrue == Startup!Spec => []StatusIsTrue
<1>1. Startup!Init => StartupInv
  BY DEF Startup!Init, StartupInv, Processes, Ready, Announced, Loading, Startup!NoStatus
<1>2. StartupInv /\ [Startup!Next]_(Startup!vars) => StartupInv'
  <2>1. CASE UNCHANGED Startup!vars
    <3>1. UNCHANGED <<machine, config, proc, ranker, status, unwritten>>
      BY <2>1 DEF Startup!vars
    <3>2. Name' = Name /\ \A r : AsAsked(r)' <=> AsAsked(r)
      BY <3>1, SameStart
    <3>3. QED
      BY <3>1, <3>2 DEF StartupInv, Processes, Ready, Announced
  <2>2. QED
    BY <2>1, StartupStep
<1>3. StartupInv => StatusIsTrue
  <2> SUFFICES ASSUME StartupInv, status.state = "on"
               PROVE  Startup!StatusIsTrue
    BY DEF StatusIsTrue, Startup!StatusIsTrue
  <2>1. Name = Startup!MozcPipe
    BY NameIs DEF StartupInv, Announced, Name
  <2>2. QED
    BY <2>1 DEF StartupInv, Announced, AsAsked, Startup!StatusIsTrue
<1>4. QED
  BY <1>1, <1>2, <1>3, PTL DEF Startup!Spec
=============================================================================

-------------------------- MODULE AiRewriterProofs --------------------------
(***************************************************************************)
(* What the rewriter's bookkeeping of its requests says is true of the     *)
(* ranker, whatever Mozc offers, in whatever order the user types, asks    *)
(* and commits.  That turns on the window of a segment: it shows the texts *)
(* that come foremost in three passes, and goes on showing the same when   *)
(* one of them is moved to the front.                                      *)
(***************************************************************************)
EXTENDS AiRewriter, FiniteSetTheorems, RecursionProofs

IsSeq(s) == \E S : s \in Seq(S)

(* What a segment is while Rewrite works on it. *)
Candidate(c) ==
  /\ c = [value |-> c.value, supplemental |-> c.supplemental, reranked |-> c.reranked]
  /\ IsSequence(c.value)

Segment(s) ==
  /\ s = [reading |-> s.reading, free |-> s.free, candidates |-> s.candidates]
  /\ IsSequence(s.reading)
  /\ IsSeq(s.candidates) /\ s.candidates # <<>>
  /\ \A n \in DOMAIN s.candidates : Candidate(s.candidates[n])
-----------------------------------------------------------------------------
(* Sequences. *)

(* One segment is replaced. *)
LEMMA Replaced ==
  ASSUME NEW s, NEW i \in DOMAIN s, NEW new, IsSeq(s)
  PROVE  LET t == [s EXCEPT ![i] = new]
         IN IsSeq(t) /\ DOMAIN t = DOMAIN s /\ t[i] = new /\ \A j \in DOMAIN s \ {i} : t[j] = s[j]
<1>1. PICK S : s \in Seq(S)
  BY DEF IsSeq
<1>2. s \in Seq(S \cup {new}) /\ new \in S \cup {new} /\ i \in 1 .. Len(s)
  BY <1>1
<1> DEFINE t == [s EXCEPT ![i] = new]
<1>3. t \in Seq(S \cup {new})
  BY <1>2, ExceptSeq
<1>4. QED
  BY <1>1, <1>3 DEF IsSeq

LEMMA Sequences ==
  ASSUME NEW s, IsSeq(s)
  PROVE  Len(s) \in Nat /\ DOMAIN s = 1 .. Len(s)
<1>1. PICK S : s \in Seq(S)
  BY DEF IsSeq
<1>2. QED
  BY <1>1

LEMMA SequenceIs ==
  ASSUME NEW s, IsSequence(s)
  PROVE  IsSeq(s) /\ Len(s) \in Nat /\ DOMAIN s = 1 .. Len(s)
<1> DEFINE V == {s[i] : i \in 1 .. Len(s)}
<1>1. s \in [1 .. Len(s) -> V] /\ Len(s) \in Nat
  BY DEF IsSequence
<1> HIDE DEF V
<1>2. s \in Seq(V)
  BY <1>1
<1>3. QED
  BY <1>1, <1>2 DEF IsSeq
-----------------------------------------------------------------------------
(* The window. *)

LEMMA Smaller ==
  ASSUME NEW a \in Int, NEW b \in Int
  PROVE  Min({a, b}) = IF a <= b THEN a ELSE b
<1> DEFINE m == IF a <= b THEN a ELSE b
<1>1. m \in {a, b} /\ \A y \in {a, b} : m <= y
  OBVIOUS
<1>2. \A x \in {a, b} : (\A y \in {a, b} : x <= y) => x = m
  OBVIOUS
<1>3. QED
  BY <1>1, <1>2 DEF Min

Text(segment, i)     == segment.candidates[i].value
TextsAt(segment, P)  == {Text(segment, i) : i \in P}

(* The candidates at those positions have texts of their own. *)
Different(segment, s) ==
  \A k, l \in DOMAIN s : k # l => Text(segment, s[k]) # Text(segment, s[l])

(* Among those positions the first text stands before all that have the second. *)
Earlier(segment, P, t, u) ==
  \E i \in P : Text(segment, i) = t /\ \A j \in P : Text(segment, j) = u => i < j

(* Of the texts Z those are the n that stand first, or all. *)
Foremosts(segment, P, Z, n, X) ==
  /\ X \subseteq Z /\ IsFiniteSet(X)
  /\ Cardinality(X) <= n /\ (Cardinality(X) = n \/ X = Z)
  /\ \A t \in Z, u \in X : Earlier(segment, P, t, u) => t \in X

(* Of two texts the one stands before the other. *)
LEMMA OneEarlier ==
  ASSUME NEW segment, NEW P, P \subseteq Nat,
         NEW t \in TextsAt(segment, P), NEW u \in TextsAt(segment, P), t # u
  PROVE  Earlier(segment, P, t, u) \/ Earlier(segment, P, u, t)
<1> DEFINE A == {i \in P : Text(segment, i) \in {t, u}}
<1>1. A \subseteq Nat /\ A # {}
  BY DEF TextsAt
<1>2. PICK i \in A : \A j \in A : i <= j
  <2> HIDE DEF A
  <2>1. QED
    BY <1>1, Least
<1>3. \A j \in P : Text(segment, j) \in {t, u} => i <= j
  BY <1>2
<1>4. i \in P /\ i \in Nat
  BY <1>1, <1>2
<1>5. CASE Text(segment, i) = t
  <2>1. \A j \in P : Text(segment, j) = u => i < j
    BY <1>3, <1>4, <1>5
  <2>2. QED
    BY <1>4, <1>5, <2>1 DEF Earlier
<1>6. CASE Text(segment, i) = u
  <2>1. \A j \in P : Text(segment, j) = t => i < j
    BY <1>3, <1>4, <1>6
  <2>2. QED
    BY <1>4, <1>6, <2>1 DEF Earlier
<1>7. QED
  BY <1>2, <1>5, <1>6

(* There are no others such. *)
LEMMA OneForemost ==
  ASSUME NEW segment, NEW P, P \subseteq Nat, NEW Z, Z \subseteq TextsAt(segment, P), NEW n \in Nat,
         NEW X, NEW Y, Foremosts(segment, P, Z, n, X), Foremosts(segment, P, Z, n, Y)
  PROVE  X = Y
<1>1. \A t, u \in Z : t # u => Earlier(segment, P, t, u) \/ Earlier(segment, P, u, t)
  BY OneEarlier
<1>2. X \subseteq Y \/ Y \subseteq X
  <2>1. SUFFICES ASSUME NEW x \in X, x \notin Y, NEW y \in Y, y \notin X
                 PROVE  FALSE
    OBVIOUS
  <2>2. x \in Z /\ y \in Z /\ x # y
    BY <2>1 DEF Foremosts
  <2>3. Earlier(segment, P, x, y) \/ Earlier(segment, P, y, x)
    BY <1>1, <2>2
  <2>4. QED
    BY <2>1, <2>2, <2>3 DEF Foremosts
<1>3. ASSUME NEW S, NEW T, Foremosts(segment, P, Z, n, S), Foremosts(segment, P, Z, n, T), S \subseteq T
      PROVE  S = T
  <2>1. CASE S = Z
    BY <1>3, <2>1 DEF Foremosts
  <2>2. CASE Cardinality(S) = n
    <3>1. IsFiniteSet(T) /\ S \in SUBSET T /\ Cardinality(T) <= n
      BY <1>3 DEF Foremosts
    <3>2. Cardinality(S) <= Cardinality(T) /\ (Cardinality(T) = Cardinality(S) => T = S)
      BY <3>1, FS_Subset
    <3>3. Cardinality(T) \in Nat
      BY <3>1, FS_CardinalityType
    <3>4. QED
      BY <2>2, <3>1, <3>2, <3>3
  <2>3. QED
    BY <1>3, <2>1, <2>2 DEF Foremosts
<1>4. QED
  BY <1>2, <1>3

(* To the window those of the order are added that stand first. *)
Taken(segment, P, window, order, limit, r) ==
  /\ r \in Seq(P) /\ Different(segment, r)
  /\ \E X :
       /\ Foremosts(segment, ToSet(order),
                    TextsAt(segment, ToSet(order)) \ TextsAt(segment, ToSet(window)),
                    limit - Len(window), X)
       /\ Len(r) = Len(window) + Cardinality(X)
       /\ TextsAt(segment, ToSet(r)) = TextsAt(segment, ToSet(window)) \cup X
       /\ \A i \in ToSet(r) : i \in ToSet(window) \/ (i \in ToSet(order) /\ Text(segment, i) \in X)

LEMMA AdmitTakes ==
  ASSUME NEW segment, NEW P, P \subseteq Nat,
         NEW window \in Seq(P), Different(segment, window),
         NEW order \in Seq(P), Ascending(order),
         NEW limit \in Nat, Len(window) <= limit
  PROVE  Taken(segment, P, window, order, limit, Admit(segment, window, order, limit))
<1> DEFINE O     == ToSet(order)
           shown == TextsAt(segment, ToSet(window))
           those == {i \in O : /\ Text(segment, i) \notin shown
                               /\ \A j \in O : j < i => Text(segment, j) # Text(segment, i)}
           fresh == Kept(order, those)
           all   == window \o fresh
           L     == Len(window)
           F     == Len(fresh)
           room  == Min({limit, L + F})
           r     == SubSeq(all, 1, room)
           m     == room - L
           X     == {Text(segment, fresh[k]) : k \in 1 .. m}
<1>1. Admit(segment, window, order, limit) = r
  BY DEF Admit, Text, TextsAt
<1>2. O \subseteq P /\ O \subseteq Nat /\ ToSet(window) \subseteq P
  <2>1. \A k \in DOMAIN order : order[k] \in P
    OBVIOUS
  <2>2. \A k \in DOMAIN window : window[k] \in P
    OBVIOUS
  <2>3. QED
    BY <2>1, <2>2 DEF ToSet
<1>3. /\ fresh \in Seq(P) /\ Ascending(fresh)
      /\ {fresh[k] : k \in DOMAIN fresh} = those
  <2>1. those \subseteq O
    OBVIOUS
  <2>2. P \subseteq Int
    OBVIOUS
  <2> HIDE DEF those
  <2>3. fresh \in Seq(P \cap those)
    BY KeptOnly
  <2>4. Ascending(fresh) /\ Elements(fresh) = Elements(order) \cap those
    BY <2>2, KeptAscending
  <2>5. Elements(order) = O
    BY DEF ToSet, Elements
  <2> HIDE DEF fresh
  <2>6. fresh \in Seq(P)
    BY <2>3
  <2>7. Elements(fresh) = those
    BY <2>1, <2>4, <2>5
  <2>8. QED
    BY <2>4, <2>6, <2>7 DEF Elements
<1>4. ASSUME NEW i \in O, Text(segment, i) \notin shown
      PROVE  \E f \in those : Text(segment, f) = Text(segment, i) /\ f <= i
  <2> DEFINE A == {j \in O : Text(segment, j) = Text(segment, i)}
  <2>1. A \subseteq Nat /\ A # {} /\ i \in A
    BY <1>2
  <2>2. PICK f \in A : \A j \in A : f <= j
    <3> HIDE DEF A
    <3>1. QED
      BY <2>1, Least
  <2>3. f \in O /\ Text(segment, f) = Text(segment, i) /\ f \in Nat
    BY <2>1, <2>2
  <2>4. \A j \in O : j < f => Text(segment, j) # Text(segment, f)
    <3>1. \A j \in O : Text(segment, j) = Text(segment, f) => f <= j /\ j \in Nat
      BY <1>2, <2>2, <2>3
    <3>2. QED
      BY <2>3, <3>1
  <2>5. f \in those
    BY <1>4, <2>3, <2>4
  <2>6. QED
    BY <2>1, <2>2, <2>3, <2>5
<1>5. \A i \in those : i \in O /\ i \in Nat /\ Text(segment, i) \notin shown
  BY <1>2
<1>6. \A i, j \in those : i # j => Text(segment, i) # Text(segment, j)
  <2>1. \A i, j \in those : i < j => Text(segment, i) # Text(segment, j)
    OBVIOUS
  <2> HIDE DEF those
  <2>2. QED
    BY <1>5, <2>1
<1> HIDE DEF those, fresh
<1>7. /\ L \in Nat /\ F \in Nat /\ room \in Nat /\ L <= room /\ room <= L + F /\ room <= limit
      /\ room = limit \/ room = L + F
  <2>1. L \in Nat /\ F \in Nat
    BY <1>3
  <2>2. room = IF limit <= L + F THEN limit ELSE L + F
    BY <2>1, Smaller
  <2> HIDE DEF room, L, F
  <2>3. L <= limit
    BY DEF L
  <2>4. QED
    BY <2>1, <2>2, <2>3
<1>8. /\ all \in Seq(P) /\ Len(all) = L + F
      /\ \A k \in 1 .. L : all[k] = window[k]
      /\ \A k \in 1 .. F : all[L + k] = fresh[k]
  <2>1. /\ all \in Seq(P) /\ Len(all) = Len(window) + Len(fresh)
        /\ \A k \in 1 .. Len(window) + Len(fresh) :
             all[k] = IF k <= Len(window) THEN window[k] ELSE fresh[k - Len(window)]
    BY <1>3, ConcatProperties
  <2>2. /\ all \in Seq(P) /\ Len(all) = L + F
        /\ \A k \in 1 .. L + F : all[k] = IF k <= L THEN window[k] ELSE fresh[k - L]
    BY <2>1
  <2> HIDE DEF all, L, F
  <2>3. \A k \in 1 .. L : k \in 1 .. L + F /\ k <= L
    BY <1>7
  <2>4. \A k \in 1 .. F : L + k \in 1 .. L + F /\ ~(L + k <= L) /\ L + k - L = k
    BY <1>7
  <2>5. \A k \in 1 .. L : all[k] = window[k]
    BY <2>2, <2>3
  <2>6. \A k \in 1 .. F : all[L + k] = fresh[k]
    <3> SUFFICES ASSUME NEW k \in 1 .. F
                 PROVE  all[L + k] = fresh[k]
      OBVIOUS
    <3> DEFINE n == L + k
    <3>1. n \in 1 .. L + F /\ ~(n <= L) /\ n - L = k
      BY <1>7
    <3> HIDE DEF n
    <3>2. all[n] = fresh[n - L]
      BY <2>2, <3>1
    <3>3. QED
      BY <3>1, <3>2 DEF n
  <2>7. QED
    BY <2>2, <2>5, <2>6
<1> HIDE DEF room
<1>9. m \in 0 .. F /\ m <= limit - L /\ (m = limit - L \/ m = F)
  BY <1>7
<1>10. /\ r \in Seq(P) /\ Len(r) = L + m
       /\ \A k \in 1 .. L : r[k] = window[k]
       /\ \A k \in 1 .. m : r[L + k] = fresh[k]
  <2> HIDE DEF all, L, F
  <2>1. \A k \in 1 .. room : all[k] \in P
    BY <1>7, <1>8
  <2>2. /\ r \in Seq(P) /\ Len(r) = room
        /\ \A k \in 1 .. room : r[k] = all[k]
    <3>1. 1 \in Int /\ room \in Int
      BY <1>7
    <3>2. /\ r \in Seq(P) /\ Len(r) = IF 1 <= room THEN room - 1 + 1 ELSE 0
          /\ \A k \in 1 .. room - 1 + 1 : r[k] = all[1 + k - 1]
      BY <2>1, <3>1, SubSeqProperties
    <3> HIDE DEF r
    <3>3. QED
      BY <1>7, <3>2
  <2> HIDE DEF r
  <2>3. \A k \in 1 .. L : k \in 1 .. room
    BY <1>7
  <2>4. \A k \in 1 .. m : L + k \in 1 .. room /\ k \in 1 .. F
    BY <1>7, <1>9
  <2>5. L + m = room
    BY <1>7
  <2> HIDE DEF m
  <2>6. QED
    BY <1>8, <2>2, <2>3, <2>4, <2>5
<1> HIDE DEF r, all, m
<1>11. DOMAIN window = 1 .. L /\ DOMAIN fresh = 1 .. F /\ DOMAIN r = 1 .. L + m
  BY <1>3, <1>10
<1>12. \A k \in 1 .. L : window[k] \in P /\ Text(segment, window[k]) \in shown
  <2>1. \A k \in DOMAIN window : window[k] \in P
    OBVIOUS
  <2> SUFFICES ASSUME NEW k \in 1 .. L
               PROVE  window[k] \in P /\ Text(segment, window[k]) \in shown
    OBVIOUS
  <2>2. k \in DOMAIN window
    BY <1>11
  <2>3. window[k] \in ToSet(window)
    BY <2>2 DEF ToSet
  <2>4. Text(segment, window[k]) \in shown
    BY <2>3 DEF TextsAt
  <2>5. window[k] \in P
    BY <2>1, <2>2
  <2>6. QED
    BY <2>4, <2>5
<1>13. \A k \in 1 .. m : k \in 1 .. F /\ fresh[k] \in those
  <2>1. \A k \in 1 .. m : k \in 1 .. F
    <3> HIDE DEF F
    <3>1. QED
      BY <1>7, <1>9
  <2>2. \A k \in 1 .. F : fresh[k] \in those
    BY <1>3, <1>11
  <2>3. QED
    BY <2>1, <2>2
<1> HIDE DEF L, F, shown
<1>14. \A k, l \in 1 .. m : k # l => Text(segment, fresh[k]) # Text(segment, fresh[l])
  <2> SUFFICES ASSUME NEW k \in 1 .. m, NEW l \in 1 .. m, k # l
               PROVE  Text(segment, fresh[k]) # Text(segment, fresh[l])
    OBVIOUS
  <2>1. k \in DOMAIN fresh /\ l \in DOMAIN fresh /\ (k < l \/ l < k)
    BY <1>11, <1>13
  <2>2. fresh[k] < fresh[l] \/ fresh[l] < fresh[k]
    BY <1>3, <2>1 DEF Ascending
  <2>3. fresh[k] \in those /\ fresh[l] \in those /\ fresh[k] \in Nat /\ fresh[l] \in Nat
    BY <1>5, <1>13
  <2>4. fresh[k] # fresh[l]
    BY <2>2, <2>3
  <2>5. QED
    BY <1>6, <2>3, <2>4
<1>15. Different(segment, r)
  <2>1. \A k \in 1 .. L + m : k \in 1 .. L \/ \E h \in 1 .. m : k = L + h
    BY <1>7, <1>9
  <2> SUFFICES ASSUME NEW k \in 1 .. L + m, NEW l \in 1 .. L + m, k # l
               PROVE  Text(segment, r[k]) # Text(segment, r[l])
    BY <1>11 DEF Different
  <2>2. CASE k \in 1 .. L /\ l \in 1 .. L
    BY <1>10, <1>11, <2>2 DEF Different
  <2>3. ASSUME NEW a \in 1 .. L, NEW h \in 1 .. m
        PROVE  Text(segment, r[a]) # Text(segment, r[L + h])
    BY <1>5, <1>10, <1>12, <1>13
  <2>4. ASSUME NEW g \in 1 .. m, NEW h \in 1 .. m, k = L + g, l = L + h
        PROVE  Text(segment, r[k]) # Text(segment, r[l])
    BY <1>10, <1>14, <2>4
  <2>5. QED
    BY <2>1, <2>2, <2>3, <2>4
<1>16. IsFiniteSet(X) /\ Cardinality(X) = m
  <2> DEFINE f == [k \in 1 .. m |-> Text(segment, fresh[k])]
  <2>1. m \in Nat
    BY <1>7, <1>9
  <2>2. IsFiniteSet(1 .. m) /\ Cardinality(1 .. m) = m
    BY <2>1, FS_Interval
  <2>3. f \in Surjection(1 .. m, X) /\ f \in Injection(1 .. m, X)
    BY <1>14 DEF Surjection, Injection, IsInjective
  <2> HIDE DEF f, X
  <2>4. QED
    BY <2>2, <2>3, FS_Surjection
<1>17. TextsAt(segment, ToSet(r)) = shown \cup X
  <2>1. \A k \in 1 .. L + m : k \in 1 .. L \/ \E h \in 1 .. m : k = L + h
    BY <1>7, <1>9
  <2>2. \A k \in 1 .. L : k \in 1 .. L + m
    BY <1>7, <1>9
  <2>3. \A h \in 1 .. m : L + h \in 1 .. L + m
    BY <1>7, <1>9
  <2>4. shown = {Text(segment, window[k]) : k \in 1 .. L}
    BY <1>11 DEF shown, TextsAt, ToSet
  <2>5. TextsAt(segment, ToSet(r)) = {Text(segment, r[k]) : k \in 1 .. L + m}
    BY <1>11 DEF TextsAt, ToSet
  <2>6. QED
    BY <1>10, <2>1, <2>2, <2>3, <2>4, <2>5
<1> DEFINE Z == TextsAt(segment, O) \ shown
<1>18. X \subseteq Z
  BY <1>5, <1>13 DEF TextsAt
<1>19. m = limit - L \/ X = Z
  <2>1. SUFFICES ASSUME m = F, NEW t \in Z
                 PROVE  t \in X
    BY <1>9, <1>18
  <2>2. PICK i \in O : t = Text(segment, i)
    BY DEF TextsAt
  <2>3. PICK f \in those : Text(segment, f) = t
    BY <1>4, <2>1, <2>2
  <2>4. PICK k \in 1 .. F : fresh[k] = f
    BY <1>3, <1>11, <2>3
  <2>5. QED
    BY <2>1, <2>3, <2>4
<1>20. ASSUME NEW t \in Z, NEW u \in X, Earlier(segment, O, t, u)
       PROVE  t \in X
  <2>1. PICK k \in 1 .. m : u = Text(segment, fresh[k])
    OBVIOUS
  <2>2. PICK i \in O : Text(segment, i) = t /\ \A j \in O : Text(segment, j) = u => i < j
    BY <1>20 DEF Earlier
  <2>3. PICK f \in those : Text(segment, f) = t /\ f <= i
    BY <1>4, <2>2
  <2>4. PICK h \in 1 .. F : fresh[h] = f
    BY <1>3, <1>11, <2>3
  <2>5. k \in 1 .. F /\ fresh[k] \in those /\ i < fresh[k]
    BY <1>5, <1>13, <2>1, <2>2
  <2>6. fresh[h] < fresh[k]
    BY <1>2, <1>5, <2>3, <2>4, <2>5
  <2>7. ~(k <= h)
    <3>1. k = h \/ k < h => ~(fresh[h] < fresh[k])
      BY <1>3, <1>5, <1>11, <2>3, <2>4, <2>5 DEF Ascending
    <3>2. k \in Int /\ h \in Int
      OBVIOUS
    <3>3. QED
      BY <2>6, <3>1, <3>2
  <2>8. h \in 1 .. m
    BY <1>7, <1>9, <2>7
  <2>9. QED
    BY <2>3, <2>4, <2>8
<1>21. Foremosts(segment, O, Z, limit - L, X)
  BY <1>9, <1>16, <1>18, <1>19, <1>20 DEF Foremosts
<1>22. ASSUME NEW i \in ToSet(r)
       PROVE  i \in ToSet(window) \/ (i \in O /\ Text(segment, i) \in X)
  <2>1. PICK k \in 1 .. L + m : i = r[k]
    BY <1>11 DEF ToSet
  <2>2. k \in 1 .. L \/ \E h \in 1 .. m : k = L + h
    BY <1>7, <1>9
  <2>3. CASE k \in 1 .. L
    BY <1>10, <1>11, <2>1, <2>3 DEF ToSet
  <2>4. ASSUME NEW h \in 1 .. m, k = L + h
        PROVE  i \in O /\ Text(segment, i) \in X
    BY <1>5, <1>10, <1>13, <2>1, <2>4
  <2>5. QED
    BY <2>2, <2>3, <2>4
<1> HIDE DEF X
<1>23. QED
  BY <1>1, <1>10, <1>15, <1>16, <1>17, <1>21, <1>22 DEF Taken, L, shown

Ordinary(segment) == {i \in DOMAIN segment.candidates : ~segment.candidates[i].supplemental}
Aside(segment)    == {i \in DOMAIN segment.candidates : segment.candidates[i].supplemental}

(* The texts of the three passes. *)
Passes(segment, T, A, B) ==
  LET N == kNormalCandidateSurfaceLimit
      O == TextsAt(segment, Ordinary(segment))
      S == TextsAt(segment, Aside(segment))
  IN /\ Foremosts(segment, Ordinary(segment), O, N, T)
     /\ Foremosts(segment, Aside(segment), S \ T, N + 1 - Cardinality(T), A)
     /\ Foremosts(segment, Ordinary(segment), O \ (T \cup A),
                  N + 1 - Cardinality(T) - Cardinality(A), B)

Window(segment) == TextsAt(segment, ToSet(SelectDistinctCandidateSurfaces(segment)))

LEMMA WindowPasses ==
  ASSUME NEW segment, IsSeq(segment.candidates)
  PROVE  /\ SelectDistinctCandidateSurfaces(segment) \in Seq(DOMAIN segment.candidates)
         /\ Different(segment, SelectDistinctCandidateSurfaces(segment))
         /\ \E T, A, B :
              /\ Passes(segment, T, A, B)
              /\ Window(segment) = T \cup A \cup B
              /\ \A i \in ToSet(SelectDistinctCandidateSurfaces(segment)) :
                   \/ i \in Ordinary(segment) /\ Text(segment, i) \in T \cup B
                   \/ i \in Aside(segment) /\ Text(segment, i) \in A
<1> DEFINE N        == kNormalCandidateSurfaceLimit
           M        == kMaxAiCandidateSurfaceLimit
           P        == DOMAIN segment.candidates
           all      == [i \in P |-> i]
           inside   == {i \in ToSet(all) : ~segment.candidates[i].supplemental}
           outside  == {i \in ToSet(all) : segment.candidates[i].supplemental}
           ordinary == Kept(all, inside)
           aside    == Kept(all, outside)
           normal   == Admit(segment, <<>>, ordinary, N)
           both     == Admit(segment, normal, aside, M)
           selected == Admit(segment, both, ordinary, M)
           O        == TextsAt(segment, Ordinary(segment))
           S        == TextsAt(segment, Aside(segment))
<1>1. SelectDistinctCandidateSurfaces(segment) = selected
  BY DEF SelectDistinctCandidateSurfaces
<1>2. N \in Nat /\ M \in Nat /\ M = N + 1
  BY WindowAssumption
<1>3. P \subseteq Nat /\ P = 1 .. Len(segment.candidates) /\ Len(segment.candidates) \in Nat
  BY Sequences
<1>4. all \in Seq(P) /\ Ascending(all) /\ Elements(all) = P /\ ToSet(all) = P
  <2>1. all \in Seq(P)
    BY <1>3
  <2>2. DOMAIN all = P /\ \A i \in P : all[i] = i
    OBVIOUS
  <2> HIDE DEF all, P
  <2>3. QED
    BY <2>1, <2>2 DEF Ascending, Elements, ToSet
<1>5. /\ ordinary \in Seq(P) /\ Ascending(ordinary) /\ ToSet(ordinary) = Ordinary(segment)
      /\ aside \in Seq(P) /\ Ascending(aside) /\ ToSet(aside) = Aside(segment)
  <2>1. inside = Ordinary(segment) /\ outside = Aside(segment) /\ inside \subseteq P /\ outside \subseteq P
    BY <1>4 DEF Ordinary, Aside
  <2> HIDE DEF inside, outside, all, P
  <2>2. ordinary \in Seq(P \cap inside) /\ aside \in Seq(P \cap outside)
    BY <1>4, KeptOnly
  <2>3. P \subseteq Int
    BY <1>3
  <2>4. Ascending(ordinary) /\ Elements(ordinary) = P \cap inside
    BY <1>4, <2>3, KeptAscending
  <2>5. Ascending(aside) /\ Elements(aside) = P \cap outside
    BY <1>4, <2>3, KeptAscending
  <2> HIDE DEF ordinary, aside
  <2>6. ToSet(ordinary) = inside /\ ToSet(aside) = outside
    BY <2>1, <2>4, <2>5 DEF ToSet, Elements
  <2>7. ordinary \in Seq(P) /\ aside \in Seq(P)
    BY <2>2
  <2>8. QED
    BY <2>1, <2>4, <2>5, <2>6, <2>7
<1> HIDE DEF ordinary, aside, P, N, M
<1>6. /\ normal \in Seq(P) /\ Different(segment, normal)
      /\ \E X : /\ Foremosts(segment, Ordinary(segment), O, N, X)
               /\ Len(normal) = Cardinality(X)
               /\ TextsAt(segment, ToSet(normal)) = X
               /\ \A i \in ToSet(normal) : i \in Ordinary(segment) /\ Text(segment, i) \in X
  <2> DEFINE none == <<>>
  <2>1. none \in Seq(P) /\ Different(segment, none) /\ Len(none) = 0
    BY DEF Different
  <2>2. TextsAt(segment, ToSet(none)) = {}
    BY DEF TextsAt, ToSet
  <2>3. normal = Admit(segment, none, ordinary, N)
    OBVIOUS
  <2> HIDE DEF none, normal
  <2>4. Taken(segment, P, none, ordinary, N, normal)
    <3>1. N >= Len(none)
      BY <1>2, <2>1
    <3>2. QED
      BY <1>2, <1>3, <1>5, <2>1, <2>3, <3>1, AdmitTakes
  <2>5. PICK X :
             /\ Foremosts(segment, Ordinary(segment), O \ {}, N - 0, X)
             /\ Len(normal) = 0 + Cardinality(X)
             /\ TextsAt(segment, ToSet(normal)) = {} \cup X
             /\ \A i \in ToSet(normal) : i \in ToSet(none) \/ (i \in Ordinary(segment) /\ Text(segment, i) \in X)
    BY <1>5, <2>1, <2>2, <2>4 DEF Taken
  <2>6. O \ {} = O /\ N - 0 = N /\ {} \cup X = X
    BY <1>2
  <2>7. IsFiniteSet(X)
    BY <2>5 DEF Foremosts
  <2>8. Cardinality(X) \in Nat
    BY <2>7, FS_CardinalityType
  <2>9. ToSet(none) = {}
    BY DEF ToSet, none
  <2>10. \A i \in ToSet(normal) : i \in Ordinary(segment) /\ Text(segment, i) \in X
    BY <2>5, <2>9
  <2>11. QED
    BY <2>4, <2>5, <2>6, <2>8, <2>10 DEF Taken
<1> HIDE DEF normal
<1>7. PICK T : /\ Foremosts(segment, Ordinary(segment), O, N, T)
               /\ Len(normal) = Cardinality(T)
               /\ TextsAt(segment, ToSet(normal)) = T
               /\ \A i \in ToSet(normal) : i \in Ordinary(segment) /\ Text(segment, i) \in T
  BY <1>6
<1>8. Cardinality(T) \in Nat /\ Cardinality(T) <= N
  BY <1>7, FS_CardinalityType DEF Foremosts
<1>9. /\ both \in Seq(P) /\ Different(segment, both)
      /\ \E X : /\ Foremosts(segment, Aside(segment), S \ T, M - Len(normal), X)
               /\ Len(both) = Len(normal) + Cardinality(X)
               /\ TextsAt(segment, ToSet(both)) = T \cup X
               /\ \A i \in ToSet(both) : \/ i \in Ordinary(segment) /\ Text(segment, i) \in T
                                         \/ i \in Aside(segment) /\ Text(segment, i) \in X
  <2>1. Len(normal) <= M
    BY <1>2, <1>7, <1>8
  <2>2. Taken(segment, P, normal, aside, M, both)
    BY <1>2, <1>3, <1>5, <1>6, <2>1, AdmitTakes
  <2>3. QED
    BY <1>5, <1>7, <2>2 DEF Taken
<1> HIDE DEF both
<1>10. PICK A : /\ Foremosts(segment, Aside(segment), S \ T, M - Len(normal), A)
                /\ Len(both) = Len(normal) + Cardinality(A)
                /\ TextsAt(segment, ToSet(both)) = T \cup A
                /\ \A i \in ToSet(both) : \/ i \in Ordinary(segment) /\ Text(segment, i) \in T
                                          \/ i \in Aside(segment) /\ Text(segment, i) \in A
  BY <1>9
<1>11. Cardinality(A) \in Nat /\ Cardinality(A) <= M - Len(normal)
  BY <1>10, FS_CardinalityType DEF Foremosts
<1>12. /\ selected \in Seq(P) /\ Different(segment, selected)
       /\ \E X : /\ Foremosts(segment, Ordinary(segment), O \ (T \cup A), M - Len(both), X)
                /\ TextsAt(segment, ToSet(selected)) = T \cup A \cup X
                /\ \A i \in ToSet(selected) :
                    \/ i \in Ordinary(segment) /\ Text(segment, i) \in T \cup X
                    \/ i \in Aside(segment) /\ Text(segment, i) \in A
  <2>1. Len(both) <= M
    BY <1>2, <1>7, <1>8, <1>10, <1>11
  <2>2. Taken(segment, P, both, ordinary, M, selected)
    BY <1>2, <1>3, <1>5, <1>9, <2>1, AdmitTakes
  <2>3. QED
    BY <1>5, <1>10, <2>2 DEF Taken
<1> HIDE DEF selected
<1>13. PICK B : /\ Foremosts(segment, Ordinary(segment), O \ (T \cup A), M - Len(both), B)
                /\ TextsAt(segment, ToSet(selected)) = T \cup A \cup B
                /\ \A i \in ToSet(selected) :
                    \/ i \in Ordinary(segment) /\ Text(segment, i) \in T \cup B
                    \/ i \in Aside(segment) /\ Text(segment, i) \in A
  BY <1>12
<1>14. /\ M - Len(normal) = N + 1 - Cardinality(T)
       /\ M - Len(both) = N + 1 - Cardinality(T) - Cardinality(A)
  BY <1>2, <1>7, <1>8, <1>10, <1>11
<1>15. Passes(segment, T, A, B)
  BY <1>7, <1>10, <1>13, <1>14 DEF Passes, N
<1>16. QED
  BY <1>1, <1>12, <1>13, <1>15 DEF Window, P
-----------------------------------------------------------------------------
(* What a segment becomes. *)

LEMMA Moving ==
  ASSUME NEW S, NEW s \in Seq(S), NEW i \in 1 .. Len(s)
  PROVE  /\ MoveToFront(s, i) \in Seq(S)
         /\ Len(MoveToFront(s, i)) = Len(s)
         /\ \A k \in 1 .. Len(s) :
              MoveToFront(s, i)[k] = IF k = 1 THEN s[i] ELSE IF k <= i THEN s[k - 1] ELSE s[k]
<1> DEFINE a == <<s[i]>>
           b == SubSeq(s, 1, i - 1)
           c == SubSeq(s, i + 1, Len(s))
<1>1. a \in Seq(S) /\ Len(a) = 1 /\ a[1] = s[i]
  OBVIOUS
<1>2. /\ b \in Seq(S) /\ Len(b) = i - 1
      /\ \A k \in 1 .. i - 1 : b[k] = s[k]
  <2>1. \A k \in 1 .. i - 1 : s[k] \in S
    OBVIOUS
  <2>2. 1 \in Int /\ i - 1 \in Int
    OBVIOUS
  <2>3. /\ b \in Seq(S) /\ Len(b) = IF 1 <= i - 1 THEN i - 1 - 1 + 1 ELSE 0
        /\ \A k \in 1 .. i - 1 - 1 + 1 : b[k] = s[1 + k - 1]
    BY <2>1, <2>2, SubSeqProperties
  <2> HIDE DEF b
  <2>4. QED
    BY <2>3
<1>3. /\ c \in Seq(S) /\ Len(c) = Len(s) - i
      /\ \A k \in 1 .. Len(s) - i : c[k] = s[k + i]
  <2>1. \A k \in i + 1 .. Len(s) : s[k] \in S
    OBVIOUS
  <2>2. i + 1 \in Int /\ Len(s) \in Int
    OBVIOUS
  <2>3. /\ c \in Seq(S) /\ Len(c) = IF i + 1 <= Len(s) THEN Len(s) - (i + 1) + 1 ELSE 0
        /\ \A k \in 1 .. Len(s) - (i + 1) + 1 : c[k] = s[i + 1 + k - 1]
    BY <2>1, <2>2, SubSeqProperties
  <2> HIDE DEF c
  <2>4. QED
    BY <2>3
<1>4. MoveToFront(s, i) = a \o b \o c
  BY DEF MoveToFront
<1> HIDE DEF a, b, c
<1>5. /\ a \o b \in Seq(S) /\ Len(a \o b) = i
      /\ \A k \in 1 .. i : (a \o b)[k] = IF k = 1 THEN s[i] ELSE s[k - 1]
  <2>1. /\ a \o b \in Seq(S) /\ Len(a \o b) = Len(a) + Len(b)
        /\ \A k \in 1 .. Len(a) + Len(b) :
             (a \o b)[k] = IF k <= Len(a) THEN a[k] ELSE b[k - Len(a)]
    BY <1>1, <1>2, ConcatProperties
  <2>2. QED
    BY <1>1, <1>2, <2>1
<1>6. /\ a \o b \o c \in Seq(S) /\ Len(a \o b \o c) = Len(s)
      /\ \A k \in 1 .. Len(s) :
           (a \o b \o c)[k] = IF k <= i THEN (a \o b)[k] ELSE c[k - i]
  <2> DEFINE ab == a \o b
  <2>1. ab \in Seq(S) /\ Len(ab) = i
    BY <1>5
  <2>4. c \in Seq(S)
    BY <1>3
  <2> HIDE DEF ab
  <2>2. /\ ab \o c \in Seq(S) /\ Len(ab \o c) = Len(ab) + Len(c)
        /\ \A k \in 1 .. Len(ab) + Len(c) :
             (ab \o c)[k] = IF k <= Len(ab) THEN ab[k] ELSE c[k - Len(ab)]
    BY <2>1, <2>4, ConcatProperties
  <2>3. QED
    BY <1>3, <2>1, <2>2 DEF ab
<1>7. \A k \in 1 .. Len(s) : k > i => k - i \in 1 .. Len(s) - i /\ c[k - i] = s[k]
  BY <1>3
<1>8. \A k \in 1 .. Len(s) :
        (a \o b \o c)[k] = IF k = 1 THEN s[i] ELSE IF k <= i THEN s[k - 1] ELSE s[k]
  <2> SUFFICES ASSUME NEW k \in 1 .. Len(s)
               PROVE  (a \o b \o c)[k]
                        = IF k = 1 THEN s[i] ELSE IF k <= i THEN s[k - 1] ELSE s[k]
    OBVIOUS
  <2>1. CASE k <= i
    BY <1>5, <1>6, <2>1
  <2>2. CASE ~(k <= i)
    <3>1. (a \o b \o c)[k] = c[k - i]
      BY <1>6, <2>2
    <3>2. c[k - i] = s[k] /\ k # 1
      <4>1. k > i /\ k # 1
        BY <2>2
      <4>2. QED
        BY <1>7, <4>1
    <3>3. QED
      BY <2>2, <3>1, <3>2
  <2>3. QED
    BY <2>1, <2>2
<1>9. QED
  BY <1>4, <1>6, <1>8

LEMMA FieldChanged ==
  ASSUME NEW v, NEW p, NEW r, NEW b
  PROVE  [[value |-> v, supplemental |-> p, reranked |-> r] EXCEPT !.reranked = b]
           = [value |-> v, supplemental |-> p, reranked |-> b]
OBVIOUS

LEMMA Marked ==
  ASSUME NEW c, Candidate(c)
  PROVE  /\ Candidate([c EXCEPT !.reranked = TRUE])
         /\ [c EXCEPT !.reranked = TRUE].value = c.value
         /\ [c EXCEPT !.reranked = TRUE].supplemental = c.supplemental
<1> DEFINE v == c.value
           p == c.supplemental
           r == c.reranked
           b == TRUE
           new == [value |-> v, supplemental |-> p, reranked |-> b]
<1>1. c = [value |-> v, supplemental |-> p, reranked |-> r] /\ IsSequence(v)
  BY DEF Candidate
<1> HIDE DEF v, p, r, b
<1>2. [[value |-> v, supplemental |-> p, reranked |-> r] EXCEPT !.reranked = b] = new
  BY FieldChanged
<1>3. [c EXCEPT !.reranked = b] = new
  <2> HIDE DEF new
  <2>1. QED
    BY <1>1, <1>2
<1>4. new.value = v /\ new.supplemental = p /\ new.reranked = b
  OBVIOUS
<1> HIDE DEF new
<1>5. Candidate(new)
  <2>1. new = [value |-> new.value, supplemental |-> new.supplemental, reranked |-> new.reranked]
    BY <1>4, Zenon DEF new
  <2>2. IsSequence(new.value)
    BY <1>1, <1>4
  <2>3. QED
    BY <2>1, <2>2, Zenon DEF Candidate
<1>6. QED
  BY <1>3, <1>4, <1>5 DEF v, b, p

LEMMA ValueChanged ==
  ASSUME NEW w, NEW p, NEW r, NEW v
  PROVE  [[value |-> w, supplemental |-> p, reranked |-> r] EXCEPT !.value = v]
           = [value |-> v, supplemental |-> p, reranked |-> r]
OBVIOUS

LEMMA SourceChanged ==
  ASSUME NEW w, NEW p, NEW r, NEW b
  PROVE  [[value |-> w, supplemental |-> p, reranked |-> r] EXCEPT !.supplemental = b]
           = [value |-> w, supplemental |-> b, reranked |-> r]
OBVIOUS

LEMMA Copied ==
  ASSUME NEW c, Candidate(c), NEW v, IsSequence(v)
  PROVE  Candidate([[c EXCEPT !.value = v] EXCEPT !.supplemental = TRUE])
<1> DEFINE w == c.value
           p == c.supplemental
           r == c.reranked
           b == TRUE
           one == [c EXCEPT !.value = v]
           new == [value |-> v, supplemental |-> b, reranked |-> r]
<1>1. c = [value |-> w, supplemental |-> p, reranked |-> r]
  BY DEF Candidate
<1> HIDE DEF w, p, r, b
<1>2. one = [value |-> v, supplemental |-> p, reranked |-> r]
  BY <1>1, ValueChanged
<1> HIDE DEF one
<1>3. [one EXCEPT !.supplemental = b] = new
  BY <1>2, SourceChanged
<1>4. new.value = v /\ new.supplemental = b /\ new.reranked = r
  OBVIOUS
<1> HIDE DEF new
<1>5. Candidate(new)
  <2>1. new = [value |-> new.value, supplemental |-> new.supplemental, reranked |-> new.reranked]
    BY <1>4, Zenon DEF new
  <2>2. IsSequence(new.value)
    BY <1>4
  <2>3. QED
    BY <2>1, <2>2, Zenon DEF Candidate
<1>6. QED
  BY <1>3, <1>5 DEF b, one

(* The position a candidate had before the one at w was moved to the front. *)
Was(w, k) == IF k = 1 THEN w ELSE IF k <= w THEN k - 1 ELSE k

MovedUp(segment, new, w) ==
  /\ IsSeq(new.candidates) /\ Len(new.candidates) = Len(segment.candidates)
  /\ \A k \in DOMAIN segment.candidates :
       /\ new.candidates[k].value = segment.candidates[Was(w, k)].value
       /\ new.candidates[k].supplemental = segment.candidates[Was(w, k)].supplemental

LEMMA ValuesMoved ==
  ASSUME NEW S, NEW old \in Seq(S), NEW w \in 1 .. Len(old),
         NEW new, DOMAIN new = 1 .. Len(old),
         \A k \in 1 .. Len(old) : new[k].value = old[Was(w, k)].value
  PROVE  ValuesOf(new) = MoveToFront(ValuesOf(old), w)
<1> DEFINE values == ValuesOf(old)
           V == {old[n].value : n \in 1 .. Len(old)}
<1>1. /\ values \in Seq(V) /\ Len(values) = Len(old)
      /\ \A k \in 1 .. Len(old) : values[k] = old[k].value
  BY DEF ValuesOf
<1> HIDE DEF values, V
<1>2. /\ MoveToFront(values, w) \in Seq(V)
      /\ Len(MoveToFront(values, w)) = Len(old)
      /\ \A k \in 1 .. Len(old) :
           MoveToFront(values, w)[k]
             = IF k = 1 THEN values[w] ELSE IF k <= w THEN values[k - 1] ELSE values[k]
  <2>1. w \in 1 .. Len(values)
    BY <1>1
  <2>2. QED
    BY <1>1, <2>1, Moving
<1>3. \A k \in 1 .. Len(old) : new[k].value = MoveToFront(values, w)[k]
  <2>1. Len(old) \in Nat
    OBVIOUS
  <2>2. \A k \in 1 .. Len(old) : Was(w, k) \in 1 .. Len(old)
    BY <2>1 DEF Was
  <2>3. \A k \in 1 .. Len(old) : MoveToFront(values, w)[k] = values[Was(w, k)]
    BY <1>2 DEF Was
  <2>4. QED
    BY <1>1, <2>2, <2>3
<1>4. ValuesOf(new) = [k \in 1 .. Len(old) |-> MoveToFront(values, w)[k]]
  BY <1>3 DEF ValuesOf
<1>5. MoveToFront(values, w) = [k \in 1 .. Len(old) |-> MoveToFront(values, w)[k]]
  BY <1>2
<1>6. QED
  BY <1>4, <1>5 DEF values

LEMMA Applied ==
  ASSUME NEW segment, Segment(segment), NEW result, result.winner \in DOMAIN segment.candidates,
         NEW minimum
  PROVE  LET new == ApplyWinner(segment, result, minimum)
         IN /\ Segment(new)
            /\ new.reading = segment.reading /\ new.free = segment.free
            /\ new # segment =>
                 /\ result.winner # 1
                 /\ MovedUp(segment, new, result.winner)
                 /\ ValuesOf(new.candidates) = MoveToFront(ValuesOf(segment.candidates), result.winner)
                 /\ Top(new) = segment.candidates[result.winner].value
<1> DEFINE new == ApplyWinner(segment, result, minimum)
           old == segment.candidates
           w   == result.winner
           moved  == MoveToFront(old, w)
           marked == [moved EXCEPT ![1].reranked = TRUE]
<1>1. CASE new = segment
  BY <1>1
<1>2. CASE new # segment
  <2>1. new = [segment EXCEPT !.candidates = marked] /\ w # 1
    BY <1>2 DEF ApplyWinner
  <2>2. /\ new = [reading |-> segment.reading, free |-> segment.free, candidates |-> marked]
        /\ new.candidates = marked /\ new.reading = segment.reading /\ new.free = segment.free
    <3> HIDE DEF marked
    <3>1. QED
      BY <2>1 DEF Segment
  <2>3. PICK S : old \in Seq(S)
    BY DEF Segment, IsSeq
  <2>4. DOMAIN old = 1 .. Len(old) /\ Len(old) \in Nat /\ w \in 1 .. Len(old)
    BY <2>3
  <2>5. /\ moved \in Seq(S) /\ Len(moved) = Len(old) /\ DOMAIN moved = 1 .. Len(old)
        /\ \A k \in 1 .. Len(old) :
             moved[k] = IF k = 1 THEN old[w] ELSE IF k <= w THEN old[k - 1] ELSE old[k]
    <3>1. /\ moved \in Seq(S) /\ Len(moved) = Len(old)
          /\ \A k \in 1 .. Len(old) :
               moved[k] = IF k = 1 THEN old[w] ELSE IF k <= w THEN old[k - 1] ELSE old[k]
      BY <2>3, <2>4, Moving
    <3> HIDE DEF moved
    <3>2. QED
      BY <3>1
  <2> HIDE DEF moved
  <2>6. \A k \in 1 .. Len(old) : Candidate(moved[k])
    BY <2>4, <2>5 DEF Segment
  <2>7. /\ marked = [k \in 1 .. Len(old) |->
                       IF k = 1 THEN [moved[1] EXCEPT !.reranked = TRUE] ELSE moved[k]]
    BY <2>4, <2>5
  <2>8. /\ Candidate([moved[1] EXCEPT !.reranked = TRUE])
        /\ [moved[1] EXCEPT !.reranked = TRUE].value = moved[1].value
        /\ [moved[1] EXCEPT !.reranked = TRUE].supplemental = moved[1].supplemental
    BY <2>4, <2>6, Marked
  <2> HIDE DEF marked
  <2>9. /\ IsSeq(marked) /\ Len(marked) = Len(old) /\ DOMAIN marked = 1 .. Len(old)
    <3>1. \A k \in 1 .. Len(old) : marked[k] \in {marked[j] : j \in 1 .. Len(old)}
      OBVIOUS
    <3>2. marked \in [1 .. Len(old) -> {marked[j] : j \in 1 .. Len(old)}]
      BY <2>7
    <3> DEFINE M == {marked[j] : j \in 1 .. Len(old)}
    <3>5. marked \in [1 .. Len(old) -> M]
      BY <3>2
    <3> HIDE DEF M
    <3>3. marked \in Seq(M)
      BY <2>4, <3>5
    <3>4. QED
      BY <3>2, <3>3 DEF IsSeq
  <2>10. \A k \in 1 .. Len(old) :
           /\ Candidate(marked[k]) /\ marked[k].value = moved[k].value
           /\ marked[k].supplemental = moved[k].supplemental
    BY <2>6, <2>7, <2>8
  <2>11. Segment(new)
    <3>1. marked # <<>>
      BY <2>4, <2>9
    <3>2. QED
      BY <2>2, <2>9, <2>10, <3>1 DEF Segment
  <2>12. ValuesOf(marked) = MoveToFront(ValuesOf(old), w)
    <3>1. \A k \in 1 .. Len(old) : marked[k].value = old[Was(w, k)].value
      BY <2>5, <2>10 DEF Was
    <3> HIDE DEF old, w
    <3>2. QED
      BY <2>3, <2>4, <2>9, <3>1, ValuesMoved
  <2>13. Top(new) = old[w].value
    BY <2>2, <2>4, <2>5, <2>9, <2>10 DEF Top
  <2>14. MovedUp(segment, new, w)
    <3>1. \A k \in 1 .. Len(old) : moved[k] = old[Was(w, k)]
      BY <2>5 DEF Was
    <3>2. QED
      BY <2>2, <2>4, <2>9, <2>10, <3>1 DEF MovedUp
  <2>15. QED
    BY <2>1, <2>2, <2>11, <2>12, <2>13, <2>14
<1>3. QED
  BY <1>1, <1>2
-----------------------------------------------------------------------------
(* What that does to the window. *)

LEMMA WasThere ==
  ASSUME NEW n \in Nat, NEW w \in 1 .. n
  PROVE  /\ \A k \in 1 .. n : Was(w, k) \in 1 .. n
         /\ \A i \in 1 .. n : \E k \in 1 .. n : Was(w, k) = i
         /\ \A k, l \in 1 .. n : k # 1 /\ l # 1 => (k < l <=> Was(w, k) < Was(w, l))
         /\ \A k \in 1 .. n : Was(w, k) = w <=> k = 1
<1>1. \A k \in 1 .. n : Was(w, k) \in 1 .. n
  BY DEF Was
<1>2. ASSUME NEW i \in 1 .. n
      PROVE  \E k \in 1 .. n : Was(w, k) = i
  <2>1. CASE i = w
    <3>1. 1 \in 1 .. n /\ Was(w, 1) = i
      BY <2>1 DEF Was
    <3>2. QED
      BY <3>1
  <2>2. CASE i < w
    <3>1. i + 1 \in 1 .. n /\ Was(w, i + 1) = i
      BY <2>2 DEF Was
    <3>2. QED
      BY <3>1
  <2>3. CASE i > w
    <3>1. Was(w, i) = i
      BY <2>3 DEF Was
    <3>2. QED
      BY <3>1
  <2>4. QED
    BY <2>1, <2>2, <2>3
<1>3. \A k, l \in 1 .. n : k # 1 /\ l # 1 => (k < l <=> Was(w, k) < Was(w, l))
  BY DEF Was
<1>4. \A k \in 1 .. n : Was(w, k) = w <=> k = 1
  BY DEF Was
<1>5. QED
  BY <1>1, <1>2, <1>3, <1>4

(* The positions in the new order of those at Q. *)
After(segment, Q, w) == {k \in DOMAIN segment.candidates : Was(w, k) \in Q}

(* Texts at Q are those at R of the new order.  Of the others none overtakes one, *)
(* and what stands first goes on doing so, unless the moved text was not of it.   *)
Carried(segment, new, w, Q, R) ==
  LET x == Text(segment, w)
  IN /\ TextsAt(new, R) = TextsAt(segment, Q)
     /\ R \subseteq Nat
     /\ \A t, u : Earlier(new, R, t, u) /\ (w \notin Q \/ (t # x /\ u # x))
                    => Earlier(segment, Q, t, u)
     /\ \A u \in TextsAt(segment, Q) : w \in Q /\ u # x => Earlier(new, R, x, u)
     /\ \A Z, n, X : Foremosts(segment, Q, Z, n, X) /\ (w \notin Q \/ x \in X \/ x \notin Z)
                       => Foremosts(new, R, Z, n, X)

LEMMA StillForemost ==
  ASSUME NEW segment, IsSeq(segment.candidates), NEW w \in DOMAIN segment.candidates,
         NEW new, MovedUp(segment, new, w),
         NEW Q, Q \subseteq DOMAIN segment.candidates
  PROVE  Carried(segment, new, w, Q, After(segment, Q, w))
<1> DEFINE R == After(segment, Q, w)
           x == Text(segment, w)
           N == Len(segment.candidates)
<1>1. N \in Nat /\ DOMAIN segment.candidates = 1 .. N
  BY Sequences
<1>2. \A k \in 1 .. N : Was(w, k) \in 1 .. N /\ (Was(w, k) = w <=> k = 1)
  <2>1. \A k \in 1 .. N : Was(w, k) \in 1 .. N
    BY <1>1, WasThere
  <2>2. \A k \in 1 .. N : Was(w, k) = w <=> k = 1
    BY <1>1, WasThere
  <2>3. QED
    BY <2>1, <2>2
<1>3. \A i \in 1 .. N : \E k \in 1 .. N : Was(w, k) = i
  BY <1>1, WasThere
<1>4. \A k, l \in 1 .. N : k # 1 /\ l # 1 => (k < l <=> Was(w, k) < Was(w, l))
  BY <1>1, WasThere
<1>5. \A k \in 1 .. N : Text(new, k) = Text(segment, Was(w, k))
  BY <1>1 DEF MovedUp, Text
<1>6. R \subseteq 1 .. N /\ R \subseteq Nat /\ Q \subseteq 1 .. N
      /\ \A k \in 1 .. N : k \in R <=> Was(w, k) \in Q
  BY <1>1 DEF After
<1> HIDE DEF R, N
<1>7. TextsAt(new, R) = TextsAt(segment, Q)
  <2>1. \A k \in R : Was(w, k) \in Q /\ Text(new, k) = Text(segment, Was(w, k))
    BY <1>5, <1>6
  <2>2. \A i \in Q : \E k \in R : Text(new, k) = Text(segment, i)
    BY <1>3, <1>5, <1>6
  <2>3. QED
    BY <2>1, <2>2 DEF TextsAt
<1>8. ASSUME NEW t, NEW u, Earlier(new, R, t, u), w \notin Q \/ (t # x /\ u # x)
      PROVE  Earlier(segment, Q, t, u)
  <2>1. PICK k \in R : Text(new, k) = t /\ \A l \in R : Text(new, l) = u => k < l
    BY <1>8 DEF Earlier
  <2>2. k \in 1 .. N /\ Was(w, k) \in Q /\ Text(segment, Was(w, k)) = t
    BY <1>5, <1>6, <2>1
  <2>3. k # 1
    <3>1. CASE w \notin Q
      BY <1>2, <2>2, <3>1
    <3>2. CASE t # x
      BY <1>2, <2>2, <3>2
    <3>3. QED
      BY <1>8, <3>1, <3>2
  <2>4. ASSUME NEW j \in Q, Text(segment, j) = u
        PROVE  Was(w, k) < j
    <3>1. PICK l \in 1 .. N : Was(w, l) = j
      BY <1>3, <1>6
    <3>2. l \in R /\ Text(new, l) = u
      BY <1>5, <1>6, <2>4, <3>1
    <3>3. k < l
      BY <2>1, <3>2
    <3>4. l # 1
      <4>1. CASE w \notin Q
        BY <1>2, <2>4, <3>1, <4>1
      <4>2. CASE u # x
        BY <1>2, <2>4, <3>1, <4>2
      <4>3. QED
        BY <1>8, <4>1, <4>2
    <3>5. QED
      BY <1>4, <2>2, <2>3, <3>1, <3>3, <3>4
  <2>5. QED
    BY <2>2, <2>4 DEF Earlier
<1>9. ASSUME w \in Q
      PROVE  1 \in R /\ Text(new, 1) = x /\ 1 \in 1 .. N
  <2>1. 1 \in 1 .. N
    BY <1>1, <1>6, <1>9
  <2>2. Was(w, 1) = w
    BY DEF Was
  <2>3. QED
    BY <1>5, <1>6, <1>9, <2>1, <2>2
<1>10. ASSUME NEW t, w \in Q
       PROVE  ~Earlier(new, R, t, x)
  BY <1>6, <1>9, <1>10 DEF Earlier
<1>11. ASSUME NEW u \in TextsAt(segment, Q), w \in Q, u # x
       PROVE  Earlier(new, R, x, u)
  <2>1. \A l \in R : Text(new, l) = u => 1 < l
    <3>1. \A l \in R : l \in Nat /\ l >= 1
      BY <1>1, <1>6
    <3>2. QED
      BY <1>9, <1>11, <3>1
  <2>2. QED
    BY <1>9, <1>11, <2>1 DEF Earlier
<1>12. ASSUME NEW Z, NEW n, NEW X, Foremosts(segment, Q, Z, n, X), w \notin Q \/ x \in X \/ x \notin Z
       PROVE  Foremosts(new, R, Z, n, X)
  <2>1. ASSUME NEW t \in Z, NEW u \in X, Earlier(new, R, t, u)
        PROVE  t \in X
    <3>1. CASE w \notin Q \/ (t # x /\ u # x)
      <4>1. Earlier(segment, Q, t, u)
        BY <1>8, <2>1, <3>1
      <4>2. QED
        BY <1>12, <4>1 DEF Foremosts
    <3>2. CASE w \in Q /\ u = x
      BY <1>10, <2>1, <3>2
    <3>3. CASE w \in Q /\ t = x
      BY <1>12, <3>3
    <3>4. QED
      BY <3>1, <3>2, <3>3
  <2>2. QED
    BY <1>12, <2>1 DEF Foremosts
<1>13. QED
  BY <1>6, <1>7, <1>8, <1>11, <1>12 DEF Carried, R

(* From behind the texts at Q one has come to the front at R. *)
Overtakes(segment, Q, new, R, x) ==
  /\ Q \subseteq Nat /\ R \subseteq Nat
  /\ TextsAt(segment, Q) = TextsAt(new, R) /\ x \in TextsAt(segment, Q)
  /\ \A t, u : Earlier(new, R, t, u) /\ t # x /\ u # x => Earlier(segment, Q, t, u)
  /\ \A u \in TextsAt(segment, Q) : u # x => Earlier(new, R, x, u)

(* It has taken the place of one of the foremost. *)
DrivenOut(x, n, T, U) ==
  /\ x \in U /\ Cardinality(U) = n
  /\ \E v \in T : v \notin U /\ T = (U \ {x}) \cup {v}

LEMMA OneDrivenOut ==
  ASSUME NEW segment, NEW Q, NEW new, NEW R, NEW x, Overtakes(segment, Q, new, R, x),
         NEW n \in Nat, n # 0,
         NEW T, Foremosts(segment, Q, TextsAt(segment, Q), n, T), x \notin T,
         NEW U, Foremosts(new, R, TextsAt(segment, Q), n, U)
  PROVE  DrivenOut(x, n, T, U)
<1> DEFINE O == TextsAt(segment, Q)
<1> USE DEF Overtakes
<1>1. IsFiniteSet(T) /\ IsFiniteSet(U) /\ Cardinality(T) \in Nat /\ Cardinality(U) \in Nat
  BY FS_CardinalityType DEF Foremosts
<1>2. T \subseteq O /\ U \subseteq O
  BY DEF Foremosts
<1>3. Cardinality(T) = n
  BY DEF Foremosts
<1>4. Cardinality(U) = n
  <2>1. SUFFICES ASSUME U = O PROVE FALSE
    BY DEF Foremosts
  <2>2. T \cup {x} \in SUBSET U
    BY <1>2, <2>1
  <2>3. IsFiniteSet(T \cup {x}) /\ Cardinality(T \cup {x}) = n + 1
    BY <1>1, <1>3, FS_AddElement
  <2>4. Cardinality(T \cup {x}) <= Cardinality(U)
    BY <1>1, <2>2, FS_Subset
  <2>5. Cardinality(U) <= n
    BY DEF Foremosts
  <2>6. QED
    BY <1>1, <2>3, <2>4, <2>5
<1>5. x \in U
  <2>1. U # {}
    BY <1>4, FS_EmptySet
  <2>2. PICK u \in U : TRUE
    BY <2>1
  <2>3. CASE u # x
    BY <1>2, <2>2, <2>3 DEF Foremosts
  <2>4. QED
    BY <2>2, <2>3
<1>6. PICK v \in T : v \notin U
  <2>1. SUFFICES ASSUME T \in SUBSET U PROVE FALSE
    OBVIOUS
  <2>2. T = U
    BY <1>1, <1>3, <1>4, <2>1, FS_Subset
  <2>3. QED
    BY <1>5, <2>2
<1>7. U \ {x} \subseteq T
  <2> SUFFICES ASSUME NEW y \in U, y # x, y \notin T
               PROVE  FALSE
    OBVIOUS
  <2>1. v # y /\ v # x /\ v \in O /\ y \in O
    BY <1>2, <1>5, <1>6
  <2>2. Earlier(new, R, v, y) \/ Earlier(new, R, y, v)
    BY <2>1, OneEarlier
  <2>3. CASE Earlier(new, R, v, y)
    BY <1>6, <2>1, <2>3 DEF Foremosts
  <2>4. CASE Earlier(new, R, y, v)
    BY <1>6, <2>1, <2>4 DEF Foremosts
  <2>5. QED
    BY <2>2, <2>3, <2>4
<1>8. T = (U \ {x}) \cup {v}
  <2> DEFINE W == (U \ {x}) \cup {v}
  <2>1. IsFiniteSet(U \ {x}) /\ Cardinality(U \ {x}) = n - 1
    BY <1>1, <1>4, <1>5, FS_RemoveElement
  <2>2. Cardinality(W) = n - 1 + 1
    <3>1. v \notin U \ {x}
      BY <1>6
    <3>2. QED
      BY <2>1, <3>1, FS_AddElement
  <2>3. W \in SUBSET T
    BY <1>6, <1>7
  <2>4. Cardinality(T) = Cardinality(W) => T = W
    BY <1>1, <2>3, FS_Subset
  <2>5. Cardinality(W) = Cardinality(T)
    BY <1>3, <2>2
  <2> HIDE DEF W
  <2>6. T = W
    BY <2>4, <2>5
  <2>7. QED
    BY <2>6 DEF W
<1>9. QED
  BY <1>4, <1>5, <1>6, <1>8 DEF DrivenOut

(* At most one, and that one if it stands before the others. *)
LEMMA OneAtMost ==
  ASSUME NEW segment, NEW P, NEW Z, NEW X, Foremosts(segment, P, Z, 1, X),
         NEW v \in Z, \A b \in Z : b # v => Earlier(segment, P, v, b)
  PROVE  X = {v}
<1>1. IsFiniteSet(X) /\ Cardinality(X) \in Nat /\ Cardinality(X) <= 1
  BY FS_CardinalityType DEF Foremosts
<1>2. X # {}
  <2>1. X = {} => Cardinality(X) # 1
    BY FS_EmptySet
  <2>2. QED
    BY <2>1 DEF Foremosts
<1>3. Cardinality(X) = 1
  <2>1. Cardinality(X) # 0
    BY <1>1, <1>2, FS_EmptySet
  <2>2. QED
    BY <1>1, <2>1
<1>4. PICK b : X = {b}
  BY <1>1, <1>3, FS_Singleton
<1>5. b \in Z
  BY <1>4 DEF Foremosts
<1>6. b = v
  <2>1. CASE b # v
    BY <1>4, <1>5, <2>1 DEF Foremosts
  <2>2. QED
    BY <2>1
<1>7. QED
  BY <1>4, <1>6

(* The three passes bring the same texts together when one of those shown is *)
(* moved to the front.                                                       *)
LEMMA SamePasses ==
  ASSUME NEW segment, IsSeq(segment.candidates),
         NEW w \in DOMAIN segment.candidates,
         NEW new, MovedUp(segment, new, w),
         NEW T, NEW A, NEW B, Passes(segment, T, A, B),
         \/ w \in Ordinary(segment) /\ Text(segment, w) \in T \cup B
         \/ w \in Aside(segment) /\ Text(segment, w) \in A,
         NEW U, NEW C, NEW D, Passes(new, U, C, D)
  PROVE  U \cup C \cup D = T \cup A \cup B
<1> DEFINE N == kNormalCandidateSurfaceLimit
           x == Text(segment, w)
           P == Ordinary(segment)
           R == Ordinary(new)
           E == Aside(segment)
           F == Aside(new)
           O == TextsAt(segment, P)
           S == TextsAt(segment, E)
<1>1. N \in Nat /\ N # 0
  BY WindowAssumption
<1>2. DOMAIN segment.candidates \subseteq Nat /\ DOMAIN new.candidates = DOMAIN segment.candidates
  <2>1. DOMAIN segment.candidates = 1 .. Len(segment.candidates)
    BY Sequences
  <2>2. DOMAIN new.candidates = 1 .. Len(new.candidates)
    BY Sequences DEF MovedUp
  <2>3. QED
    BY <2>1, <2>2 DEF MovedUp
<1>3. R = After(segment, P, w) /\ F = After(segment, E, w)
  <2>1. \A k \in DOMAIN segment.candidates : Was(w, k) \in DOMAIN segment.candidates
    <3>1. DOMAIN segment.candidates = 1 .. Len(segment.candidates) /\ Len(segment.candidates) \in Nat
      BY Sequences
    <3>2. QED
      BY <3>1, WasThere
  <2>2. QED
    BY <1>2, <2>1 DEF Ordinary, Aside, After, MovedUp
<1>4. P \subseteq DOMAIN segment.candidates /\ E \subseteq DOMAIN segment.candidates
  BY DEF Ordinary, Aside
<1>5. Carried(segment, new, w, P, R) /\ Carried(segment, new, w, E, F)
  <2>1. Carried(segment, new, w, P, After(segment, P, w))
    BY <1>4, StillForemost
  <2>2. Carried(segment, new, w, E, After(segment, E, w))
    BY <1>4, StillForemost
  <2>3. QED
    BY <1>3, <2>1, <2>2
<1>6. w \in P => w \notin E
  BY DEF Ordinary, Aside
<1>7. P \subseteq Nat /\ R \subseteq Nat /\ E \subseteq Nat /\ F \subseteq Nat
  BY <1>2, <1>4, <1>5 DEF Carried
<1>8. TextsAt(new, R) = O /\ TextsAt(new, F) = S
  BY <1>5 DEF Carried
<1>9. /\ Foremosts(segment, P, O, N, T)
      /\ Foremosts(segment, E, S \ T, N + 1 - Cardinality(T), A)
      /\ Foremosts(segment, P, O \ (T \cup A), N + 1 - Cardinality(T) - Cardinality(A), B)
  BY DEF Passes
<1>10. /\ Foremosts(new, R, O, N, U)
       /\ Foremosts(new, F, S \ U, N + 1 - Cardinality(U), C)
       /\ Foremosts(new, R, O \ (U \cup C), N + 1 - Cardinality(U) - Cardinality(C), D)
  BY <1>8 DEF Passes
<1>11. /\ IsFiniteSet(T) /\ Cardinality(T) \in Nat /\ Cardinality(T) <= N
       /\ IsFiniteSet(A) /\ Cardinality(A) \in Nat /\ Cardinality(A) <= N + 1 - Cardinality(T)
       /\ IsFiniteSet(B) /\ Cardinality(B) \in Nat
       /\ Cardinality(B) <= N + 1 - Cardinality(T) - Cardinality(A)
  <2>1. IsFiniteSet(T) /\ IsFiniteSet(A) /\ IsFiniteSet(B)
    BY <1>9 DEF Foremosts
  <2>2. Cardinality(T) \in Nat /\ Cardinality(A) \in Nat /\ Cardinality(B) \in Nat
    BY <2>1, FS_CardinalityType
  <2>3. QED
    BY <1>9, <2>1, <2>2 DEF Foremosts
<1>12. N + 1 - Cardinality(T) \in Nat /\ N + 1 - Cardinality(T) - Cardinality(A) \in Nat
  BY <1>1, <1>11
<1> HIDE DEF N, P, R, E, F, O, S
<1>13. ASSUME \/ w \in P /\ x \in T
              \/ w \in E /\ x \in A
       PROVE  U \cup C \cup D = T \cup A \cup B
  <2>1. w \notin P \/ x \in T
    BY <1>6, <1>13
  <2>2. Foremosts(new, R, O, N, T)
    BY <1>5, <1>9, <2>1, Zenon DEF Carried, x
  <2>3. U = T
    BY <1>1, <1>7, <1>8, <1>10, <2>2, OneForemost
  <2>4. w \notin E \/ x \in A
    BY <1>6, <1>13
  <2>5. Foremosts(new, F, S \ T, N + 1 - Cardinality(T), A)
    BY <1>5, <1>9, <2>4, Zenon DEF Carried, x
  <2>6. S \ T \subseteq TextsAt(new, F) /\ Foremosts(new, F, S \ T, N + 1 - Cardinality(T), C)
    BY <1>8, <1>10, <2>3
  <2>7. C = A
    BY <1>7, <1>12, <2>5, <2>6, OneForemost
  <2>8. w \notin P \/ x \notin O \ (T \cup A)
    BY <2>1
  <2>9. Foremosts(new, R, O \ (T \cup A), N + 1 - Cardinality(T) - Cardinality(A), B)
    BY <1>5, <1>9, <2>8, Zenon DEF Carried, x
  <2>10. /\ O \ (T \cup A) \subseteq TextsAt(new, R)
         /\ Foremosts(new, R, O \ (T \cup A), N + 1 - Cardinality(T) - Cardinality(A), D)
    BY <1>8, <1>10, <2>3, <2>7
  <2>11. D = B
    BY <1>7, <1>12, <2>9, <2>10, OneForemost
  <2>12. QED
    BY <2>3, <2>7, <2>11
<1>14. ASSUME w \in P, x \in B
       PROVE  U \cup C \cup D = T \cup A \cup B
  <2>1. x \in O /\ x \notin T /\ x \notin A
    BY <1>9, <1>14 DEF Foremosts
  <2>2. Cardinality(T) = N
    BY <1>9, <2>1 DEF Foremosts
  <2>3. Cardinality(B) # 0
    BY <1>11, <1>14, FS_EmptySet
  <2>4. Cardinality(A) = 0 /\ Cardinality(B) = 1
    BY <1>1, <1>11, <2>2, <2>3
  <2>5. A = {} /\ B = {x}
    <3>1. A = {}
      BY <1>11, <2>4, FS_EmptySet
    <3>2. PICK b : B = {b}
      BY <1>11, <2>4, FS_Singleton
    <3>3. QED
      BY <1>14, <3>1, <3>2
  <2>6. S \subseteq T
    <3>1. A = S \ T
      BY <1>1, <1>9, <2>2, <2>4 DEF Foremosts
    <3>2. QED
      BY <2>5, <3>1
  <2> HIDE DEF x
  <2>7. /\ \A t, u : Earlier(new, R, t, u) /\ t # x /\ u # x => Earlier(segment, P, t, u)
        /\ \A u \in O : u # x => Earlier(new, R, x, u)
    BY <1>5, <1>14 DEF Carried, x, O
  <2>8. DrivenOut(x, N, T, U)
    <3>1. Overtakes(segment, P, new, R, x)
      BY <1>7, <1>8, <2>1, <2>7 DEF Overtakes, O
    <3>2. /\ Foremosts(segment, P, TextsAt(segment, P), N, T)
          /\ Foremosts(new, R, TextsAt(segment, P), N, U)
      BY <1>9, <1>10 DEF O
    <3>3. QED
      BY <1>1, <2>1, <3>1, <3>2, OneDrivenOut
  <2>9. PICK v \in T : v \notin U /\ T = (U \ {x}) \cup {v}
    BY <2>8 DEF DrivenOut
  <2>10. v \in O /\ v # x
    BY <1>9, <2>1, <2>9 DEF Foremosts
  <2>11. x \in U /\ Cardinality(U) = N
    BY <2>8 DEF DrivenOut
  <2>12. Foremosts(new, F, S \ U, 1, C)
    BY <1>1, <1>10, <2>11
  <2>13. IsFiniteSet(C) /\ C \subseteq S \ U /\ S \ U \subseteq {v}
    BY <2>6, <2>9, <2>12 DEF Foremosts
  <2>14. CASE v \in S
    <3>1. C = {v}
      <4>1. v \in S \ U /\ \A b \in S \ U : b # v => Earlier(new, F, v, b)
        BY <2>9, <2>13, <2>14
      <4>2. QED
        BY <2>12, <4>1, OneAtMost
    <3>2. Cardinality(C) = 1
      BY <3>1, FS_Singleton
    <3>3. IsFiniteSet(D) /\ Cardinality(D) <= 0 /\ Cardinality(D) \in Nat
      <4>1. IsFiniteSet(D)
        BY <1>10 DEF Foremosts
      <4>2. Cardinality(D) \in Nat
        BY <4>1, FS_CardinalityType
      <4>3. Cardinality(D) <= 0
        BY <1>1, <1>10, <2>11, <3>2 DEF Foremosts
      <4>4. QED
        BY <4>1, <4>2, <4>3
    <3>4. D = {}
      <4>1. Cardinality(D) = 0
        BY <3>3
      <4>2. QED
        BY <3>3, <4>1, FS_EmptySet
    <3>5. QED
      BY <2>5, <2>11, <2>9, <3>1, <3>4
  <2>15. CASE v \notin S
    <3>1. C = {}
      BY <2>13, <2>15
    <3>2. Cardinality(C) = 0
      BY <3>1, FS_EmptySet
    <3>3. N + 1 - Cardinality(U) - Cardinality(C) = 1
      BY <1>1, <2>11, <3>2
    <3>4. Foremosts(new, R, O \ U, 1, D)
      BY <1>10, <3>1, <3>3
    <3>5. ASSUME NEW b \in O \ U, b # v
          PROVE  Earlier(new, R, v, b)
      <4>1. b # x /\ b \notin T
        BY <2>11, <2>9, <3>5
      <4>2. Earlier(new, R, v, b) \/ Earlier(new, R, b, v)
        BY <1>7, <1>8, <2>10, <3>5, OneEarlier
      <4>3. CASE Earlier(new, R, b, v)
        <5>1. Earlier(segment, P, b, v)
          BY <2>7, <2>10, <4>1, <4>3
        <5>2. b \in T
          BY <1>9, <2>9, <3>5, <5>1 DEF Foremosts
        <5>3. QED
          BY <4>1, <5>2
      <4>4. QED
        BY <4>2, <4>3
    <3>6. D = {v}
      <4>1. v \in O \ U
        BY <2>9, <2>10
      <4>2. QED
        BY <3>4, <3>5, <4>1, OneAtMost
    <3>7. QED
      BY <2>5, <2>11, <2>9, <3>1, <3>6
  <2>16. QED
    BY <2>14, <2>15
<1>15. QED
  BY <1>13, <1>14 DEF P, E

(* What the window shows stays what it is when one of it is moved to the front. *)
LEMMA PromotedWindow ==
  ASSUME NEW segment, IsSeq(segment.candidates),
         NEW w \in ToSet(SelectDistinctCandidateSurfaces(segment)),
         NEW new, MovedUp(segment, new, w)
  PROVE  Window(new) = Window(segment)
<1> DEFINE s == SelectDistinctCandidateSurfaces(segment)
<1>1. PICK T, A, B :
        /\ Passes(segment, T, A, B)
        /\ Window(segment) = T \cup A \cup B
        /\ \A i \in ToSet(s) : \/ i \in Ordinary(segment) /\ Text(segment, i) \in T \cup B
                               \/ i \in Aside(segment) /\ Text(segment, i) \in A
  BY WindowPasses
<1>2. PICK U, C, D : Passes(new, U, C, D) /\ Window(new) = U \cup C \cup D
  BY WindowPasses DEF MovedUp
<1>3. w \in DOMAIN segment.candidates
  <2>1. s \in Seq(DOMAIN segment.candidates)
    BY WindowPasses
  <2> HIDE DEF s
  <2>2. \A k \in DOMAIN s : s[k] \in DOMAIN segment.candidates
    BY <2>1
  <2>3. QED
    BY <2>2 DEF ToSet, s
<1>4. \/ w \in Ordinary(segment) /\ Text(segment, w) \in T \cup B
      \/ w \in Aside(segment) /\ Text(segment, w) \in A
  BY <1>1
<1> HIDE DEF s
<1>5. U \cup C \cup D = T \cup A \cup B
  BY <1>1, <1>2, <1>3, <1>4, SamePasses
<1>6. QED
  BY <1>1, <1>2, <1>5
-----------------------------------------------------------------------------
(* What the texts of a window begin with. *)

(* All of the texts have these characters in common. *)
LEMMA InCommon ==
  ASSUME NEW Z, \A t \in Z : Len(t) \in Nat
  PROVE  LET p == CommonPrefix(Z, Min({Len(t) : t \in Z}))
         IN \A t, u \in Z : SubSeq(t, 1, p) = SubSeq(u, 1, p)
<1> DEFINE L == {Len(t) : t \in Z}
           m == Min(L)
           C == {n \in 0 .. m : \A t, u \in Z : SubSeq(t, 1, n) = SubSeq(u, 1, n)}
<1>1. SUFFICES ASSUME Z # {}
               PROVE  Max(C) \in C
  BY DEF CommonPrefix
<1>2. m \in Nat
  <2>1. L \subseteq Nat /\ L # {}
    BY <1>1
  <2> HIDE DEF L
  <2>2. \E x \in L : \A y \in L : x <= y
    BY <2>1, Least
  <2>3. m \in L
    BY <2>2 DEF Min
  <2>4. QED
    BY <2>1, <2>3
<1>3. C \subseteq 0 .. m
  OBVIOUS
<1>4. 0 \in C
  <2>1. \A t : SubSeq(t, 1, 0) = <<>>
    OBVIOUS
  <2> HIDE DEF m
  <2>2. 0 \in 0 .. m
    BY <1>2
  <2>3. QED
    BY <2>1, <2>2
<1> HIDE DEF C, m
<1>5. QED
  BY <1>2, <1>3, <1>4, Greatest DEF Max

Prefix(segment) ==
  SharedCandidateAffixesForSegment(segment, SelectDistinctCandidateSurfaces(segment)).prefix

(* Where several texts are shown, the prefix is a matter of the texts only. *)
LEMMA PrefixOf ==
  ASSUME NEW segment, Segment(segment)
  PROVE  LET Z        == Window(segment)
             shortest == Min({Len(t) : t \in Z})
             p        == CommonPrefix(Z, shortest)
             s        == CommonSuffix(Z, shortest - p)
         IN /\ (\A t, u \in Z : t = u) \/ p + s < kMinInternalPhraseContextChars
                 => Prefix(segment) = <<>>
            /\ ~((\A t, u \in Z : t = u) \/ p + s < kMinInternalPhraseContextChars)
                 => \A t \in Z : Prefix(segment) = SubSeq(t, 1, p)
<1> DEFINE selected == SelectDistinctCandidateSurfaces(segment)
           Z        == Window(segment)
           shortest == Min({Len(t) : t \in Z})
           p        == CommonPrefix(Z, shortest)
           s        == CommonSuffix(Z, shortest - p)
           first    == segment.candidates[selected[1]].value
           affixes  == SharedCandidateAffixesForSegment(segment, selected)
<1>1. selected \in Seq(DOMAIN segment.candidates) /\ Different(segment, selected)
  BY WindowPasses DEF Segment
<1>2. Z = {segment.candidates[i].value : i \in ToSet(selected)}
  BY DEF Window, TextsAt, Text
<1>3. affixes = IF Len(selected) < 2 THEN NoAffixes
                ELSE IF p + s < kMinInternalPhraseContextChars THEN NoAffixes
                ELSE [prefix |-> SubSeq(first, 1, p),
                      suffix |-> SubSeq(first, Len(first) - s + 1, Len(first))]
  BY <1>2 DEF SharedCandidateAffixesForSegment
<1> HIDE DEF selected
<1>4. /\ Len(selected) \in Nat /\ DOMAIN selected = 1 .. Len(selected)
      /\ \A k \in DOMAIN selected : selected[k] \in DOMAIN segment.candidates
  BY <1>1
<1>5. Z = {Text(segment, selected[k]) : k \in 1 .. Len(selected)}
  BY <1>2, <1>4 DEF Text, ToSet
<1>6. \A t \in Z : Len(t) \in Nat
  <2>1. \A k \in 1 .. Len(selected) : IsSequence(Text(segment, selected[k]))
    BY <1>4 DEF Segment, Candidate, Text
  <2>2. \A k \in 1 .. Len(selected) : Len(Text(segment, selected[k])) \in Nat
    BY <2>1 DEF IsSequence
  <2>3. QED
    BY <1>5, <2>2
<1>7. \A t, u \in Z : SubSeq(t, 1, p) = SubSeq(u, 1, p)
  BY <1>6, InCommon
<1>8. Len(selected) < 2 <=> \A t, u \in Z : t = u
  <2>1. ASSUME Len(selected) < 2
        PROVE  \A t, u \in Z : t = u
    <3>1. \A k, l \in 1 .. Len(selected) : k = l
      BY <1>4, <2>1
    <3>2. QED
      BY <1>5, <3>1
  <2>2. ASSUME ~(Len(selected) < 2)
        PROVE  \E t, u \in Z : t # u
    <3>1. 1 \in 1 .. Len(selected) /\ 2 \in 1 .. Len(selected)
      BY <1>4, <2>2
    <3>2. Text(segment, selected[1]) # Text(segment, selected[2])
      BY <1>1, <1>4, <3>1 DEF Different
    <3>3. QED
      BY <1>5, <3>1, <3>2
  <2>3. QED
    BY <2>1, <2>2
<1>9. ~(Len(selected) < 2) => first \in Z
  BY <1>4, <1>5 DEF Text
<1>10. Prefix(segment) = affixes.prefix
  BY DEF Prefix, selected
<1> HIDE DEF Z, p, s, affixes, first
<1>11. ASSUME Len(selected) < 2 \/ p + s < kMinInternalPhraseContextChars
       PROVE  Prefix(segment) = <<>>
  BY <1>3, <1>10, <1>11 DEF NoAffixes
<1>12. ASSUME ~(Len(selected) < 2 \/ p + s < kMinInternalPhraseContextChars), NEW t \in Z
       PROVE  Prefix(segment) = SubSeq(t, 1, p)
  BY <1>3, <1>7, <1>9, <1>10, <1>12
<1>13. QED
  BY <1>8, <1>11, <1>12 DEF Z, p, s

LEMMA SamePrefix ==
  ASSUME NEW segment, Segment(segment), NEW new, Segment(new), Window(new) = Window(segment)
  PROVE  Prefix(new) = Prefix(segment)
<1> DEFINE Z        == Window(segment)
           shortest == Min({Len(t) : t \in Z})
           p        == CommonPrefix(Z, shortest)
           s        == CommonSuffix(Z, shortest - p)
           Alone    == (\A t, u \in Z : t = u) \/ p + s < kMinInternalPhraseContextChars
<1>1. /\ Alone => Prefix(segment) = <<>>
      /\ ~Alone => \A t \in Z : Prefix(segment) = SubSeq(t, 1, p)
  BY PrefixOf
<1>2. /\ Alone => Prefix(new) = <<>>
      /\ ~Alone => \A t \in Z : Prefix(new) = SubSeq(t, 1, p)
  BY PrefixOf
<1>3. ~Alone => \E t \in Z : TRUE
  OBVIOUS
<1> DEFINE common(t) == SubSeq(t, 1, p)
<1>4. /\ ~Alone => \A t \in Z : Prefix(segment) = common(t)
      /\ ~Alone => \A t \in Z : Prefix(new) = common(t)
  BY <1>1, <1>2
<1> HIDE DEF Alone, Z, p, common
<1>5. CASE Alone
  BY <1>1, <1>2, <1>5
<1>6. CASE ~Alone
  <2>1. PICK t \in Z : TRUE
    BY <1>3, <1>6
  <2>2. Prefix(segment) = common(t) /\ Prefix(new) = common(t)
    BY <1>4, <1>6
  <2>3. QED
    BY <2>2
<1>7. QED
  BY <1>5, <1>6
-----------------------------------------------------------------------------
(* Requests. *)

(* The requests built so far are the calls that have begun. *)
Calls ==
  /\ IsSeq(asked)
  /\ Len(asked) <= MaxCalls
  /\ call \in [1 .. MaxCalls -> {"idle", "pending", "answered", "failed"}]
  /\ runs \in [1 .. MaxCalls -> {0, 1}]
  /\ \A r \in 1 .. MaxCalls : call[r] = "idle" <=> r > Len(asked)

Waiting == {"warming", "ranking", "asking", "finishing"}

(* Where Rewrite waits for a prefetch, or Finish does, it is the last request. *)
Waits ==
  /\ phase \in Waiting => Len(asked) > 0
  /\ phase = "warming" => Len(asked) > 0 /\ asked[Pending].trigger = "candidate_prefetch"
  /\ phase = "finishing" => Len(asked) > 0 /\ asked[Pending].trigger = "context_prefetch"


(* Only the last request may be under way, and only where it is waited for. *)
AtRest ==
  \A r \in 1 .. MaxCalls : call[r] = "pending" => r = Len(asked) /\ phase \in Waiting

IndInv == Calls /\ Waits /\ AtRest /\ RememberedWasTakenIn
-----------------------------------------------------------------------------
(* A request is added behind the others. *)
LEMMA Appended ==
  ASSUME NEW s, NEW e, IsSeq(s)
  PROVE  /\ IsSeq(Append(s, e))
         /\ Len(s) \in Nat
         /\ Len(Append(s, e)) = Len(s) + 1
         /\ DOMAIN s = 1 .. Len(s)
         /\ DOMAIN Append(s, e) = 1 .. Len(s) + 1
         /\ \A i \in 1 .. Len(s) : Append(s, e)[i] = s[i]
         /\ Append(s, e)[Len(s) + 1] = e
<1>1. PICK S : s \in Seq(S)
  BY DEF IsSeq
<1>2. s \in Seq(S \cup {e}) /\ e \in S \cup {e}
  BY <1>1
<1>3. Append(s, e) \in Seq(S \cup {e})
  BY <1>2
<1>4. IsSeq(Append(s, e))
  BY <1>3 DEF IsSeq
<1>5. QED
  BY <1>2, <1>3, <1>4

LEMMA MaxCallsNat == MaxCalls \in Nat
BY RewriterAssumption

(* What has been taken in stays so. *)
LEMMA TakenInStays ==
  ASSUME IndInv, NEW trigger, NEW key, TakenIn(trigger, key),
         \A r \in DOMAIN asked : r \in DOMAIN asked' /\ asked'[r] = asked[r],
         \A r \in DOMAIN asked : runs[r] = 1 => runs'[r] = 1
  PROVE  TakenIn(trigger, key)'
BY DEF TakenIn
-----------------------------------------------------------------------------
(* The kinds of steps: one that concerns no request, one that sends one, one *)
(* that ends one, and the ranker's.                                          *)

LEMMA QuietStep ==
  ASSUME IndInv, UNCHANGED <<callVars, prefetchVars>>,
         phase' = phase \/ (phase \notin Waiting /\ phase' \notin Waiting)
  PROVE  IndInv' /\ [Ranker!Next]_<<call, runs>>
<1> USE DEF IndInv, callVars, prefetchVars
<1>1. Calls'
  BY DEF Calls
<1>2. Waits'
  BY DEF Waits, Pending, Waiting
<1>3. RememberedWasTakenIn'
  BY DEF RememberedWasTakenIn, TakenIn
<1>4. AtRest'
  BY DEF AtRest
<1>5. QED
  BY <1>1, <1>2, <1>3, <1>4

LEMMA SendStep ==
  ASSUME IndInv,
         NEW trigger, NEW batch, NEW key, Send(trigger, batch, key),
         UNCHANGED prefetchVars,
         phase \notin Waiting, phase' \in Waiting,
         phase' = "warming" => trigger = "candidate_prefetch",
         phase' = "finishing" => trigger = "context_prefetch"
  PROVE  IndInv' /\ [Ranker!Next]_<<call, runs>>
<1> DEFINE new == [trigger |-> trigger, batch |-> batch, key |-> key]
<1> USE DEF IndInv, Send, prefetchVars
<1>1. /\ IsSeq(asked) /\ IsSeq(asked')
      /\ Len(asked) \in Nat /\ Len(asked') = Len(asked) + 1
      /\ DOMAIN asked = 1 .. Len(asked) /\ DOMAIN asked' = 1 .. Len(asked) + 1
      /\ \A r \in 1 .. Len(asked) : asked'[r] = asked[r]
      /\ asked'[Len(asked) + 1] = new
  BY Appended DEF Calls
<1>2. /\ Len(asked) + 1 \in 1 .. MaxCalls
      /\ call' = [call EXCEPT ![Len(asked) + 1] = "pending"]
      /\ runs' = runs
      /\ Ranker!Begin(Len(asked) + 1)
  BY MaxCallsNat, <1>1 DEF Pending, Ranker!Begin
<1>3. Calls'
  BY <1>1, <1>2 DEF Calls
<1>4. Waits'
  BY <1>1 DEF Waits, Pending
<1>5. RememberedWasTakenIn'
  BY <1>1, <1>2, TakenInStays DEF RememberedWasTakenIn
<1>6. Ranker!Next
  BY <1>2 DEF Ranker!Next
<1>7. AtRest'
  BY <1>1, <1>2 DEF AtRest, Calls
<1>8. QED
  BY <1>3, <1>4, <1>5, <1>6, <1>7

LEMMA EndStep ==
  ASSUME IndInv, Answered \/ Failed,
         phase' \notin Waiting,
         \/ UNCHANGED lastCandidateKey
         \/ /\ Answered /\ lastCandidateKey' = asked[Pending].key
            /\ phase = "warming",
         \/ UNCHANGED lastContextKey
         \/ /\ Answered /\ lastContextKey' = asked[Pending].key
            /\ phase = "finishing"
  PROVE  IndInv' /\ [Ranker!Next]_<<call, runs>>
<1> USE DEF IndInv, Answered, Failed
<1>1. Len(asked) \in Nat /\ DOMAIN asked = 1 .. Len(asked) /\ asked' = asked
  BY Sequences DEF Calls
<1>2. runs' = runs /\ call[Pending] = "pending"
  BY DEF Ranker!Answer, Ranker!Fail
<1>3. CASE Pending \in 1 .. MaxCalls
  <2>1. call' = [call EXCEPT ![Pending] = call'[Pending]] /\ call'[Pending] \in {"answered", "failed"}
    BY <1>3 DEF Calls, Ranker!Answer, Ranker!Fail
  <2>2. Calls'
    BY <1>1, <1>2, <1>3, <2>1 DEF Calls, Pending
  <2>3. Ranker!Next
    BY <1>3 DEF Ranker!Next
  <2>4. Answered => runs[Pending] = 1 /\ Pending \in DOMAIN asked
    <3>1. Pending \in DOMAIN asked
      BY <1>1, <1>3 DEF Pending
    <3>2. Ranker!Answer(Pending) => runs[Pending] = 1
      BY DEF Ranker!Answer
    <3>3. QED
      BY <3>1, <3>2
  <2>5. RememberedWasTakenIn'
    BY <1>1, <1>2, <2>4 DEF RememberedWasTakenIn, TakenIn, Waits
  <2>6. AtRest'
    BY <1>1, <1>3, <2>1 DEF AtRest, Calls, Pending
  <2>7. QED
    BY <1>1, <2>2, <2>3, <2>5, <2>6 DEF Waits, Waiting
<1>4. CASE Pending \notin 1 .. MaxCalls
  <2>1. Len(asked) = 0
    BY MaxCallsNat, <1>1, <1>4 DEF Calls, Pending
  <2>2. call' = call
    BY MaxCallsNat, <1>4 DEF Calls, Ranker!Answer, Ranker!Fail
  <2>3. QED
    BY <1>1, <1>2, <2>1, <2>2 DEF Calls, Waits, Waiting, AtRest, RememberedWasTakenIn, TakenIn
<1>5. QED
  BY <1>3, <1>4

LEMMA AnsweredIs ==
  ASSUME IndInv, phase \in Waiting, Answered
  PROVE  /\ Pending \in 1 .. MaxCalls /\ call[Pending] = "pending"
         /\ DOMAIN call = 1 .. MaxCalls
         /\ call' = [call EXCEPT ![Pending] = "answered"]
<1>1. Len(asked) \in Nat /\ Len(asked) > 0
  BY Sequences DEF IndInv, Calls, Waits
<1>2. QED
  BY <1>1, MaxCallsNat DEF IndInv, Calls, Answered, Ranker!Answer, Pending

LEMMA RunStep ==
  ASSUME IndInv, Run
  PROVE  IndInv' /\ [Ranker!Next]_<<call, runs>>
<1> USE DEF IndInv, prefetchVars
<1>1. PICK r \in DOMAIN asked : Ranker!Run(r)
  BY DEF Run
<1>2. /\ Len(asked) \in Nat /\ DOMAIN asked = 1 .. Len(asked)
      /\ UNCHANGED <<phase, lastCandidateKey, lastContextKey, asked>>
  BY Sequences DEF Calls, Run
<1>3. /\ r \in 1 .. MaxCalls
      /\ runs' = [runs EXCEPT ![r] = 1] /\ call' = call
  BY MaxCallsNat, <1>1, <1>2 DEF Calls, Ranker!Run
<1>4. Calls'
  BY <1>2, <1>3 DEF Calls
<1>5. Waits'
  BY <1>2 DEF Waits, Pending
<1>6. RememberedWasTakenIn'
  BY <1>2, <1>3, TakenInStays DEF RememberedWasTakenIn, Calls
<1>7. Ranker!Next
  BY <1>1, <1>3 DEF Ranker!Next
<1>8. AtRest'
  BY <1>2, <1>3 DEF AtRest, Calls
<1>9. QED
  BY <1>4, <1>5, <1>6, <1>7, <1>8
-----------------------------------------------------------------------------
LEMMA InitStep ==
  ASSUME Init
  PROVE  IndInv /\ Ranker!Init
<1> USE DEF Init, Ranker!Init
<1>1. IsSeq(asked) /\ Len(asked) = 0
  <2>1. <<>> \in Seq({}) /\ Len(<<>>) = 0
    OBVIOUS
  <2>2. QED
    BY <2>1 DEF IsSeq
<1>2. Calls
  BY MaxCallsNat, <1>1 DEF Calls
<1>3. QED
  BY <1>2 DEF IndInv, Waits, Waiting, AtRest, RememberedWasTakenIn

LEMMA NextStep ==
  ASSUME IndInv, [Next]_vars
  PROVE  IndInv' /\ [Ranker!Next]_<<call, runs>>
<1> USE RewriterAssumption DEF Waiting
<1>1. CASE Offer
  BY <1>1, QuietStep DEF Offer
<1>2. CASE AiBoundaryPlanner
  BY <1>2, QuietStep DEF AiBoundaryPlanner, Resize
<1>3. CASE OrdinaryRewriters
  BY <1>3, QuietStep DEF OrdinaryRewriters
<1>4. CASE Warm
  BY <1>4, SendStep DEF Warm
<1>5. CASE Warmed
  BY <1>5, EndStep DEF Warmed
<1>6. CASE Enter
  <2>1. CASE BuildBatchPayload(Batch)
    BY <1>6, <2>1, SendStep DEF Enter
  <2>2. CASE ~BuildBatchPayload(Batch)
    BY <1>6, <2>2, QuietStep DEF Enter
  <2>3. QED
    BY <2>1, <2>2
<1>7. CASE Late
  BY <1>7, QuietStep DEF Late
<1>8. CASE Ranked
  BY <1>8, EndStep DEF Ranked, prefetchVars
<1>9. CASE NotRanked
  BY <1>9, EndStep DEF NotRanked, prefetchVars
<1>10. CASE Retry
  <2> DEFINE retry == <<RetryInput(Foremost)>>
  <2>1. CASE BuildBatchPayload(retry)
    BY <1>10, <2>1, SendStep DEF Retry
  <2>2. CASE ~BuildBatchPayload(retry)
    BY <1>10, <2>2, QuietStep DEF Retry
  <2>3. QED
    BY <2>1, <2>2
<1>11. CASE Retried
  BY <1>11, EndStep DEF Retried, prefetchVars
<1>12. CASE Leave
  BY <1>12, QuietStep DEF Leave
<1>13. CASE Commit
  <2>1. CASE UNCHANGED callVars /\ phase' = "away"
    BY <1>13, <2>1, QuietStep DEF Commit
  <2>2. CASE /\ Send("context_prefetch", BuildNextContextPrefetchBatch, MakeNextContextPrefetchKey)
             /\ phase' = "finishing"
    BY <1>13, <2>2, SendStep DEF Commit
  <2>3. QED
    BY <1>13, <2>1, <2>2 DEF Commit
<1>14. CASE Finished
  BY <1>14, EndStep DEF Finished
<1>15. CASE Run
  BY <1>15, RunStep
<1>16. CASE UNCHANGED vars
  BY <1>16, QuietStep DEF vars, callVars, prefetchVars
<1>17. QED
  BY <1>1, <1>2, <1>3, <1>4, <1>5, <1>6, <1>7, <1>8, <1>9, <1>10, <1>11, <1>12,
     <1>13, <1>14, <1>15, <1>16 DEF Next, FinalAiRewriter
-----------------------------------------------------------------------------
(* The segments, and what is asked about them. *)

(* What waits for a retry is of the conversion at hand. *)
Shaped ==
  /\ phase \in Phases
  /\ IsSeq(segments)
  /\ \A i \in DOMAIN segments : Segment(segments[i])
  /\ todo \subseteq DOMAIN segments
  /\ todo # {} => phase \in {"retrying", "asking"}

(* The segments have not changed since they were asked about. *)
Asking ==
  /\ phase \in {"ranking", "asking"} =>
       \A k \in DOMAIN asked[Pending].batch : \E i \in DOMAIN segments :
         asked[Pending].batch[k] = BuildBatchSegmentInput(segments, i, Preceding, after)
  /\ phase = "asking" => todo # {} /\ asked[Pending].batch = <<RetryInput(Foremost)>>

RewriteInv == IndInv /\ Shaped /\ Asking

LEMMA InputOf ==
  ASSUME NEW s, NEW i \in DOMAIN s, Segment(s[i]), NEW p, NEW a
  PROVE  LET input == BuildBatchSegmentInput(s, i, p, a)
         IN /\ input.id = i
            /\ \A n \in DOMAIN input.candidates :
                 /\ input.candidates[n].id \in DOMAIN s[i].candidates
                 /\ input.candidates[n].text
                      = FocusOf(s[i], s[i].candidates[input.candidates[n].id].value)
<1> DEFINE selected == SelectDistinctCandidateSurfaces(s[i])
<1>1. selected \in Seq(DOMAIN s[i].candidates)
  BY WindowPasses DEF Segment
<1>2. \A n \in DOMAIN selected : selected[n] \in DOMAIN s[i].candidates
  BY <1>1
<1>3. QED
  BY <1>2 DEF BuildBatchSegmentInput, FocusOf

(* Of a set with at most one element. *)
LEMMA AtMostOne ==
  ASSUME NEW S, \A x, y \in S : x = y
  PROVE  SetToSeq(S) \in Seq(S)
<1>1. CASE S = {}
  <2>1. Cardinality(S) = 0
    BY <1>1, FS_EmptySet
  <2>2. <<>> \in [1 .. Cardinality(S) -> S] /\ IsInjective(<<>>)
    BY <2>1, <1>1 DEF IsInjective
  <2>3. SetToSeq(S) \in [1 .. Cardinality(S) -> S]
    BY <2>2 DEF SetToSeq
  <2>4. QED
    BY <2>1, <2>3
<1>2. ASSUME NEW x \in S
      PROVE  SetToSeq(S) \in Seq(S)
  <2>1. S = {x}
    BY <1>2
  <2>2. Cardinality(S) = 1
    BY <2>1, FS_Singleton
  <2>3. [n \in 1 .. Cardinality(S) |-> x] \in [1 .. Cardinality(S) -> S]
    BY <2>1
  <2>4. IsInjective([n \in 1 .. Cardinality(S) |-> x])
    BY <2>2 DEF IsInjective
  <2>5. SetToSeq(S) \in [1 .. Cardinality(S) -> S]
    BY <2>3, <2>4 DEF SetToSeq
  <2>6. Cardinality(S) \in Nat
    BY <2>2
  <2>7. QED
    BY <2>5, <2>6
<1>3. QED
  BY <1>1, <1>2

LEMMA OneSurface ==
  ASSUME NEW reading
  PROVE  \A v, w \in SupplementalSurfacesForReading(reading) : v = w
<1>1. ASSUME NEW k \in LongestKey(reading), NEW l \in LongestKey(reading)
      PROVE  k = l
  <2>1. /\ k \in DOMAIN SupplementalSurfaceSpecs /\ l \in DOMAIN SupplementalSurfaceSpecs
        /\ Len(k) <= Len(l) /\ Len(l) <= Len(k)
        /\ IsPrefix(k, reading) /\ IsPrefix(l, reading)
    BY DEF LongestKey
  <2>2. IsSequence(k) /\ IsSequence(l)
    BY <2>1, WindowAssumption
  <2>7. Len(k) \in Nat /\ Len(l) \in Nat
    BY <2>2 DEF IsSequence
  <2>3. Len(k) = Len(l)
    BY <2>1, <2>7
  <2>4. SubSeq(k, 1, Len(k)) = SubSeq(l, 1, Len(l))
    BY <2>1, <2>3, Zenon DEF IsPrefix
  <2>5. SubSeq(k, 1, Len(k)) = k /\ SubSeq(l, 1, Len(l)) = l
    <3>1. ASSUME NEW s, IsSequence(s) PROVE SubSeq(s, 1, Len(s)) = s
      BY <3>1, SequenceIs, SubSeqFull DEF IsSeq
    <3>2. QED
      BY <2>2, <3>1
  <2>6. QED
    BY <2>4, <2>5
<1>2. QED
  BY <1>1 DEF SupplementalSurfacesForReading

LEMMA SurfacesAreTexts ==
  ASSUME NEW reading, IsSequence(reading)
  PROVE  \A v \in SupplementalSurfacesForReading(reading) : IsSequence(v)
<1> SUFFICES ASSUME NEW k \in LongestKey(reading)
             PROVE  IsSequence(SupplementalSurfaceSpecs[k] \o SubSeq(reading, Len(k) + 1, Len(reading)))
  BY DEF SupplementalSurfacesForReading
<1> DEFINE a == SupplementalSurfaceSpecs[k]
           n == Len(k) + 1
           b == SubSeq(reading, n, Len(reading))
<1>1. k \in DOMAIN SupplementalSurfaceSpecs
  BY DEF LongestKey
<1>2. IsSeq(a) /\ IsSeq(reading) /\ n \in Int /\ n >= 1
  <2>1. IsSequence(k) /\ IsSequence(a)
    BY <1>1, WindowAssumption
  <2>2. IsSeq(a) /\ IsSeq(reading)
    BY <2>1, SequenceIs
  <2>3. Len(k) \in Nat
    BY <2>1 DEF IsSequence
  <2> HIDE DEF a
  <2>4. QED
    BY <2>2, <2>3
<1> HIDE DEF a, n
<1>3. PICK S : a \in Seq(S)
  BY <1>2 DEF IsSeq
<1>4. PICK T : reading \in Seq(T)
  BY <1>2 DEF IsSeq
<1>5. b \in Seq(T)
  <2>1. Len(reading) \in Int /\ \A i \in n .. Len(reading) : reading[i] \in T
    BY <1>2, <1>4
  <2>2. QED
    BY <1>2, <2>1, SubSeqProperties
<1> HIDE DEF b
<1>6. a \o b \in Seq(S \cup T)
  <2>1. a \in Seq(S \cup T) /\ b \in Seq(S \cup T)
    BY <1>3, <1>5
  <2>2. QED
    BY <2>1, ConcatProperties
<1>7. QED
  <2> DEFINE t == a \o b
  <2>1. Len(t) \in Nat /\ t = [i \in 1 .. Len(t) |-> t[i]]
    <3>1. t \in Seq(S \cup T)
      BY <1>6
    <3> HIDE DEF t
    <3>2. QED
      BY <3>1
  <2>2. QED
    BY <2>1 DEF IsSequence, a, b, n

LEMMA SupplementedShape ==
  ASSUME NEW s, Segment(s)
  PROVE  Segment(AddSupplementalCandidates(s))
<1> DEFINE missing == SupplementalSurfacesForReading(s.reading) \ Values(s)
           copy(v) == [[s.candidates[1] EXCEPT !.value = v] EXCEPT !.supplemental = TRUE]
           added   == {copy(v) : v \in missing}
           more    == SetToSeq(added)
           all     == s.candidates \o more
           new     == AddSupplementalCandidates(s)
<1>1. new = [s EXCEPT !.candidates = all]
  BY DEF AddSupplementalCandidates, Segment
<1>2. more \in Seq(added)
  <2>1. \A x, y \in added : x = y
    <3>1. \A v, w \in missing : v = w
      BY OneSurface
    <3> HIDE DEF missing
    <3>2. QED
      BY <3>1
  <2> HIDE DEF added
  <2>2. QED
    BY <2>1, AtMostOne
<1>3. PICK S : s.candidates \in Seq(S)
  BY DEF Segment, IsSeq
<1>4. DOMAIN s.candidates = 1 .. Len(s.candidates) /\ Len(s.candidates) \in Nat \ {0}
  BY <1>3 DEF Segment
<1>5. \A c \in added : Candidate(c)
  <2>1. Candidate(s.candidates[1])
    BY <1>4 DEF Segment
  <2>2. \A v \in missing : Candidate(copy(v))
    <3>1. \A v \in missing : IsSequence(v)
      BY SurfacesAreTexts DEF Segment
    <3> HIDE DEF missing
    <3>2. QED
      BY <2>1, <3>1, Copied
  <2> HIDE DEF missing, copy
  <2>3. QED
    BY <2>2
<1> HIDE DEF added, more
<1>6. s.candidates \in Seq(S \cup added) /\ more \in Seq(S \cup added)
  BY <1>2, <1>3
<1>7. /\ all \in Seq(S \cup added)
      /\ Len(all) = Len(s.candidates) + Len(more) /\ Len(more) \in Nat
      /\ \A n \in 1 .. Len(s.candidates) + Len(more) :
           all[n] = IF n <= Len(s.candidates) THEN s.candidates[n]
                                              ELSE more[n - Len(s.candidates)]
  BY <1>6, ConcatProperties, LenProperties
<1> HIDE DEF all
<1>8. DOMAIN all = 1 .. Len(s.candidates) + Len(more)
  BY <1>7
<1>9. \A n \in DOMAIN all : Candidate(all[n])
  <2> SUFFICES ASSUME NEW n \in 1 .. Len(s.candidates) + Len(more) PROVE Candidate(all[n])
    BY <1>8
  <2>1. CASE n <= Len(s.candidates)
    BY <1>4, <1>7, <2>1 DEF Segment
  <2>2. CASE ~(n <= Len(s.candidates))
    <3>1. n - Len(s.candidates) \in 1 .. Len(more)
      BY <1>4, <1>7, <2>2
    <3>2. more[n - Len(s.candidates)] \in added
      BY <1>2, <3>1, ElementOfSeq
    <3>3. QED
      BY <1>5, <1>7, <2>2, <3>2
  <2>3. QED
    BY <2>1, <2>2
<1>10. IsSeq(all) /\ all # <<>>
  BY <1>4, <1>7 DEF IsSeq
<1>11. /\ new = [reading |-> s.reading, free |-> s.free, candidates |-> all]
       /\ new.candidates = all
  BY <1>1 DEF Segment
<1> HIDE DEF new
<1>12. new.reading = s.reading /\ new.free = s.free
  BY <1>11
<1>13. new = [reading |-> new.reading, free |-> new.free, candidates |-> new.candidates]
  BY <1>11, <1>12, Zenon
<1>14. Segment(new)
  <2>1. IsSequence(new.reading)
    BY <1>12 DEF Segment
  <2>2. QED
    BY <1>9, <1>10, <1>11, <1>13, <2>1, Zenon DEF Segment
<1>15. QED
  BY <1>14 DEF new

-----------------------------------------------------------------------------
(* The steps, once more: what becomes of the segments. *)

(* Steps that change neither them nor where they stand, nor what was asked. *)
LEMMA SameSegments ==
  ASSUME RewriteInv, UNCHANGED <<segments, before, history, after, todo>>,
         phase' \in Phases,
         \/ phase' = phase /\ asked' = asked
         \/ phase' \notin {"ranking", "asking"},
         todo = {} \/ phase' \in {"retrying", "asking"}
  PROVE  Shaped' /\ Asking'
<1>1. Shaped'
  BY DEF RewriteInv, Shaped
<1>2. Asking'
  BY DEF RewriteInv, Asking, Pending, Preceding, RetryInput, Foremost
<1>3. QED
  BY <1>1, <1>2

(* Another conversion: nothing is asked about it yet. *)
LEMMA OtherSegments ==
  ASSUME RewriteInv, phase' \in {"away", "composing", "finishing"}, todo = {}, UNCHANGED todo,
         IsSeq(segments'), \A i \in DOMAIN segments' : Segment(segments'[i])
  PROVE  Shaped' /\ Asking'
BY DEF RewriteInv, Shaped, Asking, Phases

LEMMA OfferedShape ==
  ASSUME NEW offer \in Conversions
  PROVE  IsSeq(offer) /\ \A i \in DOMAIN offer : Segment(offer[i])
<1>1. IsSequence(offer)
  BY RewriterAssumption
<1>2. Len(offer) \in Nat /\ DOMAIN offer = 1 .. Len(offer) /\ IsSeq(offer)
  BY <1>1, SequenceIs
<1>3. ASSUME NEW i \in 1 .. Len(offer)
      PROVE  Segment(offer[i])
  <2> DEFINE cs == offer[i].candidates
  <2>1. /\ offer[i] = [reading |-> offer[i].reading, free |-> offer[i].free, candidates |-> cs]
        /\ Len(cs) \in Nat \ {0}
        /\ cs = [n \in 1 .. Len(cs) |-> Plain(cs[n].value)]
        /\ IsSequence(offer[i].reading)
        /\ \A n \in 1 .. Len(cs) : IsSequence(cs[n].value)
    BY RewriterAssumption
  <2>2. DOMAIN cs = 1 .. Len(cs) /\ \A n \in 1 .. Len(cs) : cs[n] = Plain(cs[n].value)
    BY <2>1
  <2>3. \A v : IsSequence(v) => Candidate(Plain(v))
    <3>1. \A v : Plain(v).value = v
      BY DEF Plain
    <3>2. \A v : Plain(v) = [value |-> Plain(v).value, supplemental |-> Plain(v).supplemental,
                            reranked |-> Plain(v).reranked]
      BY DEF Plain
    <3>3. QED
      BY <3>1, <3>2 DEF Candidate
  <2>4. \A n \in DOMAIN cs : Candidate(cs[n])
    BY <2>1, <2>2, <2>3
  <2>5. IsSeq(cs) /\ cs # <<>>
    <3>1. IsSequence(cs)
      BY <2>1, <2>2 DEF IsSequence
    <3>2. QED
      BY <2>1, <3>1, SequenceIs
  <2>6. QED
    BY <2>1, <2>4, <2>5 DEF Segment
<1>4. QED
  BY <1>2, <1>3

LEMMA OrdinaryShape ==
  ASSUME RewriteInv, OrdinaryRewriters
  PROVE  IsSeq(segments') /\ \A i \in DOMAIN segments' : Segment(segments'[i])
<1>1. PICK i \in DOMAIN segments : \E n \in DOMAIN segments[i].candidates :
        segments' = [segments EXCEPT ![i].candidates = MoveToFront(segments[i].candidates, n)]
  BY DEF OrdinaryRewriters
<1>2. PICK n \in DOMAIN segments[i].candidates :
        segments' = [segments EXCEPT ![i].candidates = MoveToFront(segments[i].candidates, n)]
  BY <1>1
<1> DEFINE old == segments[i]
           moved == MoveToFront(old.candidates, n)
           new == [old EXCEPT !.candidates = moved]
<1>3. Segment(old)
  BY DEF RewriteInv, Shaped
<1>4. PICK S : old.candidates \in Seq(S)
  BY <1>3 DEF Segment, IsSeq
<1>5. n \in 1 .. Len(old.candidates) /\ DOMAIN old.candidates = 1 .. Len(old.candidates)
  BY <1>4
<1>6. /\ moved \in Seq(S) /\ Len(moved) = Len(old.candidates)
      /\ \A k \in 1 .. Len(old.candidates) :
           moved[k] = IF k = 1 THEN old.candidates[n]
                      ELSE IF k <= n THEN old.candidates[k - 1] ELSE old.candidates[k]
  BY <1>4, <1>5, Moving
<1>7. segments' = [segments EXCEPT ![i] = new]
  BY <1>2
<1> HIDE DEF moved
<1>8. /\ new = [reading |-> old.reading, free |-> old.free, candidates |-> moved]
      /\ new.candidates = moved /\ new.reading = old.reading /\ new.free = old.free
  BY <1>3 DEF Segment
<1>9. /\ IsSeq(moved) /\ moved # <<>> /\ DOMAIN moved = DOMAIN old.candidates
      /\ \A k \in DOMAIN moved : Candidate(moved[k])
  <2>1. DOMAIN moved = 1 .. Len(old.candidates) /\ moved # <<>>
    BY <1>5, <1>6
  <2>2. \A k \in 1 .. Len(old.candidates) : Candidate(old.candidates[k])
    BY <1>3, <1>5 DEF Segment
  <2>3. \A k \in 1 .. Len(old.candidates) : Candidate(moved[k])
    BY <1>5, <1>6, <2>2
  <2>4. QED
    BY <1>5, <1>6, <2>1, <2>3 DEF IsSeq
<1> HIDE DEF new
<1>10. Segment(new)
  <2>1. IsSequence(new.reading)
    BY <1>3, <1>8 DEF Segment
  <2>2. QED
    BY <1>8, <1>9, <2>1, Zenon DEF Segment
<1> HIDE DEF old
<1>11. QED
  BY <1>7, <1>10, Replaced DEF RewriteInv, Shaped

LEMMA ForemostIs ==
  ASSUME Shaped, todo # {}
  PROVE  Foremost \in todo /\ Foremost \in DOMAIN segments /\ \A j \in todo : Foremost <= j
<1>1. todo \subseteq Nat /\ todo \subseteq DOMAIN segments
  BY Sequences DEF Shaped
<1>2. \E i \in todo : \A j \in todo : i <= j
  BY <1>1, Least
<1>3. QED
  BY <1>1, <1>2 DEF Foremost

LEMMA EnterKeeps ==
  ASSUME RewriteInv, Enter
  PROVE  Shaped' /\ Asking'
<1>1. /\ IsSeq(Supplemented) /\ DOMAIN Supplemented = DOMAIN segments
      /\ \A i \in DOMAIN segments : Segment(Supplemented[i])
  <2>1. \A i \in DOMAIN segments : Segment(Supplemented[i])
    BY SupplementedShape DEF Supplemented, RewriteInv, Shaped
  <2>2. DOMAIN segments = 1 .. Len(segments) /\ Len(segments) \in Nat
    BY Sequences DEF RewriteInv, Shaped
  <2>3. DOMAIN Supplemented = DOMAIN segments
    BY DEF Supplemented
  <2> DEFINE V == {Supplemented[i] : i \in DOMAIN segments}
  <2>4. Supplemented \in [1 .. Len(segments) -> V]
    BY <2>2 DEF Supplemented
  <2> HIDE DEF V
  <2>5. Supplemented \in Seq(V)
    BY <2>2, <2>4
  <2>6. QED
    BY <2>1, <2>3, <2>5 DEF IsSeq
<1>2. /\ segments' = Supplemented /\ todo' = {}
      /\ phase' \in {"ranking", "composing"}
      /\ UNCHANGED <<before, history, after>>
  BY DEF Enter
<1>3. Shaped'
  BY <1>1, <1>2 DEF Shaped, Phases
<1>4. CASE phase' = "ranking"
  <2>1. asked' = Append(asked, [trigger |-> "explicit", batch |-> Batch, key |-> NoKey])
    BY <1>4 DEF Enter, Send
  <2>2. asked'[Len(asked')].batch = Batch
    BY <2>1, Appended DEF RewriteInv, IndInv, Calls
  <2>3. \A k \in DOMAIN Batch : BatchIndices[k] \in DOMAIN segments
    <3> DEFINE all   == [i \in DOMAIN segments |-> i]
               those == {i \in DOMAIN segments :
                           /\ Rerankable(segments[i])
                           /\ Len(SelectDistinctCandidateSurfaces(Supplemented[i])) >= 2}
    <3>1. all \in Seq(DOMAIN segments)
      <4>1. DOMAIN segments = 1 .. Len(segments) /\ Len(segments) \in Nat
        BY Sequences DEF RewriteInv, Shaped
      <4>2. QED
        BY <4>1
    <3>2. BatchIndices = Kept(all, those)
      BY DEF BatchIndices
    <3> HIDE DEF all, those
    <3>3. BatchIndices \in Seq(DOMAIN segments \cap those)
      BY <3>1, <3>2, KeptOnly
    <3>4. QED
      BY <3>3 DEF Batch
  <2>4. \A k \in DOMAIN Batch :
          Batch[k] = BuildBatchSegmentInput(Supplemented, BatchIndices[k], Preceding, after)
    BY DEF Batch
  <2>5. Preceding' = Preceding
    BY <1>2 DEF Preceding
  <2>6. QED
    BY <1>1, <1>2, <1>3, <1>4, <2>2, <2>3, <2>4, <2>5 DEF Asking, Pending
<1>5. CASE phase' = "composing"
  BY <1>3, <1>5 DEF Asking
<1>6. QED
  BY <1>2, <1>4, <1>5

(* An answer about a segment brings up a candidate that was shown. *)
LEMMA OneAnswer ==
  ASSUME NEW s, NEW i \in DOMAIN s, Segment(s[i]), NEW p, NEW a, NEW input,
         input = BuildBatchSegmentInput(s, i, p, a),
         NEW result, NEW minimum,
         \E n \in DOMAIN input.candidates : input.candidates[n].id = result.winner
  PROVE  LET new == ApplyWinner(s[i], result, minimum)
         IN /\ Segment(new)
            /\ new # s[i] =>
                 \E n \in DOMAIN input.candidates : ShownAndMoved(input.candidates[n], s[i], new)
<1> DEFINE new == ApplyWinner(s[i], result, minimum)
<1>1. PICK n \in DOMAIN input.candidates : input.candidates[n].id = result.winner
  OBVIOUS
<1>2. /\ result.winner \in DOMAIN s[i].candidates
      /\ input.candidates[n].text = FocusOf(s[i], s[i].candidates[result.winner].value)
  BY <1>1, InputOf
<1>3. /\ Segment(new)
      /\ new # s[i] =>
           /\ result.winner # 1
           /\ ValuesOf(new.candidates) = MoveToFront(ValuesOf(s[i].candidates), result.winner)
           /\ Top(new) = s[i].candidates[result.winner].value
  BY <1>2, Applied
<1> HIDE DEF new
<1>4. new # s[i] => ShownAndMoved(input.candidates[n], s[i], new)
  BY <1>1, <1>2, <1>3 DEF ShownAndMoved
<1>5. QED
  BY <1>3, <1>4 DEF new

(* What the candidates of an answered request have become. *)
Promoted(i) ==
  \E k \in DOMAIN asked[Pending].batch :
    /\ asked[Pending].batch[k].id = i
    /\ \E n \in DOMAIN asked[Pending].batch[k].candidates :
         ShownAndMoved(asked[Pending].batch[k].candidates[n], segments[i], segments'[i])

LEMMA RankedKeeps ==
  ASSUME RewriteInv, Ranked
  PROVE  /\ Shaped' /\ Asking'
         /\ \A i \in DOMAIN segments : segments'[i] # segments[i] => Promoted(i)
<1> DEFINE batch == asked[Pending].batch
<1>1. PICK answer \in Answers(batch) :
        /\ segments' = [i \in DOMAIN segments |-> Won(batch, answer, i)]
        /\ todo' = Uncertain(batch, answer)
  BY DEF Ranked
<1>2. \A k \in DOMAIN batch :
        \E n \in DOMAIN batch[k].candidates : batch[k].candidates[n].id = answer[k].winner
  BY DEF Answers
<1>3. ASSUME NEW k \in DOMAIN batch
      PROVE  /\ batch[k].id \in DOMAIN segments
             /\ batch[k] = BuildBatchSegmentInput(segments, batch[k].id, Preceding, after)
  <2>1. PICK i \in DOMAIN segments : batch[k] = BuildBatchSegmentInput(segments, i, Preceding, after)
    BY DEF RewriteInv, Asking, Ranked
  <2>2. batch[k].id = i
    BY <2>1 DEF BuildBatchSegmentInput
  <2>3. QED
    BY <2>1, <2>2
<1>4. ASSUME NEW i \in DOMAIN segments
      PROVE  Segment(segments'[i]) /\ (segments'[i] # segments[i] => Promoted(i))
  <2>1. Segment(segments[i])
    BY DEF RewriteInv, Shaped
  <2>2. segments'[i] = Won(batch, answer, i)
    BY <1>1
  <2>3. CASE \E k \in DOMAIN batch : batch[k].id = i
    <3> DEFINE k == CHOOSE l \in DOMAIN batch : batch[l].id = i
    <3>1. k \in DOMAIN batch /\ batch[k].id = i
      BY <2>3
    <3>2. segments'[i] = ApplyWinner(segments[i], answer[k], "batch")
      BY <2>2, <2>3 DEF Won
    <3> HIDE DEF k
    <3>3. batch[k] = BuildBatchSegmentInput(segments, i, Preceding, after)
      BY <1>3, <3>1
    <3>4. \E n \in DOMAIN batch[k].candidates : batch[k].candidates[n].id = answer[k].winner
      BY <1>2, <3>1
    <3> HIDE DEF batch
    <3>5. /\ Segment(segments'[i])
          /\ segments'[i] # segments[i] =>
               \E n \in DOMAIN batch[k].candidates :
                 ShownAndMoved(batch[k].candidates[n], segments[i], segments'[i])
      BY <2>1, <3>2, <3>3, <3>4, OneAnswer
    <3>6. QED
      BY <3>1, <3>5 DEF Promoted, batch
  <2>4. CASE ~\E k \in DOMAIN batch : batch[k].id = i
    BY <2>1, <2>2, <2>4 DEF Won
  <2>5. QED
    BY <2>3, <2>4
<1>5. IsSeq(segments') /\ DOMAIN segments' = DOMAIN segments
  <2>1. DOMAIN segments = 1 .. Len(segments) /\ Len(segments) \in Nat
    BY Sequences DEF RewriteInv, Shaped
  <2>2. DOMAIN segments' = DOMAIN segments
    BY <1>1
  <2> DEFINE V == {segments'[i] : i \in DOMAIN segments}
  <2>3. segments' \in [1 .. Len(segments) -> V]
    BY <1>1, <2>1
  <2> HIDE DEF V
  <2>4. segments' \in Seq(V)
    BY <2>1, <2>3
  <2>5. QED
    BY <2>2, <2>4 DEF IsSeq
<1>6. todo' \subseteq DOMAIN segments
  BY <1>1, <1>3 DEF Uncertain
<1>7. phase' = "retrying"
  BY DEF Ranked
<1>8. Shaped' /\ Asking'
  BY <1>4, <1>5, <1>6, <1>7 DEF Shaped, Asking, Phases
<1>9. QED
  BY <1>4, <1>8

LEMMA RetryKeeps ==
  ASSUME RewriteInv, Retry
  PROVE  Shaped' /\ Asking'
<1> DEFINE retry == <<RetryInput(Foremost)>>
<1>1. CASE Send("explicit", retry, NoKey) /\ phase' = "asking" /\ UNCHANGED todo
  <2>1. asked'[Len(asked')].batch = retry
    <3>1. asked' = Append(asked, [trigger |-> "explicit", batch |-> retry, key |-> NoKey])
      BY <1>1 DEF Send
    <3> HIDE DEF retry
    <3>2. QED
      BY <3>1, Appended DEF RewriteInv, IndInv, Calls
  <2>2. Foremost \in DOMAIN segments /\ todo # {}
    BY ForemostIs DEF Retry, RewriteInv
  <2>3. /\ UNCHANGED <<segments, before, history, after, todo>>
        /\ Preceding' = Preceding /\ Foremost' = Foremost
        /\ RetryInput(Foremost)' = RetryInput(Foremost)
    BY <1>1 DEF Retry, conversionVars, Preceding, Foremost, RetryInput
  <2>4. Shaped'
    BY <1>1, <2>3 DEF RewriteInv, Shaped, Phases
  <2>5. \A k \in DOMAIN retry : k = 1 /\ retry[k] = RetryInput(Foremost)
    OBVIOUS
  <2> HIDE DEF retry
  <2>6. \A k \in DOMAIN retry : \E i \in DOMAIN segments :
          retry[k] = BuildBatchSegmentInput(segments, i, Preceding, after)
    BY <2>2, <2>5 DEF RetryInput
  <2>7. QED
    BY <1>1, <2>1, <2>2, <2>3, <2>4, <2>6 DEF Asking, Pending, retry
<1>2. CASE UNCHANGED <<callVars, phase>> /\ todo' = todo \ {Foremost}
  BY <1>2 DEF RewriteInv, Shaped, Asking, Retry, conversionVars
<1>3. QED
  BY <1>1, <1>2 DEF Retry

LEMMA RetriedKeeps ==
  ASSUME RewriteInv, Retried
  PROVE  /\ Shaped' /\ Asking'
         /\ \A i \in DOMAIN segments : segments'[i] # segments[i] => Answered /\ Promoted(i)
<1> DEFINE batch == asked[Pending].batch
<1>1. /\ phase = "asking" /\ phase' = "retrying"
      /\ todo' = todo \ {Foremost}
      /\ UNCHANGED <<before, history, after>>
  BY DEF Retried
<1>2. Foremost \in DOMAIN segments /\ batch = <<RetryInput(Foremost)>>
  BY <1>1, ForemostIs DEF RewriteInv, Asking
<1>3. CASE UNCHANGED segments
  BY <1>1, <1>3 DEF RewriteInv, Shaped, Asking, Phases
<1>4. ASSUME Answered,
             NEW answer \in Answers(batch),
             segments' = [segments EXCEPT ![Foremost] = ApplyWinner(segments[Foremost], answer[1], "retry")]
      PROVE  /\ Shaped' /\ Asking'
             /\ \A i \in DOMAIN segments : segments'[i] # segments[i] => Answered /\ Promoted(i)
  <2> DEFINE new == ApplyWinner(segments[Foremost], answer[1], "retry")
  <2>1. /\ 1 \in DOMAIN batch
        /\ batch[1] = BuildBatchSegmentInput(segments, Foremost, Preceding, after)
        /\ batch[1].id = Foremost
    BY <1>2 DEF RetryInput, BuildBatchSegmentInput
  <2>2. \E n \in DOMAIN batch[1].candidates : batch[1].candidates[n].id = answer[1].winner
    BY <2>1 DEF Answers
  <2>3. Segment(segments[Foremost])
    BY <1>2 DEF RewriteInv, Shaped
  <2> HIDE DEF batch
  <2>4. /\ Segment(new)
        /\ new # segments[Foremost] =>
             \E n \in DOMAIN batch[1].candidates :
               ShownAndMoved(batch[1].candidates[n], segments[Foremost], new)
    BY <1>2, <2>1, <2>2, <2>3, OneAnswer
  <2>5. /\ IsSeq(segments') /\ DOMAIN segments' = DOMAIN segments
        /\ segments'[Foremost] = new
        /\ \A j \in DOMAIN segments \ {Foremost} : segments'[j] = segments[j]
    <3> HIDE DEF new
    <3>1. segments' = [segments EXCEPT ![Foremost] = new]
      BY <1>4 DEF new
    <3>2. IsSeq(segments)
      BY DEF RewriteInv, Shaped
    <3>3. QED
      BY <1>2, <3>1, <3>2, Replaced
  <2> HIDE DEF new
  <2>6. \A i \in DOMAIN segments' : Segment(segments'[i])
    BY <2>4, <2>5 DEF RewriteInv, Shaped
  <2>7. Shaped' /\ Asking'
    BY <1>1, <2>5, <2>6 DEF RewriteInv, Shaped, Asking, Phases
  <2>8. \A i \in DOMAIN segments : segments'[i] # segments[i] => Promoted(i)
    BY <2>1, <2>4, <2>5 DEF Promoted, batch
  <2>9. QED
    BY <1>4, <2>7, <2>8
<1>5. QED
  BY <1>3, <1>4 DEF Retried

LEMMA SegmentsStep ==
  ASSUME RewriteInv, [Next]_vars
  PROVE  Shaped' /\ Asking'
<1> USE DEF Phases, Waiting
<1>1. todo # {} => phase \in {"retrying", "asking"}
  BY DEF RewriteInv, Shaped
<1>2. CASE Offer
  <2>1. segments' \in Conversions /\ todo = {} /\ phase' = "composing" /\ UNCHANGED todo
    BY <1>1, <1>2 DEF Offer
  <2>2. QED
    BY <2>1, OfferedShape, OtherSegments
<1>3. CASE AiBoundaryPlanner
  <2>1. segments' \in Conversions /\ todo = {} /\ phase' = "composing" /\ UNCHANGED todo
    BY <1>1, <1>3 DEF AiBoundaryPlanner, Resize
  <2>2. QED
    BY <2>1, OfferedShape, OtherSegments
<1>4. CASE OrdinaryRewriters
  <2>1. todo = {} /\ phase' = "composing" /\ UNCHANGED todo
    BY <1>1, <1>4 DEF OrdinaryRewriters
  <2>2. QED
    BY <1>4, <2>1, OrdinaryShape, OtherSegments
<1>5. CASE Warm \/ Warmed \/ NotRanked \/ Leave
  <2>1. /\ UNCHANGED <<segments, before, history, after>>
        /\ phase' \in {"warming", "composing"}
    BY <1>5 DEF Warm, Warmed, NotRanked, Leave, conversionVars
  <2>2. CASE Leave
    <3>1. Shaped' /\ Asking'
      BY <2>1, <2>2 DEF RewriteInv, Shaped, Asking, Leave
    <3>2. QED
      BY <3>1
  <2>3. CASE ~Leave
    <3>1. UNCHANGED todo /\ todo = {}
      BY <1>1, <1>5, <2>3 DEF Warm, Warmed, NotRanked
    <3>2. QED
      BY <2>1, <3>1, SameSegments
  <2>4. QED
    BY <2>2, <2>3
<1>6. CASE Enter
  BY <1>6, EnterKeeps
<1>7. CASE Late \/ Run
  <2>1. UNCHANGED <<segments, before, history, after, todo, phase, asked>>
    BY <1>7 DEF Late, Run, conversionVars, callVars
  <2>2. phase' \in Phases
    BY <2>1 DEF RewriteInv, Shaped
  <2>3. QED
    BY <1>1, <2>1, <2>2, SameSegments
<1>8. CASE Ranked
  BY <1>8, RankedKeeps
<1>9. CASE Retry
  BY <1>9, RetryKeeps
<1>10. CASE Retried
  BY <1>10, RetriedKeeps
<1>11. CASE Commit
  <2>1. /\ segments' = <<>> /\ todo = {} /\ UNCHANGED todo
        /\ phase' \in {"away", "finishing"}
    BY <1>1, <1>11 DEF Commit, Close
  <2>2. IsSeq(segments') /\ DOMAIN segments' = {}
    <3>1. <<>> \in Seq({}) /\ DOMAIN <<>> = {}
      OBVIOUS
    <3>2. QED
      BY <2>1, <3>1 DEF IsSeq
  <2>3. QED
    BY <2>1, <2>2, OtherSegments
<1>12. CASE Finished
  <2>1. /\ UNCHANGED <<segments, before, history, after, todo>>
        /\ phase' = "away" /\ todo = {}
    BY <1>1, <1>12 DEF Finished, conversionVars
  <2>2. QED
    BY <2>1, SameSegments
<1>13. CASE UNCHANGED vars
  <2>1. UNCHANGED <<segments, before, history, after, todo, phase, asked>>
    BY <1>13 DEF vars
  <2>2. phase' \in Phases
    BY <2>1 DEF RewriteInv, Shaped
  <2>3. QED
    BY <1>1, <2>1, <2>2, SameSegments
<1>14. QED
  BY <1>2, <1>3, <1>4, <1>5, <1>6, <1>7, <1>8, <1>9, <1>10, <1>11, <1>12, <1>13
  DEF Next, FinalAiRewriter

LEMMA RewriteInvariant == Spec => []RewriteInv
<1>1. Init => RewriteInv
  <2> SUFFICES ASSUME Init PROVE RewriteInv
    OBVIOUS
  <2>1. IsSeq(<<>>) /\ DOMAIN <<>> = {}
    <3>1. <<>> \in Seq({}) /\ DOMAIN <<>> = {}
      OBVIOUS
    <3>2. QED
      BY <3>1 DEF IsSeq
  <2>2. Shaped /\ Asking
    BY <2>1 DEF Init, Shaped, Asking, Phases
  <2>3. QED
    BY <2>2, InitStep DEF RewriteInv
<1>2. RewriteInv /\ [Next]_vars => RewriteInv'
  BY NextStep, SegmentsStep DEF RewriteInv
<1>3. QED
  BY <1>1, <1>2, PTL DEF Spec

-----------------------------------------------------------------------------
(* The same first candidates ahead of the segment, the same beginning of its own. *)
AsBefore(s, t, i) ==
  /\ \A j \in 1 .. i - 1 : Top(s[j]) = Top(t[j])
  /\ Prefix(s[i]) = Prefix(t[i])

(* What stands before a segment: the first candidates ahead of it and what *)
(* its own have in common.                                                 *)
LEMMA SamePreceding ==
  ASSUME NEW s, NEW t, NEW i \in Nat, i # 0, NEW p, NEW a,
         AsBefore(s, t, i)
  PROVE  BuildBatchSegmentInput(s, i, p, a).preceding = BuildBatchSegmentInput(t, i, p, a).preceding
<1> DEFINE n == IF i - 1 < 1 THEN 0 ELSE i - 1 - 1 + 1
<1>1. \A k \in 1 .. n : 1 + k - 1 = k /\ k \in 1 .. i - 1
  OBVIOUS
<1>2. [k \in 1 .. n |-> Top(s[1 + k - 1])] = [k \in 1 .. n |-> Top(t[1 + k - 1])]
  BY <1>1 DEF AsBefore
<1>3. Tops(s, 1, i - 1) = Tops(t, 1, i - 1)
  BY <1>2 DEF Tops
<1>4. BuildBatchSegmentInput(s, i, p, a).preceding
        = AppendIfNotAlreadyAtEnd(ContextBeforeSegment(s, i, p), Prefix(s[i]))
  BY DEF BuildBatchSegmentInput, Prefix
<1>5. BuildBatchSegmentInput(t, i, p, a).preceding
        = AppendIfNotAlreadyAtEnd(ContextBeforeSegment(t, i, p), Prefix(t[i]))
  BY DEF BuildBatchSegmentInput, Prefix
<1>6. QED
  BY <1>3, <1>4, <1>5 DEF ContextBeforeSegment, AsBefore

(* What a retry was told stands there still, and everything ahead of a segment *)
(* that waits for one is as it will stay.                                      *)
ToldAt(r) ==
  LET told == asked[r].batch[1]
  IN /\ r \in DOMAIN asked
     /\ told.id \in DOMAIN segments
     /\ \A j \in todo : told.id < j
     /\ told.preceding = BuildBatchSegmentInput(segments, told.id, Preceding, after).preceding

Told ==
  /\ IsSeq(retries)
  /\ phase \in {"ranking", "retrying", "asking"} => offered # <<>>
  /\ retries # <<>> => offered # <<>> /\ phase # "ranking"
  /\ \A n \in DOMAIN retries : ToldAt(retries[n])

SeesInv == RewriteInv /\ Told

(* No retry yet. *)
LEMMA NothingTold ==
  ASSUME retries' = <<>>, phase' \in {"ranking", "retrying", "asking"} => offered' # <<>>
  PROVE  Told'
<1>1. IsSeq(retries') /\ DOMAIN retries' = {}
  <2>1. <<>> \in Seq({}) /\ DOMAIN <<>> = {}
    OBVIOUS
  <2>2. QED
    BY <2>1 DEF IsSeq
<1>2. QED
  BY <1>1 DEF Told

(* Steps that leave alone what was told and what it was about. *)
LEMMA StillTold ==
  ASSUME SeesInv, UNCHANGED <<segments, offered, before, history, after, retries>>,
         todo' \subseteq todo,
         asked' = asked \/ \E e : asked' = Append(asked, e),
         phase' \in {"ranking", "retrying", "asking"} => phase \in {"retrying", "asking", "ranking"},
         phase' = "ranking" => phase = "ranking"
  PROVE  Told'
<1>1. \A r \in DOMAIN asked : r \in DOMAIN asked' /\ asked'[r] = asked[r]
  <2>1. CASE asked' = asked
    BY <2>1
  <2>2. ASSUME NEW e, asked' = Append(asked, e)
        PROVE  \A r \in DOMAIN asked : r \in DOMAIN asked' /\ asked'[r] = asked[r]
    <3>1. IsSeq(asked)
      BY DEF SeesInv, RewriteInv, IndInv, Calls
    <3>2. /\ DOMAIN asked = 1 .. Len(asked) /\ DOMAIN asked' = 1 .. Len(asked) + 1 /\ Len(asked) \in Nat
          /\ \A r \in 1 .. Len(asked) : asked'[r] = asked[r]
      BY <2>2, <3>1, Appended
    <3>3. QED
      BY <3>2
  <2>3. QED
    BY <2>1, <2>2
<1>2. Preceding' = Preceding
  BY DEF Preceding
<1>3. \A n \in DOMAIN retries : ToldAt(retries[n])'
  <2> SUFFICES ASSUME NEW n \in DOMAIN retries
               PROVE  ToldAt(retries[n])'
    OBVIOUS
  <2> DEFINE r == retries[n]
             told == asked[r].batch[1]
  <2>1. /\ r \in DOMAIN asked /\ told.id \in DOMAIN segments
        /\ \A j \in todo : told.id < j
        /\ told.preceding = BuildBatchSegmentInput(segments, told.id, Preceding, after).preceding
    BY DEF SeesInv, Told, ToldAt
  <2>2. r \in DOMAIN asked' /\ asked'[r] = asked[r] /\ retries'[n] = r
    BY <1>1, <2>1
  <2>3. QED
    BY <1>2, <2>1, <2>2 DEF ToldAt
<1>4. QED
  BY <1>3 DEF SeesInv, Told

LEMMA ToldAgain ==
  ASSUME SeesInv, Retried
  PROVE  Told'
<1> DEFINE batch == asked[Pending].batch
           F == Foremost
<1>1. /\ phase = "asking" /\ phase' = "retrying" /\ todo' = todo \ {F}
      /\ UNCHANGED <<offered, before, history, after, asked>>
  BY DEF Retried, Answered, Failed
<1>2. /\ F \in todo /\ F \in DOMAIN segments /\ (\A j \in todo : F <= j)
      /\ batch = <<RetryInput(F)>>
  BY <1>1, ForemostIs DEF SeesInv, RewriteInv, Asking
<1>3. /\ IsSeq(segments) /\ Len(segments) \in Nat /\ DOMAIN segments = 1 .. Len(segments)
      /\ todo \subseteq DOMAIN segments
      /\ \A i \in DOMAIN segments : Segment(segments[i])
  BY Sequences DEF SeesInv, RewriteInv, Shaped
<1>4. Preceding' = Preceding
  BY <1>1 DEF Preceding
<1>5. CASE UNCHANGED <<segments, retries>>
  <2>1. todo' \subseteq todo
    BY <1>1
  <2>2. QED
    BY <1>1, <1>5, <2>1, StillTold
<1>6. ASSUME Answered, NEW answer \in Answers(batch),
             segments' = [segments EXCEPT ![F] = ApplyWinner(segments[F], answer[1], "retry")],
             retries' = Append(retries, Pending)
      PROVE  Told'
  <2> DEFINE old == segments[F]
             new == ApplyWinner(old, answer[1], "retry")
             w   == answer[1].winner
             s   == SelectDistinctCandidateSurfaces(old)
  <2>1. \E n \in DOMAIN batch[1].candidates : batch[1].candidates[n].id = w
    BY <1>2 DEF Answers
  <2>2. w \in ToSet(s)
    <3>1. batch[1].candidates
            = [n \in DOMAIN s |-> [id |-> s[n],
                 text |-> CandidateFocusText(old.candidates[s[n]].value,
                                             SharedCandidateAffixesForSegment(old, s))]]
      BY <1>2 DEF RetryInput, BuildBatchSegmentInput
    <3> HIDE DEF s, batch, old
    <3>2. \E n \in DOMAIN s : s[n] = w
      BY <2>1, <3>1
    <3>3. QED
      BY <3>2 DEF ToSet
  <2>3. Segment(old) /\ IsSeq(old.candidates)
    BY <1>2, <1>3 DEF Segment
  <2>4. w \in DOMAIN old.candidates
    <3>1. s \in Seq(DOMAIN old.candidates)
      BY <2>3, WindowPasses
    <3> HIDE DEF s, old
    <3>2. \A k \in DOMAIN s : s[k] \in DOMAIN old.candidates
      BY <3>1
    <3>3. QED
      BY <2>2, <3>2 DEF ToSet
  <2>5. Segment(new) /\ (new # old => MovedUp(old, new, w))
    <3> HIDE DEF old
    <3>1. QED
      BY <2>3, <2>4, Applied
  <2>6. Window(new) = Window(old)
    <3> HIDE DEF old, new, w
    <3>1. QED
      BY <2>2, <2>3, <2>5, PromotedWindow DEF s
  <2>7. Prefix(new) = Prefix(old)
    <3> HIDE DEF old, new
    <3>1. QED
      BY <2>3, <2>5, <2>6, SamePrefix
  <2>8. /\ DOMAIN segments' = DOMAIN segments
        /\ segments'[F] = new
        /\ \A j \in DOMAIN segments \ {F} : segments'[j] = segments[j]
    <3> HIDE DEF new, F
    <3>1. segments' = [segments EXCEPT ![F] = new]
      BY <1>6 DEF new
    <3>2. QED
      BY <1>2, <1>3, <3>1, Replaced
  <2> HIDE DEF new, old, s, w, F, batch
  <2>9. ASSUME NEW i \in DOMAIN segments, i <= F
        PROVE  BuildBatchSegmentInput(segments', i, Preceding, after).preceding
                 = BuildBatchSegmentInput(segments, i, Preceding, after).preceding
    <3>1. i \in Nat /\ i # 0 /\ F \in Nat
      BY <1>2, <1>3
    <3>2. \A j \in 1 .. i - 1 : j \in DOMAIN segments \ {F}
      BY <1>2, <1>3, <2>9, <3>1
    <3>3. \A j \in 1 .. i - 1 : Top(segments'[j]) = Top(segments[j])
      BY <2>8, <3>2
    <3>4. Prefix(segments'[i]) = Prefix(segments[i])
      BY <2>7, <2>8, <2>9 DEF old
    <3>5. AsBefore(segments', segments, i)
      BY <3>3, <3>4 DEF AsBefore
    <3>6. QED
      BY <3>1, <3>5, SamePreceding
  <2>10. ASSUME NEW n \in DOMAIN retries, NEW r, r = retries[n]
         PROVE  ToldAt(r)'
    <3> DEFINE told == asked[r].batch[1]
               i == told.id
    <3>1. /\ r \in DOMAIN asked /\ i \in DOMAIN segments
          /\ \A j \in todo : i < j
          /\ told.preceding = BuildBatchSegmentInput(segments, i, Preceding, after).preceding
      BY <2>10 DEF SeesInv, Told, ToldAt
    <3>2. i <= F
      <4>1. i < F /\ i \in Nat /\ F \in Nat
        BY <1>2, <1>3, <3>1
      <4>2. QED
        BY <4>1
    <3>3. told.preceding = BuildBatchSegmentInput(segments', i, Preceding, after).preceding
      BY <2>9, <3>1, <3>2
    <3>4. \A j \in todo' : i < j
      BY <1>1, <3>1
    <3>5. QED
      BY <1>1, <1>4, <2>8, <3>1, <3>3, <3>4 DEF ToldAt
  <2>11. ASSUME NEW r, r = Pending
         PROVE  ToldAt(r)'
    <3>1. /\ batch[1] = BuildBatchSegmentInput(segments, F, Preceding, after)
          /\ batch[1].id = F
      BY <1>2 DEF RetryInput, BuildBatchSegmentInput
    <3>2. Pending \in DOMAIN asked /\ Pending' = Pending
      <4>1. IsSeq(asked) /\ Len(asked) > 0
        BY <1>1 DEF SeesInv, RewriteInv, IndInv, Calls, Waits, Waiting
      <4>2. QED
        BY <1>1, <4>1, Sequences DEF Pending
    <3>3. batch[1].preceding = BuildBatchSegmentInput(segments', F, Preceding, after).preceding
      <4>1. F <= F
        BY <1>2, <1>3
      <4>2. QED
        BY <1>2, <2>9, <3>1, <4>1
    <3>4. \A j \in todo' : F < j
      <4>1. \A j \in todo : F <= j /\ j \in Nat /\ F \in Nat
        BY <1>2, <1>3
      <4>2. QED
        BY <1>1, <4>1
    <3>5. QED
      BY <1>1, <1>2, <1>4, <2>8, <2>11, <3>1, <3>2, <3>3, <3>4 DEF ToldAt, batch
  <2>12. /\ IsSeq(retries') /\ DOMAIN retries = 1 .. Len(retries) /\ Len(retries) \in Nat
         /\ DOMAIN retries' = 1 .. Len(retries) + 1
         /\ \A n \in 1 .. Len(retries) : retries'[n] = retries[n]
         /\ retries'[Len(retries) + 1] = Pending
    BY <1>6, Appended DEF SeesInv, Told
  <2>13. \A n \in DOMAIN retries' : \A r : r = retries'[n] => ToldAt(r)'
    <3> SUFFICES ASSUME NEW n \in DOMAIN retries', NEW r, r = retries'[n]
                 PROVE  ToldAt(r)'
      OBVIOUS
    <3>1. n \in 1 .. Len(retries) \/ n = Len(retries) + 1
      BY <2>12
    <3>2. CASE n \in 1 .. Len(retries)
      BY <2>10, <2>12, <3>2
    <3>3. CASE n = Len(retries) + 1
      BY <2>11, <2>12, <3>3
    <3>4. QED
      BY <3>1, <3>2, <3>3
  <2>14. offered' # <<>>
    BY <1>1 DEF SeesInv, Told
  <2>15. \A n \in DOMAIN retries' : ToldAt(retries[n])'
    BY <2>13 DEF ToldAt
  <2>16. QED
    BY <1>1, <2>12, <2>14, <2>15 DEF Told
<1>7. QED
  BY <1>5, <1>6 DEF Retried

LEMMA ToldStep ==
  ASSUME SeesInv, [Next]_vars
  PROVE  Told'
<1>1. CASE Offer \/ AiBoundaryPlanner \/ Commit
  <2>1. retries' = <<>> /\ phase' \notin {"ranking", "retrying", "asking"}
    BY <1>1 DEF Offer, AiBoundaryPlanner, Resize, Commit, Close
  <2>2. QED
    BY <2>1, NothingTold
<1>2. CASE OrdinaryRewriters
  <2>1. /\ retries = <<>> /\ retries' = retries
        /\ phase' \notin {"ranking", "retrying", "asking"}
    BY <1>2 DEF OrdinaryRewriters, SeesInv, Told
  <2>2. QED
    BY <2>1, NothingTold
<1>3. CASE Enter
  <2>1. retries' = <<>> /\ offered' = segments /\ segments # <<>>
    <3>1. retries' = <<>> /\ offered' = segments /\ \E i \in DOMAIN segments : TRUE
      BY <1>3 DEF Enter
    <3>2. DOMAIN <<>> = {}
      OBVIOUS
    <3>3. QED
      BY <3>1, <3>2
  <2>2. QED
    BY <2>1, NothingTold
<1>4. CASE Ranked
  <2>1. /\ phase = "ranking" /\ retries' = retries /\ offered' = offered
    BY <1>4 DEF Ranked
  <2>2. retries = <<>> /\ offered # <<>>
    BY <2>1 DEF SeesInv, Told
  <2>3. QED
    BY <2>1, <2>2, NothingTold
<1>5. CASE Warm \/ Retry
  <2>1. UNCHANGED <<segments, offered, before, history, after, retries>>
    BY <1>5 DEF Warm, Retry, conversionVars
  <2>2. asked' = asked \/ \E e : asked' = Append(asked, e)
    BY <1>5 DEF Warm, Retry, Send, callVars
  <2>3. todo' \subseteq todo
    BY <1>5 DEF Warm, Retry
  <2>4. /\ phase' \in {"ranking", "retrying", "asking"} => phase \in {"retrying", "asking", "ranking"}
        /\ phase' # "ranking"
    BY <1>5 DEF Warm, Retry
  <2>5. QED
    BY <2>1, <2>2, <2>3, <2>4, StillTold
<1>6. CASE Warmed \/ NotRanked \/ Finished \/ Leave
  <2>1. /\ UNCHANGED <<segments, offered, before, history, after, retries, asked>>
        /\ todo' \subseteq todo
        /\ phase' \notin {"ranking", "retrying", "asking"}
    BY <1>6 DEF Warmed, NotRanked, Finished, Leave, conversionVars, callVars, Answered, Failed
  <2>2. QED
    BY <2>1, StillTold
<1>7. CASE Late \/ Run \/ UNCHANGED vars
  <2>1. UNCHANGED <<segments, offered, before, history, after, retries, asked, phase, todo>>
    BY <1>7 DEF Late, Run, vars, conversionVars, callVars
  <2>2. todo' \subseteq todo
    BY <2>1
  <2>3. QED
    BY <2>1, <2>2, StillTold
<1>8. CASE Retried
  BY <1>8, ToldAgain DEF SeesInv
<1>9. QED
  BY <1>1, <1>2, <1>3, <1>4, <1>5, <1>6, <1>7, <1>8 DEF Next, FinalAiRewriter
-----------------------------------------------------------------------------
(* What the client remembers as prefetched, the ranker has taken in           *)
(* (ai_rewriter.cc:669-672, 801-803): for any conversions and any answers.    *)
THEOREM RememberedTakenIn ==
  Spec => []RememberedWasTakenIn
<1>1. Init => IndInv
  BY InitStep
<1>2. IndInv /\ [Next]_vars => IndInv'
  BY NextStep
<1>3. IndInv => RememberedWasTakenIn
  BY DEF IndInv
<1>4. QED
  BY <1>1, <1>2, <1>3, PTL DEF Spec

(* Where the Mozc thread stands says what may be under way, and what waits   *)
(* for a retry is of the conversion at hand: nothing is left over when a     *)
(* pass is late or the conversion changes (ai_rewriter.cc:763-785).          *)
THEOREM RewriterTypes == Spec => []TypeOK
<1>1. RewriteInv => TypeOK
  <2> SUFFICES ASSUME RewriteInv PROVE TypeOK
    OBVIOUS
  <2>1. \A i \in DOMAIN segments : segments[i].candidates # <<>>
    BY DEF RewriteInv, Shaped, Segment
  <2>2. /\ phase \in Phases /\ todo \subseteq DOMAIN segments
        /\ Len(asked) <= MaxCalls
        /\ \A r \in 1 .. MaxCalls : call[r] = "idle" <=> r > Len(asked)
    BY DEF RewriteInv, Shaped, IndInv, Calls
  <2>3. \A r \in 1 .. MaxCalls : call[r] = "pending" => r = Len(asked) /\ ~Idle
    BY DEF RewriteInv, IndInv, AtRest, Idle, Waiting
  <2>4. QED
    BY <2>1, <2>2, <2>3 DEF TypeOK
<1>2. QED
  BY <1>1, RewriteInvariant, PTL

(* A candidate comes up only by an answer about its segment, and it is the   *)
(* one whose text was shown under the name in the answer: for any candidates *)
(* and any window (ai_rewriter.cc:745-749, 779-780).                         *)
THEOREM OnlyShownPromoted == Spec => PromotedAsShown
<1> DEFINE Asked(i) == call[Pending] = "pending" /\ call'[Pending] = "answered" /\ Promoted(i)
           Step == \A i \in DOMAIN segments :
                     phase' = "retrying" /\ segments'[i] # segments[i] => Asked(i)
<1>1. RewriteInv /\ [Next]_vars => [Step]_vars
  <2> SUFFICES ASSUME RewriteInv, Next, NEW i \in DOMAIN segments,
                      phase' = "retrying", segments'[i] # segments[i]
               PROVE  Asked(i)
    OBVIOUS
  <2>1. Ranked \/ Retried
    BY DEF Next, AiBoundaryPlanner, FinalAiRewriter, Offer, Resize, OrdinaryRewriters, Warm, Warmed,
           Enter, Late, NotRanked, Retry, Leave, Commit, Finished, Run, conversionVars
  <2>2. Answered /\ Promoted(i)
    BY <2>1, RankedKeeps, RetriedKeeps DEF Ranked
  <2>3. call[Pending] = "pending" /\ call'[Pending] = "answered"
    <3>1. /\ Pending \in 1 .. MaxCalls /\ call[Pending] = "pending"
          /\ DOMAIN call = 1 .. MaxCalls
          /\ call' = [call EXCEPT ![Pending] = "answered"]
      BY <2>1, <2>2, AnsweredIs DEF RewriteInv, Ranked, Retried, Waiting
    <3>2. QED
      BY <3>1
  <2>4. QED
    BY <2>2, <2>3
<1>2. [Step]_vars => [\A i \in DOMAIN segments :
         /\ phase' = "retrying"
         /\ segments'[i] # segments[i]
         => /\ call[Pending] = "pending" /\ call'[Pending] = "answered"
            /\ \E k \in DOMAIN asked[Pending].batch :
                 /\ asked[Pending].batch[k].id = i
                 /\ \E n \in DOMAIN asked[Pending].batch[k].candidates :
                      ShownAndMoved(asked[Pending].batch[k].candidates[n],
                                    segments[i], segments'[i])]_vars
  BY DEF Promoted
<1> HIDE DEF Step
<1>3. QED
  BY <1>1, <1>2, RewriteInvariant, PTL DEF Spec, PromotedAsShown

(* "each later retry can see earlier winners" (ai_rewriter.cc:752-753): what  *)
(* a retry was told to stand before its segment stands there to the end of    *)
(* Rewrite, for any candidates and any answers.                               *)
THEOREM WinnersSeen == Spec => []RetrySeesWinners
<1>1. Init => Told
  <2>1. <<>> \in Seq({}) /\ DOMAIN <<>> = {}
    OBVIOUS
  <2>2. QED
    BY <2>1 DEF Init, Told, IsSeq
<1>2. RewriteInv /\ Told /\ [Next]_vars => Told'
  BY ToldStep DEF SeesInv
<1>3. Told => RetrySeesWinners
  BY DEF Told, ToldAt, RetrySeesWinners
<1>4. QED
  BY <1>1, <1>2, <1>3, RewriteInvariant, PTL DEF Spec

(* Rewrite, its retries and Finish use the ranker as RankCall says it may be  *)
(* used: a request is begun once, ends once, and is taken in at most once.    *)
THEOREM RewriterImplementsCall ==
  Spec => Ranker!Spec
<1>1. Init => IndInv /\ Ranker!Init
  BY InitStep
<1>2. IndInv /\ [Next]_vars => IndInv' /\ [Ranker!Next]_<<call, runs>>
  BY NextStep
<1>3. [Ranker!Next]_<<call, runs>> <=> [Ranker!Next]_Ranker!vars
  BY DEF Ranker!vars
<1>4. QED
  BY <1>1, <1>2, <1>3, PTL DEF Spec, Ranker!Spec
=============================================================================

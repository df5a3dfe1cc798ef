-------------------------- MODULE RecursionProofs --------------------------
(***************************************************************************)
(* Recursive functions: that there are any, what Kept makes of a sequence, *)
(* sums over sets, sorting, and loops that go on from place to place.  The *)
(* library's theorems on induction take a predicate, which the provers     *)
(* here do not instantiate; the least number for which a claim fails does  *)
(* as well.                                                                *)
(***************************************************************************)
EXTENDS Selection, Integers, FiniteSetTheorems, WellFoundedInduction, SequenceTheorems, TLAPS

(* A set of numbers has a least one. *)
LEMMA Least ==
  ASSUME NEW T, T \subseteq Nat, T # {}
  PROVE  \E n \in T : \A m \in T : n <= m
<1> DEFINE R == OpToRel(<, Nat)
<1>1. \A m, n \in Nat : <<m, n>> \in R <=> m < n
  BY DEF OpToRel
<1>2. \E n \in T : \A m \in T : <<m, n>> \notin R
  BY NatLessThanWellFounded, WFMin
<1> HIDE DEF R
<1>3. \A m, n \in Nat : <<m, n>> \notin R => n <= m
  BY <1>1
<1>4. QED
  BY <1>2, <1>3

(* A set of numbers up to some number has a greatest one. *)
LEMMA Greatest ==
  ASSUME NEW n \in Nat, NEW T, T \subseteq 0 .. n, T # {}
  PROVE  LET high == CHOOSE x \in T : \A y \in T : x >= y
         IN  high \in T /\ \A y \in T : high >= y
<1> DEFINE U == {n - x : x \in T}
<1>1. U \subseteq Nat /\ U # {}
  <2>1. \A x \in T : n - x \in Nat
    OBVIOUS
  <2>2. QED
    BY <2>1
<1>2. PICK u \in U : \A v \in U : u <= v
  <2> HIDE DEF U
  <2>1. QED
    BY <1>1, Least
<1>3. PICK x \in T : u = n - x
  OBVIOUS
<1>4. \A y \in T : x >= y
  <2> TAKE y \in T
  <2>1. n - x <= n - y
    BY <1>2, <1>3
  <2>2. x \in Int /\ y \in Int
    OBVIOUS
  <2>3. QED
    BY <2>1, <2>2
<1>5. QED
  BY <1>4

(* The least, where one is chosen. *)
LEMMA Lowest ==
  ASSUME NEW T, T \subseteq Nat, T # {}
  PROVE  LET low == CHOOSE x \in T : \A y \in T : x =< y
         IN  low \in T /\ \A y \in T : low <= y
BY Least

(* What is left of a sequence from some place on. *)
LEMMA FromPlace ==
  ASSUME NEW S, NEW s \in Seq(S), NEW k \in 1 .. Len(s) + 1
  PROVE  /\ SubSeq(s, k, Len(s)) \in Seq(S)
         /\ Len(SubSeq(s, k, Len(s))) = Len(s) - k + 1
         /\ \A i \in 1 .. Len(s) - k + 1 : SubSeq(s, k, Len(s))[i] = s[k + i - 1]
<1>1. Len(s) \in Nat /\ \A i \in k .. Len(s) : s[i] \in S
  OBVIOUS
<1>2. k \in Int /\ Len(s) \in Int
  BY <1>1
<1>3. /\ SubSeq(s, k, Len(s)) \in Seq(S)
      /\ Len(SubSeq(s, k, Len(s))) = (IF k <= Len(s) THEN Len(s) - k + 1 ELSE 0)
      /\ \A i \in 1 .. Len(s) - k + 1 : SubSeq(s, k, Len(s))[i] = s[k + i - 1]
  BY <1>1, <1>2, SubSeqProperties
<1>4. QED
  BY <1>1, <1>3

(* Among some of the places of finitely many numbers there is one of the best. *)
LEMMA BestPlace ==
  ASSUME NEW n \in Nat, NEW f \in [1 .. n -> Int],
         NEW T, T \subseteq 1 .. n, T # {}
  PROVE  \E i \in T : \A j \in T : f[j] <= f[i]
<1> DEFINE Has(U) == \E i \in U : \A j \in U : f[j] <= f[i]
           Bad == {m \in 0 .. n : \E U \in SUBSET (1 .. m) : U # {} /\ ~Has(U)}
<1>1. SUFFICES ASSUME Bad # {} PROVE FALSE
  <2>1. n \in 0 .. n
    OBVIOUS
  <2>2. \A U \in SUBSET (1 .. n) : U # {} => Has(U)
    <3> HIDE DEF Has
    <3>1. QED
      BY <1>1, <2>1
  <2>3. QED
    BY <2>2
<1>2. PICK m \in Bad : \A k \in Bad : m <= k
  <2>1. Bad \subseteq Nat
    OBVIOUS
  <2> HIDE DEF Bad
  <2>2. QED
    BY <1>1, <2>1, Least
<1>3. PICK U \in SUBSET (1 .. m) : U # {} /\ ~Has(U)
  BY <1>2
<1>4. m \in 1 .. n /\ m - 1 \in 0 .. n
  <2>1. m \in 0 .. n
    BY <1>2
  <2>2. PICK x : x \in U
    BY <1>3
  <2>3. x \in 1 .. m
    BY <1>3, <2>2
  <2> HIDE DEF Bad
  <2>4. QED
    BY <2>1, <2>3
<1>5. \A W \in SUBSET (1 .. m - 1) : W # {} => Has(W)
  <2>1. m - 1 \notin Bad
    <3> HIDE DEF Bad
    <3>1. QED
      BY <1>2, <1>4
  <2>2. QED
    BY <1>4, <2>1
<1>6. U \ {m} \in SUBSET (1 .. m - 1)
  <2> HIDE DEF Bad, Has
  <2>1. \A x \in U : x \in 1 .. m
    BY <1>3
  <2>2. \A x \in U : x # m => x \in 1 .. m - 1
    BY <1>4, <2>1
  <2>3. QED
    BY <2>2
<1>7. CASE U \ {m} = {}
  <2>1. m \in U /\ \A j \in U : j = m
    BY <1>3, <1>7
  <2>2. f[m] \in Int
    BY <1>4
  <2>3. Has(U)
    BY <2>1, <2>2
  <2>4. QED
    BY <1>3, <2>3
<1>8. CASE U \ {m} # {}
  <2>1. PICK i \in U \ {m} : \A j \in U \ {m} : f[j] <= f[i]
    BY <1>5, <1>6, <1>8
  <2>2. f[i] \in Int /\ f[m] \in Int /\ \A j \in U : f[j] \in Int
    <3> HIDE DEF Bad, Has
    <3>1. \A j \in U : j \in 1 .. n
      BY <1>3, <1>4
    <3>2. QED
      BY <1>4, <3>1
  <2>3. CASE m \in U /\ f[i] < f[m]
    <3>1. \A j \in U : f[j] <= f[m]
      BY <2>1, <2>2, <2>3
    <3>2. QED
      BY <1>3, <2>3, <3>1
  <2>4. CASE m \notin U \/ f[m] <= f[i]
    <3>1. \A j \in U : f[j] <= f[i]
      BY <2>1, <2>2, <2>4
    <3>2. QED
      BY <1>3, <2>1, <3>1
  <2>5. QED
    BY <2>2, <2>3, <2>4
<1>9. QED
  BY <1>7, <1>8

(* f begins with first and goes on by next. *)
Iterates(f, N, V, first, next) ==
  f \in [0 .. N -> V] /\ f[0] = first /\ \A n \in 1 .. N : f[n] = next[n][f[n - 1]]

LEMMA Recursion ==
  ASSUME NEW N \in Nat, NEW V, NEW first \in V, NEW next \in [1 .. N -> [V -> V]]
  PROVE  \E f : Iterates(f, N, V, first, next)
<1> USE DEF Iterates
<1> DEFINE Bad == {n \in 0 .. N : ~ \E f : Iterates(f, n, V, first, next)}
<1>1. SUFFICES ASSUME Bad # {} PROVE FALSE
  <2>1. N \in 0 .. N /\ N \notin Bad
    BY <1>1
  <2>2. QED
    BY <2>1
<1>2. PICK n \in Bad : \A m \in Bad : n <= m
  <2>1. Bad \subseteq Nat
    OBVIOUS
  <2> HIDE DEF Bad
  <2>2. QED
    BY <1>1, <2>1, Least
<1>3. n # 0
  <2>1. Iterates([i \in 0 .. 0 |-> first], 0, V, first, next)
    OBVIOUS
  <2>2. QED
    BY <2>1
<1>4. PICK g : Iterates(g, n - 1, V, first, next)
  <2>1. n \in 1 .. N
    BY <1>3
  <2>2. n - 1 \notin Bad
    <3> HIDE DEF Bad
    <3>1. QED
      BY <1>2, <2>1
  <2>3. QED
    BY <2>1, <2>2
<1> DEFINE f == [i \in 0 .. n |-> IF i = n THEN next[n][g[n - 1]] ELSE g[i]]
<1>5. f \in [0 .. n -> V]
  BY <1>3, <1>4
<1>6. f[0] = first /\ \A m \in 1 .. n : f[m] = next[m][f[m - 1]]
  BY <1>3, <1>4
<1>7. QED
  BY <1>5, <1>6
-----------------------------------------------------------------------------
(* What the loop holds after each element. *)
KeepsOn(kept, entries, those) ==
  /\ kept[0] = <<>>
  /\ \A n \in 1 .. Len(entries) :
       kept[n] = IF entries[n] \in those THEN Append(kept[n - 1], entries[n]) ELSE kept[n - 1]
  /\ Kept(entries, those) = kept[Len(entries)]

LEMMA KeptSteps ==
  ASSUME NEW S, NEW entries \in Seq(S), NEW those
  PROVE  \E kept \in [0 .. Len(entries) -> Seq(S \cap those)] : KeepsOn(kept, entries, those)
<1> DEFINE V == Seq(S \cap those)
           N == Len(entries)
           Step(n, s) == IF entries[n] \in those THEN Append(s, entries[n]) ELSE s
           kept == CHOOSE f : f = [n \in 0 .. N |-> IF n = 0 THEN <<>> ELSE Step(n, f[n - 1])]
           next == [n \in 1 .. N |-> [s \in V |-> Step(n, s)]]
<1>1. N \in Nat /\ <<>> \in V
  OBVIOUS
<1>2. \A n \in 1 .. N, s \in V : Step(n, s) \in V
  BY AppendProperties
<1>3. Kept(entries, those) = kept[N]
  BY DEF Kept
<1> HIDE DEF V, N, Step
<1>4. next \in [1 .. N -> [V -> V]] /\ \A n \in 1 .. N, s \in V : next[n][s] = Step(n, s)
  BY <1>2
<1>5. PICK f : Iterates(f, N, V, <<>>, next)
  <2> HIDE DEF next
  <2>1. next \in [1 .. N -> [V -> V]]
    BY <1>4
  <2>2. N \in Nat
    BY <1>1
  <2>3. <<>> \in V
    BY <1>1
  <2>4. QED
    BY <2>1, <2>2, <2>3, Recursion
<1>6. f = [n \in 0 .. N |-> IF n = 0 THEN <<>> ELSE Step(n, f[n - 1])]
  <2> HIDE DEF next
  <2>1. \A n \in 1 .. N : n - 1 \in 0 .. N
    BY <1>1
  <2>2. \A n \in 1 .. N : f[n] = Step(n, f[n - 1])
    BY <1>4, <1>5, <2>1 DEF Iterates
  <2>3. \A n \in 0 .. N : n = 0 \/ n \in 1 .. N
    BY <1>1
  <2>4. QED
    BY <1>5, <2>2, <2>3 DEF Iterates
<1>7. kept = [n \in 0 .. N |-> IF n = 0 THEN <<>> ELSE Step(n, kept[n - 1])]
  BY <1>6
<1> HIDE DEF kept
<1>8. kept[0] = <<>> /\ \A n \in 1 .. N : kept[n] = Step(n, kept[n - 1])
  BY <1>1, <1>7
<1>9. \A n \in 0 .. N : kept[n] \in V
  <2> DEFINE Bad == {n \in 0 .. N : kept[n] \notin V}
  <2>1. SUFFICES ASSUME Bad # {} PROVE FALSE
    OBVIOUS
  <2>2. PICK n \in Bad : \A m \in Bad : n <= m
    <3>1. Bad \subseteq Nat
      OBVIOUS
    <3> HIDE DEF Bad
    <3>2. QED
      BY <2>1, <3>1, Least
  <2>3. n # 0
    BY <1>1, <1>8
  <2>4. n \in 1 .. N /\ n - 1 \in 0 .. N
    BY <1>1, <2>3
  <2>5. kept[n - 1] \in V
    BY <2>2, <2>4
  <2>6. QED
    BY <1>2, <1>8, <2>4, <2>5
<1>10. kept \in [0 .. N -> V]
  BY <1>7, <1>9
<1>11. QED
  BY <1>3, <1>8, <1>10 DEF KeepsOn, V, N, Step

(* What is kept was there, and is among those; there is no more of it. *)
LEMMA KeptOnly ==
  ASSUME NEW S, NEW entries \in Seq(S), NEW those
  PROVE  /\ Kept(entries, those) \in Seq(S \cap those)
         /\ Len(Kept(entries, those)) <= Len(entries)
<1> DEFINE N == Len(entries)
           V == Seq(S \cap those)
<1>1. PICK kept \in [0 .. N -> V] : KeepsOn(kept, entries, those)
  BY KeptSteps
<1>2. N \in Nat
  OBVIOUS
<1>3. \A n \in 1 .. N : kept[n] \in V /\ kept[n - 1] \in V /\ Len(kept[n]) <= Len(kept[n - 1]) + 1
  <2> SUFFICES ASSUME NEW n \in 1 .. N
               PROVE  kept[n] \in V /\ kept[n - 1] \in V /\ Len(kept[n]) <= Len(kept[n - 1]) + 1
    OBVIOUS
  <2>1. n \in 0 .. N /\ n - 1 \in 0 .. N
    BY <1>2
  <2>2. kept[n] = IF entries[n] \in those THEN Append(kept[n - 1], entries[n]) ELSE kept[n - 1]
    BY <1>1 DEF KeepsOn
  <2>3. kept[n] \in V /\ kept[n - 1] \in V
    BY <1>1, <2>1
  <2>4. Len(Append(kept[n - 1], entries[n])) = Len(kept[n - 1]) + 1
    BY <2>3
  <2>5. QED
    BY <2>2, <2>3, <2>4
<1>4. \A n \in 0 .. N : Len(kept[n]) <= n
  <2> DEFINE Bad == {n \in 0 .. N : ~(Len(kept[n]) <= n)}
  <2>1. SUFFICES ASSUME Bad # {} PROVE FALSE
    OBVIOUS
  <2>2. PICK n \in Bad : \A m \in Bad : n <= m
    <3>1. Bad \subseteq Nat
      OBVIOUS
    <3> HIDE DEF Bad
    <3>2. QED
      BY <2>1, <3>1, Least
  <2>3. n # 0
    BY <1>1, <1>2 DEF KeepsOn
  <2>4. n \in 1 .. N /\ n - 1 \in 0 .. N /\ n \in Int
    BY <1>2, <2>3
  <2>5. Len(kept[n - 1]) <= n - 1
    BY <2>2, <2>4
  <2>6. Len(kept[n - 1]) \in Nat /\ Len(kept[n]) \in Nat
    BY <1>3, <2>4
  <2>7. QED
    BY <1>3, <2>2, <2>4, <2>5, <2>6
<1>5. N \in 0 .. N
  BY <1>2
<1>6. QED
  BY <1>1, <1>4, <1>5 DEF KeepsOn

Ascending(s) == \A k, l \in DOMAIN s : k < l => s[k] < s[l]
Elements(s)  == {s[k] : k \in DOMAIN s}

(* Of an ascending sequence of numbers an ascending one is left, of all those. *)
LEMMA KeptAscending ==
  ASSUME NEW S, S \subseteq Int, NEW entries \in Seq(S), Ascending(entries), NEW those
  PROVE  /\ Ascending(Kept(entries, those))
         /\ Elements(Kept(entries, those)) = Elements(entries) \cap those
<1> DEFINE N == Len(entries)
           V == Seq(S \cap those)
           Before(n) == {entries[k] : k \in 1 .. n} \cap those
           Right(n, s) == Ascending(s) /\ Elements(s) = Before(n)
<1> USE DEF Elements
<1>1. PICK kept \in [0 .. N -> V] : KeepsOn(kept, entries, those)
  BY KeptSteps
<1>2. N \in Nat /\ DOMAIN entries = 1 .. N /\ \A n \in 1 .. N : entries[n] \in Int
  <2>1. N \in Nat /\ DOMAIN entries = 1 .. N /\ \A n \in 1 .. N : entries[n] \in S
    OBVIOUS
  <2>2. QED
    BY <2>1
<1>3. ASSUME NEW n \in 1 .. N, Right(n - 1, kept[n - 1])
      PROVE  Right(n, kept[n])
  <2> DEFINE s == kept[n - 1]
             e == entries[n]
  <2>1. s \in Seq(S \cap those)
    BY <1>1, <1>2
  <2>2. kept[n] = IF e \in those THEN Append(s, e) ELSE s
    BY <1>1 DEF KeepsOn
  <2>3. 1 .. n = (1 .. n - 1) \cup {n}
    BY <1>2
  <2>4. Ascending(s) /\ {s[k] : k \in DOMAIN s} = Before(n - 1)
    BY <1>3
  <2>5. CASE e \notin those
    <3>1. Before(n) = Before(n - 1)
      BY <2>3, <2>5
    <3>2. QED
      BY <2>2, <2>4, <2>5, <3>1
  <2>6. CASE e \in those
    <3> DEFINE t == Append(s, e)
               L == Len(s)
    <3>1. e \in S \cap those
      BY <2>6
    <3>2. /\ t \in Seq(S \cap those) /\ Len(t) = L + 1 /\ L \in Nat
          /\ \A k \in 1 .. L : t[k] = s[k]
          /\ t[L + 1] = e
      BY <2>1, <3>1, AppendProperties
    <3>3. DOMAIN s = 1 .. L /\ DOMAIN t = 1 .. L + 1
      BY <2>1, <3>2
    <3> HIDE DEF t, L
    <3>4. \A k \in 1 .. L : s[k] < e
      <4> SUFFICES ASSUME NEW k \in 1 .. L
                   PROVE  s[k] < e
        OBVIOUS
      <4>1. s[k] \in Before(n - 1)
        BY <2>4, <3>3
      <4>2. PICK j \in 1 .. n - 1 : s[k] = entries[j]
        BY <4>1
      <4>3. j \in DOMAIN entries /\ n \in DOMAIN entries /\ j < n
        BY <1>2
      <4>4. QED
        BY <4>2, <4>3 DEF Ascending
    <3>5. Ascending(t)
      <4> SUFFICES ASSUME NEW k \in 1 .. L + 1, NEW l \in 1 .. L + 1, k < l
                   PROVE  t[k] < t[l]
        BY <3>3 DEF Ascending
      <4>1. k \in 1 .. L /\ (l \in 1 .. L \/ l = L + 1)
        BY <3>2
      <4>2. QED
        BY <2>4, <3>2, <3>3, <3>4, <4>1 DEF Ascending
    <3>6. {t[k] : k \in DOMAIN t} = {s[k] : k \in DOMAIN s} \cup {e}
      <4>1. 1 .. L + 1 = (1 .. L) \cup {L + 1}
        BY <3>2
      <4>2. {t[k] : k \in DOMAIN t} = {t[k] : k \in 1 .. L} \cup {t[L + 1]}
        BY <3>3, <4>1
      <4>3. {t[k] : k \in 1 .. L} = {s[k] : k \in 1 .. L}
        BY <3>2
      <4>4. QED
        BY <3>2, <3>3, <4>2, <4>3
    <3>7. Before(n) = Before(n - 1) \cup {e}
      BY <2>3, <2>6
    <3>8. kept[n] = t
      BY <2>2, <2>6 DEF t
    <3>9. {t[k] : k \in DOMAIN t} = Before(n)
      <4> HIDE DEF Before
      <4>1. QED
        BY <2>4, <3>6, <3>7
    <3>10. Right(n, t)
      BY <3>5, <3>9
    <3> HIDE DEF Right
    <3>11. QED
      BY <3>8, <3>10
  <2>7. QED
    BY <2>5, <2>6
<1>4. Right(0, kept[0])
  <2>1. kept[0] = <<>> /\ DOMAIN <<>> = {}
    BY <1>1 DEF KeepsOn
  <2>2. QED
    BY <2>1 DEF Ascending
<1> HIDE DEF Right
<1>5. \A n \in 0 .. N : Right(n, kept[n])
  <2> DEFINE Bad == {n \in 0 .. N : ~Right(n, kept[n])}
  <2>1. SUFFICES ASSUME Bad # {} PROVE FALSE
    OBVIOUS
  <2>2. PICK n \in Bad : \A m \in Bad : n <= m
    <3>1. Bad \subseteq Nat
      OBVIOUS
    <3> HIDE DEF Bad
    <3>2. QED
      BY <2>1, <3>1, Least
  <2>3. n \in 1 .. N /\ n - 1 \in 0 .. N /\ n \in Int
    BY <1>2, <1>4
  <2>4. Right(n - 1, kept[n - 1])
    BY <2>2, <2>3
  <2>5. QED
    BY <1>3, <2>3, <2>4
<1>6. Right(N, Kept(entries, those))
  BY <1>1, <1>2, <1>5 DEF KeepsOn
<1>7. QED
  BY <1>2, <1>6 DEF Right
-----------------------------------------------------------------------------
(* Sums (SumFunctionOnSet of the community modules), and the sort by score. *)

(* Of the sets of some kind within a finite one, there is one with none of the *)
(* kind inside it.                                                             *)
LEMMA Smallest ==
  ASSUME NEW D, IsFiniteSet(D), NEW B, B \subseteq SUBSET D, B # {}
  PROVE  \E S \in B : IsFiniteSet(S) /\ \A T \in SUBSET S : T # S => T \notin B
<1> DEFINE C == {Cardinality(S) : S \in B}
<1>1. \A S \in SUBSET D : IsFiniteSet(S) /\ Cardinality(S) \in Nat
  BY FS_Subset, FS_CardinalityType
<1>2. C \subseteq Nat /\ C # {}
  BY <1>1
<1>3. PICK c \in C : \A d \in C : c <= d
  <2> HIDE DEF C
  <2>1. QED
    BY <1>2, Least
<1>4. PICK S \in B : c = Cardinality(S)
  BY <1>3
<1>5. ASSUME NEW T \in SUBSET S, T # S, T \in B PROVE FALSE
  <2>1. Cardinality(T) <= Cardinality(S) /\ Cardinality(T) # Cardinality(S)
    BY <1>1, <1>4, <1>5, FS_Subset
  <2>2. Cardinality(S) <= Cardinality(T)
    BY <1>3, <1>4, <1>5
  <2>3. Cardinality(S) \in Nat /\ Cardinality(T) \in Nat
    BY <1>1, <1>4, <1>5
  <2>4. QED
    BY <2>1, <2>2, <2>3
<1>6. QED
  BY <1>1, <1>4, <1>5

OneOf(s) == CHOOSE x \in s : TRUE

(* What the definition of a sum over S takes its value from. *)
SumsUp(f, S, g) ==
  g = [s \in SUBSET S |-> IF s = {} THEN 0 ELSE f[OneOf(s)] + g[s \ {OneOf(s)}]]

LEMMA SumOf ==
  ASSUME NEW f, NEW S
  PROVE  SumFunctionOnSet(f, S) = (CHOOSE g : SumsUp(f, S, g))[S]
BY DEF SumFunctionOnSet, FoldFunctionOnSet, MapThenFoldSet, SumsUp, OneOf

LEMMA SumsUpOnce ==
  ASSUME NEW f, NEW A, NEW g, SumsUp(f, A, g), NEW B, NEW h, SumsUp(f, B, h),
         NEW S, S \subseteq A, S \subseteq B, IsFiniteSet(S)
  PROVE  g[S] = h[S]
<1> DEFINE Bad == {s \in SUBSET S : g[s] # h[s]}
<1>1. SUFFICES ASSUME Bad # {} PROVE FALSE
  OBVIOUS
<1>2. PICK s \in Bad : \A t \in SUBSET s : t # s => t \notin Bad
  <2>1. Bad \subseteq SUBSET S
    OBVIOUS
  <2> HIDE DEF Bad
  <2>2. QED
    BY <1>1, <2>1, Smallest
<1>3. s \in SUBSET A /\ s \in SUBSET B
  OBVIOUS
<1>4. g[s] = IF s = {} THEN 0 ELSE f[OneOf(s)] + g[s \ {OneOf(s)}]
  BY <1>3 DEF SumsUp
<1>5. h[s] = IF s = {} THEN 0 ELSE f[OneOf(s)] + h[s \ {OneOf(s)}]
  BY <1>3 DEF SumsUp
<1>6. s # {}
  BY <1>4, <1>5
<1>7. OneOf(s) \in s
  BY <1>6 DEF OneOf
<1>8. g[s \ {OneOf(s)}] = h[s \ {OneOf(s)}]
  BY <1>2, <1>7
<1>9. QED
  BY <1>4, <1>5, <1>8

LEMMA SumsUpSome ==
  ASSUME NEW f, NEW D, IsFiniteSet(D)
  PROVE  \E g : SumsUp(f, D, g)
<1> DEFINE Bad == {S \in SUBSET D : ~ \E g : SumsUp(f, S, g)}
           For(S) == CHOOSE g : SumsUp(f, S, g)
<1>1. SUFFICES ASSUME Bad # {} PROVE FALSE
  <2>1. D \notin Bad
    BY <1>1
  <2>2. QED
    BY <2>1
<1>2. PICK S \in Bad : IsFiniteSet(S) /\ \A T \in SUBSET S : T # S => T \notin Bad
  <2>1. Bad \subseteq SUBSET D
    OBVIOUS
  <2> HIDE DEF Bad
  <2>2. QED
    BY <1>1, <2>1, Smallest
<1>3. \A T \in SUBSET S : T # S => SumsUp(f, T, For(T)) /\ IsFiniteSet(T)
  <2> TAKE T \in SUBSET S
  <2>1. IsFiniteSet(T)
    BY <1>2, FS_Subset
  <2>2. T # S => T \in SUBSET D /\ T \notin Bad
    BY <1>2
  <2>3. T # S => \E g : SumsUp(f, T, g)
    BY <2>2
  <2>4. QED
    BY <2>1, <2>3
<1> HIDE DEF For
<1> DEFINE rest(s) == s \ {OneOf(s)}
           g == [s \in SUBSET S |->
                   IF s = S THEN IF S = {} THEN 0 ELSE f[OneOf(S)] + For(rest(S))[rest(S)]
                   ELSE For(s)[s]]
<1>4. ASSUME NEW s \in SUBSET S
      PROVE  g[s] = IF s = {} THEN 0 ELSE f[OneOf(s)] + g[rest(s)]
  <2>1. s # {} => OneOf(s) \in s
    BY DEF OneOf
  <2>2. s # {} => rest(s) \in SUBSET s /\ rest(s) # s /\ rest(s) # S
    BY <2>1
  <2>3. CASE s = S
    BY <2>2, <2>3
  <2>4. CASE s # S
    <3>1. g[s] = For(s)[s]
      BY <2>4
    <3>2. For(s)[s] = IF s = {} THEN 0 ELSE f[OneOf(s)] + For(s)[rest(s)]
      <4>1. SumsUp(f, s, For(s)) /\ s \in SUBSET s
        BY <1>3, <2>4
      <4>2. QED
        BY <4>1 DEF SumsUp
    <3>3. s # {} => For(s)[rest(s)] = For(rest(s))[rest(s)]
      <4> SUFFICES ASSUME s # {} PROVE For(s)[rest(s)] = For(rest(s))[rest(s)]
        OBVIOUS
      <4>1. rest(s) \in SUBSET S /\ rest(s) \in SUBSET s /\ rest(s) # S
        BY <2>2
      <4>2. SumsUp(f, s, For(s)) /\ SumsUp(f, rest(s), For(rest(s))) /\ IsFiniteSet(rest(s))
        BY <1>3, <2>4, <4>1
      <4> HIDE DEF rest
      <4>3. QED
        BY <4>1, <4>2, SumsUpOnce
    <3>4. s # {} => g[rest(s)] = For(rest(s))[rest(s)]
      BY <2>2
    <3> HIDE DEF g, rest
    <3>5. QED
      BY <3>1, <3>2, <3>3, <3>4
  <2>5. QED
    BY <2>3, <2>4
<1>5. SumsUp(f, S, g)
  <2>1. g = [s \in SUBSET S |-> g[s]]
    OBVIOUS
  <2> HIDE DEF g
  <2>2. QED
    BY <1>4, <2>1 DEF SumsUp
<1> HIDE DEF g
<1>6. QED
  BY <1>2, <1>5

(* A sum in two cases. *)
LEMMA SumCases ==
  ASSUME NEW f, NEW S, IsFiniteSet(S)
  PROVE  /\ S = {} => SumFunctionOnSet(f, S) = 0
         /\ S # {} => /\ OneOf(S) \in S
                      /\ SumFunctionOnSet(f, S) =
                           f[OneOf(S)] + SumFunctionOnSet(f, S \ {OneOf(S)})
<1> DEFINE For(T) == CHOOSE g : SumsUp(f, T, g)
           T == S \ {OneOf(S)}
<1>1. SumsUp(f, S, For(S)) /\ SumFunctionOnSet(f, S) = For(S)[S]
  BY SumsUpSome, SumOf
<1>2. IsFiniteSet(T)
  BY FS_Subset
<1>3. SumsUp(f, T, For(T)) /\ SumFunctionOnSet(f, T) = For(T)[T]
  BY <1>2, SumsUpSome, SumOf
<1> HIDE DEF For
<1>4. For(S)[T] = For(T)[T]
  BY <1>1, <1>2, <1>3, SumsUpOnce
<1>5. For(S)[S] = IF S = {} THEN 0 ELSE f[OneOf(S)] + For(S)[T]
  BY <1>1 DEF SumsUp
<1>6. S # {} => OneOf(S) \in S
  BY DEF OneOf
<1>7. QED
  BY <1>1, <1>3, <1>4, <1>5, <1>6

(* A sum of numbers is one, and any of them may be taken out of it. *)
LEMMA SumTakes ==
  ASSUME NEW f, NEW D, IsFiniteSet(D), \A d \in D : f[d] \in Int
  PROVE  /\ SumFunctionOnSet(f, D) \in Int
         /\ \A x \in D : SumFunctionOnSet(f, D) = f[x] + SumFunctionOnSet(f, D \ {x})
<1> DEFINE Sum(S) == SumFunctionOnSet(f, S)
           Right(S) == Sum(S) \in Int /\ \A x \in S : Sum(S) = f[x] + Sum(S \ {x})
           Bad == {S \in SUBSET D : ~Right(S)}
<1> HIDE DEF Sum
<1>1. SUFFICES ASSUME Bad # {} PROVE FALSE
  BY DEF Sum
<1>2. PICK S \in Bad : IsFiniteSet(S) /\ \A T \in SUBSET S : T # S => T \notin Bad
  <2>1. Bad \subseteq SUBSET D
    OBVIOUS
  <2> HIDE DEF Bad
  <2>2. QED
    BY <1>1, <2>1, Smallest
<1>3. \A T \in SUBSET S : T # S => Right(T)
  BY <1>2
<1> DEFINE y == OneOf(S)
<1>4. S # {}
  <2>1. Sum({}) = 0
    BY SumCases, FS_EmptySet DEF Sum
  <2>2. Right({})
    BY <2>1
  <2>3. ~Right(S)
    BY <1>2
  <2> HIDE DEF Right, Bad
  <2>4. QED
    BY <2>2, <2>3
<1>5. y \in S /\ Sum(S) = f[y] + Sum(S \ {y})
  BY <1>2, <1>4, SumCases DEF Sum
<1> HIDE DEF y
<1>6. f[y] \in Int /\ Sum(S \ {y}) \in Int
  BY <1>2, <1>3, <1>5
<1>7. ASSUME NEW x \in S PROVE Sum(S) = f[x] + Sum(S \ {x})
  <2>1. CASE x = y
    BY <1>5, <2>1
  <2>2. CASE x # y
    <3>1. Sum(S \ {y}) = f[x] + Sum((S \ {y}) \ {x})
      BY <1>3, <1>5, <2>2
    <3>2. Sum(S \ {x}) = f[y] + Sum((S \ {x}) \ {y})
      BY <1>3, <1>5, <2>2
    <3>3. (S \ {y}) \ {x} = (S \ {x}) \ {y}
      OBVIOUS
    <3>4. Sum((S \ {x}) \ {y}) \in Int
      <4>1. (S \ {x}) \ {y} \in SUBSET S /\ (S \ {x}) \ {y} # S
        BY <1>5
      <4>2. QED
        BY <1>3, <4>1
    <3>5. f[x] \in Int
      BY <1>2
    <3>6. \A u, v, w \in Int : u + (v + w) = v + (u + w)
      OBVIOUS
    <3>7. f[y] \in Int
      BY <1>6
    <3> DEFINE A == Sum((S \ {x}) \ {y})
    <3>8. Sum(S) = f[y] + (f[x] + A) /\ Sum(S \ {x}) = f[y] + A
      BY <1>5, <3>1, <3>2, <3>3
    <3> HIDE DEF A
    <3>9. A \in Int
      BY <3>4 DEF A
    <3>10. f[y] + (f[x] + A) = f[x] + (f[y] + A)
      BY <3>5, <3>6, <3>7, <3>9
    <3>11. QED
      BY <3>8, <3>10
  <2>3. QED
    BY <2>1, <2>2
<1>8. QED
  BY <1>2, <1>5, <1>6, <1>7

(* Two sums, one no greater than the other at each place. *)
LEMMA SumCompared ==
  ASSUME NEW D, IsFiniteSet(D), NEW f, NEW g, \A d \in D : f[d] \in Int /\ g[d] \in Int,
         NEW a \in Int, NEW b \in Int, \A d \in D : a * f[d] <= b * g[d]
  PROVE  a * SumFunctionOnSet(f, D) <= b * SumFunctionOnSet(g, D)
<1> DEFINE F(S) == SumFunctionOnSet(f, S)
           G(S) == SumFunctionOnSet(g, S)
           Bad == {S \in SUBSET D : ~(a * F(S) <= b * G(S))}
<1>1. SUFFICES ASSUME Bad # {} PROVE FALSE
  OBVIOUS
<1>2. PICK S \in Bad : IsFiniteSet(S) /\ \A T \in SUBSET S : T # S => T \notin Bad
  <2>1. Bad \subseteq SUBSET D
    OBVIOUS
  <2> HIDE DEF Bad
  <2>2. QED
    BY <1>1, <2>1, Smallest
<1>3. S # {}
  <2>1. F({}) = 0 /\ G({}) = 0
    BY SumCases, FS_EmptySet
  <2>2. a * 0 <= b * 0
    OBVIOUS
  <2> HIDE DEF F, G
  <2>3. QED
    BY <1>2, <2>1, <2>2
<1>4. PICK x \in S : TRUE
  BY <1>3
<1> DEFINE T == S \ {x}
<1>5. IsFiniteSet(T) /\ T \in SUBSET S /\ T # S /\ T \in SUBSET D
  BY <1>2, FS_Subset
<1>6. F(S) = f[x] + F(T) /\ G(S) = g[x] + G(T) /\ F(T) \in Int /\ G(T) \in Int
  <2>1. \A d \in S : f[d] \in Int /\ g[d] \in Int
    BY <1>2
  <2>2. \A d \in T : f[d] \in Int /\ g[d] \in Int
    BY <2>1
  <2> HIDE DEF T
  <2>3. QED
    BY <1>2, <1>5, <2>1, <2>2, SumTakes DEF T
<1>7. a * F(T) <= b * G(T)
  BY <1>2, <1>5
<1>8. f[x] \in Int /\ g[x] \in Int /\ a * f[x] <= b * g[x]
  BY <1>2
<1> HIDE DEF F, G, T
<1>9. a * F(S) = a * f[x] + a * F(T) /\ b * G(S) = b * g[x] + b * G(T)
  BY <1>6, <1>8
<1>10. /\ a * f[x] \in Int /\ a * F(T) \in Int
       /\ b * g[x] \in Int /\ b * G(T) \in Int
  BY <1>6, <1>8
<1>11. a * F(S) <= b * G(S)
  BY <1>7, <1>8, <1>9, <1>10
<1>12. QED
  BY <1>2, <1>11

(* A sum looks at nothing but the values at its places. *)
LEMMA SumSame ==
  ASSUME NEW D, IsFiniteSet(D), NEW f, NEW g,
         \A d \in D : f[d] \in Int /\ f[d] = g[d]
  PROVE  SumFunctionOnSet(f, D) = SumFunctionOnSet(g, D)
<1>1. PICK one \in Int : one = 1
  OBVIOUS
<1>2. \A d \in D : g[d] \in Int /\ one * f[d] <= one * g[d] /\ one * g[d] <= one * f[d]
  BY <1>1
<1>3. /\ one * SumFunctionOnSet(f, D) <= one * SumFunctionOnSet(g, D)
      /\ one * SumFunctionOnSet(g, D) <= one * SumFunctionOnSet(f, D)
  BY <1>2, SumCompared
<1>4. SumFunctionOnSet(f, D) \in Int /\ SumFunctionOnSet(g, D) \in Int
  BY <1>2, SumTakes
<1>5. QED
  BY <1>1, <1>3, <1>4

(* A sum of numbers none of which is negative is no less than any of them. *)
LEMMA SumAtLeast ==
  ASSUME NEW D, IsFiniteSet(D), NEW f, \A d \in D : f[d] \in Nat
  PROVE  /\ SumFunctionOnSet(f, D) \in Nat
         /\ \A x \in D : f[x] <= SumFunctionOnSet(f, D)
<1>1. \A T \in SUBSET D : SumFunctionOnSet(f, T) \in Nat
  <2> TAKE T \in SUBSET D
  <2>1. PICK none \in Int, one \in Int : none = 0 /\ one = 1
    OBVIOUS
  <2>2. IsFiniteSet(T) /\ \A d \in T : f[d] \in Int /\ none * f[d] <= one * f[d]
    BY <2>1, FS_Subset
  <2>3. none * SumFunctionOnSet(f, T) <= one * SumFunctionOnSet(f, T)
    BY <2>2, SumCompared
  <2>4. SumFunctionOnSet(f, T) \in Int
    BY <2>2, SumTakes
  <2>5. QED
    BY <2>1, <2>3, <2>4
<1>2. ASSUME NEW x \in D PROVE f[x] <= SumFunctionOnSet(f, D)
  <2>1. SumFunctionOnSet(f, D) = f[x] + SumFunctionOnSet(f, D \ {x})
    BY SumTakes
  <2>2. SumFunctionOnSet(f, D \ {x}) \in Nat /\ f[x] \in Nat
    BY <1>1
  <2>3. QED
    BY <2>1, <2>2
<1>3. QED
  BY <1>1, <1>2

(* Descending lists every place once, the better first and of equals the earlier. *)
Precedes(score, i, j) == score[i] > score[j] \/ (score[i] = score[j] /\ i < j)

LEMMA Sorted ==
  ASSUME NEW n \in Nat, NEW score \in [1 .. n -> Int]
  PROVE  LET d == Descending(score) IN
         /\ d \in [1 .. n -> 1 .. n]
         /\ \A i \in 1 .. n : \E k \in 1 .. n : d[k] = i
         /\ \A k, l \in 1 .. n : k < l => Precedes(score, d[k], d[l])
         /\ \A k, l \in 1 .. n : d[k] = d[l] => k = l
<1> DEFINE I == 1 .. n
           R == 0 .. n - 1
           place == [i \in I |-> Cardinality(Ahead(score, i))]
           d == Descending(score)
<1>1. \A i \in I : score[i] \in Int /\ i \in Int
  OBVIOUS
<1>2. IsFiniteSet(I) /\ IsFiniteSet(R) /\ Cardinality(I) = n /\ Cardinality(R) = n
  <2>1. 1 \in Int /\ 0 \in Int /\ n \in Int /\ n - 1 \in Int
    OBVIOUS
  <2>2. /\ IsFiniteSet(I) /\ IsFiniteSet(R)
        /\ Cardinality(I) = (IF 1 > n THEN 0 ELSE n - 1 + 1)
        /\ Cardinality(R) = (IF 0 > n - 1 THEN 0 ELSE (n - 1) - 0 + 1)
    BY <2>1, FS_Interval
  <2>3. QED
    BY <2>2
<1>3. \A i \in I : /\ Ahead(score, i) \in SUBSET (I \ {i})
                   /\ \A j \in I : j \in Ahead(score, i) <=> Precedes(score, j, i)
  BY <1>1 DEF Ahead, Precedes
<1>4. \A i \in I : IsFiniteSet(Ahead(score, i)) /\ place[i] \in R
  <2> TAKE i \in I
  <2>1. IsFiniteSet(I \ {i}) /\ Cardinality(I \ {i}) = n - 1
    BY <1>2, FS_RemoveElement
  <2>2. IsFiniteSet(Ahead(score, i)) /\ Cardinality(Ahead(score, i)) <= n - 1
    BY <1>3, <2>1, FS_Subset
  <2>3. Cardinality(Ahead(score, i)) \in Nat
    BY <2>2, FS_CardinalityType
  <2>4. QED
    BY <2>2, <2>3
<1>5. \A i, j \in I : Precedes(score, i, j) => place[i] < place[j]
  <2> SUFFICES ASSUME NEW i \in I, NEW j \in I, Precedes(score, i, j)
               PROVE  place[i] < place[j]
    OBVIOUS
  <2>1. \A k \in I : Precedes(score, k, i) => Precedes(score, k, j)
    BY <1>1 DEF Precedes
  <2>2. ~Precedes(score, i, i)
    BY <1>1 DEF Precedes
  <2>3. Ahead(score, i) \in SUBSET Ahead(score, j) /\ Ahead(score, i) # Ahead(score, j)
    BY <1>3, <2>1, <2>2
  <2>4. /\ Cardinality(Ahead(score, i)) <= Cardinality(Ahead(score, j))
        /\ Cardinality(Ahead(score, i)) # Cardinality(Ahead(score, j))
    BY <1>4, <2>3, FS_Subset
  <2>5. place[i] \in Int /\ place[j] \in Int
    BY <1>4
  <2>6. QED
    BY <2>4, <2>5
<1>6. \A i, j \in I : i # j => Precedes(score, i, j) \/ Precedes(score, j, i)
  BY <1>1 DEF Precedes
<1>7. \A i, j \in I : place[i] = place[j] => i = j
  <2> HIDE DEF place
  <2>1. \A i \in I : place[i] \in Int
    BY <1>4
  <2>2. QED
    BY <1>5, <1>6, <2>1
<1>8. \A r \in R : \E i \in I : place[i] = r
  <2>1. place \in [I -> R]
    BY <1>4
  <2> HIDE DEF place
  <2>2. place \in Injection(I, R)
    BY <1>7, <2>1 DEF Injection, IsInjective
  <2>3. place \in Surjection(I, R)
    BY <1>2, <2>2, FS_Injection
  <2>4. QED
    BY <2>3 DEF Surjection
<1>9. \A k \in I : d[k] \in I /\ place[d[k]] = k - 1
  <2> TAKE k \in I
  <2>1. k - 1 \in R
    OBVIOUS
  <2>2. PICK i \in I : place[i] = k - 1
    BY <1>8, <2>1
  <2>3. d[k] = CHOOSE j \in I : Cardinality(Ahead(score, j)) = k - 1
    BY DEF Descending
  <2>4. \E j \in I : Cardinality(Ahead(score, j)) = k - 1
    BY <2>2
  <2>5. d[k] \in I /\ Cardinality(Ahead(score, d[k])) = k - 1
    BY <2>3, <2>4
  <2>6. QED
    BY <2>5
<1>10. d = [k \in I |-> d[k]]
  BY DEF Descending
<1> HIDE DEF place, d
<1>11. d \in [I -> I]
  BY <1>9, <1>10
<1>12. \A i \in I : \E k \in I : d[k] = i
  <2> TAKE i \in I
  <2>1. place[i] + 1 \in I
    BY <1>4
  <2>2. d[place[i] + 1] \in I /\ place[d[place[i] + 1]] = (place[i] + 1) - 1
    BY <1>9, <2>1
  <2>3. place[i] \in Int /\ (place[i] + 1) - 1 = place[i]
    BY <1>4
  <2>4. d[place[i] + 1] = i
    BY <1>7, <2>2, <2>3
  <2>5. QED
    BY <2>1, <2>4
<1>13. ASSUME NEW k \in I, NEW l \in I, k < l PROVE Precedes(score, d[k], d[l])
  <2>1. /\ d[k] \in I /\ d[l] \in I /\ k \in Int /\ l \in Int
        /\ place[d[k]] = k - 1 /\ place[d[l]] = l - 1
    BY <1>9
  <2>2. d[k] # d[l] /\ ~(place[d[l]] < place[d[k]])
    BY <1>13, <2>1
  <2>3. QED
    BY <1>5, <1>6, <2>1, <2>2
<1>14. ASSUME NEW k \in I, NEW l \in I, d[k] = d[l] PROVE k = l
  <2>1. place[d[k]] = k - 1 /\ place[d[l]] = l - 1
    BY <1>9
  <2>2. k - 1 = l - 1
    BY <1>14, <2>1
  <2>3. QED
    BY <2>2
<1>15. QED
  BY <1>11, <1>12, <1>13, <1>14 DEF d

-----------------------------------------------------------------------------
(* A sequence without repetition. *)
Distinct(s) == \A k, l \in DOMAIN s : s[k] = s[l] => k = l

(* Of a sequence without repetition one is left, of all those. *)
LEMMA KeptDistinct ==
  ASSUME NEW S, NEW entries \in Seq(S), Distinct(entries), NEW those
  PROVE  /\ Distinct(Kept(entries, those))
         /\ Elements(Kept(entries, those)) = Elements(entries) \cap those
<1> DEFINE N == Len(entries)
           V == Seq(S \cap those)
           Before(n) == {entries[k] : k \in 1 .. n} \cap those
           Right(n, s) == Distinct(s) /\ Elements(s) = Before(n)
<1> USE DEF Elements
<1>1. PICK kept \in [0 .. N -> V] : KeepsOn(kept, entries, those)
  BY KeptSteps
<1>2. N \in Nat /\ DOMAIN entries = 1 .. N
  OBVIOUS
<1>3. ASSUME NEW n \in 1 .. N, Right(n - 1, kept[n - 1])
      PROVE  Right(n, kept[n])
  <2> DEFINE s == kept[n - 1]
             e == entries[n]
  <2>1. s \in Seq(S \cap those)
    BY <1>1, <1>2
  <2>2. kept[n] = IF e \in those THEN Append(s, e) ELSE s
    BY <1>1 DEF KeepsOn
  <2>3. 1 .. n = (1 .. n - 1) \cup {n}
    BY <1>2
  <2>4. Distinct(s) /\ {s[k] : k \in DOMAIN s} = Before(n - 1)
    BY <1>3
  <2>5. CASE e \notin those
    <3>1. Before(n) = Before(n - 1)
      BY <2>3, <2>5
    <3>2. QED
      BY <2>2, <2>4, <2>5, <3>1
  <2>6. CASE e \in those
    <3> DEFINE t == Append(s, e)
               L == Len(s)
    <3>1. e \in S \cap those
      BY <2>6
    <3>2. /\ t \in Seq(S \cap those) /\ Len(t) = L + 1 /\ L \in Nat
          /\ \A k \in 1 .. L : t[k] = s[k]
          /\ t[L + 1] = e
      BY <2>1, <3>1, AppendProperties
    <3>3. DOMAIN s = 1 .. L /\ DOMAIN t = 1 .. L + 1
      BY <2>1, <3>2
    <3> HIDE DEF t, L
    <3>4. \A k \in 1 .. L : s[k] # e
      <4> SUFFICES ASSUME NEW k \in 1 .. L
                   PROVE  s[k] # e
        OBVIOUS
      <4>1. s[k] \in Before(n - 1)
        BY <2>4, <3>3
      <4>2. PICK j \in 1 .. n - 1 : s[k] = entries[j]
        BY <4>1
      <4>3. j \in DOMAIN entries /\ n \in DOMAIN entries /\ j # n
        BY <1>2
      <4>4. QED
        BY <4>2, <4>3 DEF Distinct
    <3>5. Distinct(t)
      <4> SUFFICES ASSUME NEW k \in 1 .. L + 1, NEW l \in 1 .. L + 1, t[k] = t[l]
                   PROVE  k = l
        BY <3>3 DEF Distinct
      <4>1. (k \in 1 .. L \/ k = L + 1) /\ (l \in 1 .. L \/ l = L + 1)
        BY <3>2
      <4>2. QED
        BY <2>4, <3>2, <3>3, <3>4, <4>1 DEF Distinct
    <3>6. {t[k] : k \in DOMAIN t} = {s[k] : k \in DOMAIN s} \cup {e}
      <4>1. 1 .. L + 1 = (1 .. L) \cup {L + 1}
        BY <3>2
      <4>2. {t[k] : k \in DOMAIN t} = {t[k] : k \in 1 .. L} \cup {t[L + 1]}
        BY <3>3, <4>1
      <4>3. {t[k] : k \in 1 .. L} = {s[k] : k \in 1 .. L}
        BY <3>2
      <4>4. QED
        BY <3>2, <3>3, <4>2, <4>3
    <3>7. Before(n) = Before(n - 1) \cup {e}
      BY <2>3, <2>6
    <3>8. kept[n] = t
      BY <2>2, <2>6 DEF t
    <3>9. {t[k] : k \in DOMAIN t} = Before(n)
      <4> HIDE DEF Before
      <4>1. QED
        BY <2>4, <3>6, <3>7
    <3>10. Right(n, t)
      BY <3>5, <3>9
    <3> HIDE DEF Right
    <3>11. QED
      BY <3>8, <3>10
  <2>7. QED
    BY <2>5, <2>6
<1>4. Right(0, kept[0])
  <2>1. kept[0] = <<>> /\ DOMAIN <<>> = {}
    BY <1>1 DEF KeepsOn
  <2>2. QED
    BY <2>1 DEF Distinct
<1> HIDE DEF Right
<1>5. \A n \in 0 .. N : Right(n, kept[n])
  <2> DEFINE Bad == {n \in 0 .. N : ~Right(n, kept[n])}
  <2>1. SUFFICES ASSUME Bad # {} PROVE FALSE
    OBVIOUS
  <2>2. PICK n \in Bad : \A m \in Bad : n <= m
    <3>1. Bad \subseteq Nat
      OBVIOUS
    <3> HIDE DEF Bad
    <3>2. QED
      BY <2>1, <3>1, Least
  <2>3. n \in 1 .. N /\ n - 1 \in 0 .. N /\ n \in Int
    BY <1>2, <1>4
  <2>4. Right(n - 1, kept[n - 1])
    BY <2>2, <2>3
  <2>5. QED
    BY <1>3, <2>3, <2>4
<1>6. Right(N, Kept(entries, those))
  BY <1>1, <1>2, <1>5 DEF KeepsOn
<1>7. QED
  BY <1>2, <1>6 DEF Right

(* A list without repetition is as long as the set of what is in it. *)
LEMMA AsLong ==
  ASSUME NEW S, NEW s \in Seq(S), Distinct(s)
  PROVE  IsFiniteSet(Elements(s)) /\ Cardinality(Elements(s)) = Len(s)
<1>1. Len(s) \in Nat /\ DOMAIN s = 1 .. Len(s)
  OBVIOUS
<1>2. IsFiniteSet(1 .. Len(s)) /\ Cardinality(1 .. Len(s)) = Len(s)
  <2>1. 1 \in Int /\ Len(s) \in Int
    BY <1>1
  <2>2. QED
    BY <1>1, <2>1, FS_Interval
<1>3. s \in [1 .. Len(s) -> Elements(s)]
  <2>1. s \in [1 .. Len(s) -> S]
    OBVIOUS
  <2>2. \A k \in 1 .. Len(s) : s[k] \in Elements(s)
    BY <1>1 DEF Elements
  <2>3. QED
    BY <2>1, <2>2
<1>4. s \in Bijection(1 .. Len(s), Elements(s))
  BY <1>1, <1>3 DEF Bijection, Injection, Surjection, IsInjective, Distinct, Elements
<1>5. QED
  BY <1>2, <1>4, FS_Bijection DEF ExistsBijection

(* What holds at first and from each place to the next holds everywhere. *)
LEMMA PlaceByPlace ==
  ASSUME NEW N \in Nat, NEW Good, NEW g, g[1] \in Good[1],
         \A n \in 2 .. N : g[n - 1] \in Good[n - 1] => g[n] \in Good[n]
  PROVE  \A n \in 1 .. N : g[n] \in Good[n]
<1> DEFINE Bad == {n \in 1 .. N : g[n] \notin Good[n]}
<1>1. SUFFICES ASSUME Bad # {} PROVE FALSE
  OBVIOUS
<1>2. PICK n \in Bad : \A m \in Bad : n <= m
  <2>1. Bad \subseteq Nat
    OBVIOUS
  <2> HIDE DEF Bad
  <2>2. QED
    BY <1>1, <2>1, Least
<1>3. n \in 2 .. N /\ n - 1 \in 1 .. N /\ n - 1 \notin Bad
  <2>1. n \in 1 .. N /\ n # 1
    OBVIOUS
  <2>2. n \in 2 .. N /\ n - 1 \in 1 .. N /\ ~(n <= n - 1)
    BY <2>1
  <2> HIDE DEF Bad
  <2>3. QED
    BY <1>2, <2>2
<1>4. g[n - 1] \in Good[n - 1]
  BY <1>3
<1>5. QED
  BY <1>3, <1>4

(* A function that goes on from place to place, where that stays within bounds. *)
Keeps(N, V, Good, first, next) ==
  /\ N \in Nat \ {0} /\ first \in Good[1]
  /\ \A n \in 1 .. N : Good[n] \subseteq V
  /\ \A n \in 2 .. N : \A v \in Good[n - 1] : next[n][v] \in Good[n]

From(f, N, V, first, next) ==
  f \in [1 .. N -> V] /\ f[1] = first /\ \A n \in 2 .. N : f[n] = next[n][f[n - 1]]

LEMMA GoesOn ==
  ASSUME NEW N, NEW V, NEW Good, NEW first, NEW next, Keeps(N, V, Good, first, next)
  PROVE  \E f : From(f, N, V, first, next)
<1>0. /\ N \in Nat /\ N >= 1 /\ 1 \in 1 .. N /\ first \in Good[1] /\ first \in V
      /\ \A n \in 1 .. N : Good[n] \subseteq V
      /\ \A n \in 2 .. N : \A v \in Good[n - 1] : next[n][v] \in Good[n]
  <2>1. N \in Nat \ {0} => 1 \in 1 .. N
    OBVIOUS
  <2>2. QED
    BY <2>1 DEF Keeps
<1> DEFINE safe == [n \in 1 .. N |-> [v \in V |-> IF n = 1 THEN first
                                                  ELSE IF v \in Good[n - 1] THEN next[n][v] ELSE v]]
<1>1. safe \in [1 .. N -> [V -> V]]
  <2> SUFFICES ASSUME NEW n \in 1 .. N, NEW v \in V
               PROVE  (IF n = 1 THEN first ELSE IF v \in Good[n - 1] THEN next[n][v] ELSE v) \in V
    OBVIOUS
  <2>1. n = 1 \/ n \in 2 .. N
    BY <1>0
  <2>2. QED
    BY <1>0, <2>1
<1>2. \A n \in 1 .. N : \A v \in V : safe[n][v] = IF n = 1 THEN first
                                         ELSE IF v \in Good[n - 1] THEN next[n][v] ELSE v
  OBVIOUS
<1> HIDE DEF safe
<1>3. PICK g : Iterates(g, N, V, first, safe)
  BY <1>0, <1>1, Recursion
<1>4. g \in [0 .. N -> V] /\ \A n \in 1 .. N : g[n] = safe[n][g[n - 1]]
  BY <1>3 DEF Iterates
<1>5. \A n \in 1 .. N : n \in 0 .. N /\ n - 1 \in 0 .. N /\ g[n] \in V /\ g[n - 1] \in V
  <2>1. \A n \in 1 .. N : n \in 0 .. N /\ n - 1 \in 0 .. N
    BY <1>0
  <2>2. QED
    BY <1>4, <2>1
<1>6. \A n \in 2 .. N : n \in 1 .. N /\ n # 1
  BY <1>0
<1>7. g[1] = first
  BY <1>0, <1>2, <1>4, <1>5
<1>8. \A n \in 2 .. N : g[n - 1] \in Good[n - 1] => g[n] = next[n][g[n - 1]]
  BY <1>2, <1>4, <1>5, <1>6
<1>9. \A n \in 1 .. N : g[n] \in Good[n]
  <2>1. g[1] \in Good[1]
    BY <1>0, <1>7
  <2>2. \A n \in 2 .. N : g[n - 1] \in Good[n - 1] => g[n] \in Good[n]
    BY <1>0, <1>8
  <2>3. QED
    BY <1>0, <2>1, <2>2, PlaceByPlace
<1>10. \A n \in 2 .. N : g[n] = next[n][g[n - 1]]
  <2> SUFFICES ASSUME NEW n \in 2 .. N PROVE g[n] = next[n][g[n - 1]]
    OBVIOUS
  <2>1. n - 1 \in 1 .. N
    BY <1>0
  <2>2. QED
    BY <1>8, <1>9, <2>1
<1> DEFINE f == [n \in 1 .. N |-> g[n]]
<1>11. f \in [1 .. N -> V]
  BY <1>5
<1>12. \A n \in 2 .. N : f[n] = next[n][f[n - 1]]
  <2> SUFFICES ASSUME NEW n \in 2 .. N PROVE f[n] = next[n][f[n - 1]]
    OBVIOUS
  <2>1. n \in 1 .. N /\ n - 1 \in 1 .. N
    BY <1>0
  <2>2. f[n] = g[n] /\ f[n - 1] = g[n - 1]
    BY <2>1
  <2> HIDE DEF f
  <2>3. QED
    BY <1>10, <2>2
<1>13. f[1] = first
  BY <1>0, <1>7
<1>14. QED
  <2> HIDE DEF f
  <2>1. QED
    BY <1>11, <1>12, <1>13 DEF From

(* Two sequences after one another have what both have. *)
LEMMA Joined ==
  ASSUME NEW A, NEW s \in Seq(A), NEW t \in Seq(A)
  PROVE  /\ s \o t \in Seq(A)
         /\ Elements(s \o t) = Elements(s) \cup Elements(t)
         /\ Distinct(s) /\ Distinct(t) /\ Elements(s) \cap Elements(t) = {} => Distinct(s \o t)
<1> DEFINE u == s \o t
           a == Len(s)
           b == Len(t)
<1>1. u \in Seq(A) /\ a \in Nat /\ b \in Nat /\ Len(u) = a + b
  BY ConcatProperties, LenProperties
<1>2. \A k \in 1 .. a + b : u[k] = IF k <= a THEN s[k] ELSE t[k - a]
  BY ConcatProperties
<1>3. DOMAIN s = 1 .. a /\ DOMAIN t = 1 .. b /\ DOMAIN u = 1 .. a + b
  <2> HIDE DEF u
  <2>1. DOMAIN u = 1 .. Len(u)
    BY <1>1
  <2>2. QED
    BY <1>1, <2>1
<1> HIDE DEF u, a, b
<1>4. \A k \in 1 .. a + b : \/ k \in 1 .. a /\ u[k] = s[k]
                            \/ k - a \in 1 .. b /\ u[k] = t[k - a]
  BY <1>1, <1>2
<1>5. \A k \in 1 .. a : k \in 1 .. a + b /\ u[k] = s[k]
  BY <1>1, <1>2
<1>6. \A k \in 1 .. b : k + a \in 1 .. a + b /\ u[k + a] = t[k]
  <2> SUFFICES ASSUME NEW k \in 1 .. b PROVE k + a \in 1 .. a + b /\ u[k + a] = t[k]
    OBVIOUS
  <2>1. k + a \in 1 .. a + b /\ ~(k + a <= a) /\ (k + a) - a = k
    BY <1>1
  <2>2. QED
    BY <1>2, <2>1
<1>7. Elements(u) = Elements(s) \cup Elements(t)
  <2>1. \A x \in Elements(u) : x \in Elements(s) \cup Elements(t)
    BY <1>3, <1>4 DEF Elements
  <2>2. \A x \in Elements(s) \cup Elements(t) : x \in Elements(u)
    BY <1>3, <1>5, <1>6 DEF Elements
  <2>3. QED
    BY <2>1, <2>2
<1>8. ASSUME Distinct(s), Distinct(t), Elements(s) \cap Elements(t) = {}
      PROVE  Distinct(u)
  <2> SUFFICES ASSUME NEW k \in 1 .. a + b, NEW l \in 1 .. a + b, u[k] = u[l] PROVE k = l
    BY <1>3 DEF Distinct
  <2>1. CASE k \in 1 .. a /\ u[k] = s[k] /\ l \in 1 .. a /\ u[l] = s[l]
    BY <1>3, <1>8, <2>1 DEF Distinct
  <2>2. CASE k - a \in 1 .. b /\ u[k] = t[k - a] /\ l - a \in 1 .. b /\ u[l] = t[l - a]
    <3>1. k - a = l - a
      BY <1>3, <1>8, <2>2 DEF Distinct
    <3>2. QED
      BY <1>1, <3>1
  <2>3. CASE \/ k \in 1 .. a /\ u[k] = s[k] /\ l - a \in 1 .. b /\ u[l] = t[l - a]
             \/ l \in 1 .. a /\ u[l] = s[l] /\ k - a \in 1 .. b /\ u[k] = t[k - a]
    <3>1. u[k] \in Elements(s) /\ u[k] \in Elements(t)
      BY <1>3, <2>3 DEF Elements
    <3>2. QED
      BY <1>8, <3>1
  <2>4. QED
    BY <1>4, <2>1, <2>2, <2>3
<1>9. QED
  BY <1>1, <1>7, <1>8 DEF u

(* Sequences of which each has its elements once, and none of another's. *)
Apart(ss, n) ==
  /\ \A k \in 1 .. n : Distinct(ss[k])
  /\ \A k, l \in 1 .. n : k # l => Elements(ss[k]) \cap Elements(ss[l]) = {}
=============================================================================

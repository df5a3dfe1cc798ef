------------------------- MODULE RankerAnswersProofs -------------------------
(*****************************************************************************)
(* What a backend comes to (DecisionProofs) and how it is told: the request, *)
(* the answer and what the client reads of it (RankerAnswers, WireProtocol), *)
(* for any requests, any backends and any opinions of their models.          *)
(*****************************************************************************)
EXTENDS DecisionProofs

-----------------------------------------------------------------------------
(***************************************************************************)
(* Messages: an object of two, three, five or six members.                *)
(***************************************************************************)
(* As many as there are places, when each place has its own. *)
LEMMA Counted ==
  ASSUME NEW n \in Nat, NEW f, \A i, j \in 1 .. n : f[i] = f[j] => i = j,
         NEW S, \A i \in 1 .. n : f[i] \in S, \A x \in S : \E i \in 1 .. n : f[i] = x
  PROVE  IsFiniteSet(S) /\ Ranking!Cardinality(S) = n
<1> DEFINE g == [i \in 1 .. n |-> f[i]]
<1>1. IsFiniteSet(1 .. n) /\ Cardinality(1 .. n) = n
  <2>1. 1 \in Int /\ n \in Int
    OBVIOUS
  <2>2. QED
    BY <2>1, FS_Interval
<1>2. g \in Bijection(1 .. n, S)
  BY DEF Bijection, Injection, Surjection, IsInjective
<1> HIDE DEF g
<1>3. IsFiniteSet(S) /\ Cardinality(S) = n
  BY <1>1, <1>2, FS_Bijection DEF ExistsBijection
<1>4. \A T : Ranking!Cardinality(T) = Cardinality(T)
  BY DEF Cardinality, Ranking!Cardinality
<1>5. QED
  BY <1>3, <1>4

LEMMA MembersFound ==
  ASSUME NEW n \in Nat, NEW ms, DOMAIN ms = 1 .. n, Len(ms) = n,
         \A i, j \in 1 .. n : ms[i][1] = ms[j][1] => i = j
  PROVE  /\ \A k \in 1 .. n : Ranking!Get(Ranking!Object(ms), ms[k][1]) = ms[k][2]
         /\ Ranking!Names(Ranking!Object(ms)) = {ms[k][1] : k \in 1 .. n}
         /\ Ranking!Cardinality(Ranking!Names(Ranking!Object(ms))) = Len(ms)
         /\ Ranking!Object(ms).kind = "object" /\ Ranking!Object(ms).members = ms
<1>1. Ranking!Object(ms).members = ms /\ Ranking!Object(ms).kind = "object"
  BY DEF Ranking!Object
<1> DEFINE f == [i \in 1 .. n |-> ms[i][1]]
<1>2. Ranking!Names(Ranking!Object(ms)) = {f[k] : k \in 1 .. n}
  BY <1>1 DEF Ranking!Names
<1>3. Ranking!Cardinality({f[k] : k \in 1 .. n}) = n
  <2> DEFINE S == {f[k] : k \in 1 .. n}
  <2>1. \A i, j \in 1 .. n : f[i] = f[j] => i = j
    OBVIOUS
  <2>2. (\A i \in 1 .. n : f[i] \in S) /\ \A x \in S : \E i \in 1 .. n : f[i] = x
    OBVIOUS
  <2> HIDE DEF f, S
  <2>3. Ranking!Cardinality(S) = n
    BY <2>1, <2>2, Counted
  <2>4. QED
    BY <2>3 DEF S
<1>4. ASSUME NEW k \in 1 .. n
      PROVE  Ranking!Get(Ranking!Object(ms), ms[k][1]) = ms[k][2]
  <2>1. Ranking!Member(Ranking!Object(ms), ms[k][1]) = k
    BY <1>1 DEF Ranking!Member
  <2>2. QED
    BY <1>1, <2>1 DEF Ranking!Get
<1>5. {f[k] : k \in 1 .. n} = {ms[k][1] : k \in 1 .. n}
  OBVIOUS
<1> HIDE DEF f
<1>6. /\ Ranking!Names(Ranking!Object(ms)) = {ms[k][1] : k \in 1 .. n}
      /\ Ranking!Cardinality(Ranking!Names(Ranking!Object(ms))) = n
  BY <1>2, <1>3, <1>5
<1>7. QED
  BY <1>1, <1>4, <1>6

(* An object of two members, or of three, of different names. *)
HasTwo(o, a, x, b, y) ==
  /\ Ranking!Get(o, a) = x /\ Ranking!Get(o, b) = y
  /\ Ranking!Names(o) = {a, b} /\ o.kind = "object"
  /\ Ranking!MembersInOrder(o, <<a, b>>)
  /\ Ranking!Cardinality(Ranking!Names(o)) = Len(o.members)
  /\ DOMAIN o.members = 1 .. 2
  /\ o.members[1][2] = x /\ o.members[2][2] = y

LEMMA OfTwoMembers ==
  ASSUME NEW a, NEW x, NEW b, NEW y, a # b
  PROVE  HasTwo(Ranking!Object(<< <<a, x>>, <<b, y>> >>), a, x, b, y)
<1> DEFINE ms == << <<a, x>>, <<b, y>> >>
<1>1. /\ DOMAIN ms = 1 .. 2 /\ Len(ms) = 2 /\ 2 \in Nat
      /\ ms[1][1] = a /\ ms[1][2] = x /\ ms[2][1] = b /\ ms[2][2] = y
  OBVIOUS
<1>2. \A i \in 1 .. 2 : i \in {1, 2}
  OBVIOUS
<1>3. 1 \in 1 .. 2 /\ 2 \in 1 .. 2
  OBVIOUS
<1>4. [i \in 1 .. 2 |-> ms[i][1]] = <<a, b>>
  OBVIOUS
<1> HIDE DEF ms
<1>5. \A i, j \in 1 .. 2 : ms[i][1] = ms[j][1] => i = j
  BY <1>1, <1>2
<1>6. /\ \A k \in 1 .. 2 : Ranking!Get(Ranking!Object(ms), ms[k][1]) = ms[k][2]
      /\ Ranking!Names(Ranking!Object(ms)) = {ms[k][1] : k \in 1 .. 2}
      /\ Ranking!Cardinality(Ranking!Names(Ranking!Object(ms))) = Len(ms)
      /\ Ranking!Object(ms).kind = "object" /\ Ranking!Object(ms).members = ms
  BY <1>1, <1>5, MembersFound
<1>7. {ms[k][1] : k \in 1 .. 2} = {a, b}
  BY <1>1, <1>2, <1>3
<1>8. Ranking!MembersInOrder(Ranking!Object(ms), <<a, b>>)
  BY <1>1, <1>4, <1>6 DEF Ranking!MembersInOrder
<1>9. QED
  BY <1>1, <1>3, <1>6, <1>7, <1>8 DEF ms, HasTwo

HasThree(o, a, x, b, y, c, z) ==
  /\ Ranking!Get(o, a) = x /\ Ranking!Get(o, b) = y /\ Ranking!Get(o, c) = z
  /\ Ranking!Names(o) = {a, b, c} /\ o.kind = "object"
  /\ Ranking!MembersInOrder(o, <<a, b, c>>)
  /\ Ranking!Cardinality(Ranking!Names(o)) = Len(o.members)
  /\ DOMAIN o.members = 1 .. 3
  /\ o.members[1][2] = x /\ o.members[2][2] = y /\ o.members[3][2] = z

LEMMA OfThreeMembers ==
  ASSUME NEW a, NEW x, NEW b, NEW y, NEW c, NEW z, a # b, a # c, b # c
  PROVE  HasThree(Ranking!Object(<< <<a, x>>, <<b, y>>, <<c, z>> >>), a, x, b, y, c, z)
<1> DEFINE ms == << <<a, x>>, <<b, y>>, <<c, z>> >>
<1>1. /\ DOMAIN ms = 1 .. 3 /\ Len(ms) = 3 /\ 3 \in Nat
      /\ ms[1][1] = a /\ ms[1][2] = x /\ ms[2][1] = b /\ ms[2][2] = y
      /\ ms[3][1] = c /\ ms[3][2] = z
  OBVIOUS
<1>2. \A i \in 1 .. 3 : i \in {1, 2, 3}
  OBVIOUS
<1>3. 1 \in 1 .. 3 /\ 2 \in 1 .. 3 /\ 3 \in 1 .. 3
  OBVIOUS
<1>4. [i \in 1 .. 3 |-> ms[i][1]] = <<a, b, c>>
  OBVIOUS
<1> HIDE DEF ms
<1>5. \A i, j \in 1 .. 3 : ms[i][1] = ms[j][1] => i = j
  BY <1>1, <1>2
<1>6. /\ \A k \in 1 .. 3 : Ranking!Get(Ranking!Object(ms), ms[k][1]) = ms[k][2]
      /\ Ranking!Names(Ranking!Object(ms)) = {ms[k][1] : k \in 1 .. 3}
      /\ Ranking!Cardinality(Ranking!Names(Ranking!Object(ms))) = Len(ms)
      /\ Ranking!Object(ms).kind = "object" /\ Ranking!Object(ms).members = ms
  BY <1>1, <1>5, MembersFound
<1>7. {ms[k][1] : k \in 1 .. 3} = {a, b, c}
  BY <1>1, <1>2, <1>3
<1>8. Ranking!MembersInOrder(Ranking!Object(ms), <<a, b, c>>)
  BY <1>1, <1>4, <1>6 DEF Ranking!MembersInOrder
<1>9. QED
  BY <1>1, <1>3, <1>6, <1>7, <1>8 DEF ms, HasThree

LEMMA OfFiveMembers ==
  ASSUME NEW v1, NEW v2, NEW v3, NEW v4, NEW v5
  PROVE  LET o == Ranking!Object(<< <<"id", v1>>, <<"preceding_text", v2>>, <<"following_text", v3>>,
                                    <<"read", v4>>, <<"candidates", v5>> >>) IN
         /\ Ranking!Get(o, "id") = v1 /\ Ranking!Get(o, "preceding_text") = v2
         /\ Ranking!Get(o, "following_text") = v3 /\ Ranking!Get(o, "read") = v4
         /\ Ranking!Get(o, "candidates") = v5
         /\ Ranking!Names(o) = {"id", "preceding_text", "following_text", "read", "candidates"}
         /\ o.kind = "object"
         /\ Ranking!Cardinality(Ranking!Names(o)) = Len(o.members)
         /\ DOMAIN o.members = 1 .. 5
         /\ o.members[1][2] = v1 /\ o.members[2][2] = v2 /\ o.members[3][2] = v3
         /\ o.members[4][2] = v4 /\ o.members[5][2] = v5
<1> DEFINE ms == << <<"id", v1>>, <<"preceding_text", v2>>, <<"following_text", v3>>,
                    <<"read", v4>>, <<"candidates", v5>> >>
<1>1. /\ DOMAIN ms = 1 .. 5 /\ Len(ms) = 5 /\ 5 \in Nat
      /\ ms[1][1] = "id" /\ ms[1][2] = v1 /\ ms[2][1] = "preceding_text" /\ ms[2][2] = v2
      /\ ms[3][1] = "following_text" /\ ms[3][2] = v3 /\ ms[4][1] = "read" /\ ms[4][2] = v4
      /\ ms[5][1] = "candidates" /\ ms[5][2] = v5
  OBVIOUS
<1>2. \A i \in 1 .. 5 : i \in {1, 2, 3, 4, 5}
  OBVIOUS
<1>3. 1 \in 1 .. 5 /\ 2 \in 1 .. 5 /\ 3 \in 1 .. 5 /\ 4 \in 1 .. 5 /\ 5 \in 1 .. 5
  OBVIOUS
<1> HIDE DEF ms
<1>5. \A i, j \in 1 .. 5 : ms[i][1] = ms[j][1] => i = j
  BY <1>1, <1>2
<1>6. /\ \A k \in 1 .. 5 : Ranking!Get(Ranking!Object(ms), ms[k][1]) = ms[k][2]
      /\ Ranking!Names(Ranking!Object(ms)) = {ms[k][1] : k \in 1 .. 5}
      /\ Ranking!Cardinality(Ranking!Names(Ranking!Object(ms))) = Len(ms)
      /\ Ranking!Object(ms).kind = "object" /\ Ranking!Object(ms).members = ms
  BY <1>1, <1>5, MembersFound
<1>7. {ms[k][1] : k \in 1 .. 5} = {"id", "preceding_text", "following_text", "read", "candidates"}
  BY <1>1, <1>2, <1>3
<1>9. QED
  BY <1>1, <1>3, <1>6, <1>7 DEF ms

LEMMA OfSixMembers ==
  ASSUME NEW v1, NEW v2, NEW v3, NEW v4, NEW v5, NEW v6
  PROVE  LET o == Ranking!Object(<< <<"request_id", v1>>, <<"inference_trigger", v2>>,
                    <<"preceding_text", v3>>, <<"following_text", v4>>,
                    <<"read", v5>>, <<"candidates", v6>> >>) IN
         /\ Ranking!Get(o, "request_id") = v1 /\ Ranking!Get(o, "inference_trigger") = v2
         /\ Ranking!Get(o, "preceding_text") = v3 /\ Ranking!Get(o, "following_text") = v4
         /\ Ranking!Get(o, "read") = v5 /\ Ranking!Get(o, "candidates") = v6
         /\ Ranking!Names(o) = {"request_id", "inference_trigger", "preceding_text",
                                "following_text", "read", "candidates"}
         /\ o.kind = "object"
         /\ Ranking!Cardinality(Ranking!Names(o)) = Len(o.members)
         /\ DOMAIN o.members = 1 .. 6
         /\ o.members[1][2] = v1 /\ o.members[2][2] = v2 /\ o.members[3][2] = v3
         /\ o.members[4][2] = v4 /\ o.members[5][2] = v5 /\ o.members[6][2] = v6
<1> DEFINE ms == << <<"request_id", v1>>, <<"inference_trigger", v2>>,
                    <<"preceding_text", v3>>, <<"following_text", v4>>,
                    <<"read", v5>>, <<"candidates", v6>> >>
<1>1. /\ DOMAIN ms = 1 .. 6 /\ Len(ms) = 6 /\ 6 \in Nat
      /\ ms[1][1] = "request_id" /\ ms[1][2] = v1 /\ ms[2][1] = "inference_trigger" /\ ms[2][2] = v2
      /\ ms[3][1] = "preceding_text" /\ ms[3][2] = v3 /\ ms[4][1] = "following_text" /\ ms[4][2] = v4
      /\ ms[5][1] = "read" /\ ms[5][2] = v5 /\ ms[6][1] = "candidates" /\ ms[6][2] = v6
  OBVIOUS
<1>2. \A i \in 1 .. 6 : i \in {1, 2, 3, 4, 5, 6}
  OBVIOUS
<1>3. 1 \in 1 .. 6 /\ 2 \in 1 .. 6 /\ 3 \in 1 .. 6 /\ 4 \in 1 .. 6 /\ 5 \in 1 .. 6 /\ 6 \in 1 .. 6
  OBVIOUS
<1> HIDE DEF ms
<1>5. \A i, j \in 1 .. 6 : ms[i][1] = ms[j][1] => i = j
  BY <1>1, <1>2
<1>6. /\ \A k \in 1 .. 6 : Ranking!Get(Ranking!Object(ms), ms[k][1]) = ms[k][2]
      /\ Ranking!Names(Ranking!Object(ms)) = {ms[k][1] : k \in 1 .. 6}
      /\ Ranking!Cardinality(Ranking!Names(Ranking!Object(ms))) = Len(ms)
      /\ Ranking!Object(ms).kind = "object" /\ Ranking!Object(ms).members = ms
  BY <1>1, <1>5, MembersFound
<1>7. {ms[k][1] : k \in 1 .. 6} = {"request_id", "inference_trigger", "preceding_text",
                                "following_text", "read", "candidates"}
  BY <1>1, <1>2, <1>3
<1>9. QED
  BY <1>1, <1>3, <1>6, <1>7 DEF ms

-----------------------------------------------------------------------------
(* What Strict asks of a value, and of what is inside it, the innermost first. *)
Allowed(v, Inside(_)) ==
  /\ v.kind = "object" => /\ Ranking!Cardinality(Ranking!Names(v)) = Len(v.members)
                          /\ \A i \in DOMAIN v.members : Inside(v.members[i][2])
  /\ v.kind = "array" => \A i \in DOMAIN v.items : Inside(v.items[i])
  /\ v.kind = "number" => v.finite
Level0(v) == Allowed(v, LAMBDA w : FALSE)
Level1(v) == Allowed(v, Level0)
Level2(v) == Allowed(v, Level1)
Level3(v) == Allowed(v, Level2)
Level4(v) == Allowed(v, Level3)
Level5(v) == Allowed(v, Level4)

LEMMA StrictByLevels ==
  ASSUME NEW v PROVE Ranking!Strict(v) <=> Level5(v)
BY DEF Ranking!Strict, Allowed, Level0, Level1, Level2, Level3, Level4, Level5

(* A string and a number are fine anywhere. *)
Leaf(v) == v.kind = "string" \/ (v.kind = "number" /\ v.finite)

LEMMA LeavesAllowed ==
  ASSUME NEW v, Leaf(v)
  PROVE  Level0(v) /\ Level1(v) /\ Level2(v) /\ Level3(v) /\ Level4(v)
BY DEF Leaf, Allowed, Level0, Level1, Level2, Level3, Level4

LEMMA LeafKinds ==
  /\ \A t : Leaf(Ranking!String(t))
  /\ \A n : Leaf(Ranking!Number(n))
BY DEF Leaf, Ranking!String, Ranking!Number

LEMMA WrittenAllowed ==
  ASSUME NEW cs
  PROVE  LET w == Ranking!CandidatesWritten(cs) IN Level2(w) /\ Level4(w)
<1> DEFINE o(i) == Ranking!Object(<< <<"id", Ranking!String(cs[i].id)>>, <<"text", Ranking!String(cs[i].value)>>,
                     <<"rank", Ranking!Number(cs[i].original_rank)>> >>)
           w == Ranking!CandidatesWritten(cs)
<1>1. w = Ranking!Array([i \in DOMAIN cs |-> o(i)])
  BY DEF Ranking!CandidatesWritten
<1>2. ASSUME NEW i \in DOMAIN cs PROVE Level1(o(i)) /\ Level3(o(i))
  <2>1. /\ o(i).kind = "object"
        /\ Ranking!Cardinality(Ranking!Names(o(i))) = Len(o(i).members)
        /\ DOMAIN o(i).members = 1 .. 3
        /\ o(i).members[1][2] = Ranking!String(cs[i].id)
        /\ o(i).members[2][2] = Ranking!String(cs[i].value)
        /\ o(i).members[3][2] = Ranking!Number(cs[i].original_rank)
    <3>1. HasThree(o(i), "id", Ranking!String(cs[i].id), "text", Ranking!String(cs[i].value),
                   "rank", Ranking!Number(cs[i].original_rank))
      BY OfThreeMembers
    <3>2. QED
      BY <3>1 DEF HasThree
  <2> HIDE DEF o
  <2>2. \A k \in 1 .. 3 : k \in {1, 2, 3}
    OBVIOUS
  <2>3. \A k \in DOMAIN o(i).members : Leaf(o(i).members[k][2])
    BY <2>1, <2>2, LeafKinds
  <2>4. \A k \in DOMAIN o(i).members : Level0(o(i).members[k][2]) /\ Level2(o(i).members[k][2])
    BY <2>3, LeavesAllowed
  <2>5. QED
    BY <2>1, <2>4 DEF Allowed, Level1, Level3
<1> HIDE DEF o, w
<1>3. w.kind = "array" /\ w.items = [i \in DOMAIN cs |-> o(i)]
  BY <1>1 DEF Ranking!Array
<1>4. \A i \in DOMAIN w.items : Level1(w.items[i]) /\ Level3(w.items[i])
  BY <1>2, <1>3
<1>5. QED
  BY <1>3, <1>4 DEF w, Allowed, Level2, Level4

LEMMA RankStrict ==
  ASSUME NEW id, NEW s
  PROVE  Ranking!Strict(Ranking!RankPayload(id, s))
<1> DEFINE p == Ranking!RankPayload(id, s)
<1>1. /\ p.kind = "object"
      /\ Ranking!Cardinality(Ranking!Names(p)) = Len(p.members)
      /\ DOMAIN p.members = 1 .. 6
      /\ p.members[1][2] = Ranking!String(id) /\ p.members[2][2] = Ranking!String("explicit")
      /\ p.members[3][2] = Ranking!String(s.preceding) /\ p.members[4][2] = Ranking!String(s.following)
      /\ p.members[5][2] = Ranking!String(s.reading)
      /\ p.members[6][2] = Ranking!CandidatesWritten(s.candidates)
  BY OfSixMembers DEF Ranking!RankPayload
<1> HIDE DEF p
<1>2. \A k \in 1 .. 6 : k \in {1, 2, 3, 4, 5, 6}
  OBVIOUS
<1>3. \A k \in {1, 2, 3, 4, 5} : Level4(p.members[k][2])
  BY <1>1, LeafKinds, LeavesAllowed
<1>4. Level4(p.members[6][2])
  BY <1>1, WrittenAllowed
<1>5. \A k \in DOMAIN p.members : Level4(p.members[k][2])
  BY <1>1, <1>2, <1>3, <1>4
<1>6. Level5(p)
  BY <1>1, <1>5 DEF Allowed, Level5
<1>7. QED
  BY <1>6, StrictByLevels DEF p

(* A segment of a batch, as it is written. *)
SegmentWritten(s) ==
  Ranking!Object(<< <<"id", Ranking!String(s.id)>>,
                    <<"preceding_text", Ranking!String(s.preceding)>>,
                    <<"following_text", Ranking!String(s.following)>>,
                    <<"read", Ranking!String(s.reading)>>,
                    <<"candidates", Ranking!CandidatesWritten(s.candidates)>> >>)

LEMMA BatchStrict ==
  ASSUME NEW id, NEW why, NEW ss
  PROVE  Ranking!Strict(Ranking!BuildBatchPayload(id, why, ss))
<1> DEFINE p == Ranking!BuildBatchPayload(id, why, ss)
           a == Ranking!Array([i \in DOMAIN ss |-> SegmentWritten(ss[i])])
<1>1. ASSUME NEW i \in DOMAIN ss PROVE Level3(SegmentWritten(ss[i]))
  <2> DEFINE o == SegmentWritten(ss[i])
  <2>1. /\ o.kind = "object"
        /\ Ranking!Cardinality(Ranking!Names(o)) = Len(o.members)
        /\ DOMAIN o.members = 1 .. 5
        /\ o.members[1][2] = Ranking!String(ss[i].id) /\ o.members[2][2] = Ranking!String(ss[i].preceding)
        /\ o.members[3][2] = Ranking!String(ss[i].following) /\ o.members[4][2] = Ranking!String(ss[i].reading)
        /\ o.members[5][2] = Ranking!CandidatesWritten(ss[i].candidates)
    BY OfFiveMembers DEF SegmentWritten
  <2> HIDE DEF o
  <2>2. \A k \in 1 .. 5 : k \in {1, 2, 3, 4, 5}
    OBVIOUS
  <2>3. \A k \in {1, 2, 3, 4} : Level2(o.members[k][2])
    BY <2>1, LeafKinds, LeavesAllowed
  <2>4. Level2(o.members[5][2])
    BY <2>1, WrittenAllowed
  <2>5. \A k \in DOMAIN o.members : Level2(o.members[k][2])
    BY <2>1, <2>2, <2>3, <2>4
  <2>6. QED
    BY <2>1, <2>5 DEF o, Allowed, Level3
<1>2. Level4(a)
  <2>1. a.kind = "array" /\ a.items = [i \in DOMAIN ss |-> SegmentWritten(ss[i])]
    BY DEF Ranking!Array
  <2> HIDE DEF a
  <2>2. QED
    BY <1>1, <2>1 DEF Allowed, Level4
<1>3. /\ p.kind = "object"
      /\ Ranking!Cardinality(Ranking!Names(p)) = Len(p.members)
      /\ DOMAIN p.members = 1 .. 3
      /\ p.members[1][2] = Ranking!String(id) /\ p.members[2][2] = Ranking!String(why)
      /\ p.members[3][2] = a
  <2>1. p = Ranking!Object(<< <<"request_id", Ranking!String(id)>>, <<"inference_trigger", Ranking!String(why)>>,
                              <<"segments", a>> >>)
    BY DEF Ranking!BuildBatchPayload, SegmentWritten
  <2> HIDE DEF p, a
  <2>2. HasThree(p, "request_id", Ranking!String(id), "inference_trigger", Ranking!String(why), "segments", a)
    BY <2>1, OfThreeMembers
  <2>3. QED
    BY <2>2 DEF HasThree
<1> HIDE DEF p, a
<1>4. \A k \in 1 .. 3 : k \in {1, 2, 3}
  OBVIOUS
<1>5. Level4(p.members[1][2]) /\ Level4(p.members[2][2]) /\ Level4(p.members[3][2])
  BY <1>2, <1>3, LeafKinds, LeavesAllowed
<1>6. \A k \in DOMAIN p.members : Level4(p.members[k][2])
  BY <1>3, <1>4, <1>5
<1>7. Level5(p)
  BY <1>3, <1>6 DEF Allowed, Level5
<1>8. QED
  BY <1>7, StrictByLevels DEF p

-----------------------------------------------------------------------------
(* What the client sends, the server takes. *)
(* Candidates the client sends are candidates the server takes. *)
LEMMA CandidatesRead ==
  ASSUME NEW n \in Nat, NEW cs, DOMAIN cs = 1 .. n, Len(cs) = n, NEW max,
         Ranking!CandidatesSendable(cs, max)
  PROVE  LET w == Ranking!CandidatesWritten(cs) IN
         /\ Ranking!CandidatesValid(w, max)
         /\ \A i \in 1 .. n : cs[i].id \in Ranking!IdsIn(w)
         /\ \A x \in Ranking!IdsIn(w) : \E i \in 1 .. n : cs[i].id = x
<1> DEFINE o(i) == Ranking!Object(<< <<"id", Ranking!String(cs[i].id)>>, <<"text", Ranking!String(cs[i].value)>>,
                     <<"rank", Ranking!Number(cs[i].original_rank)>> >>)
           w == Ranking!CandidatesWritten(cs)
<1>1. w.kind = "array" /\ w.items = [i \in 1 .. n |-> o(i)]
  BY DEF Ranking!CandidatesWritten, Ranking!Array
<1>2. ASSUME NEW i \in 1 .. n
      PROVE  HasThree(o(i), "id", Ranking!String(cs[i].id), "text", Ranking!String(cs[i].value),
                      "rank", Ranking!Number(cs[i].original_rank))
  BY OfThreeMembers
<1> HIDE DEF o, w
<1>3. Len(w.items) = n /\ DOMAIN w.items = 1 .. n /\ \A i \in 1 .. n : w.items[i] = o(i)
  BY <1>1
<1>4. \A i \in 1 .. n :
        /\ Ranking!SafeId(cs[i].id) /\ Ranking!Sendable(cs[i].value, MAX_CANDIDATE_TEXT)
        /\ cs[i].original_rank = i
        /\ \A j \in 1 .. i - 1 : cs[j].id # cs[i].id
  BY DEF Ranking!CandidatesSendable
<1>5. \A s, t : Ranking!String(s) = Ranking!String(t) => s = t
  BY DEF Ranking!String
<1>6. ASSUME NEW i \in 1 .. n
      PROVE  /\ Ranking!Is(o(i), "object") /\ Ranking!Names(o(i)) = {"id", "text", "rank"}
             /\ Ranking!IsId(Ranking!Get(o(i), "id"), MAX_ID)
             /\ Ranking!IsString(Ranking!Get(o(i), "text"), MAX_CANDIDATE_TEXT)
             /\ Ranking!IsRank(Ranking!Get(o(i), "rank"), i)
             /\ Ranking!Get(o(i), "id").text = cs[i].id
             /\ \A j \in 1 .. i - 1 : Ranking!Get(o(j), "id") # Ranking!Get(o(i), "id")
  <2>1. /\ o(i).kind = "object" /\ Ranking!Names(o(i)) = {"id", "text", "rank"}
        /\ \A j \in 1 .. n : Ranking!Get(o(j), "id") = Ranking!String(cs[j].id)
        /\ Ranking!Get(o(i), "text") = Ranking!String(cs[i].value)
        /\ Ranking!Get(o(i), "rank") = Ranking!Number(cs[i].original_rank)
    BY <1>2 DEF HasThree
  <2>2. Ranking!IsId(Ranking!String(cs[i].id), MAX_ID)
    BY <1>4 DEF Ranking!IsId, Ranking!IsString, Ranking!Is, Ranking!String, Ranking!SafeId
  <2>3. Ranking!IsString(Ranking!String(cs[i].value), MAX_CANDIDATE_TEXT)
    BY <1>4 DEF Ranking!IsString, Ranking!Is, Ranking!String, Ranking!Sendable
  <2>4. Ranking!IsRank(Ranking!Number(cs[i].original_rank), i)
    BY <1>4 DEF Ranking!IsRank, Ranking!Is, Ranking!Number
  <2>5. \A j \in 1 .. i - 1 : j \in 1 .. n
    OBVIOUS
  <2>6. \A j \in 1 .. i - 1 : Ranking!Get(o(j), "id") # Ranking!Get(o(i), "id")
    BY <1>4, <1>5, <2>1, <2>5
  <2>7. Ranking!Get(o(i), "id").text = cs[i].id
    BY <2>1 DEF Ranking!String
  <2>8. Ranking!Is(o(i), "object")
    BY <2>1 DEF Ranking!Is
  <2>9. QED
    BY <2>1, <2>2, <2>3, <2>4, <2>6, <2>7, <2>8
<1>7. n \in 1 .. max
  BY DEF Ranking!CandidatesSendable
<1>8. Ranking!CandidatesValid(w, max)
  <2>1. \A i \in 1 .. n : \A j \in 1 .. i - 1 : w.items[j] = o(j)
    BY <1>3
  <2>2. QED
    BY <1>1, <1>3, <1>6, <1>7, <2>1 DEF Ranking!CandidatesValid, Ranking!Is
<1>9. \A i \in 1 .. n : Ranking!Get(w.items[i], "id").text = cs[i].id
  BY <1>3, <1>6
<1>10. Ranking!IdsIn(w) = {Ranking!Get(w.items[i], "id").text : i \in 1 .. n}
  BY <1>3 DEF Ranking!IdsIn
<1>11. QED
  BY <1>8, <1>9, <1>10 DEF w

LEMMA RankPayloadValid ==
  ASSUME NEW s, NEW n \in Nat, DOMAIN s.candidates = 1 .. n, Len(s.candidates) = n,
         Ranking!Sendable(s.preceding, MAX_TEXT), Ranking!Sendable(s.following, MAX_TEXT),
         Ranking!Sendable(s.reading, MAX_READ),
         Ranking!CandidatesSendable(s.candidates, MAX_CANDIDATES)
  PROVE  LET p == Ranking!RankPayload("mozc-1", s) IN
         /\ Ranking!validate_request(p)
         /\ Ranking!Get(p, "request_id") = Ranking!String("mozc-1")
         /\ Ranking!Get(p, "candidates") = Ranking!CandidatesWritten(s.candidates)
<1> DEFINE p == Ranking!RankPayload("mozc-1", s)
<1>1. /\ p.kind = "object"
      /\ Ranking!Get(p, "request_id") = Ranking!String("mozc-1")
      /\ Ranking!Get(p, "inference_trigger") = Ranking!String("explicit")
      /\ Ranking!Get(p, "preceding_text") = Ranking!String(s.preceding)
      /\ Ranking!Get(p, "following_text") = Ranking!String(s.following)
      /\ Ranking!Get(p, "read") = Ranking!String(s.reading)
      /\ Ranking!Get(p, "candidates") = Ranking!CandidatesWritten(s.candidates)
      /\ Ranking!Names(p) = {"request_id", "inference_trigger", "preceding_text",
                             "following_text", "read", "candidates"}
  BY OfSixMembers DEF Ranking!RankPayload
<1> HIDE DEF p
<1>2. Ranking!IsId(Ranking!String("mozc-1"), MAX_ID)
  BY AnswersAssumption DEF Ranking!IsId, Ranking!IsString, Ranking!Is, Ranking!String
<1>3. Ranking!IsTrigger(Ranking!String("explicit"))
  BY DEF Ranking!IsTrigger, Ranking!Triggers, Ranking!Is, Ranking!String
<1>4. \A t, m : Ranking!Sendable(t, m) => Ranking!IsString(Ranking!String(t), m)
  BY DEF Ranking!Sendable, Ranking!IsString, Ranking!Is, Ranking!String
<1>5. Ranking!CandidatesValid(Ranking!CandidatesWritten(s.candidates), MAX_CANDIDATES)
  BY CandidatesRead
<1>6. \A name \in {"preceding_text", "following_text"} \cap Ranking!Names(p) :
        Ranking!IsString(Ranking!Get(p, name), MAX_TEXT)
  BY <1>1, <1>4
<1>7. Ranking!validate_request(p)
  BY <1>1, <1>2, <1>3, <1>4, <1>5, <1>6 DEF Ranking!validate_request, Ranking!Is
<1>8. QED
  BY <1>1, <1>7 DEF p

LEMMA SegmentRead ==
  ASSUME NEW s, NEW n \in Nat, DOMAIN s.candidates = 1 .. n, Len(s.candidates) = n,
         Ranking!SegmentSendable(s), Len(s.id) <= MAX_SEGMENT_ID,
         Ranking!CandidatesSendable(s.candidates, MAX_CANDIDATES_PER_SEGMENT)
  PROVE  /\ Ranking!SegmentValid(SegmentWritten(s))
         /\ Ranking!Get(SegmentWritten(s), "id") = Ranking!String(s.id)
         /\ Ranking!Get(SegmentWritten(s), "candidates") = Ranking!CandidatesWritten(s.candidates)
<1> DEFINE o == SegmentWritten(s)
<1>1. /\ Ranking!Get(o, "id") = Ranking!String(s.id)
      /\ Ranking!Get(o, "preceding_text") = Ranking!String(s.preceding)
      /\ Ranking!Get(o, "following_text") = Ranking!String(s.following)
      /\ Ranking!Get(o, "read") = Ranking!String(s.reading)
      /\ Ranking!Get(o, "candidates") = Ranking!CandidatesWritten(s.candidates)
      /\ Ranking!Names(o) = {"id", "preceding_text", "following_text", "read", "candidates"}
      /\ o.kind = "object"
  BY OfFiveMembers DEF SegmentWritten
<1> HIDE DEF o
<1>2. Ranking!IsId(Ranking!String(s.id), MAX_SEGMENT_ID)
  BY DEF Ranking!IsId, Ranking!IsString, Ranking!Is, Ranking!String, Ranking!SegmentSendable, Ranking!SafeId
<1>3. /\ Ranking!IsString(Ranking!String(s.preceding), MAX_TEXT)
      /\ Ranking!IsString(Ranking!String(s.following), MAX_TEXT)
      /\ Ranking!IsString(Ranking!String(s.reading), MAX_READ)
  BY DEF Ranking!IsString, Ranking!Is, Ranking!String, Ranking!SegmentSendable, Ranking!Sendable
<1>4. Ranking!CandidatesValid(Ranking!CandidatesWritten(s.candidates), MAX_CANDIDATES_PER_SEGMENT)
  BY CandidatesRead
<1>5. Ranking!SegmentValid(o)
  BY <1>1, <1>2, <1>3, <1>4 DEF Ranking!SegmentValid, Ranking!Is
<1>6. QED
  BY <1>1, <1>5 DEF o

LEMMA BatchPayloadValid ==
  ASSUME NEW m \in Nat, NEW ss, DOMAIN ss = 1 .. m, Len(ss) = m, NEW why \in Ranking!Triggers,
         \A i \in 1 .. m : \E n \in Nat : DOMAIN ss[i].candidates = 1 .. n /\ Len(ss[i].candidates) = n,
         \A i \in 1 .. m : Len(ss[i].id) <= MAX_SEGMENT_ID,
         Ranking!BatchBuilds(ss)
  PROVE  LET p == Ranking!BuildBatchPayload("mozc-1", why, ss)
             items == Ranking!Get(p, "segments").items
         IN
         /\ Ranking!validate_batch_request(p)
         /\ Ranking!Get(p, "request_id") = Ranking!String("mozc-1")
         /\ items = [i \in 1 .. m |-> SegmentWritten(ss[i])]
<1> DEFINE p == Ranking!BuildBatchPayload("mozc-1", why, ss)
           a == Ranking!Array([i \in DOMAIN ss |-> SegmentWritten(ss[i])])
<1>1. /\ p.kind = "object"
      /\ Ranking!Names(p) = {"request_id", "inference_trigger", "segments"}
      /\ Ranking!Get(p, "request_id") = Ranking!String("mozc-1")
      /\ Ranking!Get(p, "inference_trigger") = Ranking!String(why)
      /\ Ranking!Get(p, "segments") = a
  <2>1. p = Ranking!Object(<< <<"request_id", Ranking!String("mozc-1")>>, <<"inference_trigger", Ranking!String(why)>>,
                              <<"segments", a>> >>)
    BY DEF Ranking!BuildBatchPayload, SegmentWritten
  <2> HIDE DEF p, a
  <2>2. HasThree(p, "request_id", Ranking!String("mozc-1"), "inference_trigger", Ranking!String(why), "segments", a)
    BY <2>1, OfThreeMembers
  <2>3. QED
    BY <2>2 DEF HasThree
<1>2. a.kind = "array" /\ a.items = [i \in 1 .. m |-> SegmentWritten(ss[i])]
  BY DEF Ranking!Array
<1> HIDE DEF p, a
<1>3. Len(a.items) = m /\ DOMAIN a.items = 1 .. m /\ \A i \in 1 .. m : a.items[i] = SegmentWritten(ss[i])
  BY <1>2
<1>4. \A i \in 1 .. m :
        /\ Ranking!SegmentSendable(ss[i])
        /\ Ranking!CandidatesSendable(ss[i].candidates, MAX_CANDIDATES_PER_SEGMENT)
        /\ \A j \in 1 .. i - 1 : ss[j].id # ss[i].id
  BY DEF Ranking!BatchBuilds
<1>5. m \in 1 .. MAX_SEGMENTS
  BY DEF Ranking!BatchBuilds
<1>6. \A i \in 1 .. m : /\ Ranking!SegmentValid(SegmentWritten(ss[i]))
                        /\ Ranking!Get(SegmentWritten(ss[i]), "id") = Ranking!String(ss[i].id)
  BY <1>4, SegmentRead
<1>7. \A s, t : Ranking!String(s) = Ranking!String(t) => s = t
  BY DEF Ranking!String
<1>8. \A i \in 1 .. m : \A j \in 1 .. i - 1 :
        Ranking!Get(a.items[j], "id") # Ranking!Get(a.items[i], "id")
  <2> TAKE i \in 1 .. m
  <2> TAKE j \in 1 .. i - 1
  <2>1. j \in 1 .. m
    OBVIOUS
  <2>2. QED
    BY <1>3, <1>4, <1>6, <1>7, <2>1
<1>9. Ranking!IsId(Ranking!String("mozc-1"), MAX_ID)
  BY AnswersAssumption DEF Ranking!IsId, Ranking!IsString, Ranking!Is, Ranking!String
<1>10. Ranking!IsTrigger(Ranking!String(why))
  BY DEF Ranking!IsTrigger, Ranking!Is, Ranking!String
<1>11. Ranking!validate_batch_request(p)
  <2>1. Ranking!Is(p, "object") /\ Ranking!Is(a, "array")
    BY <1>1, <1>2 DEF Ranking!Is
  <2>2. Len(a.items) \in 1 .. MAX_SEGMENTS /\ \A i \in DOMAIN a.items : Ranking!SegmentValid(a.items[i])
    BY <1>3, <1>5, <1>6
  <2>3. \A i \in DOMAIN a.items : \A j \in 1 .. i - 1 :
          Ranking!Get(a.items[j], "id") # Ranking!Get(a.items[i], "id")
    BY <1>3, <1>8
  <2>4. QED
    BY <1>1, <1>9, <1>10, <2>1, <2>2, <2>3 DEF Ranking!validate_batch_request
<1>12. QED
  BY <1>1, <1>2, <1>11 DEF p

(* A confidence is a number the protocol takes. *)
LEMMA ConfidenceTaken ==
  ASSUME NEW m \in Nat, m <= 10000, NEW tiny
  PROVE  Ranking!ConfidenceValid(Ranking!Real(m, tiny))
<1>1. Ranking!Certain \in Nat /\ m <= Ranking!Certain
  BY DEF Ranking!Certain
<1>2. QED
  BY <1>1 DEF Ranking!ConfidenceValid, Ranking!Is, Ranking!Real

LEMMA ConfidenceIsShare ==
  ASSUME RankingInv, NEW i \in DOMAIN segments
  PROVE  Ranking!ConfidenceValid(Ranking!Confidence(Ranking!Ranked(i)))
<1> DEFINE n == Len(segments[i].candidates)
           r == Ranking!Ranked(i)
<1>1. n \in Nat \ {0}
  BY SegmentShape
<1>2. CASE Ranking!config.has_rank_batch
  <2>1. Ranking!config.family \in {"onnx", "ruri"}
    BY <1>2, AnswersAssumption DEF RankingInv, Ranking!config
  <2>2. r.evidence \in [1 .. n -> Int] /\ r.neural_top \in 1 .. n
    BY <2>1, JudgedWell
  <2> DEFINE p == Ranking!neural_top_probability(r.evidence, r.neural_top)
  <2>3. p \in 0 .. 100
    <3> HIDE DEF n, r
    <3>1. QED
      BY <1>1, <2>2, ShareOfTop
  <2>4. Ranking!Confidence(r) = Ranking!Real(Ranking!BatchConfidence(r), FALSE)
    BY <1>2 DEF Ranking!Confidence
  <2>5. Ranking!BatchConfidence(r) = 100 * p
    BY DEF Ranking!BatchConfidence
  <2> HIDE DEF r, n, p
  <2>6. 100 * p \in Nat /\ 100 * p <= 10000
    BY <2>3
  <2>7. Ranking!ConfidenceValid(Ranking!Real(100 * p, FALSE))
    <3> DEFINE q == 100 * p
               no == FALSE
    <3>1. q \in Nat /\ q <= 10000
      BY <2>6
    <3> HIDE DEF q, no
    <3>2. Ranking!ConfidenceValid(Ranking!Real(q, no))
      BY <3>1, ConfidenceTaken
    <3>3. QED
      BY <3>2 DEF q, no
  <2>8. QED
    BY <2>4, <2>5, <2>7 DEF r
<1>3. CASE ~Ranking!config.has_rank_batch
  <2>1. IsOrder(r.order, n) /\ r.score \in [1 .. n -> Int]
    BY RankedWell
  <2> DEFINE share == Ranking!WinnerShare(r.order, r.score)
  <2>2. Ranking!Confidence(r) = Ranking!ShareConfidence(share)
    BY <1>3 DEF Ranking!Confidence
  <2>3. r.order[1] \in 1 .. n
    <3> HIDE DEF r, n
    <3>1. 1 \in 1 .. n
      BY <1>1
    <3>2. QED
      BY <2>1, <3>1 DEF IsOrder
  <2>4. share \in Nat /\ share <= 10000
    <3> HIDE DEF r, n
    <3>1. QED
      BY <1>1, <2>1, <2>3, ShareOfWinner
  <2> HIDE DEF r, n, share
  <2>5. Ranking!ShareConfidence(share) = Ranking!Real(share, share = 0)
    BY DEF Ranking!ShareConfidence
  <2>6. QED
    BY <2>2, <2>4, <2>5, ConfidenceTaken DEF r
<1>4. QED
  BY <1>2, <1>3

-----------------------------------------------------------------------------
(* A request the client has sent. *)
Sent ==
  /\ RankingInv
  /\ trigger \in {"rank", "explicit", "context_prefetch", "candidate_prefetch"}
  /\ trigger = "rank" => Len(segments) = 1
  /\ Ranking!Builds

LEMMA InputShape ==
  ASSUME RankingInv, NEW i \in DOMAIN segments
  PROVE  LET n == Len(segments[i].candidates)
             s == Ranking!Input(i)
         IN  /\ s.id = Ranking!SegmentId(i)
             /\ s.preceding = segments[i].preceding /\ s.following = segments[i].following
             /\ s.reading = segments[i].reading
             /\ DOMAIN s.candidates = 1 .. n /\ Len(s.candidates) = n
             /\ \A j \in 1 .. n : /\ s.candidates[j].id = Ranking!CandidateId(j)
                                  /\ s.candidates[j].value = segments[i].candidates[j]
                                  /\ s.candidates[j].original_rank = j
<1> DEFINE n == Len(segments[i].candidates)
           s == Ranking!Input(i)
           c(j) == [id |-> Ranking!CandidateId(j), value |-> segments[i].candidates[j], original_rank |-> j]
<1>1. n \in Nat /\ DOMAIN segments[i].candidates = 1 .. n
  BY SegmentShape
<1>2. /\ s.id = Ranking!SegmentId(i)
      /\ s.preceding = segments[i].preceding /\ s.following = segments[i].following
      /\ s.reading = segments[i].reading
      /\ s.candidates = [j \in DOMAIN segments[i].candidates |-> c(j)]
  BY DEF Ranking!Input
<1> HIDE DEF n, s, c
<1>3. s.candidates = [j \in 1 .. n |-> c(j)]
  BY <1>1, <1>2
<1>4. DOMAIN s.candidates = 1 .. n /\ Len(s.candidates) = n /\ \A j \in 1 .. n : s.candidates[j] = c(j)
  BY <1>1, <1>3
<1>5. \A j \in 1 .. n : /\ c(j).id = Ranking!CandidateId(j)
                        /\ c(j).value = segments[i].candidates[j]
                        /\ c(j).original_rank = j
  BY DEF c
<1>6. QED
  BY <1>2, <1>4, <1>5 DEF n, s

LEMMA SegmentsShape ==
  ASSUME RankingInv
  PROVE  /\ Len(segments) \in Nat /\ DOMAIN segments = 1 .. Len(segments)
         /\ DOMAIN Ranking!Inputs = 1 .. Len(segments) /\ Len(Ranking!Inputs) = Len(segments)
         /\ \A i \in DOMAIN segments : Ranking!Inputs[i] = Ranking!Input(i)
<1>1. segments \in Seq([preceding : Text, following : Text, reading : Text, candidates : Seq(Text) \ {<<>>}])
  BY RankingAssumption DEF RankingInv
<1>2. Len(segments) \in Nat /\ DOMAIN segments = 1 .. Len(segments)
  BY <1>1
<1>3. QED
  BY <1>2 DEF Ranking!Inputs

LEMMA CandidatesSent ==
  ASSUME Sent, NEW i \in DOMAIN segments
  PROVE  /\ Ranking!Sendable(segments[i].preceding, MAX_TEXT)
         /\ Ranking!Sendable(segments[i].following, MAX_TEXT)
         /\ Ranking!Sendable(segments[i].reading, MAX_READ)
         /\ Ranking!CandidatesSendable(Ranking!Input(i).candidates,
              IF trigger = "rank" THEN MAX_CANDIDATES ELSE MAX_CANDIDATES_PER_SEGMENT)
<1> DEFINE s == Ranking!Input(i)
<1>1. /\ s.preceding = segments[i].preceding /\ s.following = segments[i].following
      /\ s.reading = segments[i].reading
  BY InputShape DEF Sent
<1>2. CASE trigger = "rank"
  <2>1. i = 1
    BY <1>2, SegmentsShape DEF Sent
  <2>2. Ranking!RankBuilds(s)
    BY <1>2, <2>1 DEF Sent, Ranking!Builds
  <2>3. [s EXCEPT !.id = "any"].preceding = s.preceding /\ [s EXCEPT !.id = "any"].following = s.following
        /\ [s EXCEPT !.id = "any"].reading = s.reading
    BY DEF Ranking!Input
  <2> HIDE DEF s
  <2>4. QED
    BY <1>1, <1>2, <2>2, <2>3 DEF s, Ranking!RankBuilds, Ranking!SegmentSendable
<1>3. CASE trigger # "rank"
  <2>1. Ranking!BatchBuilds(Ranking!Inputs)
    BY <1>3 DEF Sent, Ranking!Builds
  <2>2. i \in DOMAIN Ranking!Inputs /\ Ranking!Inputs[i] = s
    BY SegmentsShape DEF Sent
  <2>3. Ranking!SegmentSendable(s) /\ Ranking!CandidatesSendable(s.candidates, MAX_CANDIDATES_PER_SEGMENT)
    <3> HIDE DEF s
    <3>1. QED
      BY <2>1, <2>2 DEF Ranking!BatchBuilds
  <2> HIDE DEF s
  <2>4. QED
    BY <1>1, <1>3, <2>3 DEF s, Ranking!SegmentSendable
<1>4. QED
  BY <1>2, <1>3

LEMMA NamesDiffer ==
  ASSUME Sent, NEW i \in DOMAIN segments
  PROVE  LET n == Len(segments[i].candidates) IN
         /\ \A j, k \in 1 .. n : Ranking!CandidateId(j) = Ranking!CandidateId(k) => j = k
         /\ \A j \in 1 .. n : Ranking!SafeId(Ranking!CandidateId(j))
<1> DEFINE n == Len(segments[i].candidates)
           cs == Ranking!Input(i).candidates
           max == IF trigger = "rank" THEN MAX_CANDIDATES ELSE MAX_CANDIDATES_PER_SEGMENT
<1>1. n \in Nat /\ DOMAIN cs = 1 .. n /\ \A j \in 1 .. n : cs[j].id = Ranking!CandidateId(j)
  BY InputShape, SegmentShape DEF Sent
<1>2. Ranking!CandidatesSendable(cs, max)
  BY CandidatesSent
<1> HIDE DEF n, cs, max
<1>3. \A k \in 1 .. n : Ranking!SafeId(cs[k].id) /\ \A j \in 1 .. k - 1 : cs[j].id # cs[k].id
  BY <1>1, <1>2 DEF Ranking!CandidatesSendable
<1>4. ASSUME NEW j \in 1 .. n, NEW k \in 1 .. n, cs[j].id = cs[k].id PROVE j = k
  <2>1. j < k => j \in 1 .. k - 1
    BY <1>1
  <2>2. k < j => k \in 1 .. j - 1
    BY <1>1
  <2>3. ~(j < k) /\ ~(k < j)
    BY <1>3, <1>4, <2>1, <2>2
  <2>4. QED
    BY <1>1, <2>3
<1>5. QED
  BY <1>1, <1>3, <1>4 DEF n

LEMMA PlaceIsKept ==
  ASSUME Sent, NEW i \in DOMAIN segments, NEW j \in 1 .. Len(segments[i].candidates)
  PROVE  Ranking!PlaceOf(i, Ranking!CandidateId(j)) = j
BY SegmentShape, NamesDiffer DEF Sent, Ranking!PlaceOf

LEMMA IdsCounted ==
  ASSUME Sent, NEW i \in DOMAIN segments
  PROVE  LET n == Len(segments[i].candidates)
             ids == Ranking!CandidateIds(i)
         IN  /\ IsFiniteSet(ids) /\ Ranking!Cardinality(ids) = n
             /\ \A j \in 1 .. n : Ranking!CandidateId(j) \in ids
             /\ Ranking!IdsIn(Ranking!CandidatesWritten(Ranking!Input(i).candidates)) = ids
<1> DEFINE n == Len(segments[i].candidates)
           ids == Ranking!CandidateIds(i)
           cs == Ranking!Input(i).candidates
           max == IF trigger = "rank" THEN MAX_CANDIDATES ELSE MAX_CANDIDATES_PER_SEGMENT
           f == [j \in 1 .. n |-> Ranking!CandidateId(j)]
           w == Ranking!CandidatesWritten(cs)
<1>1. n \in Nat /\ DOMAIN segments[i].candidates = 1 .. n
  BY SegmentShape DEF Sent
<1>2. /\ \A j \in 1 .. n : f[j] \in ids
      /\ \A x \in ids : \E j \in 1 .. n : f[j] = x
  BY <1>1 DEF Ranking!CandidateIds
<1>3. \A j, k \in 1 .. n : f[j] = f[k] => j = k
  BY NamesDiffer
<1>4. DOMAIN cs = 1 .. n /\ Len(cs) = n /\ \A j \in 1 .. n : cs[j].id = f[j]
  BY InputShape DEF Sent
<1>5. Ranking!CandidatesSendable(cs, max)
  BY CandidatesSent
<1>6. \A j \in 1 .. n : f[j] = Ranking!CandidateId(j)
  OBVIOUS
<1> HIDE DEF n, ids, cs, max, f
<1>7. IsFiniteSet(ids) /\ Ranking!Cardinality(ids) = n
  BY <1>1, <1>2, <1>3, Counted
<1>8. (\A j \in 1 .. n : cs[j].id \in Ranking!IdsIn(w)) /\ (\A x \in Ranking!IdsIn(w) : \E j \in 1 .. n : cs[j].id = x)
  BY <1>1, <1>4, <1>5, CandidatesRead
<1> HIDE DEF w
<1> DEFINE read_ == Ranking!IdsIn(w)
<1>9. read_ = ids
  <2> HIDE DEF read_
  <2>1. \A x \in read_ : x \in ids
    BY <1>2, <1>4, <1>8 DEF read_
  <2>2. \A x \in ids : x \in read_
    BY <1>2, <1>4, <1>8 DEF read_
  <2>3. QED
    BY <2>1, <2>2
<1>10. QED
  BY <1>2, <1>6, <1>7, <1>9 DEF n, ids, w, cs

-----------------------------------------------------------------------------
(* The answers, as they are written and read. *)
LEMMA EntryHasThree ==
  ASSUME NEW id, NEW b, NEW y, NEW c, NEW z, "id" # b, "id" # c, b # c
  PROVE  HasThree(Ranking!Entry(id, << <<b, y>>, <<c, z>> >>), "id", Ranking!String(id), b, y, c, z)
<1> DEFINE x == <<"id", Ranking!String(id)>>
           u == <<b, y>>
           v == <<c, z>>
<1>1. <<x>> \o <<u, v>> = <<x, u, v>>
  <2> DEFINE S == {x, u, v}
             t == <<x>> \o <<u, v>>
  <2>1. <<x>> \in Seq(S) /\ <<u, v>> \in Seq(S) /\ Len(<<x>>) = 1 /\ Len(<<u, v>>) = 2
    <3> HIDE DEF x, u, v
    <3>1. QED
      OBVIOUS
  <2>2. <<x, u, v>> \in Seq(S) /\ Len(<<x, u, v>>) = 3
    <3> HIDE DEF x, u, v
    <3>1. QED
      OBVIOUS
  <2> HIDE DEF x, u, v
  <2>3. t \in Seq(S) /\ Len(t) = 3
    BY <2>1, ConcatProperties
  <2>4. t[1] = x /\ t[2] = u /\ t[3] = v
    BY <2>1, ConcatProperties
  <2>5. \A k \in 1 .. 3 : k \in {1, 2, 3}
    OBVIOUS
  <2> HIDE DEF t, S
  <2>6. \A k \in 1 .. 3 : t[k] = <<x, u, v>>[k]
    BY <2>4, <2>5
  <2>7. QED
    BY <2>2, <2>3, <2>6, SeqEqual DEF t
<1>2. Ranking!Entry(id, <<u, v>>) = Ranking!Object(<<x, u, v>>)
  BY <1>1 DEF Ranking!Entry
<1>3. HasThree(Ranking!Object(<<x, u, v>>), "id", Ranking!String(id), b, y, c, z)
  BY OfThreeMembers
<1>4. QED
  BY <1>2, <1>3

(* One candidate of an answer to one segment. *)
RankItem(r, k) ==
  Ranking!Entry(Ranking!CandidateId(r.order[k]),
                << <<"score", Ranking!Real(r.score[r.order[k]], FALSE)>>, <<"rank", Ranking!Number(k)>> >>)

LEMMA RankItemRead ==
  ASSUME NEW r, NEW k
  PROVE  LET o == RankItem(r, k) IN
         /\ o.kind = "object" /\ Ranking!Names(o) = {"id", "score", "rank"}
         /\ Ranking!MembersInOrder(o, <<"id", "score", "rank">>)
         /\ Ranking!Get(o, "id") = Ranking!String(Ranking!CandidateId(r.order[k]))
         /\ Ranking!Get(o, "id").text = Ranking!CandidateId(r.order[k])
         /\ Ranking!Get(o, "score").kind = "number" /\ Ranking!Get(o, "score").finite
         /\ Ranking!IsRank(Ranking!Get(o, "rank"), k) /\ Ranking!Get(o, "rank").value = k
<1> DEFINE o == RankItem(r, k)
           no == FALSE
           score == Ranking!Real(r.score[r.order[k]], no)
           rank == Ranking!Number(k)
           id == Ranking!CandidateId(r.order[k])
<1>1. o = Ranking!Entry(id, << <<"score", score>>, <<"rank", rank>> >>)
  BY DEF RankItem
<1>2. score.kind = "number" /\ score.finite
  BY DEF Ranking!Real
<1>3. Ranking!IsRank(rank, k) /\ rank.value = k
  BY DEF Ranking!IsRank, Ranking!Is, Ranking!Number
<1>4. Ranking!String(id).text = id
  BY DEF Ranking!String
<1> HIDE DEF o, no, score, rank, id
<1>5. HasThree(o, "id", Ranking!String(id), "score", score, "rank", rank)
  BY <1>1, EntryHasThree
<1>6. QED
  BY <1>2, <1>3, <1>4, <1>5 DEF HasThree, o, id

LEMMA RankReplied ==
  ASSUME NEW n \in Nat, NEW r, DOMAIN r.order = 1 .. n,
         Ranking!Get(Ranking!Payload, "request_id") = Ranking!String("mozc-1")
  PROVE  LET a == Ranking!RankReply(r)
             items == Ranking!Get(a, "candidates").items
         IN  /\ a.kind = "object" /\ Ranking!Names(a) = {"request_id", "candidates"}
             /\ Ranking!MembersInOrder(a, <<"request_id", "candidates">>)
             /\ Ranking!Get(a, "request_id") = Ranking!String("mozc-1")
             /\ Ranking!Get(a, "request_id").text = "mozc-1"
             /\ Ranking!Get(a, "candidates").kind = "array"
             /\ DOMAIN items = 1 .. n /\ Len(items) = n
             /\ \A k \in 1 .. n : items[k] = RankItem(r, k)
<1> DEFINE a == Ranking!RankReply(r)
           list == Ranking!Array([k \in 1 .. n |-> RankItem(r, k)])
<1>1. a = Ranking!Object(<< <<"request_id", Ranking!String("mozc-1")>>, <<"candidates", list>> >>)
  BY DEF Ranking!RankReply, RankItem
<1>2. list.kind = "array" /\ list.items = [k \in 1 .. n |-> RankItem(r, k)]
  BY DEF Ranking!Array
<1>3. Ranking!String("mozc-1").text = "mozc-1"
  BY DEF Ranking!String
<1> HIDE DEF a, list
<1>4. HasTwo(a, "request_id", Ranking!String("mozc-1"), "candidates", list)
  BY <1>1, OfTwoMembers
<1>5. DOMAIN list.items = 1 .. n /\ Len(list.items) = n /\ \A k \in 1 .. n : list.items[k] = RankItem(r, k)
  BY <1>2
<1>6. QED
  BY <1>2, <1>3, <1>4, <1>5 DEF HasTwo, a

LEMMA RankAnswerRead ==
  ASSUME Sent, trigger = "rank"
  PROVE  LET a == Ranking!Answered(Ranking!Rankings) IN
         /\ a.kind = "object"
         /\ Ranking!Accepted(Ranking!Payload, a)
         /\ Ranking!ParseResponse(a, "mozc-1", Ranking!CandidateIds(1))
         /\ DOMAIN Ranking!Get(a, "candidates").items = 1 .. Len(segments[1].candidates)
         /\ \A k \in 1 .. Len(segments[1].candidates) :
              Ranking!Get(Ranking!Get(a, "candidates").items[k], "id").text
                = Ranking!CandidateId(Ranking!Ranked(1).order[k])
<1> DEFINE a == Ranking!Answered(Ranking!Rankings)
           r == Ranking!Ranked(1)
           n == Len(segments[1].candidates)
           ids == Ranking!CandidateIds(1)
           s == Ranking!Input(1)
           p == Ranking!Payload
           items == Ranking!Get(a, "candidates").items
<1>1. 1 \in DOMAIN segments /\ RankingInv
  BY SegmentsShape DEF Sent
<1>2. n \in Nat \ {0}
  BY <1>1, SegmentShape
<1>3. IsOrder(r.order, n)
  BY <1>1, RankedWell
<1>4. a = Ranking!RankReply(r)
  <2>1. Ranking!Rankings[1] = r
    BY <1>1 DEF Ranking!Rankings
  <2>2. a = Ranking!RankReply(Ranking!Rankings[1])
    BY DEF Ranking!Answered, Ranking!Prefetches
  <2>3. QED
    BY <2>1, <2>2
<1>5. p = Ranking!RankPayload("mozc-1", s)
  BY DEF Ranking!Payload
<1>6. /\ DOMAIN s.candidates = 1 .. n /\ Len(s.candidates) = n
      /\ Ranking!Sendable(s.preceding, MAX_TEXT) /\ Ranking!Sendable(s.following, MAX_TEXT)
      /\ Ranking!Sendable(s.reading, MAX_READ)
      /\ Ranking!CandidatesSendable(s.candidates, MAX_CANDIDATES)
  BY <1>1, InputShape, CandidatesSent
<1>7. /\ Ranking!Cardinality(ids) = n /\ \A j \in 1 .. n : Ranking!CandidateId(j) \in ids
      /\ Ranking!IdsIn(Ranking!CandidatesWritten(s.candidates)) = ids
  BY <1>1, IdsCounted
<1>8. /\ \A j, k \in 1 .. n : Ranking!CandidateId(j) = Ranking!CandidateId(k) => j = k
      /\ \A j \in 1 .. n : Ranking!SafeId(Ranking!CandidateId(j))
  BY <1>1, NamesDiffer
<1> HIDE DEF a, r, n, ids, s, p
<1>9. /\ Ranking!validate_request(p)
      /\ Ranking!Get(p, "request_id") = Ranking!String("mozc-1")
      /\ Ranking!Get(p, "candidates") = Ranking!CandidatesWritten(s.candidates)
  BY <1>2, <1>5, <1>6, RankPayloadValid
<1>10. Ranking!Strict(p)
  BY <1>5, RankStrict
<1>11. DOMAIN r.order = 1 .. n /\ \A k \in 1 .. n : r.order[k] \in 1 .. n
  BY <1>3 DEF IsOrder
<1>12. /\ a.kind = "object" /\ Ranking!Names(a) = {"request_id", "candidates"}
       /\ Ranking!MembersInOrder(a, <<"request_id", "candidates">>)
       /\ Ranking!Get(a, "request_id") = Ranking!String("mozc-1")
       /\ Ranking!Get(a, "request_id").text = "mozc-1"
       /\ Ranking!Get(a, "candidates").kind = "array"
       /\ DOMAIN items = 1 .. n /\ Len(items) = n
       /\ \A k \in 1 .. n : items[k] = RankItem(r, k)
  BY <1>2, <1>4, <1>9, <1>11, RankReplied DEF p
<1> HIDE DEF items
<1>13. ASSUME NEW k \in 1 .. n
       PROVE  /\ items[k].kind = "object" /\ Ranking!Names(items[k]) = {"id", "score", "rank"}
              /\ Ranking!MembersInOrder(items[k], <<"id", "score", "rank">>)
              /\ Ranking!Get(items[k], "id") = Ranking!String(Ranking!CandidateId(r.order[k]))
              /\ Ranking!Get(items[k], "id").text = Ranking!CandidateId(r.order[k])
              /\ Ranking!Get(items[k], "score").kind = "number" /\ Ranking!Get(items[k], "score").finite
              /\ Ranking!IsRank(Ranking!Get(items[k], "rank"), k) /\ Ranking!Get(items[k], "rank").value = k
  BY <1>12, RankItemRead
<1>14. ASSUME NEW k \in 1 .. n
       PROVE  /\ Ranking!Get(items[k], "id").text \in ids
              /\ Ranking!IsString(Ranking!Get(items[k], "id"), MAX_ID)
              /\ \A j \in 1 .. k - 1 : Ranking!Get(items[j], "id") # Ranking!Get(items[k], "id")
  <2>1. Ranking!Get(items[k], "id").text \in ids
    BY <1>7, <1>11, <1>13
  <2>2. Ranking!IsString(Ranking!String(Ranking!CandidateId(r.order[k])), MAX_ID)
    BY <1>8, <1>11 DEF Ranking!IsString, Ranking!Is, Ranking!String, Ranking!SafeId
  <2>3. ASSUME NEW j \in 1 .. k - 1 PROVE Ranking!Get(items[j], "id") # Ranking!Get(items[k], "id")
    <3>1. j \in 1 .. n /\ j # k
      BY <1>2
    <3>2. r.order[j] # r.order[k]
      BY <1>3, <3>1 DEF IsOrder
    <3>3. Ranking!CandidateId(r.order[j]) # Ranking!CandidateId(r.order[k])
      BY <1>8, <1>11, <3>1, <3>2
    <3>4. QED
      BY <1>13, <3>1, <3>3
  <2>4. QED
    BY <1>13, <2>1, <2>2, <2>3
<1>15. Ranking!validate_response(a, p)
  BY <1>7, <1>9, <1>12, <1>13, <1>14 DEF items, Ranking!validate_response, Ranking!Is
<1>16. Ranking!ParseResponse(a, "mozc-1", ids)
  BY <1>7, <1>12, <1>13, <1>14 DEF items, Ranking!ParseResponse
<1>17. Ranking!Accepted(p, a)
  BY <1>9, <1>10, <1>15 DEF Ranking!Accepted
<1>18. QED
  BY <1>12, <1>13, <1>16, <1>17 DEF items, a, n, p, ids, r

LEMMA SegmentNamesDiffer ==
  ASSUME Sent, trigger # "rank"
  PROVE  /\ \A i, j \in DOMAIN segments : Ranking!SegmentId(i) = Ranking!SegmentId(j) => i = j
         /\ \A i \in DOMAIN segments : Len(Ranking!SegmentId(i)) <= MAX_SEGMENT_ID
<1> DEFINE m == Len(segments)
           ss == Ranking!Inputs
<1>1. /\ m \in Nat /\ DOMAIN segments = 1 .. m
      /\ DOMAIN ss = 1 .. m
      /\ \A i \in 1 .. m : ss[i] = Ranking!Input(i)
  BY SegmentsShape DEF Sent
<1>2. Ranking!BatchBuilds(ss)
  BY DEF Sent, Ranking!Builds
<1>3. \A i \in 1 .. m : Ranking!Input(i).id = Ranking!SegmentId(i)
  BY <1>1, InputShape DEF Sent
<1> HIDE DEF m, ss
<1>4. \A i \in 1 .. m : \A j \in 1 .. i - 1 : ss[j].id # ss[i].id
  BY <1>1, <1>2 DEF Ranking!BatchBuilds
<1>5. ASSUME NEW i \in 1 .. m, NEW j \in 1 .. m, Ranking!SegmentId(i) = Ranking!SegmentId(j) PROVE i = j
  <2>1. ss[i].id = ss[j].id
    BY <1>1, <1>3, <1>5
  <2>2. (i < j => i \in 1 .. j - 1) /\ (j < i => j \in 1 .. i - 1)
    BY <1>1
  <2>3. ~(i < j) /\ ~(j < i)
    BY <1>4, <2>1, <2>2
  <2>4. QED
    BY <1>1, <2>3
<1>6. \A i \in DOMAIN segments : Len(Ranking!SegmentId(i)) <= MAX_SEGMENT_ID
  BY AnswersAssumption DEF Sent, RankingInv, Ranking!SegmentId
<1>7. QED
  BY <1>1, <1>5, <1>6

LEMMA BatchSent ==
  ASSUME Sent, trigger # "rank"
  PROVE  LET p == Ranking!Payload
             items == Ranking!Get(p, "segments").items
             m == Len(segments)
         IN  /\ Ranking!Strict(p) /\ Ranking!validate_batch_request(p)
             /\ Ranking!Get(p, "request_id") = Ranking!String("mozc-1")
             /\ DOMAIN items = 1 .. m
             /\ \A i \in 1 .. m :
                  /\ Ranking!Get(items[i], "id").text = Ranking!SegmentId(i)
                  /\ Ranking!IdsIn(Ranking!Get(items[i], "candidates")) = Ranking!CandidateIds(i)
<1> DEFINE m == Len(segments)
           ss == Ranking!Inputs
           p == Ranking!Payload
           items == Ranking!Get(p, "segments").items
<1>1. p = Ranking!BuildBatchPayload("mozc-1", trigger, ss) /\ trigger \in Ranking!Triggers
  BY DEF Sent, Ranking!Payload, Ranking!RankBatch, Ranking!PrefetchContextBatch,
         Ranking!PrefetchCandidateBatch, Ranking!SendBatchRequest, Ranking!Triggers
<1>2. /\ m \in Nat /\ DOMAIN segments = 1 .. m
      /\ DOMAIN ss = 1 .. m /\ Len(ss) = m
      /\ \A i \in 1 .. m : ss[i] = Ranking!Input(i)
  BY SegmentsShape DEF Sent
<1>3. Ranking!BatchBuilds(ss)
  BY DEF Sent, Ranking!Builds
<1>4. \A i \in 1 .. m :
        LET n == Len(segments[i].candidates) IN
        n \in Nat /\ DOMAIN ss[i].candidates = 1 .. n /\ Len(ss[i].candidates) = n
        /\ ss[i].id = Ranking!SegmentId(i)
  BY <1>2, InputShape, SegmentShape DEF Sent
<1>5. \A i \in 1 .. m : Len(ss[i].id) <= MAX_SEGMENT_ID
  BY <1>2, <1>4, SegmentNamesDiffer
<1>6. \A i \in 1 .. m : Ranking!IdsIn(Ranking!CandidatesWritten(ss[i].candidates)) = Ranking!CandidateIds(i)
  BY <1>2, IdsCounted
<1> HIDE DEF m, ss, p, items
<1>7. Ranking!Strict(p)
  BY <1>1, BatchStrict
<1>8. \A i \in 1 .. m : \E n \in Nat : DOMAIN ss[i].candidates = 1 .. n /\ Len(ss[i].candidates) = n
  BY <1>4
<1>9. /\ Ranking!validate_batch_request(p)
      /\ Ranking!Get(p, "request_id") = Ranking!String("mozc-1")
      /\ items = [i \in 1 .. m |-> SegmentWritten(ss[i])]
  BY <1>1, <1>2, <1>3, <1>5, <1>8, BatchPayloadValid DEF items
<1>10. ASSUME NEW i \in 1 .. m
       PROVE  /\ Ranking!Get(items[i], "id") = Ranking!String(ss[i].id)
              /\ Ranking!Get(items[i], "candidates") = Ranking!CandidatesWritten(ss[i].candidates)
  <2>1. items[i] = SegmentWritten(ss[i])
    BY <1>9
  <2>2. /\ Ranking!SegmentSendable(ss[i])
        /\ Ranking!CandidatesSendable(ss[i].candidates, MAX_CANDIDATES_PER_SEGMENT)
    BY <1>2, <1>3 DEF Ranking!BatchBuilds
  <2>3. PICK n \in Nat : DOMAIN ss[i].candidates = 1 .. n /\ Len(ss[i].candidates) = n
    BY <1>8
  <2>4. Len(ss[i].id) <= MAX_SEGMENT_ID
    BY <1>5
  <2> DEFINE s == ss[i]
  <2>5. /\ DOMAIN s.candidates = 1 .. n /\ Len(s.candidates) = n
        /\ Ranking!SegmentSendable(s) /\ Len(s.id) <= MAX_SEGMENT_ID
        /\ Ranking!CandidatesSendable(s.candidates, MAX_CANDIDATES_PER_SEGMENT)
    BY <2>2, <2>3, <2>4
  <2>8. items[i] = SegmentWritten(s)
    BY <2>1
  <2> HIDE DEF s
  <2>6. /\ Ranking!Get(SegmentWritten(s), "id") = Ranking!String(s.id)
        /\ Ranking!Get(SegmentWritten(s), "candidates") = Ranking!CandidatesWritten(s.candidates)
    BY <2>5, SegmentRead
  <2>9. /\ Ranking!Get(items[i], "id") = Ranking!String(s.id)
        /\ Ranking!Get(items[i], "candidates") = Ranking!CandidatesWritten(s.candidates)
    BY <2>6, <2>8
  <2>7. QED
    BY <2>9, Zenon DEF s
<1>11. ASSUME NEW i \in 1 .. m PROVE Ranking!Get(items[i], "id").text = Ranking!SegmentId(i)
  <2>1. Ranking!Get(items[i], "id") = Ranking!String(ss[i].id) /\ ss[i].id = Ranking!SegmentId(i)
    BY <1>4, <1>10
  <2>2. QED
    BY <2>1 DEF Ranking!String
<1>12. DOMAIN items = 1 .. m
  BY <1>9
<1>13. QED
  BY <1>6, <1>7, <1>9, <1>10, <1>11, <1>12 DEF m, p, items

(* One segment of an answer to several. *)
BatchItem(i, winners, confidences) ==
  Ranking!Entry(Ranking!SegmentId(i),
                << <<"winner_id", Ranking!String(Ranking!CandidateId(winners[i]))>>,
                   <<"confidence", confidences[i]>> >>)

LEMMA BatchItemRead ==
  ASSUME NEW i, NEW winners, NEW confidences
  PROVE  LET o == BatchItem(i, winners, confidences) IN
         /\ o.kind = "object" /\ Ranking!Names(o) = {"id", "winner_id", "confidence"}
         /\ Ranking!Get(o, "id") = Ranking!String(Ranking!SegmentId(i))
         /\ Ranking!Get(o, "id").text = Ranking!SegmentId(i)
         /\ Ranking!Get(o, "winner_id") = Ranking!String(Ranking!CandidateId(winners[i]))
         /\ Ranking!Get(o, "winner_id").text = Ranking!CandidateId(winners[i])
         /\ Ranking!Get(o, "confidence") = confidences[i]
<1> DEFINE o == BatchItem(i, winners, confidences)
           id == Ranking!SegmentId(i)
           winner == Ranking!CandidateId(winners[i])
           c == confidences[i]
<1>1. o = Ranking!Entry(id, << <<"winner_id", Ranking!String(winner)>>, <<"confidence", c>> >>)
  BY DEF BatchItem
<1>2. Ranking!String(id).text = id /\ Ranking!String(winner).text = winner
  BY DEF Ranking!String
<1> HIDE DEF o, id, winner, c
<1>3. HasThree(o, "id", Ranking!String(id), "winner_id", Ranking!String(winner), "confidence", c)
  BY <1>1, EntryHasThree
<1>4. QED
  BY <1>2, <1>3 DEF HasThree, o, id, winner, c

LEMMA BatchReplied ==
  ASSUME Sent, trigger # "rank", NEW winners, NEW confidences
  PROVE  LET a == Ranking!BatchReply(winners, confidences)
             items == Ranking!Get(a, "segments").items
             m == Len(segments)
         IN  /\ a.kind = "object" /\ Ranking!Names(a) = {"request_id", "segments"}
             /\ Ranking!Get(a, "request_id") = Ranking!Get(Ranking!Payload, "request_id")
             /\ Ranking!Get(a, "segments").kind = "array"
             /\ DOMAIN items = 1 .. m /\ Len(items) = m
             /\ \A i \in 1 .. m : items[i] = BatchItem(i, winners, confidences)
<1> DEFINE m == Len(segments)
           a == Ranking!BatchReply(winners, confidences)
           list == Ranking!Array([i \in 1 .. m |-> BatchItem(i, winners, confidences)])
           id == Ranking!Get(Ranking!Payload, "request_id")
<1>1. m \in Nat /\ DOMAIN segments = 1 .. m
  BY SegmentsShape DEF Sent
<1>2. a = Ranking!Object(<< <<"request_id", id>>, <<"segments", list>> >>)
  BY <1>1 DEF Ranking!BatchReply, BatchItem
<1>3. list.kind = "array" /\ list.items = [i \in 1 .. m |-> BatchItem(i, winners, confidences)]
  BY DEF Ranking!Array
<1> HIDE DEF a, list, id, m
<1>4. HasTwo(a, "request_id", id, "segments", list)
  BY <1>2, OfTwoMembers
<1>5. DOMAIN list.items = 1 .. m /\ Len(list.items) = m
      /\ \A i \in 1 .. m : list.items[i] = BatchItem(i, winners, confidences)
  BY <1>1, <1>3
<1>6. QED
  BY <1>3, <1>4, <1>5 DEF HasTwo, a, id, m

LEMMA BatchAnswerTaken ==
  ASSUME Sent, trigger # "rank", NEW winners, NEW confidences,
         \A i \in DOMAIN segments : winners[i] \in 1 .. Len(segments[i].candidates),
         \A i \in DOMAIN segments : Ranking!ConfidenceValid(confidences[i])
  PROVE  LET a == Ranking!BatchReply(winners, confidences) IN
         /\ a.kind = "object"
         /\ Ranking!Accepted(Ranking!Payload, a)
         /\ \A i \in DOMAIN segments :
              Ranking!Get(Ranking!Get(a, "segments").items[i], "winner_id").text
                = Ranking!CandidateId(winners[i])
<1> DEFINE m == Len(segments)
           a == Ranking!BatchReply(winners, confidences)
           items == Ranking!Get(a, "segments").items
           p == Ranking!Payload
           asked == Ranking!Get(p, "segments").items
           expected == Ranking!IdsIn(Ranking!Get(p, "segments"))
           id(i) == Ranking!SegmentId(i)
<1>1. m \in Nat /\ DOMAIN segments = 1 .. m
  BY SegmentsShape DEF Sent
<1>2. /\ a.kind = "object" /\ Ranking!Names(a) = {"request_id", "segments"}
      /\ Ranking!Get(a, "request_id") = Ranking!Get(p, "request_id")
      /\ Ranking!Get(a, "segments").kind = "array"
      /\ DOMAIN items = 1 .. m /\ Len(items) = m
      /\ \A i \in 1 .. m : items[i] = BatchItem(i, winners, confidences)
  BY BatchReplied
<1>3. /\ Ranking!Strict(p) /\ Ranking!validate_batch_request(p)
      /\ DOMAIN asked = 1 .. m
      /\ \A i \in 1 .. m : /\ Ranking!Get(asked[i], "id").text = id(i)
                           /\ Ranking!IdsIn(Ranking!Get(asked[i], "candidates")) = Ranking!CandidateIds(i)
  BY BatchSent
<1>4. /\ \A i, j \in 1 .. m : id(i) = id(j) => i = j
      /\ \A i \in 1 .. m : Len(id(i)) <= MAX_SEGMENT_ID
  BY <1>1, SegmentNamesDiffer
<1>5. \A i \in 1 .. m : /\ Ranking!CandidateId(winners[i]) \in Ranking!CandidateIds(i)
                        /\ Len(Ranking!CandidateId(winners[i])) <= MAX_ID
  BY <1>1, IdsCounted, NamesDiffer DEF Ranking!SafeId
<1> HIDE DEF m, a, p
<1>6. expected = {Ranking!Get(asked[i], "id").text : i \in DOMAIN asked}
  BY DEF Ranking!IdsIn
<1> HIDE DEF items, asked, expected
<1>7. Ranking!Cardinality(expected) = m /\ \A i \in 1 .. m : id(i) \in expected
  <2> DEFINE f == [i \in 1 .. m |-> id(i)]
  <2>1. \A i \in 1 .. m : f[i] = id(i)
    OBVIOUS
  <2> HIDE DEF f, id
  <2>2. /\ \A i, j \in 1 .. m : f[i] = f[j] => i = j
        /\ \A i \in 1 .. m : f[i] \in expected
        /\ \A x \in expected : \E i \in 1 .. m : f[i] = x
    BY <1>3, <1>4, <1>6, <2>1
  <2>3. Ranking!Cardinality(expected) = m
    BY <1>1, <2>2, Counted
  <2>4. QED
    BY <2>1, <2>2, <2>3
<1>8. ASSUME NEW i \in 1 .. m PROVE Ranking!SegmentOf(p, id(i)) = asked[i]
  <2> DEFINE S == {asked[j] : j \in DOMAIN asked}
  <2>1. Ranking!SegmentOf(p, id(i)) = CHOOSE s \in S : Ranking!Get(s, "id").text = id(i)
    BY DEF Ranking!SegmentOf, asked
  <2>2. asked[i] \in S /\ Ranking!Get(asked[i], "id").text = id(i)
    BY <1>3
  <2>3. \A s \in S : Ranking!Get(s, "id").text = id(i) => s = asked[i]
    <3> HIDE DEF id
    <3>1. QED
      BY <1>3, <1>4
  <2> HIDE DEF S, id
  <2>4. QED
    BY <2>1, <2>2, <2>3
<1> HIDE DEF id
<1>9. ASSUME NEW i \in 1 .. m
      PROVE  /\ items[i].kind = "object" /\ Ranking!Names(items[i]) = {"id", "winner_id", "confidence"}
             /\ Ranking!Get(items[i], "id") = Ranking!String(id(i))
             /\ Ranking!Get(items[i], "id").text = id(i)
             /\ Ranking!Get(items[i], "winner_id") = Ranking!String(Ranking!CandidateId(winners[i]))
             /\ Ranking!Get(items[i], "winner_id").text = Ranking!CandidateId(winners[i])
             /\ Ranking!Get(items[i], "confidence") = confidences[i]
  BY <1>2, BatchItemRead DEF id
<1>10. \A t, max : Len(t) <= max => Ranking!IsString(Ranking!String(t), max)
  BY DEF Ranking!IsString, Ranking!Is, Ranking!String
<1>11. ASSUME NEW i \in 1 .. m
       PROVE  /\ Ranking!Is(items[i], "object")
              /\ Ranking!IsString(Ranking!Get(items[i], "id"), MAX_SEGMENT_ID)
              /\ Ranking!IsString(Ranking!Get(items[i], "winner_id"), MAX_ID)
              /\ Ranking!Get(items[i], "id").text \in expected
              /\ \A j \in 1 .. i - 1 : Ranking!Get(items[j], "id") # Ranking!Get(items[i], "id")
              /\ Ranking!Get(items[i], "winner_id").text
                   \in Ranking!IdsIn(Ranking!Get(Ranking!SegmentOf(p, Ranking!Get(items[i], "id").text), "candidates"))
              /\ Ranking!ConfidenceValid(Ranking!Get(items[i], "confidence"))
  <2>1. Ranking!IsString(Ranking!Get(items[i], "id"), MAX_SEGMENT_ID)
        /\ Ranking!IsString(Ranking!Get(items[i], "winner_id"), MAX_ID)
    BY <1>4, <1>5, <1>9, <1>10
  <2>2. ASSUME NEW j \in 1 .. i - 1 PROVE Ranking!Get(items[j], "id") # Ranking!Get(items[i], "id")
    <3>1. j \in 1 .. m /\ j # i
      BY <1>1
    <3>2. id(j) # id(i)
      BY <1>4, <3>1
    <3>3. QED
      BY <1>9, <3>1, <3>2
  <2>3. Ranking!Get(items[i], "id").text \in expected
    BY <1>7, <1>9
  <2>4. Ranking!IdsIn(Ranking!Get(Ranking!SegmentOf(p, Ranking!Get(items[i], "id").text), "candidates"))
          = Ranking!CandidateIds(i)
    BY <1>3, <1>8, <1>9
  <2>5. Ranking!ConfidenceValid(Ranking!Get(items[i], "confidence"))
    BY <1>1, <1>9
  <2>6. Ranking!Is(items[i], "object")
    BY <1>9 DEF Ranking!Is
  <2>7. Ranking!Get(items[i], "winner_id").text \in Ranking!CandidateIds(i)
    BY <1>5, <1>9
  <2>8. QED
    BY <2>1, <2>2, <2>3, <2>4, <2>5, <2>6, <2>7
<1>12. Ranking!validate_batch_response(a, p)
  <2>1. Ranking!Is(a, "object") /\ Ranking!Is(Ranking!Get(a, "segments"), "array")
    BY <1>2 DEF Ranking!Is
  <2>2. QED
    BY <1>2, <1>7, <1>9, <1>11, <2>1 DEF items, expected, Ranking!validate_batch_response
<1>13. Ranking!Accepted(p, a)
  BY <1>3, <1>12 DEF Ranking!Accepted
<1>14. QED
  BY <1>1, <1>2, <1>9, <1>13 DEF a, p, items

(* Whose text an answer puts first. *)
TheFirst(i) == IF trigger \in Ranking!Prefetches THEN 1 ELSE Ranking!Ranked(i).order[1]

LEMMA BatchAnswerRead ==
  ASSUME Sent, trigger # "rank"
  PROVE  LET a == Ranking!Answered(Ranking!Rankings) IN
         /\ a.kind = "object"
         /\ Ranking!Accepted(Ranking!Payload, a)
         /\ \A i \in DOMAIN segments :
              Ranking!Get(Ranking!Get(a, "segments").items[i], "winner_id").text
                = Ranking!CandidateId(TheFirst(i))
<1> DEFINE a == Ranking!Answered(Ranking!Rankings)
           R == Ranking!Rankings
<1>1. \A i \in DOMAIN segments : Len(segments[i].candidates) \in Nat /\ Len(segments[i].candidates) >= 1
  BY SegmentShape DEF Sent
<1>2. \A i \in DOMAIN segments : R[i] = Ranking!Ranked(i)
  BY DEF Ranking!Rankings
<1>3. CASE trigger = "explicit"
  <2> DEFINE winners == [i \in DOMAIN segments |-> R[i].order[1]]
             confidences == [i \in DOMAIN segments |-> Ranking!Confidence(R[i])]
  <2>1. a = Ranking!BatchReply(winners, confidences)
    BY <1>3 DEF Ranking!Answered, Ranking!Prefetches
  <2>2. \A i \in DOMAIN segments : winners[i] = TheFirst(i)
    BY <1>2, <1>3 DEF TheFirst, Ranking!Prefetches
  <2>3. \A i \in DOMAIN segments : TheFirst(i) \in 1 .. Len(segments[i].candidates)
    <3> TAKE i \in DOMAIN segments
    <3>1. IsOrder(Ranking!Ranked(i).order, Len(segments[i].candidates))
      BY RankedWell DEF Sent
    <3>2. 1 \in 1 .. Len(segments[i].candidates)
      BY <1>1
    <3>3. QED
      BY <1>3, <3>1, <3>2 DEF IsOrder, TheFirst, Ranking!Prefetches
  <2>4. \A i \in DOMAIN segments : Ranking!ConfidenceValid(confidences[i])
    BY <1>2, ConfidenceIsShare DEF Sent
  <2> HIDE DEF winners, confidences, a
  <2>5. QED
    BY <2>1, <2>2, <2>3, <2>4, BatchAnswerTaken DEF a
<1>4. CASE trigger \in Ranking!Prefetches
  <2> DEFINE winners == [i \in DOMAIN segments |-> 1]
             no == FALSE
             c == Ranking!Real(0, no)
             confidences == [i \in DOMAIN segments |-> c]
  <2>1. a = Ranking!BatchReply(winners, confidences)
    BY <1>4 DEF Ranking!Answered, Ranking!Prefetches, Ranking!_prefetch_response
  <2>2. \A i \in DOMAIN segments : winners[i] = TheFirst(i) /\ TheFirst(i) = 1
    BY <1>4 DEF TheFirst
  <2> HIDE DEF no
  <2>3. Ranking!ConfidenceValid(c)
    BY ConfidenceTaken
  <2> HIDE DEF c
  <2>4. \A i \in DOMAIN segments : confidences[i] = c
    OBVIOUS
  <2> HIDE DEF winners, confidences, a
  <2>5. QED
    BY <1>1, <2>1, <2>2, <2>3, <2>4, BatchAnswerTaken DEF a
<1>5. QED
  BY <1>3, <1>4 DEF Sent, Ranking!Prefetches

-----------------------------------------------------------------------------
(* The segments whose first candidate an answer changes. *)
Changed == {i \in DOMAIN segments : TheFirst(i) # 1}

(* The invariant of one request and its answer. *)
AnswerInv ==
  /\ Sent
  /\ DOMAIN counted = {"reordered", "top_changed"} /\ counted["top_changed"] \in Int
  /\ reply = Ranking!NoLine =>
       read = Ranking!NoAnswer /\ counted["top_changed"] = Ranking!Promoted(before)
  /\ reply # Ranking!NoLine =>
       /\ reply = Ranking!Answered(Ranking!Rankings)
       /\ counted["top_changed"] = Ranking!Promoted(before) + Ranking!Cardinality(Changed)
  /\ read.ok => read.winners = [i \in DOMAIN segments |-> TheFirst(i)]

LEMMA AnswerTaken ==
  ASSUME Sent
  PROVE  LET a == Ranking!Answered(Ranking!Rankings) IN
         a.kind = "object" /\ Ranking!Checked(a) = a
BY RankAnswerRead, BatchAnswerRead DEF Ranking!Checked

LEMMA ChangedCounted ==
  ASSUME Sent
  PROVE  IsFiniteSet(Changed) /\ Ranking!Cardinality(Changed) \in Nat
<1>1. Len(segments) \in Nat /\ DOMAIN segments = 1 .. Len(segments)
  BY SegmentsShape DEF Sent
<1>2. IsFiniteSet(1 .. Len(segments))
  <2>1. 1 \in Int /\ Len(segments) \in Int
    BY <1>1
  <2>2. QED
    BY <2>1, FS_Interval
<1>3. Changed \subseteq 1 .. Len(segments)
  BY <1>1 DEF Changed
<1>4. IsFiniteSet(Changed)
  BY <1>2, <1>3, FS_Subset
<1>5. Cardinality(Changed) \in Nat
  BY <1>4, FS_CardinalityType
<1>6. \A S : Ranking!Cardinality(S) = Cardinality(S)
  BY DEF Ranking!Cardinality, Cardinality
<1>7. QED
  BY <1>4, <1>5, <1>6

(* What the status file counts of an answer. *)
More(a) ==
  CASE a.kind # "object" \/ trigger \in Ranking!Prefetches -> [reordered |-> 0, top_changed |-> 0]
    [] a.kind = "object" /\ trigger = "rank" -> Ranking!summarize_reorder(a)
    [] a.kind = "object" /\ trigger = "explicit" -> Ranking!summarize_batch_reorder(a)

LEMMA MoreIsChanged ==
  ASSUME Sent
  PROVE  More(Ranking!Answered(Ranking!Rankings)).top_changed = Ranking!Cardinality(Changed)
<1> DEFINE a == Ranking!Answered(Ranking!Rankings)
<1>1. a.kind = "object"
  BY AnswerTaken
<1>2. Len(segments) \in Nat /\ DOMAIN segments = 1 .. Len(segments)
      /\ \A i \in DOMAIN segments : Len(segments[i].candidates) \in Nat /\ Len(segments[i].candidates) >= 1
                                   /\ DOMAIN segments[i].candidates = 1 .. Len(segments[i].candidates)
  BY SegmentsShape, SegmentShape DEF Sent
<1>3. \A S : Ranking!Cardinality(S) = Cardinality(S)
  BY DEF Ranking!Cardinality, Cardinality
<1>4. \A i \in DOMAIN segments :
        /\ 1 \in 1 .. Len(segments[i].candidates)
        /\ TheFirst(i) \in 1 .. Len(segments[i].candidates)
        /\ Ranking!CandidateId(TheFirst(i)) = Ranking!CandidateId(1) <=> TheFirst(i) = 1
  <2> TAKE i \in DOMAIN segments
  <2>1. IsOrder(Ranking!Ranked(i).order, Len(segments[i].candidates))
    BY RankedWell DEF Sent
  <2>2. 1 \in 1 .. Len(segments[i].candidates)
    BY <1>2
  <2>3. TheFirst(i) \in 1 .. Len(segments[i].candidates)
    BY <2>1, <2>2 DEF IsOrder, TheFirst
  <2>4. QED
    BY <2>2, <2>3, NamesDiffer
<1>5. CASE trigger \in Ranking!Prefetches
  <2>1. Changed = {}
    BY <1>5 DEF Changed, TheFirst
  <2>2. More(a) = [reordered |-> 0, top_changed |-> 0]
    BY <1>5 DEF More, Ranking!Prefetches
  <2>3. QED
    BY <1>3, <2>1, <2>2, FS_EmptySet
<1>6. CASE trigger = "rank"
  <2> DEFINE n == Len(segments[1].candidates)
             ids == [j \in DOMAIN segments[1].candidates |-> Ranking!CandidateId(j)]
             items == Ranking!Get(a, "candidates").items
             said == [k \in DOMAIN ids |-> Ranking!Get(items[k], "id").text]
  <2>1. Len(segments) = 1 /\ 1 \in DOMAIN segments /\ DOMAIN segments = {1}
    BY <1>2, <1>6 DEF Sent
  <2>2. 1 \in 1 .. n /\ DOMAIN segments[1].candidates = 1 .. n
    BY <1>2, <2>1
  <2>3. Ranking!Get(items[1], "id").text = Ranking!CandidateId(Ranking!Ranked(1).order[1])
    <3> HIDE DEF n
    <3>1. QED
      BY <1>6, <2>2, RankAnswerRead DEF n
  <2>4. ids[1] = Ranking!CandidateId(1) /\ said[1] = Ranking!CandidateId(TheFirst(1))
    BY <1>6, <2>2, <2>3 DEF TheFirst, Ranking!Prefetches
  <2>5. More(a) = Ranking!summarize_reorder(a)
    BY <1>1, <1>6 DEF More, Ranking!Prefetches
  <2>6. Ranking!summarize_reorder(a)
          = [reordered |-> IF said # ids THEN 1 ELSE 0, top_changed |-> IF said[1] # ids[1] THEN 1 ELSE 0]
    BY DEF Ranking!summarize_reorder
  <2> HIDE DEF said, ids
  <2>7. More(a).top_changed = IF TheFirst(1) # 1 THEN 1 ELSE 0
    BY <1>4, <2>1, <2>4, <2>5, <2>6
  <2>8. CASE TheFirst(1) = 1
    <3>1. Changed = {}
      BY <2>1, <2>8 DEF Changed
    <3>2. QED
      BY <1>3, <2>7, <2>8, <3>1, FS_EmptySet
  <2>9. CASE TheFirst(1) # 1
    <3>1. Changed = {1}
      BY <2>1, <2>9 DEF Changed
    <3>2. Cardinality({1}) = 1
      BY FS_Singleton
    <3>3. QED
      BY <1>3, <2>7, <2>9, <3>1, <3>2
  <2>10. QED
    BY <2>8, <2>9
<1>7. CASE trigger = "explicit"
  <2> DEFINE items == Ranking!Get(a, "segments").items
             promoted == {i \in DOMAIN segments :
                            Ranking!Get(items[i], "winner_id").text # Ranking!CandidateId(1)}
  <2>1. \A i \in DOMAIN segments : Ranking!Get(items[i], "winner_id").text = Ranking!CandidateId(TheFirst(i))
    BY <1>7, BatchAnswerRead
  <2>2. promoted = Changed
    <3> HIDE DEF items
    <3>1. QED
      BY <1>4, <2>1 DEF Changed
  <2>3. More(a) = Ranking!summarize_batch_reorder(a)
    BY <1>1, <1>7 DEF More, Ranking!Prefetches
  <2>4. Ranking!summarize_batch_reorder(a)
          = [reordered |-> IF promoted # {} THEN 1 ELSE 0, top_changed |-> Ranking!Cardinality(promoted)]
    BY DEF Ranking!summarize_batch_reorder
  <2> HIDE DEF promoted
  <2>5. QED
    BY <2>2, <2>3, <2>4
<1>8. QED
  BY <1>5, <1>6, <1>7 DEF Sent, Ranking!Prefetches

(* What the client reads is what the ranker ranked first. *)
LEMMA WinnersRead ==
  ASSUME Sent, reply = Ranking!Answered(Ranking!Rankings), Ranking!Read, read'.ok
  PROVE  read'.winners = [i \in DOMAIN segments |-> TheFirst(i)]
<1> DEFINE a == Ranking!Answered(Ranking!Rankings)
<1>1. \A i \in DOMAIN segments : TheFirst(i) \in 1 .. Len(segments[i].candidates)
  <2> TAKE i \in DOMAIN segments
  <2>1. IsOrder(Ranking!Ranked(i).order, Len(segments[i].candidates))
    BY RankedWell DEF Sent
  <2>2. 1 \in 1 .. Len(segments[i].candidates)
    BY SegmentShape DEF Sent
  <2>3. QED
    BY <2>1, <2>2 DEF IsOrder, TheFirst
<1>2. \A i \in DOMAIN segments : Ranking!PlaceOf(i, Ranking!CandidateId(TheFirst(i))) = TheFirst(i)
  BY <1>1, PlaceIsKept
<1>3. CASE trigger = "rank"
  <2>1. DOMAIN segments = {1} /\ 1 \in 1 .. Len(segments[1].candidates)
    BY <1>1, <1>3, SegmentsShape, SegmentShape DEF Sent
  <2>2. Ranking!Get(Ranking!Get(a, "candidates").items[1], "id").text = Ranking!CandidateId(TheFirst(1))
    BY <1>3, <2>1, RankAnswerRead DEF TheFirst, Ranking!Prefetches
  <2>3. read'.winners = <<Ranking!PlaceOf(1, Ranking!Get(Ranking!Get(a, "candidates").items[1], "id").text)>>
    BY <1>3 DEF Ranking!Read
  <2>4. read'.winners = <<TheFirst(1)>>
    BY <1>2, <2>1, <2>2, <2>3
  <2> HIDE DEF a
  <2>5. <<TheFirst(1)>> = [i \in {1} |-> TheFirst(i)]
    OBVIOUS
  <2>6. QED
    BY <2>1, <2>4, <2>5
<1>4. CASE trigger # "rank"
  <2>1. \A i \in DOMAIN segments :
          Ranking!Get(Ranking!Get(a, "segments").items[i], "winner_id").text = Ranking!CandidateId(TheFirst(i))
    BY <1>4, BatchAnswerRead
  <2>2. read'.winners = [i \in DOMAIN segments |->
          Ranking!PlaceOf(i, Ranking!Get(Ranking!Get(a, "segments").items[i], "winner_id").text)]
    BY <1>4 DEF Ranking!Read
  <2> HIDE DEF a
  <2>3. QED
    BY <1>2, <2>1, <2>2
<1>5. QED
  BY <1>3, <1>4

(* What no step changes. *)
LEMMA RequestStays ==
  ASSUME Sent, [Ranking!Next]_(Ranking!vars)
  PROVE  /\ Sent'
         /\ UNCHANGED <<backend, trigger, segments>>
         /\ logits' = logits => /\ \A i \in DOMAIN segments : Ranking!Ranked(i)' = Ranking!Ranked(i)
                                /\ Ranking!Rankings' = Ranking!Rankings
<1>1. UNCHANGED <<backend, trigger, segments>>
  BY DEF Ranking!Next, Ranking!process_line, Ranking!Read, Ranking!Improve, Ranking!vars
<1>2. RankingInv'
  BY RankingStep DEF Sent
<1>3. Ranking!Builds' = Ranking!Builds
  BY <1>1 DEF Ranking!Builds, Ranking!Inputs, Ranking!Input
<1>4. Sent'
  BY <1>1, <1>2, <1>3 DEF Sent
<1>5. ASSUME logits' = logits
      PROVE  /\ \A i : Ranking!Ranked(i)' = Ranking!Ranked(i)
             /\ Ranking!Rankings' = Ranking!Rankings
  <2>1. Ranking!config' = Ranking!config
    BY <1>1 DEF Ranking!config
  <2>2. \A i : Ranking!Raw(i)' = Ranking!Raw(i)
    BY <1>1, <1>5 DEF Ranking!Raw
  <2>3. \A i : Ranking!Ranked(i)' = Ranking!Ranked(i)
    BY <1>1, <2>1, <2>2 DEF Ranking!Ranked
  <2>4. QED
    BY <1>1, <2>3 DEF Ranking!Rankings
<1>6. QED
  BY <1>1, <1>4, <1>5

LEMMA AnswerStays ==
  ASSUME Sent, [Ranking!Next]_(Ranking!vars), logits' = logits
  PROVE  /\ \A i \in DOMAIN segments : TheFirst(i)' = TheFirst(i)
         /\ Changed' = Changed
         /\ Ranking!Answered(Ranking!Rankings)' = Ranking!Answered(Ranking!Rankings)
<1>1. UNCHANGED <<backend, trigger, segments>> /\ Ranking!Rankings' = Ranking!Rankings
      /\ \A i \in DOMAIN segments : Ranking!Ranked(i)' = Ranking!Ranked(i)
  BY RequestStays
<1>2. \A i \in DOMAIN segments : TheFirst(i)' = TheFirst(i)
  BY <1>1 DEF TheFirst
<1>3. Changed' = Changed
  BY <1>1, <1>2 DEF Changed
<1>4. Ranking!Payload' = Ranking!Payload
  BY <1>1 DEF Ranking!Payload, Ranking!Input, Ranking!Inputs, Ranking!SendBatchRequest,
              Ranking!RankBatch, Ranking!PrefetchContextBatch, Ranking!PrefetchCandidateBatch
<1>5. \A r : Ranking!RankReply(r)' = Ranking!RankReply(r)
  BY <1>4 DEF Ranking!RankReply
<1>6. \A w, c : Ranking!BatchReply(w, c)' = Ranking!BatchReply(w, c)
  BY <1>1, <1>4 DEF Ranking!BatchReply
<1>7. \A r : Ranking!Confidence(r)' = Ranking!Confidence(r)
  BY <1>1 DEF Ranking!Confidence, Ranking!config
<1>8. QED
  BY <1>1, <1>2, <1>3, <1>5, <1>6, <1>7 DEF Ranking!Answered, Ranking!_prefetch_response

LEMMA AnswerStep ==
  ASSUME AnswerInv, [Ranking!Next]_(Ranking!vars)
  PROVE  AnswerInv'
<1> DEFINE a == Ranking!Answered(Ranking!Rankings)
<1>1. Sent /\ Sent' /\ UNCHANGED <<backend, trigger, segments>>
  BY RequestStays DEF AnswerInv
<1>2. a.kind = "object" /\ Ranking!Checked(a) = a /\ a # Ranking!NoLine
  BY <1>1, AnswerTaken DEF Ranking!NoLine
<1>3. IsFiniteSet(Changed) /\ Ranking!Cardinality(Changed) \in Nat
  BY <1>1, ChangedCounted
<1>4. CASE Ranking!process_line
  <2>1. reply = Ranking!NoLine /\ reply' = a /\ UNCHANGED <<logits, read, before>> /\ Ranking!Count(a)
    BY <1>2, <1>4 DEF Ranking!process_line
  <2>2. counted' = [f \in DOMAIN counted |-> counted[f] + More(a)[f]]
    BY <2>1 DEF Ranking!Count, More
  <2>3. More(a).top_changed = Ranking!Cardinality(Changed)
    BY <1>1, MoreIsChanged
  <2>4. DOMAIN counted' = {"reordered", "top_changed"}
        /\ counted'["top_changed"] = counted["top_changed"] + Ranking!Cardinality(Changed)
    <3> HIDE DEF a
    <3>1. DOMAIN counted = {"reordered", "top_changed"}
      BY DEF AnswerInv
    <3>2. QED
      BY <2>2, <2>3, <3>1
  <2>5. Changed' = Changed /\ a' = a
    BY <1>1, <2>1, AnswerStays
  <2>6. counted["top_changed"] = Ranking!Promoted(before) /\ read = Ranking!NoAnswer /\ counted["top_changed"] \in Int
    BY <2>1 DEF AnswerInv
  <2>7. Ranking!Promoted(before)' = Ranking!Promoted(before)
    BY <2>1 DEF Ranking!Promoted
  <2>8. Ranking!Cardinality(Changed)' = Ranking!Cardinality(Changed)
    BY <2>5
  <2>9. ~read'.ok
    BY <2>1, <2>6 DEF Ranking!NoAnswer
  <2>10. reply' # Ranking!NoLine
    BY <1>2, <2>1
  <2> HIDE DEF a
  <2>11. QED
    BY <1>1, <1>3, <2>1, <2>4, <2>5, <2>6, <2>7, <2>8, <2>9, <2>10 DEF AnswerInv, a
<1>5. CASE Ranking!Read
  <2>1. reply # Ranking!NoLine /\ UNCHANGED <<logits, reply, before, counted>>
    BY <1>5 DEF Ranking!Read
  <2>2. Changed' = Changed /\ a' = a /\ \A i \in DOMAIN segments : TheFirst(i)' = TheFirst(i)
    BY <1>1, <2>1, AnswerStays
  <2>3. reply = a
    BY <2>1 DEF AnswerInv
  <2>4. read'.ok => read'.winners = [i \in DOMAIN segments |-> TheFirst(i)]
    BY <1>1, <1>5, <2>3, WinnersRead
  <2>5. read'.ok => read'.winners = [i \in DOMAIN segments |-> TheFirst(i)]'
    BY <1>1, <2>2, <2>4
  <2>6. Ranking!Promoted(before)' = Ranking!Promoted(before)
    BY <2>1 DEF Ranking!Promoted
  <2> HIDE DEF a
  <2>7. QED
    BY <1>1, <2>1, <2>2, <2>3, <2>5, <2>6 DEF AnswerInv, a
<1>6. CASE Ranking!Improve
  <2>1. /\ read.ok /\ before = Ranking!NoAnswer /\ before' = read
        /\ reply' = Ranking!NoLine /\ read' = Ranking!NoAnswer /\ counted' = counted
    BY <1>6 DEF Ranking!Improve
  <2>2. reply # Ranking!NoLine
    BY <2>1 DEF AnswerInv, Ranking!NoAnswer
  <2>3. Ranking!Promoted(before) = 0
    BY <2>1 DEF Ranking!Promoted, Ranking!NoAnswer
  <2>4. read.winners = [i \in DOMAIN segments |-> TheFirst(i)]
    BY <2>1 DEF AnswerInv
  <2>5. {i \in DOMAIN read.winners : read.winners[i] # 1} = Changed
    BY <2>4 DEF Changed
  <2>6. Ranking!Promoted(before)' = Ranking!Cardinality(Changed)
    <3>1. Ranking!Promoted(before)' = Ranking!Promoted(read)
      BY <2>1 DEF Ranking!Promoted
    <3>2. QED
      BY <2>1, <2>5, <3>1 DEF Ranking!Promoted
  <2>7. counted["top_changed"] = Ranking!Cardinality(Changed)
    BY <1>3, <2>2, <2>3 DEF AnswerInv
  <2>8. ~read'.ok
    BY <2>1 DEF Ranking!NoAnswer
  <2>9. QED
    BY <1>1, <2>1, <2>6, <2>7, <2>8 DEF AnswerInv
<1>7. CASE UNCHANGED Ranking!vars
  <2>1. UNCHANGED <<logits, reply, read, before, counted>>
    BY <1>7 DEF Ranking!vars
  <2>2. Changed' = Changed /\ a' = a /\ \A i \in DOMAIN segments : TheFirst(i)' = TheFirst(i)
    BY <1>1, <2>1, AnswerStays
  <2>3. [i \in DOMAIN segments |-> TheFirst(i)]' = [i \in DOMAIN segments |-> TheFirst(i)]
    BY <1>1, <2>2
  <2>4. Ranking!Promoted(before)' = Ranking!Promoted(before)
    BY <2>1 DEF Ranking!Promoted
  <2> HIDE DEF a
  <2>5. QED
    BY <1>1, <2>1, <2>2, <2>3, <2>4 DEF AnswerInv, a
<1>8. QED
  BY <1>4, <1>5, <1>6, <1>7 DEF Ranking!Next

LEMMA AnswersBegin ==
  ASSUME Ranking!Init PROVE AnswerInv
<1>1. Opinions(backend) \subseteq Int
  BY RankingAssumption DEF Ranking!Init
<1>2. \A S : [S -> Opinions(backend)] \subseteq [S -> Int]
  BY <1>1
<1>3. RankingInv
  BY <1>2 DEF Ranking!Init, RankingInv
<1>4. Sent
  BY <1>3 DEF Ranking!Init, Sent
<1>5. counted = [reordered |-> 0, top_changed |-> 0] /\ reply = Ranking!NoLine
      /\ read = Ranking!NoAnswer /\ before = Ranking!NoAnswer
  BY DEF Ranking!Init
<1>6. Ranking!Promoted(before) = 0 /\ ~read.ok
  BY <1>5 DEF Ranking!Promoted, Ranking!NoAnswer
<1>7. QED
  BY <1>4, <1>5, <1>6 DEF AnswerInv

(* protocol.py:4-6, ai_ranker_client.cc:181-234: a request the client could    *)
(* write is answered, an answer to one segment is read, and the changed first  *)
(* candidates the status file counts are the ones the client read; for any     *)
(* request, any backend, any opinions of its models and any names.             *)
THEOREM AnswersRead == Ranking!Spec => []RankingsAreRead
<1>1. Ranking!Init => AnswerInv
  BY AnswersBegin
<1>2. AnswerInv => RankingsAreRead
  <2> SUFFICES ASSUME AnswerInv PROVE Ranking!RankingsAreRead
    BY DEF RankingsAreRead
  <2> DEFINE a == Ranking!Answered(Ranking!Rankings)
  <2>1. Sent
    BY DEF AnswerInv
  <2>2. a.kind = "object"
    BY <2>1, AnswerTaken
  <2>3. reply.kind # "dropped"
    BY <2>2 DEF AnswerInv, Ranking!NoLine
  <2>4. trigger = "rank" /\ reply.kind = "object" => Ranking!Readable
    <3> SUFFICES ASSUME trigger = "rank", reply.kind = "object" PROVE Ranking!Readable
      OBVIOUS
    <3>1. reply = a
      BY DEF AnswerInv, Ranking!NoLine
    <3>2. Ranking!ParseResponse(a, "mozc-1", Ranking!CandidateIds(1))
      BY <2>1, RankAnswerRead
    <3> HIDE DEF a
    <3>3. QED
      BY <3>1, <3>2 DEF Ranking!Readable
  <2>5. read.ok => counted.top_changed = Ranking!Promoted(before) + Ranking!Promoted(read)
    <3> SUFFICES ASSUME read.ok
                 PROVE  counted.top_changed = Ranking!Promoted(before) + Ranking!Promoted(read)
      OBVIOUS
    <3>1. reply # Ranking!NoLine
      BY DEF AnswerInv, Ranking!NoAnswer
    <3>2. counted.top_changed = Ranking!Promoted(before) + Ranking!Cardinality(Changed)
      BY <3>1 DEF AnswerInv
    <3>3. read.winners = [i \in DOMAIN segments |-> TheFirst(i)]
      BY DEF AnswerInv
    <3>4. {i \in DOMAIN read.winners : read.winners[i] # 1} = Changed
      BY <3>3 DEF Changed
    <3>5. QED
      BY <3>2, <3>4 DEF Ranking!Promoted
  <2>6. QED
    BY <2>3, <2>4, <2>5 DEF Ranking!RankingsAreRead
<1>3. QED
  BY <1>1, <1>2, AnswerStep, PTL DEF Ranking!Spec

-----------------------------------------------------------------------------
(* What the models think better of. *)
(* The first of an order is ahead of all others, and only that one is. *)
LEMMA FirstIsAhead ==
  ASSUME NEW n \in Nat, NEW score \in [1 .. n -> Int], NEW w \in 1 .. n
  PROVE  Ranking!Descending(score)[1] = w <=> \A j \in (1 .. n) \ {w} : Precedes(score, w, j)
<1> DEFINE d == Ranking!Descending(score)
<1>1. /\ IsOrder(d, n)
      /\ \A i \in 1 .. n : \E k \in 1 .. n : d[k] = i
      /\ \A k, l \in 1 .. n : k < l => Precedes(score, d[k], d[l])
  BY SortedHere
<1>2. 1 \in 1 .. n /\ \A k \in 1 .. n : k = 1 \/ 1 < k
  OBVIOUS
<1>3. d[1] \in 1 .. n
  BY <1>1, <1>2 DEF IsOrder
<1> HIDE DEF d
<1>4. ASSUME d[1] = w, NEW j \in (1 .. n) \ {w} PROVE Precedes(score, w, j)
  <2>1. PICK k \in 1 .. n : d[k] = j
    BY <1>1
  <2>2. 1 < k
    BY <1>2, <1>4, <2>1
  <2>3. QED
    BY <1>1, <1>2, <1>4, <2>1, <2>2
<1>5. ASSUME \A j \in (1 .. n) \ {w} : Precedes(score, w, j), d[1] # w PROVE FALSE
  <2>1. Precedes(score, w, d[1])
    BY <1>3, <1>5
  <2>2. PICK k \in 1 .. n : d[k] = w
    BY <1>1
  <2>3. 1 < k
    BY <1>2, <1>5, <2>2
  <2>4. Precedes(score, d[1], w)
    BY <1>1, <1>2, <2>2, <2>3
  <2>5. score[w] \in Int /\ score[d[1]] \in Int /\ w \in Int /\ d[1] \in Int
    BY <1>3
  <2>6. QED
    BY <2>1, <2>4, <2>5 DEF Precedes
<1>6. QED
  BY <1>4, <1>5 DEF d

(* Two opinions: g is f with some places, all alike, better by so much. *)
Raised(f, g, n, those, more) ==
  /\ f \in [1 .. n -> Int] /\ g \in [1 .. n -> Int]
  /\ those \subseteq 1 .. n /\ more \in Nat
  /\ \A i \in those : g[i] = f[i] + more
  /\ \A i \in (1 .. n) \ those : g[i] = f[i]

LEMMA StaysFirst ==
  ASSUME NEW n \in Nat, NEW f, NEW g, NEW those, NEW more, Raised(f, g, n, those, more),
         NEW w \in those, Ranking!Descending(f)[1] = w
  PROVE  Ranking!Descending(g)[1] = w
<1>1. w \in 1 .. n /\ f \in [1 .. n -> Int] /\ g \in [1 .. n -> Int]
  BY DEF Raised
<1>2. \A j \in (1 .. n) \ {w} : Precedes(f, w, j)
  BY <1>1, FirstIsAhead
<1>3. ASSUME NEW j \in (1 .. n) \ {w} PROVE Precedes(g, w, j)
  <2>1. Precedes(f, w, j)
    BY <1>2
  <2>2. f[w] \in Int /\ f[j] \in Int /\ more \in Nat
    BY <1>1 DEF Raised
  <2>3. g[w] = f[w] + more /\ (g[j] = f[j] + more \/ g[j] = f[j])
    BY DEF Raised
  <2>4. QED
    BY <2>1, <2>2, <2>3 DEF Precedes
<1>4. QED
  BY <1>1, <1>3, FirstIsAhead

(* The exponential does not fall, up to nought. *)
LEMMA Falling ==
  ASSUME NEW N \in Nat, NEW f, \A k \in 1 .. N : f[k] \in Int,
         \A k \in 1 .. N : k < N => f[k] >= f[k + 1],
         NEW a \in 1 .. N, NEW b \in 1 .. N, a <= b
  PROVE  f[a] >= f[b]
<1> DEFINE Bad == {l \in 1 .. N : a <= l /\ ~(f[a] >= f[l])}
<1>1. SUFFICES ASSUME Bad # {} PROVE FALSE
  OBVIOUS
<1>2. PICK l \in Bad : \A m \in Bad : l <= m
  <2>1. Bad \subseteq Nat
    OBVIOUS
  <2> HIDE DEF Bad
  <2>2. QED
    BY <1>1, <2>1, Least
<1>3. l \in Nat /\ f[a] \in Int /\ f[l] \in Int /\ l # a
  OBVIOUS
<1>4. l - 1 \in 1 .. N /\ a <= l - 1 /\ l - 1 < N /\ (l - 1) + 1 = l
  BY <1>3
<1>5. l - 1 \notin Bad
  BY <1>2, <1>3
<1>6. f[a] >= f[l - 1] /\ f[l - 1] >= f[l] /\ f[l - 1] \in Int
  BY <1>4, <1>5
<1>7. QED
  BY <1>3, <1>6

LEMMA ExpRises ==
  ASSUME NEW x \in Int, NEW y \in Int, x <= y, y <= 0
  PROVE  Ranking!Exp(x) <= Ranking!Exp(y)
<1> DEFINE table == <<10000, 7788, 6065, 4724, 3679, 2865, 2231, 1738, 1353, 1054, 821, 639, 498, 388,
                 302, 235, 183, 143, 111, 87, 67, 52, 41, 32, 25, 19, 15, 12, 9, 7, 6, 4, 3, 3, 2,
                 2, 1, 1>>
           at(z) == 1 + ((-z) \div 25)
<1>1. DOMAIN table = 1 .. 38
  OBVIOUS
<1>2. \A k \in 1 .. 38 : k < 38 => table[k] >= table[k + 1]
  <2>1. \A k \in 1 .. 38 : k < 38 => k \in 1 .. 10 \/ k \in 11 .. 20 \/ k \in 21 .. 30 \/ k \in 31 .. 37
    OBVIOUS
  <2>2. \A k \in 1 .. 10 : table[k] >= table[k + 1]
    <3>1. \A k \in 1 .. 10 : k \in {1, 2, 3, 4, 5, 6, 7, 8, 9, 10}
      OBVIOUS
    <3>2. QED
      BY <3>1
  <2>3. \A k \in 11 .. 20 : table[k] >= table[k + 1]
    <3>1. \A k \in 11 .. 20 : k \in {11, 12, 13, 14, 15, 16, 17, 18, 19, 20}
      OBVIOUS
    <3>2. QED
      BY <3>1
  <2>4. \A k \in 21 .. 30 : table[k] >= table[k + 1]
    <3>1. \A k \in 21 .. 30 : k \in {21, 22, 23, 24, 25, 26, 27, 28, 29, 30}
      OBVIOUS
    <3>2. QED
      BY <3>1
  <2>5. \A k \in 31 .. 37 : table[k] >= table[k + 1]
    <3>1. \A k \in 31 .. 37 : k \in {31, 32, 33, 34, 35, 36, 37}
      OBVIOUS
    <3>2. QED
      BY <3>1
  <2> HIDE DEF table
  <2>6. QED
    BY <2>1, <2>2, <2>3, <2>4, <2>5
<1>3. table \in Seq(Nat)
  OBVIOUS
<1>4. \A z : Ranking!Exp(z) = IF at(z) \in DOMAIN table THEN table[at(z)] ELSE 0
  BY DEF Ranking!Exp
<1>5. /\ at(x) \in Int /\ at(y) \in Int
      /\ at(y) <= at(x) /\ 1 <= at(y)
  <2>1. (-x) \in Int /\ (-y) \in Int /\ 0 <= -y /\ -y <= -x
    OBVIOUS
  <2>2. QED
    BY <2>1
<1> HIDE DEF table, at
<1>6. \A k \in 1 .. 38 : table[k] \in Nat
  BY <1>1, <1>3, LenProperties
<1>7. CASE at(x) \in 1 .. 38
  <2>1. at(y) \in 1 .. 38
    BY <1>5, <1>7
  <2>2. 38 \in Nat
    OBVIOUS
  <2>3. \A k \in 1 .. 38 : table[k] \in Int
    BY <1>6
  <2>4. table[at(y)] >= table[at(x)]
    BY <1>2, <1>5, <1>7, <2>1, <2>2, <2>3, Falling
  <2>5. table[at(x)] \in Nat /\ table[at(y)] \in Nat
    BY <1>6, <1>7, <2>1
  <2>6. QED
    BY <1>1, <1>4, <1>7, <2>1, <2>4, <2>5
<1>8. CASE at(x) \notin 1 .. 38
  <2>1. Ranking!Exp(x) = 0
    BY <1>1, <1>4, <1>8
  <2>2. Ranking!Exp(y) \in Nat
    BY ExpIsShare
  <2>3. QED
    BY <2>1, <2>2
<1>9. QED
  BY <1>7, <1>8

(* A greater part of a whole, rounded down. *)
LEMMA LargerQuotient ==
  ASSUME NEW a \in Nat, NEW t \in Nat, t > 0, NEW b \in Nat, NEW u \in Nat, u > 0,
         a * u <= b * t
  PROVE  a \div t <= b \div u
<1> DEFINE q == a \div t
           p == b \div u
<1>1. q \in Int /\ t * q <= a
  OBVIOUS
<1>2. p \in Int /\ b < u * p + u
  OBVIOUS
<1> HIDE DEF q, p
<1>3. SUFFICES ASSUME p < q PROVE FALSE
  BY <1>1, <1>2 DEF p, q
<1>4. p + 1 <= q
  BY <1>1, <1>2, <1>3
<1> DEFINE r == p + 1
<1>5. r \in Int /\ r <= q /\ b < u * r
  <2>1. u * (p + 1) = u * p + u
    BY <1>2
  <2>2. QED
    BY <1>2, <1>4, <2>1
<1> HIDE DEF r
<1>6. t * r <= t * q
  <2>1. q - r \in Nat
    BY <1>1, <1>5
  <2>2. t * (q - r) >= 0
    BY <2>1
  <2>3. t * (q - r) = t * q - t * r /\ t * q \in Int /\ t * r \in Int
    BY <1>1, <1>5
  <2>4. QED
    BY <2>2, <2>3
<1>7. t * r <= a
  BY <1>1, <1>5, <1>6
<1>8. (t * r) * u <= a * u
  <2>1. a - t * r \in Nat
    BY <1>5, <1>7
  <2>2. (a - t * r) * u >= 0
    BY <2>1
  <2>3. (a - t * r) * u = a * u - (t * r) * u /\ a * u \in Int /\ (t * r) * u \in Int
    BY <1>5
  <2>4. QED
    BY <2>2, <2>3
<1>9. b * t < (u * r) * t
  <2>1. u * r - b > 0 /\ u * r - b \in Int
    BY <1>5
  <2>2. (u * r - b) * t > 0
    BY <2>1
  <2>3. (u * r - b) * t = (u * r) * t - b * t /\ b * t \in Int /\ (u * r) * t \in Int
    BY <1>5
  <2>4. QED
    BY <2>2, <2>3
<1>10. (t * r) * u = (u * r) * t
  BY <1>5
<1>11. (t * r) * u \in Int /\ a * u \in Int /\ b * t \in Int
  BY <1>5
<1>12. QED
  BY <1>8, <1>9, <1>10, <1>11

(* The highest of all is one of them. *)
LEMMA TopIsOne ==
  ASSUME NEW n \in Nat, NEW score \in [1 .. n -> Int], n # 0
  PROVE  /\ TopOf(score) \in Int
         /\ \A j \in 1 .. n : score[j] <= TopOf(score)
         /\ \E j \in 1 .. n : score[j] = TopOf(score)
<1> DEFINE V == {score[j] : j \in DOMAIN score}
<1>1. DOMAIN score = 1 .. n /\ 1 .. n # {}
  OBVIOUS
<1>2. PICK j \in 1 .. n : \A k \in 1 .. n : score[k] <= score[j]
  BY <1>1, BestPlace
<1>3. V \subseteq Int /\ score[j] \in V /\ \A v \in V : score[j] >= v
  BY <1>1, <1>2
<1> HIDE DEF V
<1>4. Ranking!Max(V) \in V /\ \A v \in V : Ranking!Max(V) >= v
  BY <1>3 DEF Ranking!Max
<1>5. \A k \in 1 .. n : score[k] \in V
  BY <1>1 DEF V
<1>6. \E k \in 1 .. n : score[k] = Ranking!Max(V)
  BY <1>1, <1>4 DEF V
<1>7. TopOf(score) = Ranking!Max(V)
  BY DEF TopOf, V
<1>8. Ranking!Max(V) \in Int /\ \A k \in 1 .. n : score[k] <= Ranking!Max(V)
  BY <1>3, <1>4, <1>5
<1>9. QED
  BY <1>6, <1>7, <1>8

(* What is raised has a share no smaller than before. *)
LEMMA ShareRises ==
  ASSUME NEW n \in Nat, NEW f, NEW g, NEW those, NEW more, Raised(f, g, n, those, more),
         NEW w \in those, \A i \in those : f[i] = f[w]
  PROVE  Ranking!neural_top_probability(f, w) <= Ranking!neural_top_probability(g, w)
<1>1. /\ f \in [1 .. n -> Int] /\ g \in [1 .. n -> Int] /\ those \subseteq 1 .. n /\ w \in 1 .. n
      /\ more \in Nat /\ n # 0
  BY DEF Raised
<1>2. /\ TotalOf(f) \in Nat /\ TotalOf(f) > 0 /\ TotalOf(g) \in Nat /\ TotalOf(g) > 0
      /\ \A i \in 1 .. n : Weight(f, i) \in Nat /\ Weight(g, i) \in Nat
  <2>1. ASSUME NEW s \in [1 .. n -> Int]
        PROVE  TotalOf(s) \in Nat /\ TotalOf(s) > 0 /\ \A i \in 1 .. n : Weight(s, i) \in Nat
    <3>1. ASSUME NEW i \in 1 .. n PROVE TotalOf(s) \in Nat /\ TotalOf(s) > 0 /\ Weight(s, i) \in Nat
      BY Share
    <3>2. QED
      BY <1>1, <3>1
  <2>2. QED
    BY <1>1, <2>1
<1>3. /\ Ranking!neural_top_probability(f, w) = (100 * Weight(f, w)) \div TotalOf(f)
      /\ Ranking!neural_top_probability(g, w) = (100 * Weight(g, w)) \div TotalOf(g)
  BY DEF Ranking!neural_top_probability, Weight, TotalOf, TopOf
<1>4. /\ TopOf(f) \in Int /\ \A j \in 1 .. n : f[j] <= TopOf(f)
      /\ TopOf(g) \in Int /\ \A j \in 1 .. n : g[j] <= TopOf(g)
  BY <1>1, TopIsOne
<1>5. TopOf(f) <= TopOf(g) /\ TopOf(g) <= TopOf(f) + more
  <2>1. \A j \in 1 .. n : f[j] <= g[j] /\ g[j] <= f[j] + more /\ f[j] \in Int /\ g[j] \in Int
    <3> TAKE j \in 1 .. n
    <3>1. f[j] \in Int /\ (g[j] = f[j] + more \/ g[j] = f[j])
      BY <1>1 DEF Raised
    <3>2. QED
      BY <1>1, <3>1
  <2>2. PICK j \in 1 .. n : f[j] = TopOf(f)
    BY <1>1, TopIsOne
  <2>3. PICK k \in 1 .. n : g[k] = TopOf(g)
    BY <1>1, TopIsOne
  <2>4. f[j] <= g[j] /\ g[j] <= TopOf(g) /\ g[j] \in Int
    BY <1>4, <2>1
  <2>5. g[k] <= f[k] + more /\ f[k] <= TopOf(f) /\ f[k] \in Int
    BY <1>4, <2>1
  <2>6. QED
    BY <1>1, <1>4, <2>2, <2>3, <2>4, <2>5
<1>6. \A i \in those : Weight(f, i) = Weight(f, w) /\ Weight(g, i) = Weight(g, w)
  <2> TAKE i \in those
  <2>1. f[i] = f[w] /\ g[i] = f[i] + more /\ g[w] = f[w] + more
    BY DEF Raised
  <2>2. QED
    BY <2>1 DEF Weight
<1>7. Weight(f, w) <= Weight(g, w)
  <2> DEFINE x == f[w] - TopOf(f)
             y == g[w] - TopOf(g)
  <2>1. g[w] = f[w] + more /\ f[w] \in Int /\ g[w] \in Int /\ g[w] <= TopOf(g)
    BY <1>1, <1>4 DEF Raised
  <2>2. x \in Int /\ y \in Int /\ x <= y /\ y <= 0
    BY <1>1, <1>4, <1>5, <2>1
  <2> HIDE DEF x, y
  <2>3. Ranking!Exp(x) <= Ranking!Exp(y)
    BY <2>2, ExpRises
  <2>4. QED
    BY <2>3 DEF Weight, x, y
<1>8. \A i \in (1 .. n) \ those : Weight(g, i) <= Weight(f, i)
  <2> TAKE i \in (1 .. n) \ those
  <2> DEFINE x == g[i] - TopOf(g)
             y == f[i] - TopOf(f)
  <2>1. g[i] = f[i] /\ f[i] \in Int /\ f[i] <= TopOf(f)
    BY <1>1, <1>4 DEF Raised
  <2>2. x \in Int /\ y \in Int /\ x <= y /\ y <= 0
    BY <1>4, <1>5, <2>1
  <2> HIDE DEF x, y
  <2>3. Ranking!Exp(x) <= Ranking!Exp(y)
    BY <2>2, ExpRises
  <2>4. QED
    BY <2>3 DEF Weight, x, y
<1> DEFINE a == Weight(f, w)
           b == Weight(g, w)
           F == [j \in 1 .. n |-> Weight(f, j)]
           G == [j \in 1 .. n |-> Weight(g, j)]
<1>9. a \in Nat /\ b \in Nat /\ a <= b /\ \A i \in 1 .. n : F[i] \in Nat /\ G[i] \in Nat
  BY <1>1, <1>2, <1>7
<1>10. \A i \in 1 .. n : a * G[i] <= b * F[i]
  <2> TAKE i \in 1 .. n
  <2>1. CASE i \in those
    <3>1. F[i] = a /\ G[i] = b
      BY <1>6, <2>1
    <3> HIDE DEF a, b, F, G
    <3>2. QED
      BY <1>9, <3>1
  <2>2. CASE i \notin those
    <3> DEFINE x == F[i]
               y == G[i]
    <3>1. x \in Nat /\ y \in Nat /\ y <= x
      BY <1>8, <1>9, <2>2
    <3> HIDE DEF a, b, x, y, F, G
    <3>2. a * y <= a * x
      BY <1>9, <3>1
    <3>3. a * x <= b * x
      BY <1>9, <3>1
    <3>4. a * y \in Int /\ a * x \in Int /\ b * x \in Int
      BY <1>9, <3>1
    <3>5. a * y <= b * x
      BY <3>2, <3>3, <3>4
    <3>6. QED
      BY <3>5 DEF x, y
  <2>3. QED
    BY <2>1, <2>2
<1>11. IsFiniteSet(1 .. n)
  <2>1. 1 \in Int /\ n \in Int
    OBVIOUS
  <2>2. QED
    BY <2>1, FS_Interval
<1>12. TotalOf(f) = SumFunctionOnSet(F, 1 .. n) /\ TotalOf(g) = SumFunctionOnSet(G, 1 .. n)
  <2>1. DOMAIN f = 1 .. n /\ DOMAIN g = 1 .. n
    BY <1>1
  <2>2. TotalOf(f) = Ranking!SumFunction(F) /\ TotalOf(g) = Ranking!SumFunction(G)
    BY <2>1 DEF TotalOf, Weight
  <2>3. QED
    BY <2>2, SumHere
<1> HIDE DEF a, b, F, G
<1>13. a * TotalOf(g) <= b * TotalOf(f)
  <2>1. a \in Int /\ b \in Int /\ \A i \in 1 .. n : G[i] \in Int /\ F[i] \in Int
    BY <1>9
  <2>2. QED
    BY <1>10, <1>11, <1>12, <2>1, SumCompared
<1>14. 100 * a \in Nat /\ 100 * b \in Nat /\ (100 * a) * TotalOf(g) <= (100 * b) * TotalOf(f)
  <2> DEFINE T == TotalOf(f)
             U == TotalOf(g)
  <2>1. T \in Nat /\ U \in Nat /\ a * U <= b * T
    BY <1>2, <1>13
  <2> HIDE DEF T, U
  <2>2. (100 * a) * U = 100 * (a * U) /\ (100 * b) * T = 100 * (b * T) /\ a * U \in Int /\ b * T \in Int
    BY <1>9, <2>1
  <2>3. QED
    BY <1>9, <2>1, <2>2 DEF T, U
<1>15. (100 * a) \div TotalOf(f) <= (100 * b) \div TotalOf(g)
  BY <1>2, <1>14, LargerQuotient
<1>16. QED
  BY <1>3, <1>15 DEF a, b

(* The candidates other than the first, by the best of their evidence. *)
OtherPlaces(n, w) == (1 .. n) \ {w}
BestOther(e, w)  == Ranking!Max({e[i] : i \in DOMAIN e \ {w}})
RunnerAt(s, e, w) == {k \in DOMAIN s : s[k] \in DOMAIN e \ {w} /\ e[s[k]] = BestOther(e, w)}
Runner(s, e, w)  == s[Ranking!Min(RunnerAt(s, e, w))]

LEMMA BestIsOne ==
  ASSUME NEW n \in Nat, NEW e \in [1 .. n -> Int], NEW w \in 1 .. n, OtherPlaces(n, w) # {}
  PROVE  /\ BestOther(e, w) \in Int
         /\ \A i \in OtherPlaces(n, w) : e[i] <= BestOther(e, w)
         /\ \E i \in OtherPlaces(n, w) : e[i] = BestOther(e, w)
<1> DEFINE T == OtherPlaces(n, w)
           V == {e[j] : j \in DOMAIN e \ {w}}
<1>1. DOMAIN e \ {w} = T /\ T \subseteq 1 .. n /\ T # {}
  BY DEF OtherPlaces
<1>2. PICK j \in T : \A k \in T : e[k] <= e[j]
  BY <1>1, BestPlace
<1>3. V \subseteq Int /\ e[j] \in V /\ \A v \in V : e[j] >= v
  BY <1>1, <1>2
<1> HIDE DEF V
<1>4. Ranking!Max(V) \in V /\ \A v \in V : Ranking!Max(V) >= v
  BY <1>3 DEF Ranking!Max
<1>5. \A k \in T : e[k] \in V
  BY <1>1 DEF V
<1>6. \E k \in T : e[k] = Ranking!Max(V)
  BY <1>1, <1>4 DEF V
<1>7. BestOther(e, w) = Ranking!Max(V)
  BY DEF BestOther, V
<1>8. Ranking!Max(V) \in Int /\ \A k \in T : e[k] <= Ranking!Max(V)
  BY <1>3, <1>4, <1>5
<1>9. QED
  BY <1>6, <1>7, <1>8

(* The first of the best, in the order given. *)
LEMMA RunnerIsFirst ==
  ASSUME NEW n \in Nat, NEW e \in [1 .. n -> Int], NEW w \in 1 .. n, OtherPlaces(n, w) # {},
         NEW F \in [1 .. n -> Int]
  PROVE  LET r == Runner(Ranking!Descending(F), e, w) IN
         /\ r \in OtherPlaces(n, w) /\ e[r] = BestOther(e, w)
         /\ \A j \in OtherPlaces(n, w) : e[j] = BestOther(e, w) => j = r \/ Precedes(F, r, j)
<1> DEFINE s == Ranking!Descending(F)
           K == RunnerAt(s, e, w)
<1>1. /\ s \in [1 .. n -> 1 .. n]
      /\ \A i \in 1 .. n : \E k \in 1 .. n : s[k] = i
      /\ \A k, l \in 1 .. n : k < l => Precedes(F, s[k], s[l])
  BY SortedHere DEF IsOrder
<1> HIDE DEF s
<1>2. DOMAIN e \ {w} = OtherPlaces(n, w) /\ OtherPlaces(n, w) \subseteq 1 .. n
  BY DEF OtherPlaces
<1>3. \A k : k \in K <=> k \in 1 .. n /\ s[k] \in OtherPlaces(n, w) /\ e[s[k]] = BestOther(e, w)
  BY <1>1, <1>2 DEF RunnerAt
<1> HIDE DEF K
<1>4. K \subseteq Nat /\ K # {}
  <2>1. PICK i \in OtherPlaces(n, w) : e[i] = BestOther(e, w)
    BY BestIsOne
  <2>2. PICK k \in 1 .. n : s[k] = i
    BY <1>1, <1>2, <2>1
  <2>3. k \in K
    BY <1>3, <2>1, <2>2
  <2>4. QED
    BY <1>3, <2>3
<1> DEFINE m == Ranking!Min(K)
<1>5. m \in K /\ \A k \in K : m <= k
  BY <1>4, Lowest DEF Ranking!Min
<1>6. Runner(s, e, w) = s[m]
  BY DEF Runner, K
<1> HIDE DEF m
<1>7. s[m] \in OtherPlaces(n, w) /\ e[s[m]] = BestOther(e, w) /\ m \in 1 .. n
  BY <1>3, <1>5
<1>8. ASSUME NEW j \in OtherPlaces(n, w), e[j] = BestOther(e, w)
      PROVE  j = s[m] \/ Precedes(F, s[m], j)
  <2>1. PICK k \in 1 .. n : s[k] = j
    BY <1>1, <1>2
  <2>2. k \in K
    BY <1>3, <1>8, <2>1
  <2>3. m <= k
    BY <1>5, <2>2
  <2>4. CASE m = k
    BY <2>1, <2>4
  <2>5. CASE m # k
    <3>1. m < k
      BY <1>7, <2>3, <2>5
    <3>2. QED
      BY <1>1, <1>7, <2>1, <3>1
  <2>6. QED
    BY <2>4, <2>5
<1>9. QED
  BY <1>6, <1>7, <1>8 DEF s

(* How the best of the others moves when some are raised. *)
LEMMA BestRises ==
  ASSUME NEW n \in Nat, NEW f, NEW g, NEW those, NEW more, Raised(f, g, n, those, more),
         NEW w \in those, OtherPlaces(n, w) # {}
  PROVE  BestOther(f, w) <= BestOther(g, w) /\ BestOther(g, w) <= BestOther(f, w) + more
<1>1. /\ f \in [1 .. n -> Int] /\ g \in [1 .. n -> Int] /\ w \in 1 .. n /\ more \in Nat
  BY DEF Raised
<1>2. \A j \in 1 .. n : f[j] <= g[j] /\ g[j] <= f[j] + more /\ f[j] \in Int /\ g[j] \in Int
  <2> TAKE j \in 1 .. n
  <2>1. f[j] \in Int /\ (g[j] = f[j] + more \/ g[j] = f[j])
    BY <1>1 DEF Raised
  <2>2. QED
    BY <1>1, <2>1
<1>3. ASSUME NEW h \in [1 .. n -> Int]
      PROVE  /\ BestOther(h, w) \in Int /\ \A i \in OtherPlaces(n, w) : h[i] <= BestOther(h, w)
             /\ \E i \in OtherPlaces(n, w) : h[i] = BestOther(h, w)
  BY <1>1, BestIsOne
<1>4. PICK j \in OtherPlaces(n, w) : f[j] = BestOther(f, w)
  BY <1>1, <1>3
<1>5. PICK k \in OtherPlaces(n, w) : g[k] = BestOther(g, w)
  BY <1>1, <1>3
<1>6. /\ BestOther(f, w) \in Int /\ BestOther(g, w) \in Int
      /\ f[k] <= BestOther(f, w) /\ g[j] <= BestOther(g, w)
  BY <1>1, <1>3
<1>7. j \in 1 .. n /\ k \in 1 .. n
  BY DEF OtherPlaces
<1>8. QED
  BY <1>1, <1>2, <1>4, <1>5, <1>6, <1>7

(* The runner-up is the same, unless one of those raised has overtaken it. *)
LEMMA RunnerStays ==
  ASSUME NEW n \in Nat, NEW those, NEW more, NEW w \in those, OtherPlaces(n, w) # {},
         NEW e, NEW e2, Raised(e, e2, n, those, more),
         NEW F, NEW F2, Raised(F, F2, n, those, more)
  PROVE  LET r == Runner(Ranking!Descending(F), e, w)
             r2 == Runner(Ranking!Descending(F2), e2, w)
         IN  r2 \in those \/ r2 = r
<1> DEFINE r == Runner(Ranking!Descending(F), e, w)
           r2 == Runner(Ranking!Descending(F2), e2, w)
<1>1. /\ e \in [1 .. n -> Int] /\ e2 \in [1 .. n -> Int] /\ w \in 1 .. n /\ more \in Nat
      /\ F \in [1 .. n -> Int] /\ F2 \in [1 .. n -> Int]
  BY DEF Raised
<1>2. /\ r \in OtherPlaces(n, w) /\ e[r] = BestOther(e, w)
      /\ \A j \in OtherPlaces(n, w) : e[j] = BestOther(e, w) => j = r \/ Precedes(F, r, j)
  BY <1>1, RunnerIsFirst
<1>3. /\ r2 \in OtherPlaces(n, w) /\ e2[r2] = BestOther(e2, w)
      /\ \A j \in OtherPlaces(n, w) : e2[j] = BestOther(e2, w) => j = r2 \/ Precedes(F2, r2, j)
  BY <1>1, RunnerIsFirst
<1> HIDE DEF r, r2
<1>4. SUFFICES ASSUME r2 \notin those, r2 # r PROVE FALSE
  BY DEF r, r2
<1>5. BestOther(e, w) <= BestOther(e2, w)
  BY BestRises
<1>6. /\ BestOther(e, w) \in Int /\ BestOther(e2, w) \in Int
      /\ e[r2] <= BestOther(e, w) /\ e2[r] <= BestOther(e2, w)
  <2>1. BestOther(e, w) \in Int /\ \A i \in OtherPlaces(n, w) : e[i] <= BestOther(e, w)
    BY <1>1, BestIsOne
  <2>2. BestOther(e2, w) \in Int /\ \A i \in OtherPlaces(n, w) : e2[i] <= BestOther(e2, w)
    BY <1>1, BestIsOne
  <2>3. QED
    BY <1>2, <1>3, <2>1, <2>2
<1>7. r \in 1 .. n /\ r2 \in 1 .. n
  BY <1>2, <1>3 DEF OtherPlaces
<1>8. e2[r2] = e[r2] /\ F2[r2] = F[r2]
  BY <1>4, <1>7 DEF Raised
<1>9. \/ e2[r] = e[r] + more /\ F2[r] = F[r] + more
      \/ e2[r] = e[r] /\ F2[r] = F[r]
  BY <1>7 DEF Raised
<1>10. e[r] \in Int /\ e[r2] \in Int /\ F[r] \in Int /\ F[r2] \in Int
  BY <1>1, <1>7
<1>11. e[r2] = BestOther(e, w) /\ e2[r] = BestOther(e2, w) /\ F2[r] = F[r]
  <2>1. e[r] = BestOther(e, w) /\ e2[r2] = BestOther(e2, w)
    BY <1>2, <1>3
  <2>2. BestOther(e, w) = BestOther(e2, w) /\ e[r2] = BestOther(e, w)
    BY <1>5, <1>6, <1>8, <2>1
  <2>3. e2[r] <= e[r]
    BY <1>6, <2>1, <2>2
  <2>4. CASE e2[r] = e[r] /\ F2[r] = F[r]
    BY <2>1, <2>2, <2>4
  <2>5. CASE e2[r] = e[r] + more /\ F2[r] = F[r] + more
    <3>1. more = 0
      BY <1>1, <1>10, <2>3, <2>5
    <3>2. QED
      BY <1>10, <2>1, <2>2, <2>5, <3>1
  <2>6. QED
    BY <1>9, <2>4, <2>5
<1>12. Precedes(F, r, r2) /\ Precedes(F2, r2, r)
  BY <1>2, <1>3, <1>4, <1>11
<1>13. QED
  BY <1>7, <1>8, <1>10, <1>11, <1>12 DEF Precedes

(* Who has passed the gate passes it when the models think better of it. *)
LEMMA GateHolds ==
  ASSUME NEW n \in Nat, NEW those, NEW more, NEW w \in those, OtherPlaces(n, w) # {},
         NEW e, NEW e2, Raised(e, e2, n, those, more),
         NEW F, NEW F2, Raised(F, F2, n, those, more),
         \A i \in those : e[i] = e[w],
         NEW texts, \A i \in those : texts[i] = texts[w],
         Ranking!Descending(F)[1] = w,
         NEW prefix, NEW suffix, NEW kana, NEW c,
         Ranking!SurvivesGate(Ranking!Descending(F), prefix, suffix, e, texts, kana, Ranking!Thresholds(c))
  PROVE  Ranking!SurvivesGate(Ranking!Descending(F2), prefix, suffix, e2, texts, kana, Ranking!Thresholds(c))
<1> DEFINE policy == Ranking!Thresholds(c)
           s == Ranking!Descending(F)
           s2 == Ranking!Descending(F2)
           delta(x) == x[w] - x[1]
           margin(x) == x[w] - BestOther(x, w)
           confidence(x) == Ranking!neural_top_probability(x, w)
           type == Ranking!candidate_surface_type(texts[w], kana)
           runner == texts[Runner(s, e, w)]
           runner2 == texts[Runner(s2, e2, w)]
           context == \/ Ranking!context_signal_length(prefix, suffix) >= policy.external
                      \/ Ranking!shared_candidate_context_length(texts[w], texts[1]) >= policy.internal
           alike(t) == /\ Ranking!candidate_surface_type(t, kana) = "numeric"
                       /\ Ranking!numeric_surface_family(texts[w]) = Ranking!numeric_surface_family(t)
           bonus == /\ Ranking!contextual_candidate_bonus(prefix, suffix, texts[w]) >= 250
                    /\ type \notin {"reading_passthrough", "kana"}
           signs(x, t) ==
             \/ confidence(x) >= policy.high_confidence /\ margin(x) >= policy.high_margin
             \/ delta(x) >= Ranking!DeltaThreshold(policy, type) /\ margin(x) >= Ranking!MarginThreshold(policy, type)
             \/ /\ confidence(x) >= policy.contextual_confidence
                /\ delta(x) >= policy.contextual_lead
                /\ margin(x) >= Ranking!MarginThreshold(policy, type)
             \/ type = "numeric" /\ alike(t) /\ delta(x) >= 35
             \/ bonus /\ delta(x) >= 35 /\ margin(x) >= -25
<1>1. s2[1] = w
  BY StaysFirst
<1>2. context /\ signs(e, runner)
  BY DEF Ranking!SurvivesGate, Runner, RunnerAt, BestOther
<1>3. Ranking!SurvivesGate(s2, prefix, suffix, e2, texts, kana, policy) <=> context /\ signs(e2, runner2)
  BY <1>1 DEF Ranking!SurvivesGate, Runner, RunnerAt, BestOther
<1>4. /\ e \in [1 .. n -> Int] /\ e2 \in [1 .. n -> Int] /\ w \in 1 .. n /\ more \in Nat /\ 1 \in 1 .. n
      /\ those \subseteq 1 .. n
  <2>1. e \in [1 .. n -> Int] /\ e2 \in [1 .. n -> Int] /\ more \in Nat /\ those \subseteq 1 .. n
    BY DEF Raised
  <2>2. w \in 1 .. n
    BY <2>1
  <2>3. 1 \in 1 .. n
    BY <2>2
  <2>4. QED
    BY <2>1, <2>2, <2>3
<1>5. delta(e) \in Int /\ delta(e2) \in Int /\ delta(e) <= delta(e2)
  <2>1. e2[w] = e[w] + more /\ (e2[1] = e[1] + more \/ e2[1] = e[1])
    BY <1>4 DEF Raised
  <2>2. e[w] \in Int /\ e[1] \in Int
    BY <1>4
  <2>3. QED
    BY <1>4, <2>1, <2>2
<1>6. margin(e) \in Int /\ margin(e2) \in Int /\ margin(e) <= margin(e2)
  <2>1. e2[w] = e[w] + more /\ e[w] \in Int
    BY <1>4 DEF Raised
  <2>2. BestOther(e2, w) <= BestOther(e, w) + more
    BY BestRises
  <2>3. BestOther(e, w) \in Int
    BY <1>4, BestIsOne
  <2>4. BestOther(e2, w) \in Int
    BY <1>4, BestIsOne
  <2>5. QED
    BY <1>4, <2>1, <2>2, <2>3, <2>4
<1>7. confidence(e) \in Int /\ confidence(e2) \in Int /\ confidence(e) <= confidence(e2)
  <2>1. confidence(e) <= confidence(e2)
    BY ShareRises
  <2>2. confidence(e) \in 0 .. 100
    BY <1>4, ShareOfTop
  <2>3. confidence(e2) \in 0 .. 100
    BY <1>4, ShareOfTop
  <2> HIDE DEF confidence
  <2>4. QED
    BY <2>1, <2>2, <2>3
<1>8. type = "numeric" /\ alike(runner) => alike(runner2)
  <2>1. Runner(s2, e2, w) \in those \/ Runner(s2, e2, w) = Runner(s, e, w)
    BY RunnerStays
  <2>2. runner2 = texts[w] \/ runner2 = runner
    BY <2>1
  <2> HIDE DEF runner, runner2
  <2>3. QED
    BY <2>2
<1>9. /\ policy.high_confidence \in Int /\ policy.high_margin \in Int
      /\ policy.contextual_confidence \in Int /\ policy.contextual_lead \in Int
      /\ Ranking!DeltaThreshold(policy, type) \in Int /\ Ranking!MarginThreshold(policy, type) \in Int
  <2>1. /\ policy.high_confidence = 80 /\ policy.high_margin = 75
        /\ policy.kana_delta = 180 /\ policy.kana_margin = 90
        /\ \/ policy.delta = 55 /\ policy.margin = 30 /\ policy.contextual_lead = 180
              /\ policy.contextual_confidence = 35
           \/ policy.delta = 25 /\ policy.margin = 10 /\ policy.contextual_lead = 120
              /\ policy.contextual_confidence = 25
    <3>1. CASE policy = Ranking!DefaultThresholds
      BY <3>1 DEF Ranking!DefaultThresholds
    <3>2. CASE policy = Ranking!EnsembleThresholds
      BY <3>2 DEF Ranking!EnsembleThresholds, Ranking!DefaultThresholds
    <3>3. QED
      BY <3>1, <3>2 DEF Ranking!Thresholds
  <2> HIDE DEF policy, type
  <2>2. Ranking!DeltaThreshold(policy, type) = (IF type = "reading_passthrough" THEN 180 ELSE policy.delta)
        /\ Ranking!MarginThreshold(policy, type) = (IF type = "reading_passthrough" THEN 90 ELSE policy.margin)
    BY <2>1, OfTwo DEF Ranking!DeltaThreshold, Ranking!MarginThreshold
  <2>3. QED
    BY <2>1, <2>2
<1> HIDE DEF policy, delta, margin, confidence, type, runner, runner2, context, alike, bonus, s, s2
<1>10. signs(e2, runner2)
  <2>1. \A x \in Int : /\ x <= delta(e) => x <= delta(e2)
                       /\ x <= margin(e) => x <= margin(e2)
                       /\ x <= confidence(e) => x <= confidence(e2)
    BY <1>5, <1>6, <1>7
  <2>2. -25 \in Int /\ 35 \in Int
    OBVIOUS
  <2>3. QED
    BY <1>2, <1>8, <1>9, <2>1, <2>2
<1>11. QED
  BY <1>2, <1>3, <1>10 DEF s2, policy

(* What is raised in the models' eyes is raised in all that follows. *)
LEMMA EnsembleRises ==
  ASSUME NEW c, NEW segment, NEW n, DOMAIN segment.candidates = 1 .. n, c.models = 2,
         NEW those, NEW more, NEW raw, NEW raw2,
         Raised(raw[1], raw2[1], n, those, more), Raised(raw[2], raw2[2], n, those, more)
  PROVE  Raised(Ranking!Ensemble(c, segment, raw), Ranking!Ensemble(c, segment, raw2), n, those, more)
<1> DEFINE u == Ranking!Weights(c, segment)[1]
           v == Ranking!Weights(c, segment)[2]
           mix(a, b) == (u * a + v * b) \div 100
           f == Ranking!Ensemble(c, segment, raw)
           g == Ranking!Ensemble(c, segment, raw2)
           one == raw[1]
           two == raw[2]
           one2 == raw2[1]
           two2 == raw2[2]
<1>1. u \in {50, 25} /\ v = 100 - u
  BY DEF Ranking!Weights
<1>2. f = [j \in 1 .. n |-> mix(one[j], two[j])] /\ g = [j \in 1 .. n |-> mix(one2[j], two2[j])]
  BY DEF Ranking!Ensemble, Ranking!Places
<1>3. Raised(one, one2, n, those, more) /\ Raised(two, two2, n, those, more)
  OBVIOUS
<1> HIDE DEF u, v, f, g, one, two, one2, two2
<1>4. \A a, b \in Int : mix(a, b) \in Int /\ \A m \in Nat : mix(a + m, b + m) = mix(a, b) + m
  <2> TAKE a, b \in Int
  <2>1. u * a + v * b \in Int
    BY <1>1
  <2> DEFINE x == u * a + v * b
  <2>2. \A m \in Nat : u * (a + m) + v * (b + m) = x + 100 * m
    BY <1>1
  <2> HIDE DEF x
  <2>3. x \in Int
    BY <2>1 DEF x
  <2>4. \A m \in Nat : (x + 100 * m) \div 100 = (x \div 100) + m
    BY <2>3
  <2>5. x \div 100 \in Int
    BY <2>3
  <2>6. QED
    BY <2>2, <2>4, <2>5 DEF x
<1> HIDE DEF mix
<1>5. f \in [1 .. n -> Int] /\ g \in [1 .. n -> Int] /\ those \subseteq 1 .. n /\ more \in Nat
  BY <1>2, <1>3, <1>4 DEF Raised
<1>6. \A i \in those : g[i] = f[i] + more
  <2> TAKE i \in those
  <2>1. one2[i] = one[i] + more /\ two2[i] = two[i] + more
    BY <1>3 DEF Raised
  <2>2. one[i] \in Int /\ two[i] \in Int /\ i \in 1 .. n
    BY <1>3, <1>5 DEF Raised
  <2>3. mix(one[i] + more, two[i] + more) = mix(one[i], two[i]) + more
    BY <1>4, <1>5, <2>2
  <2>4. QED
    BY <1>2, <2>1, <2>2, <2>3
<1>7. \A i \in (1 .. n) \ those : g[i] = f[i]
  BY <1>2, <1>3 DEF Raised
<1>8. QED
  BY <1>5, <1>6, <1>7 DEF Raised, f, g

LEMMA EvidenceRises ==
  ASSUME NEW c, NEW segment, NEW local, NEW n \in Nat, DOMAIN segment.candidates = 1 .. n,
         NEW those, NEW more, NEW raw, NEW raw2, Raised(raw, raw2, n, those, more)
  PROVE  Raised(Ranking!Evidence(c, segment, raw, local), Ranking!Evidence(c, segment, raw2, local),
                n, those, more)
<1> DEFINE x(i) == Added(c, segment, local, segment.candidates[i])
           e == Ranking!Evidence(c, segment, raw, local)
           e2 == Ranking!Evidence(c, segment, raw2, local)
<1>1. raw \in [1 .. n -> Int] /\ raw2 \in [1 .. n -> Int] /\ those \subseteq 1 .. n /\ more \in Nat
  BY DEF Raised
<1>2. \A i : x(i) \in Int
  BY AddedParts
<1>3. e \in [1 .. n -> Int] /\ \A i \in 1 .. n : e[i] = raw[i] + x(i)
  <2>1. AddsUp(c, segment, local, n, raw)
    BY <1>1, EvidenceIs
  <2>2. QED
    BY <2>1 DEF AddsUp
<1>4. e2 \in [1 .. n -> Int] /\ \A i \in 1 .. n : e2[i] = raw2[i] + x(i)
  <2>1. AddsUp(c, segment, local, n, raw2)
    BY <1>1, EvidenceIs
  <2>2. QED
    BY <2>1 DEF AddsUp
<1> HIDE DEF x, e, e2
<1>7. \A i \in those : e2[i] = e[i] + more
  <2> TAKE i \in those
  <2>1. raw2[i] = raw[i] + more /\ raw[i] \in Int /\ x(i) \in Int /\ i \in 1 .. n
    BY <1>1, <1>2 DEF Raised
  <2>2. QED
    BY <1>1, <1>3, <1>4, <2>1
<1>8. \A i \in (1 .. n) \ those : e2[i] = e[i]
  BY <1>3, <1>4 DEF Raised
<1>9. QED
  BY <1>1, <1>3, <1>4, <1>7, <1>8 DEF Raised, e, e2

LEMMA FinalRises ==
  ASSUME NEW c, NEW n \in Nat, NEW those, NEW more, NEW e, NEW e2, Raised(e, e2, n, those, more)
  PROVE  Raised(Ranking!Final(c, e), Ranking!Final(c, e2), n, those, more)
<1> DEFINE p(i) == IF c.prior THEN Ranking!rank_prior_penalty(i) ELSE 0
           f == Ranking!Final(c, e)
           g == Ranking!Final(c, e2)
<1>1. /\ e \in [1 .. n -> Int] /\ e2 \in [1 .. n -> Int] /\ those \subseteq 1 .. n /\ more \in Nat
  BY DEF Raised
<1>2. f \in [1 .. n -> Int] /\ g \in [1 .. n -> Int]
  <2>1. f \in [1 .. n -> Int]
    BY <1>1, FinalIsInt
  <2>2. g \in [1 .. n -> Int]
    BY <1>1, FinalIsInt
  <2>3. QED
    BY <2>1, <2>2
<1>3. \A i \in 1 .. n : f[i] = e[i] - p(i) /\ g[i] = e2[i] - p(i)
  BY <1>1 DEF Ranking!Final
<1>4. \A i \in 1 .. n : p(i) \in Int
  BY PenaltyIsInt
<1> HIDE DEF f, g, p
<1>5. \A i \in those : g[i] = f[i] + more
  <2> TAKE i \in those
  <2>1. e2[i] = e[i] + more /\ e[i] \in Int /\ p(i) \in Int /\ i \in 1 .. n
    BY <1>1, <1>4 DEF Raised
  <2>2. QED
    BY <1>1, <1>3, <2>1
<1>6. \A i \in (1 .. n) \ those : g[i] = f[i]
  BY <1>3 DEF Raised
<1>7. QED
  BY <1>1, <1>2, <1>5, <1>6 DEF Raised, f, g

LEMMA QwenRises ==
  ASSUME NEW variant, NEW n, NEW those, NEW more, NEW raw, NEW raw2,
         Raised(raw[1], raw2[1], n, those, more),
         variant = "dual" => Raised(raw[2], raw2[2], n, those, more)
  PROVE  Raised(Ranking!QwenScores(variant, raw), Ranking!QwenScores(variant, raw2), n, those, 100 * more)
<1> DEFINE f == Ranking!QwenScores(variant, raw)
           g == Ranking!QwenScores(variant, raw2)
           one == raw[1]
           two == raw[2]
           one2 == raw2[1]
           two2 == raw2[2]
<1>1. Raised(one, one2, n, those, more)
  OBVIOUS
<1>2. /\ one \in [1 .. n -> Int] /\ one2 \in [1 .. n -> Int] /\ those \subseteq 1 .. n
      /\ more \in Nat /\ 100 * more \in Nat
  BY <1>1 DEF Raised
<1>3. CASE variant = "dual"
  <2>1. Raised(two, two2, n, those, more) /\ two \in [1 .. n -> Int] /\ two2 \in [1 .. n -> Int]
    BY <1>3 DEF Raised
  <2>2. f = Ranking!Fused(one, two) /\ g = Ranking!Fused(one2, two2)
    BY <1>3 DEF Ranking!QwenScores
  <2> DEFINE mix(a, b, i) == 45 * a + 55 * b - 100 * (i - 1)
  <2> HIDE DEF f, g, one, two, one2, two2
  <2>3. f = [i \in 1 .. n |-> mix(one[i], two[i], i)] /\ g = [i \in 1 .. n |-> mix(one2[i], two2[i], i)]
    BY <1>2, <2>2 DEF Ranking!Fused
  <2>4. \A a, b, i \in Int : mix(a, b, i) \in Int /\ mix(a + more, b + more, i) = mix(a, b, i) + 100 * more
    BY <1>2
  <2> HIDE DEF mix
  <2>5. f \in [1 .. n -> Int] /\ g \in [1 .. n -> Int]
    <3>1. \A i \in 1 .. n : /\ i \in Int /\ one[i] \in Int /\ two[i] \in Int
                            /\ one2[i] \in Int /\ two2[i] \in Int
      BY <1>2, <2>1
    <3>2. \A i \in 1 .. n : mix(one[i], two[i], i) \in Int /\ mix(one2[i], two2[i], i) \in Int
      BY <2>4, <3>1
    <3>3. QED
      BY <2>3, <3>2
  <2>6. \A i \in those : g[i] = f[i] + 100 * more
    <3> TAKE i \in those
    <3>1. one2[i] = one[i] + more /\ two2[i] = two[i] + more
      BY <1>1, <2>1 DEF Raised
    <3>2. i \in 1 .. n /\ i \in Int
      BY <1>2
    <3>20. one[i] \in Int /\ two[i] \in Int
      BY <1>2, <2>1, <3>2
    <3>3. mix(one[i] + more, two[i] + more, i) = mix(one[i], two[i], i) + 100 * more
      BY <2>4, <3>2, <3>20
    <3>4. QED
      BY <2>3, <3>1, <3>2, <3>3
  <2>7. \A i \in (1 .. n) \ those : g[i] = f[i]
    BY <1>1, <2>1, <2>3 DEF Raised
  <2>8. QED
    BY <1>2, <2>5, <2>6, <2>7 DEF Raised, f, g
<1>4. CASE variant # "dual"
  <2>1. f = [i \in DOMAIN one |-> 100 * one[i]] /\ g = [i \in DOMAIN one2 |-> 100 * one2[i]]
    BY <1>4 DEF Ranking!QwenScores
  <2> HIDE DEF f, g, one, two, one2, two2
  <2>2. \A a \in Int : 100 * a \in Int /\ 100 * (a + more) = 100 * a + 100 * more
    BY <1>2
  <2>3. f \in [1 .. n -> Int] /\ g \in [1 .. n -> Int]
    BY <1>2, <2>1, <2>2
  <2>4. \A i \in those : g[i] = f[i] + 100 * more
    <3> TAKE i \in those
    <3>1. one2[i] = one[i] + more /\ one[i] \in Int /\ i \in 1 .. n
      BY <1>1, <1>2 DEF Raised
    <3>2. QED
      BY <1>2, <2>1, <2>2, <3>1
  <2>5. \A i \in (1 .. n) \ those : g[i] = f[i]
    BY <1>1, <1>2, <2>1 DEF Raised
  <2>6. QED
    BY <1>2, <2>3, <2>4, <2>5 DEF Raised, f, g
<1>5. QED
  BY <1>3, <1>4

(* An order with Mozc's first put in front begins with it. *)
LEMMA MozcInFront ==
  ASSUME NEW n \in Nat, NEW F \in [1 .. n -> Int]
  PROVE  LET s == Ranking!Descending(F)
         IN  (<<1>> \o Ranking!Kept(s, Ranking!ToSet(s) \ {1}))[1] = 1
<1> DEFINE s == Ranking!Descending(F)
           S == (1 .. n) \cup {1}
           rest == Ranking!Kept(s, Ranking!ToSet(s) \ {1})
<1>1. s \in [1 .. n -> 1 .. n]
  BY SortedHere DEF IsOrder
<1>2. s \in Seq(S)
  <2> HIDE DEF s
  <2>1. s \in [1 .. n -> S]
    BY <1>1
  <2> HIDE DEF S
  <2>2. QED
    BY <2>1, IsSequence
<1>3. rest \in Seq(S)
  <2> HIDE DEF s, S
  <2>1. QED
    BY <1>2, KeptHere
<1>4. <<1>> \in Seq(S) /\ Len(<<1>>) = 1 /\ <<1>>[1] = 1
  OBVIOUS
<1> HIDE DEF rest, S, s
<1>5. 1 \in 1 .. Len(<<1>>) + Len(rest)
  BY <1>3, <1>4, LenProperties
<1>6. (<<1>> \o rest)[1] = 1
  BY <1>3, <1>4, <1>5, ConcatProperties
<1>7. QED
  BY <1>6 DEF rest, s

(* One opinion of a segment, and another that is better for w's text. *)
Better(c, segment, n, those, more, raw, raw2, w) ==
  /\ n \in Nat /\ n >= 1 /\ DOMAIN segment.candidates = 1 .. n
  /\ Raised(raw, raw2, n, those, more)
  /\ w \in those /\ w # 1
  /\ \A i \in those : segment.candidates[i] = segment.candidates[w] /\ raw[i] = raw[w]
  /\ Ranking!Judge(c, segment, raw).order[1] = w

(* What Judge puts first before Mozc's stays first. *)
LEMMA JudgedStill ==
  ASSUME NEW c, NEW segment, NEW n, NEW those, NEW more, NEW raw, NEW raw2, NEW w,
         Better(c, segment, n, those, more, raw, raw2, w)
  PROVE  Ranking!Judge(c, segment, raw2).order[1] = w
<1>0. /\ n \in Nat /\ n >= 1 /\ DOMAIN segment.candidates = 1 .. n
      /\ Raised(raw, raw2, n, those, more)
      /\ w \in those /\ w # 1
      /\ \A i \in those : segment.candidates[i] = segment.candidates[w] /\ raw[i] = raw[w]
      /\ Ranking!Judge(c, segment, raw).order[1] = w
  BY DEF Better
<1> DEFINE local == Ranking!LocalContext(c, segment)
           texts == segment.candidates
           e == Ranking!Evidence(c, segment, raw, local)
           e2 == Ranking!Evidence(c, segment, raw2, local)
           F == Ranking!Final(c, e)
           F2 == Ranking!Final(c, e2)
           s == Ranking!Descending(F)
           s2 == Ranking!Descending(F2)
           survives(x, y) == Ranking!SurvivesGate(x, local.prefix, local.suffix, y, texts, segment.reading,
                               Ranking!Thresholds(c))
           put(x, y) == Ranking!preserve_mozc_top_if_uncertain(x, local.prefix, local.suffix, y, texts,
                          segment.reading, Ranking!Thresholds(c))
<1>1. /\ Ranking!Judge(c, segment, raw).order = IF c.gate THEN put(s, e) ELSE s
      /\ Ranking!Judge(c, segment, raw2).order = IF c.gate THEN put(s2, e2) ELSE s2
  BY DEF Ranking!Judge, Ranking!Scored, Ranking!Decided
<1>2. Raised(e, e2, n, those, more)
  <2> HIDE DEF local
  <2>1. QED
    BY <1>0, EvidenceRises
<1>3. w \in 1 .. n /\ those \subseteq 1 .. n
  BY <1>0 DEF Raised
<1>4. \A i \in those : e[i] = e[w]
  <2> HIDE DEF local
  <2>1. raw \in [1 .. n -> Int]
    BY <1>0 DEF Raised
  <2>2. AddsUp(c, segment, local, n, raw)
    BY <1>0, <2>1, EvidenceIs
  <2> HIDE DEF e
  <2>3. \A i \in 1 .. n : e[i] = raw[i] + Added(c, segment, local, segment.candidates[i])
    BY <2>2 DEF AddsUp, e
  <2>4. QED
    BY <1>0, <1>3, <2>3
<1> HIDE DEF local, e, e2
<1>5. Raised(F, F2, n, those, more)
  BY <1>0, <1>2, FinalRises
<1> HIDE DEF F, F2
<1>6. F \in [1 .. n -> Int]
  BY <1>5 DEF Raised
<1>7. s[1] = w
  <2>1. CASE c.gate
    <3>1. put(s, e)[1] = w
      BY <1>0, <1>1, <2>1
    <3>2. put(s, e) = s \/ put(s, e)[1] = 1
      <4> DEFINE rest == <<1>> \o Ranking!Kept(s, Ranking!ToSet(s) \ {1})
      <4>1. put(s, e) = s \/ put(s, e) = rest
        BY DEF Ranking!preserve_mozc_top_if_uncertain
      <4>2. rest[1] = 1
        BY <1>0, <1>6, MozcInFront
      <4> HIDE DEF s, put, rest
      <4>3. QED
        BY <4>1, <4>2
    <3>3. QED
      BY <1>0, <3>1, <3>2
  <2>2. CASE ~c.gate
    BY <1>0, <1>1, <2>2
  <2>3. QED
    BY <2>1, <2>2
<1>8. s2[1] = w
  BY <1>0, <1>5, <1>7, StaysFirst
<1>9. CASE c.gate
  <2>1. survives(s, e)
    <3> SUFFICES ASSUME ~survives(s, e) PROVE FALSE
      OBVIOUS
    <3>1. s # <<>>
      <4>1. n \in Nat \ {0}
        BY <1>0
      <4>2. QED
        BY <1>6, <4>1, FirstPlaced
    <3> DEFINE rest == <<1>> \o Ranking!Kept(s, Ranking!ToSet(s) \ {1})
    <3>2. put(s, e) = rest
      BY <1>0, <1>7, <3>1 DEF Ranking!preserve_mozc_top_if_uncertain
    <3>3. rest[1] = 1
      BY <1>0, <1>6, MozcInFront
    <3>4. put(s, e)[1] = w
      BY <1>0, <1>1, <1>9
    <3> HIDE DEF rest, put, s
    <3>5. QED
      BY <1>0, <3>2, <3>3, <3>4
  <2>2. OtherPlaces(n, w) # {}
    BY <1>0, <1>3 DEF OtherPlaces
  <2>3. \A i \in those : texts[i] = texts[w]
    BY <1>0
  <2>4. survives(s2, e2)
    <3> HIDE DEF texts
    <3>1. QED
      BY <1>0, <1>2, <1>4, <1>5, <1>7, <2>1, <2>2, <2>3, GateHolds
  <2>5. put(s2, e2) = s2
    BY <2>4 DEF Ranking!preserve_mozc_top_if_uncertain
  <2>6. QED
    BY <1>1, <1>8, <1>9, <2>5
<1>10. CASE ~c.gate
  BY <1>1, <1>8, <1>10
<1>11. QED
  BY <1>9, <1>10

(* The models' opinions of a segment's candidates, and the same a little  *)
(* better for one of the texts.                                           *)
Alike(i, w) == {j \in DOMAIN segments[i].candidates : segments[i].candidates[j] = segments[i].candidates[w]}

LEMMA RawRises ==
  ASSUME RankingInv, NEW i \in DOMAIN segments, NEW w \in 1 .. Len(segments[i].candidates),
         UNCHANGED <<backend, segments>>,
         logits' = [k \in DOMAIN logits |-> [logits[k] EXCEPT ![segments[i].candidates[w]] = @ + Lift]]
  PROVE  LET n == Len(segments[i].candidates) IN
         \A k \in 1 .. Ranking!config.models :
           /\ Raised(Ranking!Raw(i)[k], Ranking!Raw(i)'[k], n, Alike(i, w), Lift)
           /\ \A j \in Alike(i, w) : Ranking!Raw(i)[k][j] = Ranking!Raw(i)[k][w]
<1> DEFINE n == Len(segments[i].candidates)
           text(j) == segments[i].candidates[j]
           M == Ranking!config.models
           view(k) == [j \in 1 .. n |-> logits[k][text(j)]]
           view2(k) == [j \in 1 .. n |-> logits'[k][text(j)]]
<1>1. n \in Nat /\ DOMAIN segments[i].candidates = 1 .. n
  BY SegmentShape
<1>2. \A j \in 1 .. n : text(j) \in Ranking!Texts
  <2>1. \A j \in 1 .. n : text(j) \in Ranking!ToSet(segments[i].candidates)
    BY <1>1 DEF Ranking!ToSet
  <2>2. QED
    BY <2>1 DEF Ranking!Texts
<1>3. DOMAIN logits = 1 .. M /\ \A k \in 1 .. M : logits[k] \in [Ranking!Texts -> Int]
  BY DEF RankingInv, Ranking!config
<1>4. DOMAIN logits' = 1 .. M
      /\ \A k \in 1 .. M : logits'[k] = [logits[k] EXCEPT ![text(w)] = @ + Lift]
  BY <1>3
<1>5. Lift \in Nat
  BY RankingAssumption
<1>6. /\ Ranking!Raw(i) = [k \in DOMAIN logits |-> view(k)]
      /\ Ranking!Raw(i)' = [k \in DOMAIN logits' |-> view2(k)]
  <2>1. Ranking!Raw(i) = [k \in DOMAIN logits |-> view(k)]
    BY <1>1 DEF Ranking!Raw
  <2>2. Ranking!Raw(i)' = [k \in DOMAIN logits' |-> view2(k)]
    BY <1>1 DEF Ranking!Raw
  <2>3. QED
    BY <2>1, <2>2
<1>7. Alike(i, w) = {j \in 1 .. n : text(j) = text(w)}
  BY <1>1 DEF Alike
<1> HIDE DEF n, text, M
<1>8. ASSUME NEW k \in 1 .. M
      PROVE  /\ Raised(view(k), view2(k), n, Alike(i, w), Lift)
             /\ \A j \in Alike(i, w) : view(k)[j] = view(k)[w]
  <2> DEFINE f == logits[k]
             g == logits'[k]
  <2>1. f \in [Ranking!Texts -> Int] /\ g = [f EXCEPT ![text(w)] = @ + Lift]
    BY <1>3, <1>4
  <2>2. w \in 1 .. n /\ text(w) \in Ranking!Texts
    BY <1>2 DEF n
  <2> HIDE DEF f, g
  <2>3. \A x \in Ranking!Texts : /\ f[x] \in Int /\ g[x] \in Int
                                 /\ g[x] = IF x = text(w) THEN f[x] + Lift ELSE f[x]
    BY <1>5, <2>1, <2>2
  <2>4. view(k) = [j \in 1 .. n |-> f[text(j)]] /\ view2(k) = [j \in 1 .. n |-> g[text(j)]]
    BY DEF f, g
  <2> HIDE DEF view, view2
  <2>5. view(k) \in [1 .. n -> Int] /\ view2(k) \in [1 .. n -> Int]
    BY <1>2, <2>3, <2>4
  <2>6. \A j \in Alike(i, w) : view2(k)[j] = view(k)[j] + Lift
    BY <1>2, <1>7, <2>3, <2>4
  <2>7. \A j \in (1 .. n) \ Alike(i, w) : view2(k)[j] = view(k)[j]
    BY <1>2, <1>7, <2>3, <2>4
  <2>8. \A j \in Alike(i, w) : view(k)[j] = view(k)[w]
    BY <1>7, <2>2, <2>4
  <2>9. QED
    BY <1>5, <1>7, <2>5, <2>6, <2>7, <2>8 DEF Raised
<1> HIDE DEF view, view2
<1>9. \A k \in 1 .. M : Ranking!Raw(i)[k] = view(k) /\ Ranking!Raw(i)'[k] = view2(k)
  BY <1>3, <1>4, <1>6
<1>10. QED
  BY <1>8, <1>9 DEF n, M

(* Who comes before Mozc's first still does. *)
LEMMA FirstStays ==
  ASSUME RankingInv, NEW i \in DOMAIN segments, NEW w \in 1 .. Len(segments[i].candidates),
         UNCHANGED <<backend, segments>>,
         logits' = [k \in DOMAIN logits |-> [logits[k] EXCEPT ![segments[i].candidates[w]] = @ + Lift]],
         Ranking!Ranked(i).order[1] = w, w # 1
  PROVE  Ranking!Ranked(i)'.order[1] = w
<1> DEFINE n == Len(segments[i].candidates)
           c == Ranking!config
           segment == segments[i]
           those == Alike(i, w)
           raw == Ranking!Raw(i)
           raw2 == Ranking!Raw(i)'
<1>1. n \in Nat /\ n >= 1 /\ DOMAIN segment.candidates = 1 .. n
  BY SegmentShape
<1>2. \A k \in 1 .. c.models : /\ Raised(raw[k], raw2[k], n, those, Lift)
                               /\ \A j \in those : raw[k][j] = raw[k][w]
  BY RawRises
<1>3. c' = c /\ segment' = segment
  BY DEF Ranking!config
<1>4. w \in those /\ \A j \in those : segment.candidates[j] = segment.candidates[w]
  BY <1>1 DEF Alike
<1>5. c.family \in {"onnx", "ruri", "qwen", "rule"}
  BY AnswersAssumption DEF RankingInv, Ranking!config
<1>6. CASE c.family \in {"onnx", "ruri"}
  <2> DEFINE one == IF c.models = 1 THEN raw[1] ELSE Ranking!Ensemble(c, segment, raw)
             two == IF c.models = 1 THEN raw2[1] ELSE Ranking!Ensemble(c, segment, raw2)
  <2>1. Ranking!Ranked(i) = Ranking!Judge(c, segment, one)
    BY <1>6 DEF Ranking!Ranked
  <2>2. Ranking!Ranked(i)' = Ranking!Judge(c, segment, two)
    <3>1. c'.family \in {"onnx", "ruri"}
      BY <1>3, <1>6
    <3>2. QED
      BY <1>3, <3>1 DEF Ranking!Ranked
  <2>3. c.models \in {1, 2}
    BY <1>6, RankingAssumption DEF RankingInv, Ranking!config
  <2> HIDE DEF c, segment, n, those, raw, raw2
  <2>4. Raised(one, two, n, those, Lift) /\ \A j \in those : one[j] = one[w]
    <3>1. CASE c.models = 1
      BY <1>2, <3>1
    <3>2. CASE c.models = 2
      <4>1. /\ Raised(raw[1], raw2[1], n, those, Lift) /\ Raised(raw[2], raw2[2], n, those, Lift)
            /\ \A j \in those : raw[1][j] = raw[1][w] /\ raw[2][j] = raw[2][w]
        BY <1>2, <3>2
      <4>2. one = Ranking!Ensemble(c, segment, raw) /\ two = Ranking!Ensemble(c, segment, raw2)
        BY <3>2
      <4> HIDE DEF one, two
      <4>3. Raised(one, two, n, those, Lift)
        BY <1>1, <3>2, <4>1, <4>2, EnsembleRises
      <4>4. those \subseteq 1 .. n
        BY <4>1 DEF Raised
      <4>5. \A j \in those : one[j] = one[w]
        <5> DEFINE u == Ranking!Weights(c, segment)[1]
                   v == Ranking!Weights(c, segment)[2]
        <5>1. one = [j \in 1 .. n |-> (u * raw[1][j] + v * raw[2][j]) \div 100]
          BY <1>1, <4>2 DEF Ranking!Ensemble, Ranking!Places
        <5> HIDE DEF u, v
        <5>2. QED
          BY <1>4, <4>1, <4>4, <5>1
      <4>6. QED
        BY <4>3, <4>5
    <3>3. QED
      BY <2>3, <3>1, <3>2
  <2> HIDE DEF one, two
  <2>5. Ranking!Judge(c, segment, one).order[1] = w
    BY <2>1
  <2>6. \A j \in those : segment.candidates[j] = segment.candidates[w] /\ one[j] = one[w]
    BY <1>4, <2>4
  <2>7. Ranking!Judge(c, segment, two).order[1] = w
    <3>1. Better(c, segment, n, those, Lift, one, two, w)
      BY <1>1, <1>4, <2>4, <2>5, <2>6 DEF Better
    <3>2. QED
      BY <3>1, JudgedStill
  <2>8. QED
    BY <2>2, <2>7
<1>7. CASE c.family = "qwen"
  <2> DEFINE f == Ranking!QwenScores(c.variant, raw)
             g == Ranking!QwenScores(c.variant, raw2)
  <2>1. c.models = IF c.variant = "dual" THEN 2 ELSE 1
    BY <1>7, AnswersAssumption DEF RankingInv, Ranking!config
  <2>2. Ranking!Ranked(i).order = Ranking!Descending(f)
    BY <1>7 DEF Ranking!Ranked, Ranking!ByScore
  <2>3. Ranking!Ranked(i)'.order = Ranking!Descending(g)
    <3>1. c'.family = "qwen"
      BY <1>3, <1>7
    <3>2. QED
      BY <1>3, <3>1 DEF Ranking!Ranked, Ranking!ByScore
  <2> HIDE DEF c, segment, n, those, raw, raw2
  <2>4. Raised(raw[1], raw2[1], n, those, Lift) /\ (c.variant = "dual" => Raised(raw[2], raw2[2], n, those, Lift))
    BY <1>2, <2>1
  <2>5. Raised(f, g, n, those, 100 * Lift)
    BY <2>4, QwenRises
  <2> HIDE DEF f, g
  <2>6. Ranking!Descending(f)[1] = w
    BY <2>2
  <2>7. Ranking!Descending(g)[1] = w
    BY <1>1, <1>4, <2>5, <2>6, StaysFirst
  <2>8. QED
    BY <2>3, <2>7
<1>8. CASE c.family = "rule"
  <2>1. c'.family = "rule"
    BY <1>3, <1>8
  <2>2. Ranking!Ranked(i) = Ranking!ByScore(Ranking!RuleScores(segment))
    BY <1>8 DEF Ranking!Ranked
  <2>3. Ranking!Ranked(i)' = Ranking!ByScore(Ranking!RuleScores(segment))
    BY <1>3, <2>1 DEF Ranking!Ranked
  <2>4. QED
    BY <2>2, <2>3
<1>9. QED
  BY <1>5, <1>6, <1>7, <1>8

-----------------------------------------------------------------------------
(* The winner of the earlier answer still comes first. *)
StillInv ==
  /\ AnswerInv
  /\ before.ok => trigger = "rank"
  /\ before.ok /\ before.winners # <<1>> => before.winners = <<TheFirst(1)>>

LEMMA StillStep ==
  ASSUME StillInv, [Ranking!Next]_(Ranking!vars)
  PROVE  StillInv'
<1>1. Sent /\ AnswerInv /\ AnswerInv' /\ UNCHANGED <<backend, trigger, segments>>
  BY AnswerStep, RequestStays DEF StillInv, AnswerInv
<1>2. ASSUME trigger = "rank" PROVE 1 \in DOMAIN segments /\ DOMAIN segments = {1}
  BY <1>1, <1>2, SegmentsShape DEF Sent
<1>3. CASE logits' = logits /\ before' = before
  <2>1. \A i \in DOMAIN segments : TheFirst(i)' = TheFirst(i)
    BY <1>1, <1>3, AnswerStays
  <2>2. before.ok => TheFirst(1)' = TheFirst(1)
    BY <1>2, <2>1 DEF StillInv
  <2>3. QED
    BY <1>1, <1>3, <2>2 DEF StillInv
<1>4. CASE Ranking!Improve
  <2>1. /\ trigger = "rank" /\ read.ok /\ before' = read
        /\ logits' = [k \in DOMAIN logits |->
             [logits[k] EXCEPT ![segments[1].candidates[read.winners[1]]] = @ + Lift]]
    BY <1>4 DEF Ranking!Improve
  <2>2. read.winners = [i \in DOMAIN segments |-> TheFirst(i)]
    BY <1>1, <2>1 DEF AnswerInv
  <2> DEFINE w == TheFirst(1)
  <2>3. read.winners[1] = w /\ read.winners = <<w>>
    <3>1. read.winners = [i \in {1} |-> TheFirst(i)]
      BY <1>2, <2>1, <2>2
    <3>2. <<TheFirst(1)>> = [i \in {1} |-> TheFirst(i)]
      OBVIOUS
    <3>3. QED
      BY <3>1, <3>2
  <2>4. w = Ranking!Ranked(1).order[1] /\ w' = Ranking!Ranked(1)'.order[1]
    BY <1>1, <2>1 DEF TheFirst, Ranking!Prefetches
  <2>5. RankingInv /\ 1 \in DOMAIN segments
    BY <1>1, <1>2, <2>1 DEF Sent
  <2>6. w \in 1 .. Len(segments[1].candidates)
    <3>1. IsOrder(Ranking!Ranked(1).order, Len(segments[1].candidates))
      BY <2>5, RankedWell
    <3>2. Len(segments[1].candidates) \in Nat \ {0}
      BY <2>5, SegmentShape
    <3>3. 1 \in 1 .. Len(segments[1].candidates)
      BY <3>2
    <3>4. QED
      BY <2>4, <3>1, <3>3 DEF IsOrder
  <2> HIDE DEF w
  <2>7. logits' = [k \in DOMAIN logits |-> [logits[k] EXCEPT ![segments[1].candidates[w]] = @ + Lift]]
    BY <2>1, <2>3
  <2>8. w # 1 => w' = w
    <3> SUFFICES ASSUME w # 1 PROVE w' = w
      OBVIOUS
    <3>1. Ranking!Ranked(1)'.order[1] = w
      BY <1>1, <2>4, <2>5, <2>6, <2>7, FirstStays
    <3>2. QED
      BY <2>4, <3>1
  <2>9. before'.winners # <<1>> => before'.winners = <<w'>>
    BY <2>1, <2>3, <2>8
  <2>10. QED
    BY <1>1, <2>1, <2>9 DEF StillInv, w
<1>5. QED
  BY <1>3, <1>4 DEF Ranking!Next, Ranking!process_line, Ranking!Read, Ranking!vars

(* scoring.py:288-402, the five ways past the gate: a candidate that was put    *)
(* before Mozc's first stays there when every model thinks better of it, by     *)
(* however much; for any request, any backend, any opinions, any words, rules   *)
(* and settings.                                                                *)
THEOREM BetterStays == Ranking!Spec => []BetterStillWins
<1>1. Ranking!Init => StillInv
  <2> SUFFICES ASSUME Ranking!Init PROVE StillInv
    OBVIOUS
  <2>1. AnswerInv
    BY AnswersBegin
  <2>2. ~before.ok
    BY DEF Ranking!Init, Ranking!NoAnswer
  <2>3. QED
    BY <2>1, <2>2 DEF StillInv
<1>2. StillInv => BetterStillWins
  <2> DEFINE moved == before.winners # <<1>>
  <2> SUFFICES ASSUME StillInv, read.ok, before.ok, moved
               PROVE  read.winners = before.winners
    BY DEF BetterStillWins, Ranking!BetterStillWins
  <2>1. DOMAIN segments = {1}
    BY SegmentsShape DEF StillInv, AnswerInv, Sent
  <2>2. read.winners = [i \in {1} |-> TheFirst(i)]
    BY <2>1 DEF StillInv, AnswerInv
  <2>3. <<TheFirst(1)>> = [i \in {1} |-> TheFirst(i)]
    OBVIOUS
  <2>4. QED
    BY <2>2, <2>3 DEF StillInv
<1>3. QED
  BY <1>1, <1>2, StillStep, PTL DEF Ranking!Spec
=============================================================================

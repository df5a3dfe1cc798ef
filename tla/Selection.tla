------------------------------ MODULE Selection ------------------------------
(***************************************************************************)
(* A loop over a sequence that keeps some of it, and a sort by score.      *)
(***************************************************************************)
EXTENDS Integers, Sequences, FiniteSets

(* What of a sequence is among those, in its order. *)
Kept(s, those) ==
  LET kept[n \in 0 .. Len(s)] ==
        IF n = 0 THEN <<>>
        ELSE IF s[n] \in those THEN Append(kept[n - 1], s[n])
        ELSE kept[n - 1]
  IN kept[Len(s)]

\* Mutant: lowest score first.
LowestFirst(score) ==
  [n \in DOMAIN score |->
     CHOOSE i \in DOMAIN score :
       Cardinality({j \in DOMAIN score : score[j] < score[i] \/ (score[j] = score[i] /\ j < i)}) = n - 1]

(* A stable sort, highest score first: a place comes behind those ahead of it. *)
Ahead(score, i) ==
  {j \in DOMAIN score : score[j] > score[i] \/ (score[j] = score[i] /\ j < i)}

Descending(score) ==
  [n \in DOMAIN score |->
     CHOOSE i \in DOMAIN score : Cardinality(Ahead(score, i)) = n - 1]
=============================================================================

-------------------------- MODULE MCPrefetchEngine --------------------------
(***************************************************************************)
(* Instances of PrefetchEngine for TLC.  Requests a and b are two document *)
(* contexts, with one candidate surface w.  In the overlapping plans b     *)
(* shares a query with a, as the joint plans of two neighbouring snapshots *)
(* do; in the disjoint plans the contexts have nothing in common.          *)
(***************************************************************************)
EXTENDS PrefetchEngine

CONSTANTS a, b, qa, qb, w

MCRequests == {a, b}
MCQueries == {qa, qb}
MCWords == {w}
OverlappingPlans == [r \in MCRequests |-> IF r = a THEN <<qa>> ELSE <<qa, qb>>]
DisjointPlans == [r \in MCRequests |-> IF r = a THEN <<qa>> ELSE <<qb>>]
MCWordsOf == [r \in MCRequests |-> {w}]
MCSent == [context |-> {a, b}, candidate |-> {b}]
OnePerSide == [context |-> {a}, candidate |-> {b}]
ContextOnly == [context |-> {a}, candidate |-> {}]
MCWeak == {a}

(* The store as two processes left it, the second with the weights this one     *)
(* has, and a vocabulary of which the limit lets one word through.              *)
StoredWord == "v"
Dictionary == INSTANCE EmbeddingDictionary WITH
  Left <- {[key |-> "k16", word |-> w], [key |-> "k8", word |-> StoredWord]},
  KeyOf <- [int8 |-> "k8", fp16 |-> "k16"],
  Weights <- "int8",
  Entries <- <<[surface |-> "", comment |-> FALSE], [surface |-> w, comment |-> TRUE],
               [surface |-> w, comment |-> FALSE], [surface |-> w, comment |-> FALSE],
               [surface |-> StoredWord, comment |-> FALSE]>>,
  WarmupLimit <- 1,
  BatchSize <- 1

MCPersisted == {}
OneBatch == << {w} >>
NoBatch == << >>

ASSUME TheDictionaryFound ==
  MCPersisted = Dictionary!Present \cap MCWords /\ OneBatch = Dictionary!WarmupBatches
=============================================================================

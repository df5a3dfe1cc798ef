------------------------ MODULE EmbeddingDictionary ------------------------
(***************************************************************************)
(* What a ranker process finds in the persistent embedding store when it   *)
(* opens it, and the vocabulary its warmup brings there: the constants     *)
(* |Persisted| and |Batches| of PrefetchEngine, computed the way the code  *)
(* does from what earlier processes and the installation left.             *)
(***************************************************************************)
EXTENDS Naturals, Sequences, SequencesExt, FiniteSetsExt

CONSTANTS
  Left,         \* the rows of the store: [key, word]
  KeyOf,        \* weights -> key, the SHA-256 of the file
  Weights,      \* the weights this process has loaded
  Entries,      \* the lines of the vocabulary: [surface, comment]
  WarmupLimit,  \* candidate_warmup_limit, in words
  BatchSize     \* batch_size: 256 words

\* PersistentEmbeddingStore.__init__: the rows of every other model are deleted,
\* so that the store never grows with the number of models.
RowsKept == {row \in Left : row.key = KeyOf[Weights]}

\* What get_many and missing_words then select from.
Present == {row.word : row \in RowsKept}

\* _iter_candidate_vocabulary: each surface once, in order; blank lines and
\* comments are not words.
Vocabulary ==
  LET add(words, line) ==
        IF line.surface = "" \/ line.comment \/ Contains(words, line.surface)
        THEN words ELSE Append(words, line.surface)
  IN FoldLeft(add, << >>, Entries)

\* The warmup's batches: of the words up to the limit, full batches, then the rest.
WarmupBatches ==
  LET words == SubSeq(Vocabulary, 1, Min({WarmupLimit, Len(Vocabulary)}))
      count == (Len(words) + BatchSize - 1) \div BatchSize
  IN [n \in 1..count |->
        {words[i] : i \in (n - 1) * BatchSize + 1 .. Min({n * BatchSize, Len(words)})}]
=============================================================================

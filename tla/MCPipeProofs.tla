---------------------------- MODULE MCPipeProofs -----------------------------
(*****************************************************************************)
(* What is checked of the pipe and of what runs beside it, for all          *)
(* constants.  PipeExchange keeps its counters and implements RankCall, for *)
(* every set of calls and every size of their requests and answers; the pill *)
(* is on the screen only while a ranking is under way, or when it has been  *)
(* told to go; and the speculative ranker answers from its cache only what is *)
(* of the request and within its lifetime.                                  *)
(*****************************************************************************)
EXTENDS MCPipeExchange, RecursionProofs

(* A call that has not opened the pipe has left no trace; one that has goes   *)
(* on while pieces are missing, and what it has taken of the answer and what   *)
(* waits for it is what the server has put.                                    *)
ClientKnows ==
  \A r \in Requests :
    /\ client[r] \in {"idle", "waiting", "opening"}
         => /\ sent[r] = 0 /\ taken[r] = 0 /\ runs[r] = 0
            /\ link[r] = "none" /\ peer # r
    /\ client[r] = "writing" => sent[r] < Parts[r] /\ taken[r] = 0
    /\ client[r] = "reading" => taken[r] < AnswerParts[r]
    /\ link[r] = "open" => /\ peer = r /\ client[r] \in {"writing", "reading"}
                           /\ taken[r] + outbox = put

(* Where the server stands says what has become of its client's request.       *)
ServerKnows ==
  /\ server \in {"down", "idle"} => peer = NoRequest
  /\ peer = NoRequest => server \in {"down", "idle", "created", "accepting"}
  /\ server \in {"down", "idle", "created", "accepting"} => data = 0
  /\ server \in {"down", "idle", "created", "accepting", "reading", "running"}
       => put = 0 /\ outbox = 0
  /\ server = "reading" => data < Parts[peer]
  /\ server = "replying" => put < AnswerParts[peer]
  /\ server = "closing" /\ outbox = 1 => ~Connected(peer)
  /\ server \in {"created", "accepting", "reading", "running"} /\ peer # NoRequest
       => runs[peer] = 0
  /\ server \in {"replying", "flushing"} => runs[peer] = 1

(* A conversion is answered only with the whole answer put, and counted then.  *)
AnsweredWhole ==
  \A r \in Requests \ Probes :
    client[r] = "answered" /\ peer = r
      => server = "flushing" \/ (server = "closing" /\ r \in counted)

IndInv ==
  /\ TypeOK
  /\ sent \in [Requests -> Nat] /\ taken \in [Requests -> Nat]
  /\ runs \in [Requests -> {0, 1}]
  /\ ClientKnows
  /\ ServerKnows
  /\ AnsweredWhole
  /\ AnsweredIsCounted
-----------------------------------------------------------------------------
(* The steps. *)

LEMMA BeginStep ==
  ASSUME IndInv, NEW r \in Requests, Begin(r)
  PROVE  IndInv'
<1> USE PipeAssumption
    DEF IndInv, TypeOK, ClientStates, ServerStates, Begin, clientVars, pipeVars, Connected
<1>1. TypeOK' /\ sent' \in [Requests -> Nat] /\ taken' \in [Requests -> Nat]
      /\ runs' \in [Requests -> {0, 1}]
  BY DEF ClientKnows, ServerKnows
<1>2. ClientKnows'
  BY DEF ClientKnows, ServerKnows
<1>3. ServerKnows'
  BY DEF ClientKnows, ServerKnows
<1>4. AnsweredWhole' /\ AnsweredIsCounted'
  BY DEF ClientKnows, ServerKnows, AnsweredWhole, AnsweredIsCounted
<1>5. QED
  BY <1>1, <1>2, <1>3, <1>4

LEMMA ExpireStep ==
  ASSUME IndInv, NEW r \in Requests, Expire(r)
  PROVE  IndInv'
<1> USE PipeAssumption
    DEF IndInv, TypeOK, ClientStates, ServerStates, Expire, Timed, clientVars, pipeVars, Connected
<1>1. TypeOK' /\ sent' \in [Requests -> Nat] /\ taken' \in [Requests -> Nat]
      /\ runs' \in [Requests -> {0, 1}]
  BY DEF ClientKnows, ServerKnows
<1>2. ClientKnows'
  BY DEF ClientKnows, ServerKnows
<1>3. ServerKnows'
  BY DEF ClientKnows, ServerKnows
<1>4. AnsweredWhole' /\ AnsweredIsCounted'
  BY DEF ClientKnows, ServerKnows, AnsweredWhole, AnsweredIsCounted
<1>5. QED
  BY <1>1, <1>2, <1>3, <1>4

LEMMA SeePipeStep ==
  ASSUME IndInv, NEW r \in Requests, SeePipe(r)
  PROVE  IndInv'
<1> USE PipeAssumption
    DEF IndInv, TypeOK, ClientStates, ServerStates, SeePipe, Available, clientVars, pipeVars, Connected
<1>1. TypeOK' /\ sent' \in [Requests -> Nat] /\ taken' \in [Requests -> Nat]
      /\ runs' \in [Requests -> {0, 1}]
  BY DEF ClientKnows, ServerKnows
<1>2. ClientKnows'
  BY DEF ClientKnows, ServerKnows
<1>3. ServerKnows'
  BY DEF ClientKnows, ServerKnows
<1>4. AnsweredWhole' /\ AnsweredIsCounted'
  BY DEF ClientKnows, ServerKnows, AnsweredWhole, AnsweredIsCounted
<1>5. QED
  BY <1>1, <1>2, <1>3, <1>4

LEMMA OpenPipeStep ==
  ASSUME IndInv, NEW r \in Requests, OpenPipe(r)
  PROVE  IndInv'
<1> USE PipeAssumption
    DEF IndInv, TypeOK, ClientStates, ServerStates, OpenPipe, Available, clientVars, pipeVars, Connected
<1>1. TypeOK' /\ sent' \in [Requests -> Nat] /\ taken' \in [Requests -> Nat]
      /\ runs' \in [Requests -> {0, 1}]
  BY DEF ClientKnows, ServerKnows
<1>2. ClientKnows'
  BY DEF ClientKnows, ServerKnows
<1>3. ServerKnows'
  BY DEF ClientKnows, ServerKnows
<1>4. AnsweredWhole' /\ AnsweredIsCounted'
  BY DEF ClientKnows, ServerKnows, AnsweredWhole, AnsweredIsCounted
<1>5. QED
  BY <1>1, <1>2, <1>3, <1>4

LEMMA WriteStep ==
  ASSUME IndInv, NEW r \in Requests, Write(r)
  PROVE  IndInv'
<1> USE PipeAssumption
    DEF IndInv, TypeOK, ClientStates, ServerStates, Write, Put, clientVars, pipeVars, Connected
<1>1. TypeOK' /\ sent' \in [Requests -> Nat] /\ taken' \in [Requests -> Nat]
      /\ runs' \in [Requests -> {0, 1}]
  <2>1. /\ sent[r] \in Nat /\ Parts[r] \in Nat /\ AnswerParts[r] \in Nat
        /\ sent[r] < Parts[r]
    BY DEF ClientKnows
  <2>2. sent[r] + 1 \in 0 .. Parts[r]
    BY <2>1
  <2>3. sent' = [sent EXCEPT ![r] = sent[r] + 1] /\ UNCHANGED <<taken, runs>>
    OBVIOUS
  <2>4. \A k \in Requests : sent'[k] \in 0 .. Parts[k] /\ taken'[k] \in 0 .. AnswerParts[k]
    BY <2>2, <2>3
  <2>5. sent' \in [Requests -> Nat]
    BY <2>1, <2>3
  <2>6. QED
    BY <2>3, <2>4, <2>5
<1>2. ClientKnows'
  <2>1. /\ sent[r] \in Nat /\ Parts[r] \in Nat /\ sent[r] < Parts[r]
        /\ peer = r /\ taken[r] = 0 /\ AnswerParts[r] \in Nat \ {0}
    BY DEF ClientKnows
  <2>2. \A k \in Requests \ {r} :
          client'[k] = client[k] /\ sent'[k] = sent[k]
    OBVIOUS
  <2>3. /\ sent'[r] = sent[r] + 1
        /\ client'[r] = IF sent[r] + 1 = Parts[r] THEN "reading" ELSE "writing"
        /\ UNCHANGED <<link, taken, peer, outbox, put, runs>>
    OBVIOUS
  <2>4. client'[r] = "writing" => sent'[r] < Parts[r]
    BY <2>1, <2>3
  <2>5. QED
    BY <2>1, <2>2, <2>3, <2>4 DEF ClientKnows
<1>3. ServerKnows'
  BY DEF ClientKnows, ServerKnows
<1>4. AnsweredWhole' /\ AnsweredIsCounted'
  BY DEF ClientKnows, ServerKnows, AnsweredWhole, AnsweredIsCounted
<1>5. QED
  BY <1>1, <1>2, <1>3, <1>4

LEMMA ReadStep ==
  ASSUME IndInv, NEW r \in Requests, Read(r)
  PROVE  IndInv'
<1> USE PipeAssumption
    DEF IndInv, TypeOK, ClientStates, ServerStates, Read, Take, Close, clientVars, pipeVars, Connected
<1>1. TypeOK' /\ sent' \in [Requests -> Nat] /\ taken' \in [Requests -> Nat]
      /\ runs' \in [Requests -> {0, 1}]
  BY DEF ClientKnows, ServerKnows
<1>2. ClientKnows'
  <2>1. /\ taken[r] \in Nat /\ AnswerParts[r] \in Nat /\ taken[r] < AnswerParts[r]
        /\ peer = r /\ taken[r] + outbox = put /\ outbox = 1 /\ outbox' = 0
    BY DEF ClientKnows
  <2>2. \A k \in Requests \ {r} :
          client'[k] = client[k] /\ taken'[k] = taken[k] /\ link'[k] = link[k]
    OBVIOUS
  <2>3. taken'[r] = taken[r] + 1 /\ UNCHANGED <<sent, peer, put, runs>>
    OBVIOUS
  <2>4. CASE taken[r] + 1 = AnswerParts[r]
    <3>1. client'[r] = "answered" /\ link'[r] = "none"
      BY <2>4
    <3>2. QED
      BY <2>1, <2>2, <2>3, <3>1 DEF ClientKnows
  <2>5. CASE taken[r] + 1 # AnswerParts[r]
    <3>1. client'[r] = "reading" /\ link'[r] = "open"
      BY <2>5
    <3>2. taken'[r] < AnswerParts[r] /\ taken'[r] + outbox' = put'
      BY <2>1, <2>3, <2>5
    <3>3. QED
      BY <2>1, <2>2, <2>3, <3>1, <3>2 DEF ClientKnows
  <2>6. QED
    BY <2>4, <2>5
<1>3. ServerKnows'
  BY DEF ClientKnows, ServerKnows
<1>4. AnsweredWhole' /\ AnsweredIsCounted'
  BY DEF ClientKnows, ServerKnows, AnsweredWhole, AnsweredIsCounted
<1>5. QED
  BY <1>1, <1>2, <1>3, <1>4

LEMMA ProbeWritesStep ==
  ASSUME IndInv, NEW r \in Requests, ProbeWrites(r)
  PROVE  IndInv'
<1> USE PipeAssumption
    DEF IndInv, TypeOK, ClientStates, ServerStates, ProbeWrites, Put, clientVars, pipeVars, Connected
<1>1. TypeOK' /\ sent' \in [Requests -> Nat] /\ taken' \in [Requests -> Nat]
      /\ runs' \in [Requests -> {0, 1}]
  <2>1. /\ sent[r] \in Nat /\ Parts[r] \in Nat /\ AnswerParts[r] \in Nat
        /\ sent[r] < Parts[r]
    BY DEF ClientKnows
  <2>2. sent[r] + 1 \in 0 .. Parts[r]
    BY <2>1
  <2>3. sent' = [sent EXCEPT ![r] = sent[r] + 1] /\ UNCHANGED <<taken, runs>>
    OBVIOUS
  <2>4. \A k \in Requests : sent'[k] \in 0 .. Parts[k] /\ taken'[k] \in 0 .. AnswerParts[k]
    BY <2>2, <2>3
  <2>5. sent' \in [Requests -> Nat]
    BY <2>1, <2>3
  <2>6. QED
    BY <2>3, <2>4, <2>5
<1>2. ClientKnows'
  <2>1. /\ sent[r] \in Nat /\ Parts[r] \in Nat /\ sent[r] < Parts[r]
        /\ peer = r /\ taken[r] = 0 /\ AnswerParts[r] \in Nat \ {0}
    BY DEF ClientKnows
  <2>2. \A k \in Requests \ {r} :
          client'[k] = client[k] /\ sent'[k] = sent[k]
    OBVIOUS
  <2>3. /\ sent'[r] = sent[r] + 1
        /\ client'[r] = IF sent[r] + 1 = Parts[r] THEN "reading" ELSE "writing"
        /\ UNCHANGED <<link, taken, peer, outbox, put, runs>>
    OBVIOUS
  <2>4. client'[r] = "writing" => sent'[r] < Parts[r]
    BY <2>1, <2>3
  <2>5. QED
    BY <2>1, <2>2, <2>3, <2>4 DEF ClientKnows
<1>3. ServerKnows'
  BY DEF ClientKnows, ServerKnows
<1>4. AnsweredWhole' /\ AnsweredIsCounted'
  BY DEF ClientKnows, ServerKnows, AnsweredWhole, AnsweredIsCounted
<1>5. QED
  BY <1>1, <1>2, <1>3, <1>4

LEMMA ProbeReadsStep ==
  ASSUME IndInv, NEW r \in Requests, ProbeReads(r)
  PROVE  IndInv'
<1> USE PipeAssumption
    DEF IndInv, TypeOK, ClientStates, ServerStates, ProbeReads, Take, Close, clientVars, pipeVars, Connected
<1>1. TypeOK' /\ sent' \in [Requests -> Nat] /\ taken' \in [Requests -> Nat]
      /\ runs' \in [Requests -> {0, 1}]
  BY DEF ClientKnows, ServerKnows
<1>2. ClientKnows'
  BY DEF ClientKnows, ServerKnows
<1>3. ServerKnows'
  BY DEF ClientKnows, ServerKnows
<1>4. AnsweredWhole' /\ AnsweredIsCounted'
  BY DEF ClientKnows, ServerKnows, AnsweredWhole, AnsweredIsCounted
<1>5. QED
  BY <1>1, <1>2, <1>3, <1>4

LEMMA TimeOutStep ==
  ASSUME IndInv, NEW r \in Requests, TimeOut(r)
  PROVE  IndInv'
<1> USE PipeAssumption
    DEF IndInv, TypeOK, ClientStates, ServerStates, TimeOut, Close, GiveUp, Blocked, clientVars, pipeVars, Connected
<1>1. TypeOK' /\ sent' \in [Requests -> Nat] /\ taken' \in [Requests -> Nat]
      /\ runs' \in [Requests -> {0, 1}]
  BY DEF ClientKnows, ServerKnows
<1>2. ClientKnows'
  BY DEF ClientKnows, ServerKnows
<1>3. ServerKnows'
  BY DEF ClientKnows, ServerKnows
<1>4. AnsweredWhole' /\ AnsweredIsCounted'
  BY DEF ClientKnows, ServerKnows, AnsweredWhole, AnsweredIsCounted
<1>5. QED
  BY <1>1, <1>2, <1>3, <1>4

LEMMA OpenRefusedStep ==
  ASSUME IndInv, NEW r \in Requests, OpenRefused(r)
  PROVE  IndInv'
<1> USE PipeAssumption
    DEF IndInv, TypeOK, ClientStates, ServerStates, OpenRefused, Close, GiveUp, clientVars, pipeVars, Connected
<1>1. TypeOK' /\ sent' \in [Requests -> Nat] /\ taken' \in [Requests -> Nat]
      /\ runs' \in [Requests -> {0, 1}]
  BY DEF ClientKnows, ServerKnows
<1>2. ClientKnows'
  BY DEF ClientKnows, ServerKnows
<1>3. ServerKnows'
  BY DEF ClientKnows, ServerKnows
<1>4. AnsweredWhole' /\ AnsweredIsCounted'
  BY DEF ClientKnows, ServerKnows, AnsweredWhole, AnsweredIsCounted
<1>5. QED
  BY <1>1, <1>2, <1>3, <1>4

LEMMA BrokenStep ==
  ASSUME IndInv, NEW r \in Requests, Broken(r)
  PROVE  IndInv'
<1> USE PipeAssumption
    DEF IndInv, TypeOK, ClientStates, ServerStates, Broken, Close, GiveUp, clientVars, pipeVars, Connected
<1>1. TypeOK' /\ sent' \in [Requests -> Nat] /\ taken' \in [Requests -> Nat]
      /\ runs' \in [Requests -> {0, 1}]
  BY DEF ClientKnows, ServerKnows
<1>2. ClientKnows'
  BY DEF ClientKnows, ServerKnows
<1>3. ServerKnows'
  BY DEF ClientKnows, ServerKnows
<1>4. AnsweredWhole' /\ AnsweredIsCounted'
  BY DEF ClientKnows, ServerKnows, AnsweredWhole, AnsweredIsCounted
<1>5. QED
  BY <1>1, <1>2, <1>3, <1>4

LEMMA CreateStep ==
  ASSUME IndInv, Create
  PROVE  IndInv'
<1> USE PipeAssumption
    DEF IndInv, TypeOK, ClientStates, ServerStates, Create, clientVars, pipeVars, Connected
<1>1. TypeOK' /\ sent' \in [Requests -> Nat] /\ taken' \in [Requests -> Nat]
      /\ runs' \in [Requests -> {0, 1}]
  BY DEF ClientKnows, ServerKnows
<1>2. ClientKnows'
  BY DEF ClientKnows, ServerKnows
<1>3. ServerKnows'
  BY DEF ClientKnows, ServerKnows
<1>4. AnsweredWhole' /\ AnsweredIsCounted'
  BY DEF ClientKnows, ServerKnows, AnsweredWhole, AnsweredIsCounted
<1>5. QED
  BY <1>1, <1>2, <1>3, <1>4

LEMMA AcceptStep ==
  ASSUME IndInv, Accept
  PROVE  IndInv'
<1> USE PipeAssumption
    DEF IndInv, TypeOK, ClientStates, ServerStates, Accept, clientVars, pipeVars, Connected
<1>1. TypeOK' /\ sent' \in [Requests -> Nat] /\ taken' \in [Requests -> Nat]
      /\ runs' \in [Requests -> {0, 1}]
  BY DEF ClientKnows, ServerKnows
<1>2. ClientKnows'
  BY DEF ClientKnows, ServerKnows
<1>3. ServerKnows'
  BY DEF ClientKnows, ServerKnows
<1>4. AnsweredWhole' /\ AnsweredIsCounted'
  BY DEF ClientKnows, ServerKnows, AnsweredWhole, AnsweredIsCounted
<1>5. QED
  BY <1>1, <1>2, <1>3, <1>4

LEMMA AcceptedStep ==
  ASSUME IndInv, Accepted
  PROVE  IndInv'
<1> USE PipeAssumption
    DEF IndInv, TypeOK, ClientStates, ServerStates, Accepted, clientVars, pipeVars, Connected
<1>1. TypeOK' /\ sent' \in [Requests -> Nat] /\ taken' \in [Requests -> Nat]
      /\ runs' \in [Requests -> {0, 1}]
  BY DEF ClientKnows, ServerKnows
<1>2. ClientKnows'
  BY DEF ClientKnows, ServerKnows
<1>3. ServerKnows'
  BY DEF ClientKnows, ServerKnows
<1>4. AnsweredWhole' /\ AnsweredIsCounted'
  BY DEF ClientKnows, ServerKnows, AnsweredWhole, AnsweredIsCounted
<1>5. QED
  BY <1>1, <1>2, <1>3, <1>4

LEMMA ConnectRacesStep ==
  ASSUME IndInv, ConnectRaces
  PROVE  IndInv'
<1> USE PipeAssumption
    DEF IndInv, TypeOK, ClientStates, ServerStates, ConnectRaces, Release, clientVars, pipeVars, Connected
<1>1. TypeOK' /\ sent' \in [Requests -> Nat] /\ taken' \in [Requests -> Nat]
      /\ runs' \in [Requests -> {0, 1}]
  BY DEF ClientKnows, ServerKnows
<1>2. ClientKnows'
  BY DEF ClientKnows, ServerKnows
<1>3. ServerKnows'
  BY DEF ClientKnows, ServerKnows
<1>4. AnsweredWhole' /\ AnsweredIsCounted'
  BY DEF ClientKnows, ServerKnows, AnsweredWhole, AnsweredIsCounted
<1>5. QED
  BY <1>1, <1>2, <1>3, <1>4

LEMMA ReadPieceStep ==
  ASSUME IndInv, ReadPiece
  PROVE  IndInv'
<1> USE PipeAssumption
    DEF IndInv, TypeOK, ClientStates, ServerStates, ReadPiece, clientVars, pipeVars, Connected
<1>1. TypeOK' /\ sent' \in [Requests -> Nat] /\ taken' \in [Requests -> Nat]
      /\ runs' \in [Requests -> {0, 1}]
  BY DEF ClientKnows, ServerKnows
<1>2. ClientKnows'
  BY DEF ClientKnows, ServerKnows
<1>3. ServerKnows'
  BY DEF ClientKnows, ServerKnows
<1>4. AnsweredWhole' /\ AnsweredIsCounted'
  BY DEF ClientKnows, ServerKnows, AnsweredWhole, AnsweredIsCounted
<1>5. QED
  BY <1>1, <1>2, <1>3, <1>4

LEMMA ReadEndsStep ==
  ASSUME IndInv, ReadEnds
  PROVE  IndInv'
<1> USE PipeAssumption
    DEF IndInv, TypeOK, ClientStates, ServerStates, ReadEnds, clientVars, pipeVars, Connected
<1>1. TypeOK' /\ sent' \in [Requests -> Nat] /\ taken' \in [Requests -> Nat]
      /\ runs' \in [Requests -> {0, 1}]
  BY DEF ClientKnows, ServerKnows
<1>2. ClientKnows'
  BY DEF ClientKnows, ServerKnows
<1>3. ServerKnows'
  BY DEF ClientKnows, ServerKnows
<1>4. AnsweredWhole' /\ AnsweredIsCounted'
  BY DEF ClientKnows, ServerKnows, AnsweredWhole, AnsweredIsCounted
<1>5. QED
  BY <1>1, <1>2, <1>3, <1>4

LEMMA ProcessStep ==
  ASSUME IndInv, Process
  PROVE  IndInv'
<1> USE PipeAssumption
    DEF IndInv, TypeOK, ClientStates, ServerStates, Process, clientVars, pipeVars, Connected
<1>1. TypeOK' /\ sent' \in [Requests -> Nat] /\ taken' \in [Requests -> Nat]
      /\ runs' \in [Requests -> {0, 1}]
  BY DEF ClientKnows, ServerKnows
<1>2. ClientKnows'
  BY DEF ClientKnows, ServerKnows
<1>3. ServerKnows'
  <2>1. peer \in Requests /\ runs[peer] = 0 /\ put = 0 /\ outbox = 0
    BY DEF ServerKnows
  <2>2. runs'[peer] = 1 /\ put < AnswerParts[peer]
    <3>1. AnswerParts[peer] \in Nat \ {0}
      BY <2>1
    <3>2. runs' = [runs EXCEPT ![peer] = 1]
      BY <2>1
    <3>3. QED
      BY <2>1, <3>1, <3>2
  <2>3. server' \in {"replying", "closing"} /\ UNCHANGED <<peer, put, outbox, data, link>>
    OBVIOUS
  <2>4. QED
    BY <2>1, <2>2, <2>3 DEF ServerKnows
<1>4. AnsweredWhole' /\ AnsweredIsCounted'
  BY DEF ClientKnows, ServerKnows, AnsweredWhole, AnsweredIsCounted
<1>5. QED
  BY <1>1, <1>2, <1>3, <1>4

LEMMA WritePieceStep ==
  ASSUME IndInv, WritePiece
  PROVE  IndInv'
<1> USE PipeAssumption
    DEF IndInv, TypeOK, ClientStates, ServerStates, WritePiece, clientVars, pipeVars, Connected
<1>1. TypeOK' /\ sent' \in [Requests -> Nat] /\ taken' \in [Requests -> Nat]
      /\ runs' \in [Requests -> {0, 1}]
  BY DEF ClientKnows, ServerKnows
<1>2. ClientKnows'
  BY DEF ClientKnows, ServerKnows
<1>3. ServerKnows'
  BY DEF ClientKnows, ServerKnows
<1>4. AnsweredWhole' /\ AnsweredIsCounted'
  BY DEF ClientKnows, ServerKnows, AnsweredWhole, AnsweredIsCounted
<1>5. QED
  BY <1>1, <1>2, <1>3, <1>4

LEMMA WriteFailsStep ==
  ASSUME IndInv, WriteFails
  PROVE  IndInv'
<1> USE PipeAssumption
    DEF IndInv, TypeOK, ClientStates, ServerStates, WriteFails, clientVars, pipeVars, Connected
<1>1. TypeOK' /\ sent' \in [Requests -> Nat] /\ taken' \in [Requests -> Nat]
      /\ runs' \in [Requests -> {0, 1}]
  BY DEF ClientKnows, ServerKnows
<1>2. ClientKnows'
  BY DEF ClientKnows, ServerKnows
<1>3. ServerKnows'
  BY DEF ClientKnows, ServerKnows
<1>4. AnsweredWhole' /\ AnsweredIsCounted'
  BY DEF ClientKnows, ServerKnows, AnsweredWhole, AnsweredIsCounted
<1>5. QED
  BY <1>1, <1>2, <1>3, <1>4

LEMMA FlushedStep ==
  ASSUME IndInv, Flushed
  PROVE  IndInv'
<1> USE PipeAssumption
    DEF IndInv, TypeOK, ClientStates, ServerStates, Flushed, clientVars, pipeVars, Connected
<1>1. TypeOK' /\ sent' \in [Requests -> Nat] /\ taken' \in [Requests -> Nat]
      /\ runs' \in [Requests -> {0, 1}]
  BY DEF ClientKnows, ServerKnows
<1>2. ClientKnows'
  BY DEF ClientKnows, ServerKnows
<1>3. ServerKnows'
  BY DEF ClientKnows, ServerKnows
<1>4. AnsweredWhole' /\ AnsweredIsCounted'
  BY DEF ClientKnows, ServerKnows, AnsweredWhole, AnsweredIsCounted
<1>5. QED
  BY <1>1, <1>2, <1>3, <1>4

LEMMA DisconnectStep ==
  ASSUME IndInv, Disconnect
  PROVE  IndInv'
<1> USE PipeAssumption
    DEF IndInv, TypeOK, ClientStates, ServerStates, Disconnect, Release, clientVars, pipeVars, Connected
<1>1. TypeOK' /\ sent' \in [Requests -> Nat] /\ taken' \in [Requests -> Nat]
      /\ runs' \in [Requests -> {0, 1}]
  BY DEF ClientKnows, ServerKnows
<1>2. ClientKnows'
  BY DEF ClientKnows, ServerKnows
<1>3. ServerKnows'
  BY DEF ClientKnows, ServerKnows
<1>4. AnsweredWhole' /\ AnsweredIsCounted'
  BY DEF ClientKnows, ServerKnows, AnsweredWhole, AnsweredIsCounted
<1>5. QED
  BY <1>1, <1>2, <1>3, <1>4

LEMMA CrashStep ==
  ASSUME IndInv, Crash
  PROVE  IndInv'
<1> USE PipeAssumption
    DEF IndInv, TypeOK, ClientStates, ServerStates, Crash, Release, clientVars, pipeVars, Connected
<1>1. TypeOK' /\ sent' \in [Requests -> Nat] /\ taken' \in [Requests -> Nat]
      /\ runs' \in [Requests -> {0, 1}]
  BY DEF ClientKnows, ServerKnows
<1>2. ClientKnows'
  BY DEF ClientKnows, ServerKnows
<1>3. ServerKnows'
  BY DEF ClientKnows, ServerKnows
<1>4. AnsweredWhole' /\ AnsweredIsCounted'
  BY DEF ClientKnows, ServerKnows, AnsweredWhole, AnsweredIsCounted
<1>5. QED
  BY <1>1, <1>2, <1>3, <1>4

LEMMA RestartStep ==
  ASSUME IndInv, Restart
  PROVE  IndInv'
<1> USE PipeAssumption
    DEF IndInv, TypeOK, ClientStates, ServerStates, Restart, clientVars, pipeVars, Connected
<1>1. TypeOK' /\ sent' \in [Requests -> Nat] /\ taken' \in [Requests -> Nat]
      /\ runs' \in [Requests -> {0, 1}]
  BY DEF ClientKnows, ServerKnows
<1>2. ClientKnows'
  BY DEF ClientKnows, ServerKnows
<1>3. ServerKnows'
  BY DEF ClientKnows, ServerKnows
<1>4. AnsweredWhole' /\ AnsweredIsCounted'
  BY DEF ClientKnows, ServerKnows, AnsweredWhole, AnsweredIsCounted
<1>5. QED
  BY <1>1, <1>2, <1>3, <1>4
-----------------------------------------------------------------------------
LEMMA InitEstablishes == Init => IndInv
<1> SUFFICES ASSUME Init PROVE IndInv
  OBVIOUS
<1> USE PipeAssumption DEF Init
<1>1. /\ TypeOK /\ sent \in [Requests -> Nat] /\ taken \in [Requests -> Nat]
      /\ runs \in [Requests -> {0, 1}]
  BY DEF TypeOK, ClientStates, ServerStates
<1>2. ClientKnows /\ ServerKnows
  BY DEF ClientKnows, ServerKnows
<1>3. AnsweredWhole /\ AnsweredIsCounted
  BY DEF AnsweredWhole, AnsweredIsCounted
<1>4. QED
  BY <1>1, <1>2, <1>3 DEF IndInv

LEMMA StutterPreserves == IndInv /\ UNCHANGED vars => IndInv'
BY DEF vars, IndInv, TypeOK, ClientKnows, ServerKnows, AnsweredWhole, AnsweredIsCounted, Connected

LEMMA StepPreserves == IndInv /\ [Next]_vars => IndInv'
<1> SUFFICES ASSUME IndInv, Next PROVE IndInv'
  BY StutterPreserves
<1>1. ASSUME NEW r \in Requests, Begin(r) \/ Expire(r) \/ Client(r)
      PROVE  IndInv'
  BY <1>1, BeginStep, ExpireStep, SeePipeStep, OpenPipeStep, WriteStep, ReadStep,
     ProbeWritesStep, ProbeReadsStep, TimeOutStep, OpenRefusedStep, BrokenStep DEF Client
<1>2. CASE Serve
  BY <1>2, CreateStep, AcceptStep, AcceptedStep, ConnectRacesStep, ReadPieceStep, ReadEndsStep,
     ProcessStep, WritePieceStep, WriteFailsStep, FlushedStep, DisconnectStep DEF Serve
<1>3. CASE Crash \/ Restart
  BY <1>3, CrashStep, RestartStep
<1>4. QED
  BY <1>1, <1>2, <1>3 DEF Next

LEMMA InvariantHolds == Spec => []IndInv
BY InitEstablishes, StepPreserves, PTL DEF Spec

(* Neither end writes or reads past the other's line, whoever gives up or dies  *)
(* (ai_ranker_client.cc:99-162, ranker.py:576-614).                              *)
THEOREM TypesHold == Spec => []TypeOK
<1>1. IndInv => TypeOK
  BY DEF IndInv
<1>2. QED
  BY <1>1, InvariantHolds, PTL

(* The status file counts every conversion that was answered, or the ranker died *)
(* with it, and never a probe (ranker.py:614-698).                                *)
THEOREM AnswersCounted == Spec => []AnsweredIsCounted
<1>1. IndInv => AnsweredIsCounted
  BY DEF IndInv
<1>2. QED
  BY <1>1, InvariantHolds, PTL
-----------------------------------------------------------------------------
(* The refinement. *)

called(r) == IF client[r] \in pending THEN "pending" ELSE client[r]

(* A step of one client that leaves the ranker's runs alone. *)
LEMMA ClientRefines ==
  ASSUME IndInv, NEW r \in Requests, NEW s, client' = [client EXCEPT ![r] = s], runs' = runs
  PROVE  /\ s \in pending /\ client[r] \in pending => UNCHANGED Service!vars
         /\ s = "waiting" /\ client[r] = "idle" => Service!Begin(r)
         /\ s = "answered" /\ client[r] \in pending /\ runs[r] = 1 => Service!Answer(r)
         /\ s = "failed" /\ client[r] \in pending => Service!Fail(r)
<1> DEFINE call == [k \in Requests |-> called(k)]
<1> USE DEF Service!vars, Service!Begin, Service!Answer, Service!Fail, pending, called
<1>1. client \in [Requests -> ClientStates]
  BY DEF IndInv, TypeOK
<1>2. call' = [call EXCEPT ![r] = IF s \in pending THEN "pending" ELSE s]
  BY <1>1
<1>3. QED
  BY <1>2

LEMMA Idles ==
  ASSUME UNCHANGED <<client, runs>>
  PROVE  UNCHANGED Service!vars
BY DEF Service!vars, pending

LEMMA StepRefines == IndInv /\ [Next]_vars => [Service!Next]_Service!vars
<1> SUFFICES ASSUME IndInv, Next PROVE Service!Next \/ UNCHANGED Service!vars
  BY Idles DEF vars
<1> USE DEF Service!Next
<1>1. ASSUME NEW r \in Requests, Begin(r) PROVE Service!Begin(r)
  BY <1>1, ClientRefines DEF Begin
<1>2. ASSUME NEW r \in Requests, SeePipe(r) \/ OpenPipe(r) \/ Write(r) \/ ProbeWrites(r)
      PROVE  UNCHANGED Service!vars
  <2>1. runs' = runs
    BY <1>2 DEF SeePipe, OpenPipe, Write, ProbeWrites, Put
  <2>2. PICK s \in pending : client' = [client EXCEPT ![r] = s] /\ client[r] \in pending
    BY <1>2 DEF SeePipe, OpenPipe, Write, ProbeWrites, Put, pending
  <2>3. QED
    BY <2>1, <2>2, ClientRefines
<1>3. ASSUME NEW r \in Requests, Take(r) PROVE runs[r] = 1 /\ client[r] = "reading"
  <2>1. peer = r /\ outbox = 1 /\ client[r] = "reading" /\ Connected(r)
    BY <1>3 DEF Take, IndInv, ClientKnows, Connected
  <2>2. server \in {"replying", "flushing"}
    BY <2>1 DEF IndInv, TypeOK, ServerKnows, ServerStates
  <2>3. QED
    BY <2>1, <2>2 DEF IndInv, ServerKnows
<1>4. ASSUME NEW r \in Requests, Read(r) \/ ProbeReads(r)
      PROVE  Service!Answer(r) \/ Service!Fail(r) \/ UNCHANGED Service!vars
  <2>1. Take(r) /\ runs' = runs
    BY <1>4 DEF Read, ProbeReads, Take
  <2>2. runs[r] = 1 /\ client[r] \in pending
    BY <1>3, <2>1 DEF pending
  <2>3. CASE client' = client
    BY <2>1, <2>3, Idles
  <2>4. CASE \E s \in {"answered", "failed"} : client' = [client EXCEPT ![r] = s]
    BY <2>1, <2>2, <2>4, ClientRefines
  <2>5. QED
    BY <1>4, <2>3, <2>4 DEF Read, ProbeReads, Close
<1>5. ASSUME NEW r \in Requests, TimeOut(r) \/ OpenRefused(r) \/ Broken(r) PROVE Service!Fail(r)
  <2>1. client' = [client EXCEPT ![r] = "failed"] /\ runs' = runs
    BY <1>5 DEF TimeOut, OpenRefused, Broken, GiveUp, Close
  <2>2. client[r] \in pending
    BY <1>5 DEF TimeOut, OpenRefused, Broken, Blocked, pending
  <2>3. QED
    BY <2>1, <2>2, ClientRefines
<1>6. CASE Process
  <2>1. peer \in Requests /\ runs[peer] = 0 /\ client[peer] # "idle"
    BY <1>6 DEF Process, IndInv, TypeOK, ClientKnows, ServerKnows
  <2>2. client' = client /\ runs' = [runs EXCEPT ![peer] = 1]
    BY <1>6, <2>1 DEF Process, clientVars
  <2>3. Service!Run(peer)
    BY <2>1, <2>2 DEF Service!Run, pending
  <2>4. QED
    BY <2>1, <2>3
<1>7. CASE \/ Create \/ Accept \/ Accepted \/ ConnectRaces \/ ReadPiece \/ ReadEnds
           \/ WritePiece \/ WriteFails \/ Flushed \/ Disconnect \/ Crash \/ Restart
           \/ \E r \in Requests : Expire(r)
  <2>1. UNCHANGED <<client, runs>>
    BY <1>7 DEF Create, Accept, Accepted, ConnectRaces, ReadPiece, ReadEnds, WritePiece,
                WriteFails, Flushed, Disconnect, Crash, Restart, Expire, clientVars
  <2>2. QED
    BY <2>1, Idles
<1>8. QED
  BY <1>1, <1>2, <1>4, <1>5, <1>6, <1>7 DEF Next, Client, Serve

(* Through every give-up, broken pipe and crash, a caller sees its own answer or *)
(* a failure, and the ranker runs its request once at most (ai_ranker_client.h). *)
THEOREM ExchangeImplementsCall == Spec => Service!Spec
<1>1. Init => Service!Init
  BY DEF Init, Service!Init, pending
<1>2. QED
  BY <1>1, StepRefines, InvariantHolds, PTL DEF Spec, Service!Spec
-----------------------------------------------------------------------------
(* The pill (LoadingIndicator). *)

Messages == {"show", "hide", "quit"}

PillTypes ==
  /\ loop \in {"off", "starting", "free", "ranking", "stopping", "joining", "gone"}
  /\ thread \in {"none", "creating", "running", "leaving", "ended"}
  /\ window \in {"none", "hidden", "shown"}
  /\ hwnd \in BOOLEAN
  /\ posted \in Seq(Messages)

(* The window lives as long as its thread works, and is known as long as the  *)
(* thread lives; nothing is posted before.                                    *)
WindowLives ==
  /\ window # "none" <=> thread = "running"
  /\ loop # "gone" => (hwnd <=> thread \in {"running", "leaving"})
  /\ thread \in {"none", "creating"} => posted = <<>>
  /\ loop = "off" => thread = "none"

ToGo(s, from) == \E j \in from .. Len(s) : s[j] \in {"hide", "quit"}

(* Between two rankings a pill that can be seen, and one still to be shown, has *)
(* a later message to go.                                                       *)
PillTold ==
  loop \notin {"ranking", "gone"} =>
    /\ window = "shown" => ToGo(posted, 1)
    /\ thread = "running" =>
         \A i \in 1 .. Len(posted) : posted[i] = "show" => ToGo(posted, i + 1)

PillPlaced == window = "shown" => Indicator!OnScreen(at)

PillInv == PillTypes /\ WindowLives /\ PillTold /\ PillPlaced
-----------------------------------------------------------------------------
(* Where the pill is put. *)

LEMMA Larger ==
  ASSUME NEW a \in Int, NEW b \in Int
  PROVE  Indicator!Max({a, b}) = IF a >= b THEN a ELSE b
<1> DEFINE m == IF a >= b THEN a ELSE b
<1>1. m \in {a, b} /\ \A y \in {a, b} : m >= y
  OBVIOUS
<1>2. \A x \in {a, b} : (\A y \in {a, b} : x >= y) => x = m
  OBVIOUS
<1>3. QED
  BY <1>1, <1>2 DEF Indicator!Max

LEMMA Smaller ==
  ASSUME NEW a \in Int, NEW b \in Int
  PROVE  Indicator!Min({a, b}) = IF a <= b THEN a ELSE b
<1> DEFINE m == IF a <= b THEN a ELSE b
<1>1. m \in {a, b} /\ \A y \in {a, b} : m <= y
  OBVIOUS
<1>2. \A x \in {a, b} : (\A y \in {a, b} : x <= y) => x = m
  OBVIOUS
<1>3. QED
  BY <1>1, <1>2 DEF Indicator!Min

LEMMA Clamped ==
  ASSUME NEW high \in Int, NEW v \in Int, high >= 0
  PROVE  Indicator!Clamp(1, high, v) \in 0 .. high + 1
<1> DEFINE least == Indicator!Min({high, v})
<1>1. least \in Int /\ least <= high
  BY Smaller
<1>2. Indicator!Clamp(1, high, v) = Indicator!Max({1, least})
  BY DEF Indicator!Clamp
<1> HIDE DEF least
<1>3. Indicator!Max({1, least}) = IF 1 >= least THEN 1 ELSE least
  BY <1>1, Larger
<1>4. QED
  BY <1>1, <1>2, <1>3

LEMMA TargetOnScreen ==
  ASSUME NEW caret \in Indicator!AtMostOne, NEW cursor \in Indicator!AtMostOne
  PROVE  Indicator!OnScreen(Indicator!_get_target_position(caret, cursor))
<1> DEFINE at_caret == {p \in caret : Indicator!OnScreen(p)}
           pushed   == {[x |-> Indicator!Clamp(1, Screen.w - Pill.w - 1, p.x + 1),
                         y |-> Indicator!Clamp(1, Screen.h - Pill.h - 1, p.y + 1)] : p \in cursor}
<1>1. CASE at_caret # {}
  BY <1>1 DEF Indicator!_get_target_position
<1>2. CASE at_caret = {} /\ pushed # {}
  <2>1. \A p \in cursor : p.x \in Int /\ p.y \in Int
    BY IndicatorAssumption DEF Indicator!AtMostOne
  <2>2. \A p \in cursor :
          /\ Indicator!Clamp(1, Screen.w - Pill.w - 1, p.x + 1) \in 0 .. Screen.w - Pill.w
          /\ Indicator!Clamp(1, Screen.h - Pill.h - 1, p.y + 1) \in 0 .. Screen.h - Pill.h
    <3> SUFFICES ASSUME NEW p \in cursor
                 PROVE  /\ Indicator!Clamp(1, Screen.w - Pill.w - 1, p.x + 1) \in 0 .. Screen.w - Pill.w
                        /\ Indicator!Clamp(1, Screen.h - Pill.h - 1, p.y + 1) \in 0 .. Screen.h - Pill.h
      OBVIOUS
    <3>1. /\ Screen.w - Pill.w - 1 \in Int /\ Screen.w - Pill.w - 1 >= 0
          /\ Screen.h - Pill.h - 1 \in Int /\ Screen.h - Pill.h - 1 >= 0
          /\ p.x + 1 \in Int /\ p.y + 1 \in Int
      BY <2>1, IndicatorAssumption
    <3>2. /\ Indicator!Clamp(1, Screen.w - Pill.w - 1, p.x + 1) \in 0 .. (Screen.w - Pill.w - 1) + 1
          /\ Indicator!Clamp(1, Screen.h - Pill.h - 1, p.y + 1) \in 0 .. (Screen.h - Pill.h - 1) + 1
      BY <3>1, Clamped
    <3>3. QED
      BY <3>2, IndicatorAssumption
  <2>3. \A q \in pushed : Indicator!OnScreen(q)
    BY <2>2 DEF Indicator!OnScreen
  <2>4. (CHOOSE q \in pushed : TRUE) \in pushed
    BY <1>2
  <2>5. QED
    BY <1>2, <2>3, <2>4 DEF Indicator!_get_target_position
<1>3. CASE at_caret = {} /\ pushed = {}
  <2>1. Indicator!_get_target_position(caret, cursor)
          = [x |-> Screen.w - Pill.w - 1, y |-> Screen.h - Pill.h - 1]
    BY <1>3 DEF Indicator!_get_target_position
  <2>2. QED
    BY <2>1, IndicatorAssumption DEF Indicator!OnScreen
<1>4. QED
  BY <1>1, <1>2, <1>3
-----------------------------------------------------------------------------
(* The loop's steps. *)

(* A message to go, posted last, is behind all others. *)
LEMMA ToldLast ==
  ASSUME NEW s \in Seq(Messages), NEW msg \in {"hide", "quit"}
  PROVE  /\ Append(s, msg) \in Seq(Messages)
         /\ ToGo(Append(s, msg), 1)
         /\ \A i \in 1 .. Len(Append(s, msg)) :
              Append(s, msg)[i] = "show" => ToGo(Append(s, msg), i + 1)
<1>1. /\ Append(s, msg) \in Seq(Messages)
      /\ Len(s) \in Nat /\ Len(Append(s, msg)) = Len(s) + 1
      /\ Append(s, msg)[Len(s) + 1] = msg
  BY DEF Messages
<1>2. QED
  BY <1>1 DEF ToGo

LEMMA LoopStepKeeps ==
  ASSUME PillInv, loop # "gone", Indicator!LoopStep
  PROVE  PillInv'
<1> USE DEF PillInv, PillTypes
<1>1. CASE Indicator!start \/ Indicator!started \/ Indicator!fail
  BY <1>1 DEF Indicator!start, Indicator!started, Indicator!fail, WindowLives, PillTold, PillPlaced, Indicator!OnScreen, ToGo
<1>2. CASE Indicator!show
  <2>1. posted' \in Seq(Messages)
    BY <1>2 DEF Indicator!show, Indicator!Post, Messages
  <2>2. QED
    BY <1>2, <2>1 DEF Indicator!show, Indicator!Post, WindowLives, PillTold, PillPlaced, Indicator!OnScreen
<1>3. CASE Indicator!hide
  <2>1. posted' \in Seq(Messages)
    BY <1>3 DEF Indicator!hide, Indicator!Post, Messages
  <2>2. PillTold'
    BY <1>3, ToldLast DEF Indicator!hide, Indicator!Post, WindowLives, PillTold
  <2>3. QED
    BY <1>3, <2>1, <2>2 DEF Indicator!hide, Indicator!Post, WindowLives, PillPlaced, Indicator!OnScreen
<1>4. CASE Indicator!stop
  <2>1. posted' \in Seq(Messages)
    BY <1>4 DEF Indicator!stop, Indicator!Post, Messages
  <2>2. PillTold'
    BY <1>4, ToldLast DEF Indicator!stop, Indicator!Post, WindowLives, PillTold
  <2>3. QED
    BY <1>4, <2>1, <2>2 DEF Indicator!stop, Indicator!Post, WindowLives, PillPlaced, Indicator!OnScreen
<1>5. CASE Indicator!stopped
  BY <1>5 DEF Indicator!stopped, WindowLives, PillTold, PillPlaced, Indicator!OnScreen
<1>6. QED
  BY <1>1, <1>2, <1>3, <1>4, <1>5 DEF Indicator!LoopStep
-----------------------------------------------------------------------------
(* The window's thread. *)

(* A message to go that is not the one taken is still there. *)
LEMMA ToldStill ==
  ASSUME NEW s \in Seq(Messages), s # <<>>
  PROVE  /\ Tail(s) \in Seq(Messages)
         /\ Head(s) = s[1]
         /\ \A i \in 1 .. Len(Tail(s)) : i + 1 \in 1 .. Len(s) /\ Tail(s)[i] = s[i + 1]
         /\ \A n \in 1 .. Len(s) : ToGo(s, n + 1) => ToGo(Tail(s), n)
<1>1. /\ Tail(s) \in Seq(Messages)
      /\ Len(s) \in Nat \ {0} /\ Len(Tail(s)) = Len(s) - 1
      /\ \A i \in 1 .. Len(s) - 1 : Tail(s)[i] = s[i + 1]
  OBVIOUS
<1>2. ASSUME NEW n \in 1 .. Len(s), ToGo(s, n + 1)
      PROVE  ToGo(Tail(s), n)
  <2>1. PICK j \in n + 1 .. Len(s) : s[j] \in {"hide", "quit"}
    BY <1>2 DEF ToGo
  <2>2. j - 1 \in n .. Len(Tail(s)) /\ Tail(s)[j - 1] = s[j]
    BY <1>1, <2>1
  <2>3. QED
    BY <2>1, <2>2 DEF ToGo
<1>3. QED
  BY <1>1, <1>2

LEMMA MessageStep ==
  ASSUME PillInv, loop # "gone", Indicator!wnd_proc
  PROVE  PillInv'
<1> USE DEF PillInv, PillTypes, Indicator!wnd_proc
<1>1. PillTypes'
  BY ToldStill
<1>2. WindowLives'
  BY DEF WindowLives
<1>3. PillPlaced'
  <2>1. CASE Head(posted) = "show"
    BY <2>1, TargetOnScreen DEF PillPlaced, Indicator!OnScreen
  <2>2. CASE Head(posted) # "show"
    BY <2>2 DEF PillPlaced
  <2>3. QED
    BY <2>1, <2>2
<1>4. ASSUME loop' \notin {"ranking", "gone"}
      PROVE  /\ window' = "shown" => ToGo(posted', 1)
             /\ thread' = "running" =>
                  \A i \in 1 .. Len(posted') : posted'[i] = "show" => ToGo(posted', i + 1)
  <2>1. /\ thread = "running" /\ loop \notin {"ranking", "gone"}
        /\ \A i \in 1 .. Len(posted) : posted[i] = "show" => ToGo(posted, i + 1)
        /\ posted' = Tail(posted) /\ Len(posted) \in Nat \ {0}
    BY <1>4 DEF PillTold
  <2>2. window' = "shown" => Head(posted) = "show"
    OBVIOUS
  <2>3. window' = "shown" => ToGo(posted', 1)
    BY <2>1, <2>2, ToldStill
  <2>4. ASSUME NEW i \in 1 .. Len(posted'), posted'[i] = "show"
        PROVE  ToGo(posted', i + 1)
    <3>1. i + 1 \in 1 .. Len(posted) /\ posted[i + 1] = "show"
      BY <2>1, <2>4, ToldStill
    <3>2. ToGo(posted, (i + 1) + 1)
      BY <2>1, <3>1
    <3>3. QED
      BY <2>1, <3>1, <3>2, ToldStill
  <2>5. QED
    BY <2>3, <2>4
<1>5. QED
  BY <1>1, <1>2, <1>3, <1>4 DEF PillTold

LEMMA ThreadStepKeeps ==
  ASSUME PillInv, loop # "gone", Indicator!ThreadStep
  PROVE  PillInv'
<1> USE DEF PillInv, PillTypes
<1>1. CASE Indicator!CreateFails
  BY <1>1 DEF Indicator!CreateFails, WindowLives, PillTold, PillPlaced
<1>2. CASE Indicator!Create
  BY <1>2 DEF Indicator!Create, WindowLives, PillTold, PillPlaced
<1>3. CASE Indicator!wnd_proc
  BY <1>3, MessageStep
<1>4. CASE Indicator!Leave
  BY <1>4 DEF Indicator!Leave, WindowLives, PillTold, PillPlaced
<1>5. QED
  BY <1>1, <1>2, <1>3, <1>4 DEF Indicator!ThreadStep
-----------------------------------------------------------------------------
(* A pill that can be seen is that of a ranking under way or has been told to *)
(* go, and is whole on the screen (loading_ui.py:3-4, 80-134).                *)
THEOREM PillOnlyThen ==
  Indicator!Spec => []PillOnlyWhileRanking
<1>1. Indicator!Init => PillInv
  <2> SUFFICES ASSUME Indicator!Init PROVE PillInv
    OBVIOUS
  <2> USE DEF Indicator!Init
  <2>1. PillTypes
    <3>1. posted \in Seq(Messages)
      OBVIOUS
    <3>2. QED
      BY <3>1 DEF PillTypes
  <2>2. WindowLives
    BY DEF WindowLives
  <2>3. PillTold /\ PillPlaced
    BY DEF PillTold, PillPlaced
  <2>4. QED
    BY <2>1, <2>2, <2>3 DEF PillInv
<1>2. PillInv /\ [Indicator!Next]_(Indicator!vars) => PillInv'
  <2> SUFFICES ASSUME PillInv, [Indicator!Next]_(Indicator!vars) PROVE PillInv'
    OBVIOUS
  <2>1. CASE UNCHANGED Indicator!vars
    BY <2>1 DEF Indicator!vars, PillInv, PillTypes, WindowLives, PillTold, PillPlaced, Indicator!OnScreen, ToGo
  <2>2. CASE Indicator!Next
    BY <2>2, LoopStepKeeps, ThreadStepKeeps DEF Indicator!Next
  <2>3. QED
    BY <2>1, <2>2
<1>3. PillInv => PillOnlyWhileRanking
  BY DEF PillInv, PillTypes, PillTold, PillPlaced, ToGo, PillOnlyWhileRanking,
       Indicator!PillOnlyWhileRanking
<1>4. QED
  BY <1>1, <1>2, <1>3, PTL DEF Indicator!Spec
-----------------------------------------------------------------------------
(* What the cache keeps. *)

LEMMA KeptEntries ==
  ASSUME NEW S, NEW entries \in Seq(S), NEW those
  PROVE  Speculative!Kept(entries, those) \in Seq(S \cap those)
<1>1. Speculative!Kept(entries, those) = Kept(entries, those)
  BY DEF Speculative!Kept, Kept
<1>2. QED
  BY <1>1, KeptOnly

LEMMA SpeculativeLarger ==
  ASSUME NEW a \in Int, NEW b \in Int
  PROVE  Speculative!Max({a, b}) = IF a >= b THEN a ELSE b
<1> DEFINE m == IF a >= b THEN a ELSE b
<1>1. m \in {a, b} /\ \A y \in {a, b} : m >= y
  OBVIOUS
<1>2. \A x \in {a, b} : (\A y \in {a, b} : x >= y) => x = m
  OBVIOUS
<1>3. QED
  BY <1>1, <1>2 DEF Speculative!Max

LEMMA Members ==
  ASSUME NEW S, NEW s \in Seq(S)
  PROVE  Speculative!ToSet(s) \subseteq S
BY DEF Speculative!ToSet

Lives(e) == now - e.at <= cache_ttl_seconds

LEMMA Pruned ==
  ASSUME NEW S, NEW entries \in Seq(S)
  PROVE  Speculative!_prune_locked(entries) \in Seq({e \in S : Lives(e)})
<1> DEFINE alive == Speculative!Alive(entries)
           T     == {e \in S : Lives(e)}
           first == Speculative!Max({1, Len(alive) - cache_size + 1})
<1>1. alive \in Seq(T)
  <2> DEFINE those == {e \in Speculative!ToSet(entries) : now - e.at <= cache_ttl_seconds}
  <2>1. Speculative!Kept(entries, those) \in Seq(S \cap those)
    BY KeptEntries
  <2>2. S \cap those \subseteq T
    BY DEF Lives
  <2>3. Speculative!Kept(entries, those) \in Seq(T)
    BY <2>1, <2>2, SeqMonotonic
  <2>4. QED
    BY <2>3 DEF Speculative!Alive
<1>2. Speculative!_prune_locked(entries) = SubSeq(alive, first, Len(alive))
  BY DEF Speculative!_prune_locked
<1> HIDE DEF alive, T
<1>3. Len(alive) \in Nat /\ \A i \in 1 .. Len(alive) : alive[i] \in T
  BY <1>1, LenProperties, ElementOfSeq
<1>4. first \in Int /\ first >= 1
  <2>1. 1 \in Int /\ Len(alive) - cache_size + 1 \in Int
    BY <1>3, SpeculativeAssumption
  <2>2. QED
    BY <2>1, SpeculativeLarger
<1> HIDE DEF first
<1>5. \A i \in first .. Len(alive) : alive[i] \in T
  BY <1>3, <1>4
<1>6. SubSeq(alive, first, Len(alive)) \in Seq(T)
  BY <1>3, <1>4, <1>5, SubSeqProperties
<1>7. QED
  BY <1>2, <1>6 DEF T

LEMMA TouchedKeeps ==
  ASSUME NEW S, cache \in Seq(S), NEW key
  PROVE  /\ Speculative!Touched(key) \in Seq(S)
         /\ Speculative!Hits(key) = {} =>
              Speculative!Touched(key) \in Seq({e \in S : e.key # key})
         /\ \A e \in Speculative!Hits(key) : e \in S /\ e.key = key /\ Lives(e)
<1> DEFINE pruned == Speculative!_prune_locked(cache)
           theirs == {e \in Speculative!ToSet(pruned) : e.key # key}
           own    == {e \in Speculative!ToSet(pruned) : e.key = key}
           others == Speculative!Others(pruned, key)
           of     == Speculative!Of(pruned, key)
           L      == {e \in S : Lives(e)}
           W      == {e \in S : e.key # key}
<1>1. pruned \in Seq(L)
  BY Pruned
<1>2. Speculative!ToSet(pruned) \subseteq L
  BY <1>1, Members
<1>3. others \in Seq(L \cap theirs) /\ of \in Seq(L \cap own)
  BY <1>1, KeptEntries DEF Speculative!Others, Speculative!Of
<1>4. L \cap theirs \subseteq W /\ W \subseteq S /\ L \cap own \subseteq S
  OBVIOUS
<1>5. Speculative!Touched(key) = others \o of
  BY DEF Speculative!Touched
<1>6. Speculative!Hits(key) = own
  BY DEF Speculative!Hits
<1> HIDE DEF others, of, L, W, own, theirs, pruned
<1>7. others \in Seq(W) /\ others \in Seq(S) /\ of \in Seq(S)
  BY <1>3, <1>4, SeqMonotonic
<1>8. others \o of \in Seq(S)
  BY <1>7, ConcatProperties
<1>9. ASSUME own = {} PROVE others \o of \in Seq(W)
  <2>1. of \in Seq(W)
    BY <1>3, <1>9, SeqMonotonic
  <2>2. QED
    BY <1>7, <2>1, ConcatProperties
<1>10. \A e \in own : e \in S /\ e.key = key /\ Lives(e)
  BY <1>2 DEF own, L
<1>11. QED
  BY <1>5, <1>6, <1>8, <1>9, <1>10 DEF W

(* The keys of requests; and what the worker and the callers store for them. *)
Keys    == {Speculative!_key(request) : request \in Conversions}
Entries == {e \in [key : Keys, at : Nat, result : [of : Keys, made : Nat]] :
              e.result.of = e.key /\ e.result.made = e.at}

LEMMA StoredKeeps ==
  ASSUME cache \in Seq(Entries), now \in Nat, NEW key \in Keys,
         Speculative!_store(key, Speculative!Ranking(key))
  PROVE  cache' \in Seq(Entries)
<1> DEFINE others == Speculative!Others(cache, key)
           those  == {e \in Speculative!ToSet(cache) : e.key # key}
           entry  == [key |-> key, at |-> now, result |-> [of |-> key, made |-> now]]
<1>1. cache' = Speculative!_prune_locked(Append(others, entry))
  BY DEF Speculative!_store, Speculative!Ranking
<1>2. entry \in Entries
  BY DEF Entries
<1>3. others \in Seq(Entries \cap those)
  BY KeptEntries DEF Speculative!Others
<1> HIDE DEF others, entry, those
<1>4. Append(others, entry) \in Seq(Entries)
  <2>1. others \in Seq(Entries)
    BY <1>3, SeqMonotonic
  <2>2. QED
    BY <1>2, <2>1, AppendProperties
<1>5. cache' \in Seq({e \in Entries : Lives(e)})
  BY <1>1, <1>4, Pruned
<1>6. QED
  BY <1>5, SeqMonotonic
-----------------------------------------------------------------------------
(* The speculative ranker. *)

Waiters == [at : {"missed", "waiting", "ranking"}, key : Keys]

Ranked ==
  /\ now \in Nat
  /\ pending_key \in Keys \cup {Nobody}
  /\ cache \in Seq(Entries)
  /\ worker \in {Speculative!Idle} \cup [at : {"taken", "ranking"}, key : Keys]
  /\ caller \in [Callers -> {Speculative!Idle} \cup Waiters]

(* The model is called by whoever holds its lock. *)
Turns ==
  /\ worker.at = "ranking" <=> lock = "worker"
  /\ \A c \in Callers : caller[c].at = "ranking" <=> lock = c

(* No entry is what a caller is having ranked: it looked once more after it got *)
(* its turn, and only who has the turn stores.                                  *)
Absent ==
  \A c \in Callers : caller[c].at = "ranking" =>
    cache \in Seq({e \in Entries : e.key # caller[c].key})

SpeculativeInv == Ranked /\ Turns /\ Absent /\ AnswersFresh

LEMMA CallerKeeps ==
  ASSUME SpeculativeInv, NEW c \in Callers, Speculative!CallerStep(c)
  PROVE  SpeculativeInv'
<1> USE DEF SpeculativeInv
<1>1. CASE Speculative!Discard(c)
  <2> USE <1>1 DEF Speculative!Discard
  <2>1. /\ caller[c] \in Waiters /\ caller' = [caller EXCEPT ![c].at = "waiting"]
        /\ caller'[c] = [caller[c] EXCEPT !.at = "waiting"]
    BY DEF Ranked, Speculative!Idle
  <2>2. caller'[c] \in Waiters /\ caller'[c].at = "waiting"
    BY <2>1 DEF Waiters
  <2>3. caller' \in [Callers -> {Speculative!Idle} \cup Waiters]
    BY <2>1, <2>2 DEF Ranked
  <2>4. \A d \in Callers : d # c => caller'[d] = caller[d]
    BY <2>1 DEF Ranked
  <2>5. Ranked'
    BY <2>3 DEF Ranked, Speculative!Idle
  <2>6. Turns'
    BY <2>2, <2>4 DEF Turns
  <2>7. Absent'
    BY <2>2, <2>4 DEF Absent
  <2>8. QED
    BY <2>5, <2>6, <2>7 DEF AnswersFresh, Speculative!AnswersFresh
<1>2. CASE Speculative!Enter(c)
  <2> USE <1>2 DEF Speculative!Enter
  <2> DEFINE key == caller[c].key
  <2>1. caller[c] \in Waiters /\ caller[c].at = "waiting" /\ key \in Keys
    BY DEF Ranked, Speculative!Idle, Waiters
  <2>2. cache' \in Seq(Entries)
    BY TouchedKeeps DEF Ranked
  <2>3. CASE Speculative!Hits(key) # {}
    <3>1. PICK e \in Speculative!Hits(key) : Speculative!Reply(key, e.result)
      BY <2>3
    <3>2. e \in Entries /\ e.key = key /\ Lives(e)
      BY TouchedKeeps DEF Ranked
    <3>3. AnswersFresh'
      BY <3>1, <3>2 DEF Speculative!Reply, AnswersFresh, Speculative!AnswersFresh, Entries, Lives
    <3>4. /\ caller' \in [Callers -> {Speculative!Idle} \cup Waiters]
          /\ \A d \in Callers : caller'[d] = IF d = c THEN Speculative!Idle ELSE caller[d]
      BY <2>3 DEF Ranked
    <3>5. Ranked'
      BY <2>2, <2>3, <3>4 DEF Ranked, Speculative!Idle
    <3>6. Turns'
      BY <2>1, <2>3, <3>4 DEF Turns, Speculative!Idle
    <3>7. Absent'
      <4> SUFFICES ASSUME NEW d \in Callers, caller'[d].at = "ranking"
                   PROVE  cache' \in Seq({f \in Entries : f.key # caller'[d].key})
        BY DEF Absent
      <4>1. d # c /\ caller'[d] = caller[d]
        BY <3>4 DEF Speculative!Idle
      <4>2. FALSE
        BY <2>3, <4>1, SpeculativeAssumption DEF Turns
      <4>3. QED
        BY <4>2
    <3>8. QED
      BY <3>3, <3>5, <3>6, <3>7
  <2>4. CASE Speculative!Hits(key) = {}
    <3>1. /\ caller' = [caller EXCEPT ![c].at = "ranking"] /\ lock' = c
          /\ caller'[c] = [caller[c] EXCEPT !.at = "ranking"]
      BY <2>4 DEF Ranked
    <3>2. caller'[c] \in Waiters /\ caller'[c].at = "ranking" /\ caller'[c].key = key
      BY <2>1, <3>1 DEF Waiters
    <3>3. \A d \in Callers : d # c => caller'[d] = caller[d] /\ caller[d].at # "ranking"
      BY <3>1, SpeculativeAssumption DEF Ranked, Turns
    <3>4. caller' \in [Callers -> {Speculative!Idle} \cup Waiters]
      BY <3>1, <3>2 DEF Ranked
    <3>5. Ranked'
      BY <2>2, <2>4, <3>4 DEF Ranked, Speculative!Idle
    <3>6. Turns'
      <4>1. worker.at # "ranking" /\ "worker" # c
        BY SpeculativeAssumption DEF Turns
      <4>2. QED
        BY <3>1, <3>2, <3>3, <4>1 DEF Turns
    <3>7. cache' \in Seq({e \in Entries : e.key # key})
      BY <2>4, TouchedKeeps DEF Ranked
    <3>8. Absent'
      BY <3>2, <3>3, <3>7 DEF Absent
    <3>9. QED
      BY <2>4, <3>5, <3>6, <3>8 DEF AnswersFresh, Speculative!AnswersFresh
  <2>5. QED
    BY <2>3, <2>4
<1>3. CASE Speculative!Rank(c) \/ Speculative!RankRaises(c)
  <2>1. /\ caller[c].at = "ranking" /\ caller[c] \in Waiters /\ caller[c].key \in Keys
        /\ caller' = [caller EXCEPT ![c] = Speculative!Idle]
        /\ lock' = Nobody
    BY <1>3 DEF Speculative!Rank, Speculative!RankRaises, Ranked, Speculative!Idle, Waiters
  <2>2. /\ caller' \in [Callers -> {Speculative!Idle} \cup Waiters]
        /\ \A d \in Callers : caller'[d] = IF d = c THEN Speculative!Idle ELSE caller[d]
    BY <2>1 DEF Ranked
  <2>3. cache' \in Seq(Entries)
    BY <1>3, <2>1, StoredKeeps DEF Speculative!Rank, Speculative!RankRaises, Ranked
  <2>4. Ranked'
    BY <1>3, <2>2, <2>3 DEF Speculative!Rank, Speculative!RankRaises, Ranked, Speculative!Idle
  <2>5. lock = c /\ \A d \in Callers : caller'[d].at # "ranking"
    BY <2>1, <2>2 DEF Turns, Speculative!Idle
  <2>6. Turns'
    <3>1. worker' = worker /\ worker.at # "ranking"
      BY <1>3, <2>5, SpeculativeAssumption
         DEF Turns, Speculative!Rank, Speculative!RankRaises
    <3>2. QED
      BY <2>1, <2>5, <3>1, SpeculativeAssumption DEF Turns
  <2>7. Absent'
    BY <2>5 DEF Absent
  <2>8. AnswersFresh'
    BY <1>3, SpeculativeAssumption
       DEF Speculative!Rank, Speculative!RankRaises, Speculative!Reply, Speculative!Ranking,
           AnswersFresh, Speculative!AnswersFresh, Ranked
  <2>9. QED
    BY <2>4, <2>6, <2>7, <2>8
<1>4. QED
  BY <1>1, <1>2, <1>3 DEF Speculative!CallerStep

LEMMA RequestKeeps ==
  ASSUME SpeculativeInv, NEW c \in Callers, NEW request \in Conversions,
         \/ Speculative!_schedule(c, Speculative!_key(request))
         \/ Speculative!Lookup(c, Speculative!_key(request))
  PROVE  SpeculativeInv'
<1> USE DEF SpeculativeInv
<1> DEFINE key == Speculative!_key(request)
<1>1. key \in Keys
  BY DEF Keys
<1> HIDE DEF key
<1>2. CASE Speculative!_schedule(c, key)
  BY <1>1, <1>2 DEF Speculative!_schedule, Ranked, Turns, Absent, AnswersFresh,
                    Speculative!AnswersFresh, Speculative!Idle
<1>3. CASE Speculative!Lookup(c, key)
  <2> USE <1>3 DEF Speculative!Lookup
  <2>1. cache' \in Seq(Entries)
    BY TouchedKeeps DEF Ranked
  <2>2. AnswersFresh'
    <3>1. CASE Speculative!Hits(key) # {}
      <4>1. PICK e \in Speculative!Hits(key) : Speculative!Reply(key, e.result)
        BY <3>1
      <4>2. e \in Entries /\ e.key = key /\ Lives(e)
        BY TouchedKeeps DEF Ranked
      <4>3. QED
        BY <4>1, <4>2
           DEF Speculative!Reply, AnswersFresh, Speculative!AnswersFresh, Entries, Lives
    <3>2. CASE Speculative!Hits(key) = {}
      BY <3>2 DEF AnswersFresh, Speculative!AnswersFresh
    <3>3. QED
      BY <3>1, <3>2
  <2>3. /\ caller' \in [Callers -> {Speculative!Idle} \cup Waiters]
        /\ \A d \in Callers : d # c => caller'[d] = caller[d]
        /\ caller[c].at = "idle" /\ caller'[c].at # "ranking"
    <3>1. CASE UNCHANGED caller
      BY <3>1 DEF Ranked, Speculative!Idle
    <3>2. CASE caller' = [caller EXCEPT ![c] = [at |-> "missed", key |-> key]]
      BY <1>1, <3>2 DEF Ranked, Speculative!Idle, Waiters
    <3>3. QED
      BY <3>1, <3>2
  <2>4. Ranked'
    BY <2>1, <2>3 DEF Ranked, Speculative!Idle
  <2>5. Turns'
    BY <2>3 DEF Turns
  <2>6. Absent'
    <3> SUFFICES ASSUME NEW d \in Callers, caller'[d].at = "ranking"
                 PROVE  cache' \in Seq({e \in Entries : e.key # caller'[d].key})
      BY DEF Absent
    <3>1. d # c /\ caller'[d] = caller[d]
      BY <2>3
    <3> DEFINE W == {e \in Entries : e.key # caller[d].key}
    <3>2. cache \in Seq(W)
      BY <3>1 DEF Absent
    <3> HIDE DEF W
    <3>3. cache' \in Seq(W)
      BY <3>2, TouchedKeeps
    <3>4. QED
      BY <3>1, <3>3 DEF W
  <2>7. QED
    BY <2>2, <2>4, <2>5, <2>6
<1>4. QED
  BY <1>2, <1>3 DEF key

LEMMA WorkerKeeps ==
  ASSUME SpeculativeInv, Speculative!Take \/ Speculative!Begin \/ Speculative!End
  PROVE  SpeculativeInv'
<1> USE DEF SpeculativeInv
<1>1. CASE Speculative!Take
  <2> USE <1>1 DEF Speculative!Take
  <2>1. Ranked' /\ worker'.at = "taken" /\ worker.at = "idle"
    BY DEF Ranked, Speculative!Idle
  <2>2. QED
    BY <2>1 DEF Turns, Absent, AnswersFresh, Speculative!AnswersFresh
<1>2. CASE Speculative!Begin
  <2> USE <1>2 DEF Speculative!Begin
  <2>1. worker' \in [at : {"taken", "ranking"}, key : Keys] /\ worker'.at = "ranking"
    BY DEF Ranked, Speculative!Idle
  <2>2. Ranked'
    BY <2>1 DEF Ranked, Speculative!Idle
  <2>3. \A c \in Callers : caller'[c].at # "ranking"
    BY SpeculativeAssumption DEF Turns
  <2>4. Turns'
    BY <2>1, <2>3, SpeculativeAssumption DEF Turns
  <2>5. QED
    BY <2>2, <2>3, <2>4 DEF Absent, AnswersFresh, Speculative!AnswersFresh
<1>3. CASE Speculative!End
  <2> USE <1>3 DEF Speculative!End
  <2>1. worker.key \in Keys /\ lock = "worker"
    BY DEF Ranked, Turns, Speculative!Idle
  <2>2. cache' \in Seq(Entries)
    BY <2>1, StoredKeeps DEF Ranked
  <2>3. Ranked'
    BY <2>2 DEF Ranked, Speculative!Idle
  <2>4. \A c \in Callers : caller'[c].at # "ranking"
    BY <2>1, SpeculativeAssumption DEF Turns
  <2>5. Turns'
    BY <2>4, SpeculativeAssumption DEF Turns, Speculative!Idle
  <2>6. QED
    BY <2>3, <2>4, <2>5 DEF Absent, AnswersFresh, Speculative!AnswersFresh
<1>4. QED
  BY <1>1, <1>2, <1>3
-----------------------------------------------------------------------------
(* An invariant of the speculative ranker, from which the two theorems follow. *)
LEMMA SpeculativeInvariant == Speculative!Spec => []SpeculativeInv
<1>1. Speculative!Init => SpeculativeInv
  <2> SUFFICES ASSUME Speculative!Init PROVE SpeculativeInv
    OBVIOUS
  <2> USE DEF Speculative!Init
  <2>1. Ranked
    <3>1. <<>> \in Seq(Entries) /\ 0 \in Nat
      OBVIOUS
    <3>2. QED
      BY <3>1 DEF Ranked
  <2>2. Turns /\ Absent
    BY SpeculativeAssumption DEF Turns, Absent, Speculative!Idle
  <2>3. QED
    BY <2>1, <2>2 DEF SpeculativeInv, AnswersFresh, Speculative!AnswersFresh
<1>2. SpeculativeInv /\ [Speculative!Next]_(Speculative!vars) => SpeculativeInv'
  <2> SUFFICES ASSUME SpeculativeInv, [Speculative!Next]_(Speculative!vars)
               PROVE  SpeculativeInv'
    OBVIOUS
  <2>1. CASE UNCHANGED Speculative!vars
    BY <2>1 DEF Speculative!vars, SpeculativeInv, Ranked, Turns, Absent, AnswersFresh,
                Speculative!AnswersFresh, Speculative!Idle
  <2>2. CASE Speculative!Tick
    BY <2>2 DEF Speculative!Tick, SpeculativeInv, Ranked, Turns, Absent, AnswersFresh,
                Speculative!AnswersFresh, Speculative!Idle
  <2>3. CASE Speculative!Next /\ ~ Speculative!Tick
    BY <2>3, CallerKeeps, RequestKeeps, WorkerKeeps DEF Speculative!Next
  <2>4. QED
    BY <2>1, <2>2, <2>3
<1>3. QED
  BY <1>1, <1>2, PTL DEF Speculative!Spec

(* An answer is made of this request, and no older than the cache lets it be, *)
(* whoever made it (speculative.py:100-113).                                  *)
THEOREM AnswersOfTheRequest == Speculative!Spec => []AnswersFresh
<1>1. SpeculativeInv => AnswersFresh
  BY DEF SpeculativeInv
<1>2. QED
  BY <1>1, SpeculativeInvariant, PTL

(* While a caller has the model, no ranking of its request was finished between *)
(* its look at the cache and its turn (speculative.py:180-181).                 *)
THEOREM RankedOnce == Speculative!Spec => []NoSameCall
<1>1. SpeculativeInv => NoSameCall
  <2> SUFFICES ASSUME SpeculativeInv, NEW c \in Callers, caller[c].at = "ranking",
                      NEW e \in Speculative!ToSet(cache), e.key = caller[c].key
               PROVE  FALSE
    BY DEF NoSameCall, Speculative!NoSameCall
  <2>1. cache \in Seq({f \in Entries : f.key # caller[c].key})
    BY DEF SpeculativeInv, Absent
  <2>2. QED
    BY <2>1, Members
<1>2. QED
  BY <1>1, SpeculativeInvariant, PTL
=============================================================================

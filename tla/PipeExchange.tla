---------------------------- MODULE PipeExchange ----------------------------
(***************************************************************************)
(* The named pipe between the Mozc server and the resident ranker:         *)
(* ExchangePayload and what it calls in rewriter/ai_ranker_client.cc, and  *)
(* _windows_pipe_server in ranker/ranker.py.                               *)
(*                                                                         *)
(* The server offers one pipe instance at a time, reads one line from one  *)
(* client, answers it and takes the instance down.  A client waits for the *)
(* instance, opens it, writes its line piece by piece and reads the answer *)
(* piece by piece, all under one deadline.  A piece is what fits into the  *)
(* pipe's buffer; the last one carries the newline.                        *)
(*                                                                         *)
(* A probe is a call of the tray, by rank_once in client/windows_pipe.py:  *)
(* it has one deadline to connect and a second one for the answer, none    *)
(* for writing, and reads once.                                            *)
(***************************************************************************)
EXTENDS Naturals

CONSTANTS
  Requests,              \* calls, each with its request id
  Probes,                \* those of rank_once; the others are of ExchangePayload
  Parts,                 \* Requests -> pieces the request is written in
  AnswerParts,           \* Requests -> pieces its answer is written in
  NoRequest              \* no client on the instance

ASSUME PipeAssumption ==
  /\ Probes \subseteq Requests
  /\ Parts \in [Requests -> Nat \ {0}]
  /\ AnswerParts \in [Requests -> Nat \ {0}]
  /\ NoRequest \notin Requests

VARIABLES
  client,                \* Requests -> where the call stands
  late,                  \* the calls whose deadline has passed
  link,                  \* Requests -> the client's handle: "none", "open", or "cut"
                         \*             when the server's end is gone
  sent,                  \* Requests -> pieces of the request written
  taken,                 \* Requests -> pieces of the answer read
  server,                \* where the pipe thread of the ranker stands
  peer,                  \* the client that has opened the present instance
  inbox,                 \* pieces on their way to the server: 0 or 1
  data,                  \* pieces the server has read from this instance
  outbox,                \* pieces on their way to the client: 0 or 1
  put,                   \* pieces of the answer written
  runs,                  \* Requests -> how often process_line got the request
  counted,               \* the conversions in the status file's ime_requests
  lost                   \* history: whom the server was serving when it died

clientVars == <<client, late, link, sent, taken>>
pipeVars   == <<peer, inbox, data, outbox, put>>
vars == <<client, late, link, sent, taken, server, peer, inbox, data, outbox, put,
          runs, counted, lost>>

ClientStates == {"idle", "waiting", "opening", "writing", "reading", "answered", "failed"}
ServerStates == {"down", "idle", "created", "accepting", "reading", "running", "replying",
                 "flushing", "closing"}

Init ==
  /\ client = [r \in Requests |-> "idle"]
  /\ late = {}
  /\ link = [r \in Requests |-> "none"]
  /\ sent = [r \in Requests |-> 0]
  /\ taken = [r \in Requests |-> 0]
  /\ server = "idle"
  /\ peer = NoRequest
  /\ inbox = 0 /\ data = 0 /\ outbox = 0 /\ put = 0
  /\ runs = [r \in Requests |-> 0]
  /\ counted = {}
  /\ lost = {}

(* An instance can be opened from its creation on. *)
Available == server \in {"created", "accepting"} /\ peer = NoRequest

Connected(r) == link[r] = "open"

-----------------------------------------------------------------------------
(* The client. *)

Begin(r) ==
  /\ client[r] = "idle"
  /\ client' = [client EXCEPT ![r] = "waiting"]
  /\ UNCHANGED <<late, link, sent, taken, server, pipeVars, runs, counted, lost>>

(* The steps under a deadline: all of a conversion's; a probe looks at the *)
(* clock only until it is connected, and again once it has written.        *)
Timed(r) ==
  IF r \in Probes THEN client[r] \in {"waiting", "opening", "reading"}
                  ELSE client[r] \in {"waiting", "opening", "writing", "reading"}

(* The clock passes the deadline. *)
Expire(r) ==
  /\ Timed(r) /\ r \notin late
  /\ late' = late \cup {r}
  /\ UNCHANGED <<client, link, sent, taken, server, pipeVars, runs, counted, lost>>

(* WaitNamedPipeW finds an instance. *)
SeePipe(r) ==
  /\ client[r] = "waiting" /\ r \notin late
  /\ Available
  /\ client' = [client EXCEPT ![r] = "opening"]
  /\ UNCHANGED <<late, link, sent, taken, server, pipeVars, runs, counted, lost>>

(* CreateFileW gets it, unless another client was quicker or it is gone. *)
OpenPipe(r) ==
  /\ client[r] = "opening"
  /\ IF Available
       THEN /\ client' = [client EXCEPT ![r] = "writing"]
            /\ link' = [link EXCEPT ![r] = "open"]
            /\ peer' = r
       ELSE /\ client' = [client EXCEPT ![r] = "waiting"]
            /\ UNCHANGED <<link, peer>>
  /\ UNCHANGED <<late, sent, taken, server, inbox, data, outbox, put, runs, counted, lost>>

Put(r) ==
  /\ client[r] = "writing"
  /\ Connected(r) /\ inbox = 0
  /\ inbox' = 1
  /\ sent' = [sent EXCEPT ![r] = @ + 1]
  /\ client' = [client EXCEPT ![r] = IF sent[r] + 1 = Parts[r] THEN "reading" ELSE "writing"]
  /\ UNCHANGED <<link, taken, server, peer, data, outbox, put, runs, counted, lost>>

(* One round of WriteDeadline. *)
Write(r) == r \notin Probes /\ Put(r) /\ UNCHANGED late

(* A probe's one WriteFile goes on; its second deadline counts from here. *)
ProbeWrites(r) == r \in Probes /\ Put(r) /\ late' = late \ {r}

Take(r) ==
  /\ client[r] = "reading"
  /\ Connected(r) /\ outbox = 1
  /\ outbox' = 0
  /\ taken' = [taken EXCEPT ![r] = @ + 1]
  /\ UNCHANGED <<late, sent, server, peer, inbox, data, put, runs, counted, lost>>

Close(r, outcome) ==
  /\ client' = [client EXCEPT ![r] = outcome]
  /\ link' = [link EXCEPT ![r] = "none"]

(* One round of ReadDeadline; the last piece is parsed and the handle closed. *)
Read(r) ==
  /\ r \notin Probes /\ Take(r)
  /\ IF taken[r] + 1 = AnswerParts[r] THEN Close(r, "answered") ELSE UNCHANGED <<client, link>>

(* A probe takes the first piece for the answer. *)
ProbeReads(r) ==
  /\ r \in Probes /\ Take(r)
  /\ Close(r, IF taken[r] + 1 = AnswerParts[r] THEN "answered" ELSE "failed")

(* Mutant: WaitNamedPipeW waits without a limit. *)
BlockedOnceOpen(r) ==
  \/ client[r] = "writing" /\ Connected(r) /\ inbox = 1
  \/ client[r] = "reading" /\ Connected(r) /\ outbox = 0

(* The operation in hand would block; to a probe a pipe that is gone looks *)
(* like one with nothing to read.                                          *)
Blocked(r) ==
  \/ client[r] = "waiting"
  \/ client[r] = "writing" /\ Connected(r) /\ inbox = 1
  \/ client[r] = "reading" /\ Connected(r) /\ outbox = 0
  \/ client[r] = "reading" /\ link[r] = "cut" /\ r \in Probes

(* The call returns false and closes its handle.  What the client wrote and *)
(* the server has not read may or may not survive that.                     *)
GiveUp(r) ==
  /\ Close(r, "failed")
  /\ inbox' \in (IF Connected(r) THEN {0, inbox} ELSE {inbox})
  /\ UNCHANGED <<late, sent, taken, server, peer, data, outbox, put, runs, counted, lost>>

TimeOut(r) == r \in late /\ Blocked(r) /\ GiveUp(r)

(* CreateFileW fails for another reason than a busy or missing pipe, which a *)
(* probe does not look at.                                                   *)
OpenRefused(r) == client[r] = "opening" /\ r \notin Probes /\ GiveUp(r)

(* WriteFile or ReadFile fail because the server's end is gone. *)
Broken(r) ==
  /\ client[r] \in {"writing"} \cup (IF r \in Probes THEN {} ELSE {"reading"})
  /\ link[r] = "cut"
  /\ GiveUp(r)

-----------------------------------------------------------------------------
(* The server. *)

Create ==
  /\ server = "idle"
  /\ server' = "created"
  /\ UNCHANGED <<clientVars, pipeVars, runs, counted, lost>>

(* ConnectNamedPipe blocks. *)
Accept ==
  /\ server = "created" /\ peer = NoRequest
  /\ server' = "accepting"
  /\ UNCHANGED <<clientVars, pipeVars, runs, counted, lost>>

Accepted ==
  /\ server = "accepting" /\ peer # NoRequest
  /\ server' = "reading"
  /\ UNCHANGED <<clientVars, pipeVars, runs, counted, lost>>

(* Mutant: the receive buffer outlives its connection. *)
ReleaseKeepingData ==
  /\ link' = [r \in Requests |-> IF Connected(r) THEN "cut" ELSE link[r]]
  /\ peer' = NoRequest
  /\ inbox' = 0 /\ data' = data /\ outbox' = 0 /\ put' = 0

(* The instance is taken down, with all that is in it. *)
Release ==
  /\ link' = [r \in Requests |-> IF Connected(r) THEN "cut" ELSE link[r]]
  /\ peer' = NoRequest
  /\ inbox' = 0 /\ data' = 0 /\ outbox' = 0 /\ put' = 0

(* A client was there before ConnectNamedPipe was called.  The call returns  *)
(* zero with ERROR_PIPE_CONNECTED, but ctypes.get_last_error() reads ctypes' *)
(* own copy of the error, which ctypes.windll.kernel32 never sets: the code  *)
(* sees 0, which is not 535.                                                 *)
ConnectRaces ==
  /\ server = "created" /\ peer # NoRequest
  /\ server' = "idle"
  /\ Release
  /\ UNCHANGED <<client, late, sent, taken, runs, counted, lost>>

ReadPiece ==
  /\ server = "reading" /\ inbox = 1
  /\ inbox' = 0
  /\ data' = data + 1
  /\ server' = IF data + 1 = Parts[peer] THEN "running" ELSE "reading"
  /\ UNCHANGED <<clientVars, peer, outbox, put, runs, counted, lost>>

(* Mutant: a failed ReadFile is tried again. *)
ReadEndsRetried ==
  /\ server = "reading" /\ inbox = 0 /\ ~Connected(peer)
  /\ UNCHANGED vars

(* ReadFile fails before a newline has come: nothing is processed. *)
ReadEnds ==
  /\ server = "reading" /\ inbox = 0 /\ ~Connected(peer)
  /\ server' = "closing"
  /\ UNCHANGED <<clientVars, pipeVars, runs, counted, lost>>

(* process_line, with an answer or without one. *)
Process ==
  /\ server = "running"
  /\ runs' = [runs EXCEPT ![peer] = @ + 1]
  /\ server' \in {"replying", "closing"}
  /\ UNCHANGED <<clientVars, pipeVars, counted, lost>>

WritePiece ==
  /\ server = "replying" /\ Connected(peer) /\ outbox = 0
  /\ outbox' = 1
  /\ put' = put + 1
  /\ server' = IF put + 1 = AnswerParts[peer] THEN "flushing" ELSE "replying"
  /\ UNCHANGED <<clientVars, peer, inbox, data, runs, counted, lost>>

(* The result of WriteFile is not looked at. *)
WriteFails ==
  /\ server = "replying" /\ ~Connected(peer)
  /\ server' = "flushing"
  /\ UNCHANGED <<clientVars, pipeVars, runs, counted, lost>>

(* Mutant: the status is written only while the client is still there. *)
FlushedIfConnected ==
  /\ server = "flushing" /\ (outbox = 0 \/ ~Connected(peer))
  /\ counted' = counted \cup {r \in {peer} \ Probes : Connected(r)}
  /\ server' = "closing"
  /\ UNCHANGED <<clientVars, pipeVars, runs, lost>>

(* FlushFileBuffers returns when the client has read everything or is gone; *)
(* then the status file is written, in which a conversion adds to           *)
(* ime_requests and a probe does not.                                       *)
Flushed ==
  /\ server = "flushing" /\ (outbox = 0 \/ ~Connected(peer))
  /\ counted' = counted \cup ({peer} \ Probes)
  /\ server' = "closing"
  /\ UNCHANGED <<clientVars, pipeVars, runs, lost>>

Disconnect ==
  /\ server = "closing"
  /\ server' = "idle"
  /\ Release
  /\ UNCHANGED <<client, late, sent, taken, runs, counted, lost>>

(* The process ends, wherever it stands; the tray starts another one. *)
Crash ==
  /\ server # "down"
  /\ server' = "down"
  /\ lost' = lost \cup ({peer} \ {NoRequest})
  /\ Release
  /\ UNCHANGED <<client, late, sent, taken, runs, counted>>

Restart ==
  /\ server = "down"
  /\ server' = "idle"
  /\ UNCHANGED <<clientVars, pipeVars, runs, counted, lost>>

-----------------------------------------------------------------------------
Client(r) ==
  \/ SeePipe(r) \/ OpenPipe(r) \/ Write(r) \/ Read(r)
  \/ ProbeWrites(r) \/ ProbeReads(r)
  \/ TimeOut(r) \/ OpenRefused(r) \/ Broken(r)

Serve ==
  \/ Create \/ Accept \/ Accepted \/ ConnectRaces
  \/ ReadPiece \/ ReadEnds \/ Process
  \/ WritePiece \/ WriteFails \/ Flushed \/ Disconnect

Next ==
  \/ \E r \in Requests : Begin(r) \/ Expire(r) \/ Client(r)
  \/ Serve
  \/ Crash
  \/ Restart

Spec == Init /\ [][Next]_vars

(* A thread that can go on does, and time passes.  Nothing is owed by Crash, *)
(* Restart or a caller that has not called.                                  *)
FairSpec ==
  /\ Spec
  /\ \A r \in Requests : WF_vars(Expire(r)) /\ WF_vars(Client(r))
  /\ WF_vars(Serve)

-----------------------------------------------------------------------------
TypeOK ==
  /\ client \in [Requests -> ClientStates]
  /\ late \subseteq Requests
  /\ link \in [Requests -> {"none", "open", "cut"}]
  /\ \A r \in Requests : sent[r] \in 0 .. Parts[r] /\ taken[r] \in 0 .. AnswerParts[r]
  /\ server \in ServerStates
  /\ peer \in Requests \cup {NoRequest}
  /\ inbox \in {0, 1} /\ outbox \in {0, 1}
  /\ data \in Nat /\ put \in Nat
  /\ peer # NoRequest => data <= Parts[peer] /\ put <= AnswerParts[peer]
  /\ runs \in [Requests -> Nat]
  /\ counted \subseteq Requests
  /\ lost \subseteq Requests

(* The counters the tray shows are those of the conversions: they miss one    *)
(* that was answered only when the ranker died with it in hand, and none is a *)
(* probe of the tray's own (ranker.py:614-698).                               *)
AnsweredIsCounted ==
  /\ \A r \in Requests \ Probes :
       client[r] = "answered" /\ peer # r => r \in counted \cup lost
  /\ counted \cap Probes = {}

(* What a caller sees is RankCall: its own answer or a failure, at most one *)
(* run, and an end to every call (ai_ranker_client.h).                      *)
pending == {"waiting", "opening", "writing", "reading"}
Service == INSTANCE RankCall WITH
  call <- [r \in Requests |-> IF client[r] \in pending THEN "pending" ELSE client[r]]
ServiceKept == Service!FairSpec

(* A client on the instance always comes off it, so the next one has its turn: *)
(* no abandoned, broken or half-sent request holds the server (ranker.py:576). *)
PeerGoes == \A r \in Requests : peer = r ~> peer # r

=============================================================================

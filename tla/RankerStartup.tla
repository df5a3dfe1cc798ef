--------------------------- MODULE RankerStartup ---------------------------
(***************************************************************************)
(* How a ranker process comes up and goes: the tray's choice of a backend  *)
(* (run_server_mode), the backends' constructors, and ranker.py's main up  *)
(* to the pipe it serves, with the status file it keeps for the tray.      *)
(* Processes of one installation share the settings, the models, the pipe  *)
(* and the status file; two may be there at once.                          *)
(***************************************************************************)
EXTENDS Naturals, Sequences, SequencesExt, FiniteSetsExt

CONSTANTS
  Processes,
  Machines,   \* [gpus, files, tokenizer, windows]: the providers ONNX Runtime and
              \* torch offer, the models installed as <<family, precision>>
  Configs,    \* [entry, backend, mode, device, pipe]: started by the "tray", which
              \* chooses the backend, or by "hand"; compute_mode; --device or ""
  None

VARIABLES
  machine, config,
  proc,     \* "none", "loading", "announcing", "opening", "creating", "serving",
            \* "closing", "stdio"; "gone" by itself or "killed"
  ranker,   \* the backend of each process that is loaded
  instance, \* the process that has the pipe's one instance
  status,   \* the status file
  unwritten \* history: processes of which a write of it has failed

vars == <<machine, config, proc, ranker, instance, status, unwritten>>

-----------------------------------------------------------------------------
(* Which model, on which device. *)

gpu_provider ==
  IF "cuda" \in machine.gpus THEN "cuda"
  ELSE IF "directml" \in machine.gpus THEN "directml" ELSE None

use_gpu == config.mode \in {"auto", "gpu"} /\ gpu_provider # None

\* _resolve_first: the precisions of a family's file, in order; at most one.
Resolve(family, precisions) ==
  LET there == SelectSeq(precisions, LAMBDA q : <<family, q>> \in machine.files)
  IN IF there = <<>> THEN <<>> ELSE << <<family, there[1]>> >>

\* _packaged_model_arguments: the dual encoder, else both of the legacy models,
\* and only in the precision of the device; else whatever the backend finds.
Packaged ==
  LET precision == IF use_gpu THEN "fp16" ELSE "int8"
      dual      == <<"dual", precision>>
      legacy    == << <<"lora3", precision>>, <<"lora6", precision>> >>
  IN IF dual \in machine.files THEN [backend |-> "dual_encoder", models |-> <<dual>>]
     ELSE IF ToSet(legacy) \subseteq machine.files THEN [backend |-> "onnx", models |-> legacy]
     ELSE [backend |-> "dual_encoder", models |-> <<>>]

\* The arguments main is called with.
Arguments ==
  IF config.entry = "tray" THEN Packaged
  ELSE [backend |-> config.backend, models |-> <<>>]

\* The devices a session may come up on: when a provider's libraries cannot be
\* loaded, ONNX Runtime goes on without it.
Sessions == IF use_gpu THEN {gpu_provider, "cpu"} ELSE {"cpu"}

Loaded(says, device, models) ==
  [says |-> says, device |-> device, models |-> models, gate |-> Len(models) = 1]
Failed == [says |-> None, device |-> None, models |-> <<>>, gate |-> FALSE]
NoStatus == [pid |-> None, state |-> "none", device |-> None, pipe |-> <<>>]

\* Mutant: a session is taken to run where it was asked to.
OnnxRuriRerankerTrusting(given) ==
  LET models == IF given # <<>> THEN given
                ELSE Resolve("single", IF use_gpu THEN <<"fp16", "fp32">> ELSE <<"int8", "fp32">>)
  IN IF \/ config.mode = "gpu" /\ ~use_gpu
        \/ models = <<>> \/ ~machine.tokenizer
     THEN {Failed}
     ELSE {Loaded(IF use_gpu THEN gpu_provider ELSE "cpu", d, models) : d \in Sessions}

\* OnnxRuriReranker: refuses to start when a GPU is required and there is none,
\* or when the session has come up without it; one model is gated, several not.
OnnxRuriReranker(given) ==
  LET models == IF given # <<>> THEN given
                ELSE Resolve("single", IF use_gpu THEN <<"fp16", "fp32">> ELSE <<"int8", "fp32">>)
  IN IF \/ config.mode = "gpu" /\ ~use_gpu
        \/ models = <<>> \/ ~machine.tokenizer
     THEN {Failed}
     ELSE {IF config.mode = "gpu" /\ d = "cpu" THEN Failed ELSE Loaded(d, d, models) : d \in Sessions}

\* OnnxDualEncoderIMEReranker: says what it has asked for.
OnnxDualEncoderIMEReranker(given) ==
  LET models == IF given # <<>> THEN given
                ELSE Resolve("dual", IF use_gpu THEN <<"fp16", "fp32">> ELSE <<"int8", "fp16">>)
  IN IF models = <<>> \/ ~machine.tokenizer THEN {Failed}
     ELSE {Loaded(IF use_gpu THEN "gpu" ELSE "cpu", d, models) : d \in Sessions}

\* RuriReranker: torch knows CUDA only; the tuned model, else the base model.
RuriReranker ==
  LET cuda   == "cuda" \in machine.gpus
      device == IF config.device # "" THEN config.device
                ELSE IF config.mode = "cpu" \/ ~cuda THEN "cpu" ELSE "cuda"
      models == Resolve("ruri", <<"tuned", "base">>)
  IN IF \/ config.device = "" /\ config.mode = "gpu" /\ ~cuda
        \/ device = "cuda" /\ ~cuda
        \/ models = <<>>
     THEN {Failed} ELSE {Loaded(device, device, models)}

\* QwenReranker, and its warmup: it does not look at the settings, and may fail to
\* load, to name its two answers as tokens, or to run once.
QwenReranker ==
  LET device == IF config.device # "" THEN config.device ELSE "cpu"
  IN {Failed} \cup IF <<"qwen", "base">> \in machine.files
                   THEN {Loaded(device, device, << <<"qwen", "base">> >>)} ELSE {}

Constructed ==
  CASE Arguments.backend = "dual_encoder" -> OnnxDualEncoderIMEReranker(Arguments.models)
    [] Arguments.backend = "onnx" -> OnnxRuriReranker(Arguments.models)
    [] Arguments.backend = "ruri" -> RuriReranker
    [] Arguments.backend = "qwen" -> QwenReranker
    [] Arguments.backend = "rule" -> {Loaded("cpu", "cpu", <<>>)}

\* The pipe's local name, given as it is or with the prefix, once or more, whole
\* or damaged; none is left of a name that is not one.
normalize_windows_pipe_name(given) ==
  LET first == Min({i \in DOMAIN given : given[i] \notin {"\\", ".\\pipe\\"}} \cup {Len(given) + 1})
      name  == SubSeq(given, first, Len(given))
  IN IF name \in {<<".">>, <<"..">>} THEN <<>> ELSE name

\* The pipe a Mozc server connects to.
MozcPipe == <<"ai_ime_ranker">>

\* Whether a security descriptor can be had.
_low_integrity_pipe_security == IF machine.windows THEN BOOLEAN ELSE {FALSE}

Guarded == Arguments.backend \in {"ruri", "onnx", "dual_encoder"}
-----------------------------------------------------------------------------
Init ==
  /\ machine \in Machines /\ config \in Configs
  /\ proc = [p \in Processes |-> "none"]
  /\ ranker = [p \in Processes |-> Failed]
  /\ instance = None /\ status = NoStatus /\ unwritten = {}

Enter(p, phase) == proc' = [proc EXCEPT ![p] = phase]

\* RuntimeStatus.write: the whole record, or nothing.
Write(p, state) ==
  \/ /\ status' = [pid |-> p, state |-> state, device |-> ranker[p].says,
                   pipe |-> normalize_windows_pipe_name(config.pipe)]
     /\ UNCHANGED unwritten
  \/ /\ unwritten' = unwritten \cup {p}
     /\ UNCHANGED status

Launch(p) ==
  /\ proc[p] = "none"
  /\ Enter(p, "loading")
  /\ UNCHANGED <<machine, config, ranker, instance, status, unwritten>>

\* The backend is constructed; a failure is an exit code of 2.
Load(p) ==
  /\ proc[p] = "loading"
  /\ \E r \in Constructed :
       /\ ranker' = [ranker EXCEPT ![p] = r]
       /\ Enter(p, IF r = Failed THEN "gone"
                   ELSE IF config.pipe # <<>> THEN "announcing" ELSE "stdio")
  /\ UNCHANGED <<machine, config, instance, status, unwritten>>

\* A name that is not one ends the process; the error is caught nowhere.
Misnamed(p) ==
  /\ proc[p] = "announcing"
  /\ normalize_windows_pipe_name(config.pipe) = <<>>
  /\ Enter(p, "gone")
  /\ UNCHANGED <<machine, config, ranker, instance, status, unwritten>>

\* The guard and the cache are put before it, and the status says "loading".
Announce(p) ==
  /\ proc[p] = "announcing"
  /\ normalize_windows_pipe_name(config.pipe) # <<>>
  /\ IF Guarded THEN Write(p, "loading") ELSE UNCHANGED <<status, unwritten>>
  /\ Enter(p, "opening")
  /\ UNCHANGED <<machine, config, ranker, instance>>

\* _windows_pipe_server, off Windows or without a security descriptor.
OpenFails(p) ==
  /\ proc[p] = "opening"
  /\ FALSE \in _low_integrity_pipe_security
  /\ Enter(p, "gone")
  /\ UNCHANGED <<machine, config, ranker, instance, status, unwritten>>

Open(p) ==
  /\ proc[p] = "opening"
  /\ TRUE \in _low_integrity_pipe_security
  /\ Write(p, "on")
  /\ Enter(p, "creating")
  /\ UNCHANGED <<machine, config, ranker, instance>>

CreateNamedPipe(p) ==
  /\ proc[p] = "creating"
  /\ IF instance = None THEN instance' = p /\ Enter(p, "serving")
     ELSE Enter(p, "closing") /\ UNCHANGED instance
  /\ UNCHANGED <<machine, config, ranker, status, unwritten>>

\* A request: the counters are written if it was answered, and the instance let
\* go of before the next is created.
Serve(p) ==
  /\ proc[p] = "serving"
  /\ Write(p, "on") \/ UNCHANGED <<status, unwritten>>
  /\ instance' = None
  /\ Enter(p, "creating")
  /\ UNCHANGED <<machine, config, ranker>>

Close(p) ==
  /\ proc[p] = "closing"
  /\ Write(p, "off")
  /\ Enter(p, "gone")
  /\ UNCHANGED <<machine, config, ranker, instance>>

\* serve_stdio: the end of the input, of one request, or of the reader.
serve_stdio(p) ==
  /\ proc[p] = "stdio"
  /\ Enter(p, "gone")
  /\ UNCHANGED <<machine, config, ranker, instance, status, unwritten>>

Kill(p) ==
  /\ proc[p] \notin {"none", "gone", "killed"}
  /\ Enter(p, "killed")
  /\ instance' = IF instance = p THEN None ELSE instance
  /\ UNCHANGED <<machine, config, ranker, status, unwritten>>

Next ==
  \E p \in Processes :
    \/ Launch(p) \/ Load(p) \/ Misnamed(p) \/ Announce(p) \/ OpenFails(p) \/ Open(p)
    \/ CreateNamedPipe(p) \/ Serve(p) \/ Close(p) \/ serve_stdio(p) \/ Kill(p)

Spec == Init /\ [][Next]_vars
-----------------------------------------------------------------------------
(* onnx_ranker.py:291-294, ranker.py:705-706.  A status file that says "on"   *)
(* is of a ranker that is up, unless it was killed or could not write; and    *)
(* what that ranker runs on is what the settings ask for, and, for the        *)
(* cross-encoders, what the file says, also when a session has come up        *)
(* without the GPU it was given, or another ranker writes in between.  Its    *)
(* pipe is the one a Mozc server connects to, however the name was given.     *)
StatusIsTrue ==
  status.state = "on" =>
    LET p == status.pid
    IN /\ status.pipe = MozcPipe
       /\ \/ proc[p] \in {"creating", "serving", "closing", "killed"}
          \/ p \in unwritten
       /\ Guarded /\ config.device = "" =>
            /\ config.mode = "cpu" => ranker[p].device = "cpu"
            /\ Arguments.backend # "dual_encoder" =>
                 /\ config.mode = "gpu" => ranker[p].device # "cpu"
                 /\ status.device = ranker[p].device
=============================================================================

# Fumiori AI-IME: formal models

TLA+ models of Fumiori (`fumiori-ai-ime`), the TLC runs that check them and the
TLAPS proofs about them. Paths are relative to the repository root.

## 1. The system

A Japanese IME on Windows. A patched Mozc server asks a resident Python process,
over a named pipe, to reorder conversion candidates with a small dual-encoder
model; a tray application starts and stops that process; an MSI installs both.

```
 Mozc server (C++)                      resident ranker (Python, one process)
 AiRewriter -- ai_ranker::Client ==pipe==> _windows_pipe_server  (one thread, one client)
   Rewrite/Finish                            LoadingIndicator (a thread with a window)
                                             process_line, protocol validators
                                             ResponseCache
                                             InteractiveBurstGuard
                                             a backend:
                                               OnnxDualEncoderIMEReranker
                                                 | context worker | candidate worker | warmup
                                                 embedding caches, SQLite store
                                               or a cross-encoder, Qwen, rules
 tray (ai_ime_tray.py) == Popen/terminate ==>  run_server_mode, main, status file
   watcher thread <== settings.json <== settings window
 installer ==> handoff helper ==> new tray
```

| Component | State | Operations | What makes it hard | What makes it correct |
|---|---|---|---|---|
| Dual-encoder engine | two embedding caches, pending slots and workers, context generation, a mutable tokenizer, three locks | queue a prefetch, worker loop, encode, `rank`, `rank_batch`, warmup | four threads, cleared caches, two lock levels, failing encoder | exact vectors, no double encoding, no dropped prefetch, no needless fallback, the pipe thread returns |
| Embedding store | SQLite rows by model and word | open, `get_many`, `missing_words`, `put_many` | swallowed failures, rows of other models | what the warmup skips is really there |
| Request path | `ResponseCache._entries`, guard `_first_seen`, `_ranked` | `process_line` | two caches in a row on one clock | bounded staleness, no replayed fallback |
| Pipe server and client | the one pipe instance, the request in hand | connect, read, answer; open, write, read until a deadline | late answers, half-sent and abandoned requests, a server that dies | an answer reaches the request it answers or nobody; the server listens again |
| `AiRewriter` | candidate segments, last prefetch keys | boundary, `Rewrite`, retries, `Finish` | stale keys, edits before a failure, retries under one deadline | the candidate promoted is the one that was shown |
| Protocol | none | writer, parser, validators | two implementations of one set of checks | both ends agree |
| Scoring, cross-encoders, joint decoding | none | gates, scores, path search | exceptions to exceptions; a pruned search | promotion needs evidence; the search finds the best path |
| Candidate supplements | none | number parsing, joining of segments | greedy choices | the numbers mean what was read |
| Speculative ranker | debounce slot, result cache, worker | schedule, run, rank | two locks, failure of a background call | fresh answers, no repeated call, no lost turn |
| Loading indicator | a window on a thread of its own | start, show, hide, stop | posted messages, a thread that comes late | visible only while ranking |
| Start-up, status file | backend, device, `ranker_status.json` | choose, fall back, announce, close | two processes, silent fallbacks | the file tells the truth |
| Tray | `state`, `server_proc`, `_settings_signature` | toggle, start, stop, launch, monitor, watch, quit | five kinds of threads, no lock, crashes | the state shown is the process's |
| Settings and product files | JSON files | load, save, migrate | several writers, crashes, reused process numbers | a file is whole |
| Taskbar switch | three globals | toggle, start thread, poll, exit | as the tray | no process is lost |
| Handoff, installer | processes; registrations, files, service | list, end, start; register, roll back | processes that start meanwhile; an action that fails | the old one is gone; all or nothing |

`PROJECT.json` lists every component with its files and status, and under
"hazards" each place in the code where the order of steps, a failure or a
boundary matters. Where it names no property, or fewer than the hazard would need, its
note says what is left: how long the wait for a prefetch's lock lasts, segments changed
before a ranker that fails, launches that race, a monitor's report that is not true, an
error shown over a live ranker, a removal that fails.

## 2. Modules

Names of actions and operators are the code's where there is one. Each module
begins with what it models; the comment above a property quotes the line of the
code, of its docs or tests that states it.

| Module | Models |
|---|---|
| `PrefetchEngine` | `ranker/onnx_dual_encoder_base.py`, `onnx_dual_encoder_ranker.py`: caches, locks, workers, conversions |
| `EmbeddingDictionary` | what a process finds in the store and what its warmup computes: two constants of `PrefetchEngine` as the code computes them |
| `ResponsePath` | `process_line`, `ResponseCache`, `InteractiveBurstGuard`, on one clock |
| `RankCall` | abstract: what a caller may expect of the ranker |
| `PipeExchange` | `_windows_pipe_server`, `ai_ranker_client.cc`, `rank_once`; implements `RankCall` |
| `CandidateWindow`, `AiRewriter` | `ai_rewriter.cc`: its pure part, and its calls; uses `RankCall` |
| `WireProtocol` | `protocol.py` and the client's writer and parser |
| `RankingPolicy`, `CrossEncoders` | `scoring.py`, `lexicon.py`; the ONNX, Ruri, Qwen and rule backends |
| `RankerAnswers` | one request through writer, checks, backend, fallback, checks, parser |
| `JointDecoding` | context selection, scores and path search of the dual encoder |
| `NumberReading` | `candidate_supplements.py` |
| `RankerStartup` | `run_server_mode`, constructors, `main`, the status file |
| `SpeculativeRanker` | `speculative.py` |
| `LoadingIndicator` | `loading_ui.py` |
| `TrayLifecycle` | `ai_ime_tray.py` |
| `TaskbarSwitch` | `launcher/taskbar_switch.cpp` |
| `InstallerHandoff` | the helper in `ai_ime_tray.py` that replaces a running tray |
| `ProductFiles` | `product_settings.py`, the settings window's and the guide's writes, the registry migration |
| `Installer` | `custom_action.cc` and the sequence of `installer_oss_64bit.wxs` |
| `Selection` | a loop that keeps some of a sequence, which three of the others have |

Five `MC` modules instantiate them; eight `...Proofs` modules hold the theorems
(`RecursionProofs` only lemmas the others cite).

An MC module may hold several components that share no state. A variable `part`
says which one a behaviour is of; the others stay in an initial state. That is
a disjoint union of state spaces, not a product, and every property is that of
its component. Such a module instantiates its components with CONSTANTS of its own,
which the `.cfg` gives values, and states what they may be in named assumptions; so
the theorems about these components are in `MCPipeProofs`, `MCTrayProofs`,
`ResponsePathProofs`, `DecisionProofs` and `RankerAnswersProofs`, for every value that
meets the assumptions.

### PrefetchEngine

`pc` says where each of four threads stands: the pipe thread, the context worker,
the candidate worker and the warmup. One action is what a thread does between two
points where it gives up a lock (`_cache_lock`, `_prefetch_state_lock`, which are
only held for such a step and therefore do not appear; `_model_lock` and
`_joint_context_lock` are held across steps and do).

| Action | Code |
|---|---|
| `QueuePrefetch` | `_queue_prefetch` |
| `TakePending`, `Retire` | the two critical sections of `_run_pending_prefetch` |
| `NewGeneration` | the clear in `prefetch_context_batch` |
| `LockJoint`, `LookupContexts`, `FillContexts`, `StackContexts`, `StackRaises` | `_joint_context_vectors`, `_get_context_vectors`; the last is its `KeyError` |
| `BeginEncode`, `FinishEncode`, `FailEncode` | `encode_texts` |
| `LookupCandidates`, `RestoreCandidates`, `FillCandidates`, `SaveCandidates` | `preload_candidates` with the store |
| `BeginExplicit`, `Peek`, `WaitForPrefetch`, `Score` | `rank_batch` (kind "batch"), `rank` (kind "single") |
| `GateSingle` | the zero-context gate of `rank`, which clears the context cache |
| `WarmBatch`, `WarmupDone` | `_warm_candidate_dictionary` |

A vector is abstracted to the truncation it was tokenised under: the tokenizer is
one shared object whose truncation is set before each call, so the value that could
go wrong is exactly that. A wait with a timeout is a step that may be taken at any
time, with the answer the caches give at that moment: every timeout is covered,
and how long it takes is not. `cleared` is a history variable.

The zero-context gate of `rank_batch` answers without touching anything: in the
model it is a stuttering step. Empty segments are refused by `protocol.py` before
they come here. `Score` stands for scoring, path search and answer; they read the
vectors already in hand and change no shared state.

`EmbeddingDictionary` computes `Persisted` and `Batches` from rows that an earlier
model left and from a vocabulary file. `MCPrefetchEngine` uses what it yields, and an
assumption there says so.

### ResponsePath

A request is identified with its cache key, everything but the request id. An
answer is Mozc's order or the model's, with the time the model made it. `Tick` is
the clock: it may advance between requests and while the model runs. Actions:
`ServeCached`, `ServeRanked`, `Defer`, `BeginSettled`, `BeginExplicit`,
`AnswerBare`, and, when the model returns, `Finish`, `FallBack` (the
non-cacheable batch answer) or `Raise`. `shown` is a history variable.

### PipeExchange and RankCall

`client[r]` is where the caller of request `r` stands in `ExchangePayload` (wait
for the instance, open, write, read), `server` where `_windows_pipe_server` stands,
`peer` whose request the instance carries; `data` and `put` count the pieces of
the request and of the answer that are in the pipe. A caller may give up anywhere
(`Expire`); a server may die anywhere (`Crash`) and be started again (`Restart`). A
probe is the tray's call through `rank_once`, which reads once and has a deadline
of its own for each half. `RankCall` says of a call that it ends once, with its own
answer or a failure, and is run at most once, perhaps after the caller has gone.

### AiRewriter

`phase` is where the Mozc thread stands: the boundary planner, Mozc's own
rewriters (external: any order they may leave), candidate prefetch while composing,
batch, retries, commit. Requests to the ranker are `RankCall`'s, through INSTANCE, so a
late run or a failure of any of them is in the model. `CandidateWindow` has the
operators: which candidates are distinct and shown, the text each is shown as
between shared affixes, the contexts of a segment, the supplements, the edit
that follows an answer. The joined segments of a supplement are in `NumberReading`.

### WireProtocol, RankerAnswers and the backends

A message is its members in the order they were written, so duplicate and missing
names are messages too. A number carries what the checks ask of it: integer,
finite, written with an exponent. What a model says of a candidate's text is an input
(a few opinions, in hundredths); what the code makes of it (priors, lexical
bonuses, gate, thresholds, fusion of two models, softmax in ten-thousandths) is
computed. `RankerAnswers` asks, reads the answer, and asks again with the winner's
text a little better in the models' eyes: the gate must not turn on that.

### JointDecoding and NumberReading

`JointDecoding` computes the context of each segment, the lattice of scores, the
search that keeps two paths for each candidate, and its two margins;
`TogetherIffDominant` compares it with all the paths there are, and says both when the
segments are decided together and when not. `NumberReading` reads
out each number the way Japanese does (the reference definition, written from the
tables of readings the code has) and compares what the code makes of the reading
with the number. Where the code recurses, it has a recursive function.

### RankerStartup

A machine (GPUs, installed models) and a configuration are chosen; up to two
processes load, announce themselves, create the pipe, serve and leave, each step of
which may fail; the status file is what the tray shows.

### TrayLifecycle

Each start has an identity, shared by its launch thread, its process and its
monitor. Each assignment of `state`, `server_proc` and `_settings_signature` that
another thread can see before the next one is an action of its own:
`_terminate_owned_server` is `TakeProc` and then `EndProc`; `_stop_server`,
the watcher's restart and `launch` are chains of such steps. `CheckPipe` sees a
serving ranker or not, because `WaitNamedPipe` does not find the pipe's single
instance while it serves a client. `Ready` has both outcomes of a second process:
it fails to create the pipe, or it gets it between two clients and the first one
exits. `skipped` and `disturbed` are history variables.

Two steps of the code are one of the model where their order cannot be told from
outside: the watcher's read of the file and its comparison; the assignments of
"loading" and of the signature in `_start_server`. A save that leaves the runtime
signature as it was is no `Save`. The one start after the registry migration, which
also looks for a ranker the tray does not own, is left out; the migration itself is in
`ProductFiles`.

### The programs around

`TaskbarSwitch` is the older native switch: message loop, menu, and a thread for each
start; `overlapped` records that two starts overlapped or the window left during one.
`InstallerHandoff` is the helper that lists and ends processes while the old program
goes on starting and ending them; `spoiled` records a tool that did not do as it was
told. `ProductFiles` takes each save apart (temporary file, write, rename) and lets any
step fail and any process end. An instruction is a sequence of characters there, since
`normalize_settings` strips it and then cuts it: what is cut may end in a blank, which a
second normalisation strips. `save_settings` is that second one (`Written`), and what it
writes reads back as it is; without it (`WrittenAsGiven`) a long instruction would not.
`FilesAreWhole` says that of every file a save has written, and whose settings they are:
what a user has chosen (`Chosen`, no length without context), or what was found and
migrated (`Migrated`, with the length that was found even where context is off). `Installer` follows the sequence table: immediate
actions, the deferred script, rollback in reverse order, commit, an old product
removed in between. `LoadingIndicator` is the pipe loop, the window's thread and the
queue of posted messages between them.

## 3. Runs

| Run | Checks | Result |
|---|---|---|
| `engine` | `TypeOK`, `VectorsExact`, `ContextsCoalesced`, `ScoringFindsCandidates`, `NewestNeverDropped`, `GivesUpOnlyWhenDisturbed` | hold |
| `engine_live` | `PipeAlwaysReturns` under `FairSpec` | holds |
| `response` | the request path: `TypeOK`, `AnswersAreRecent`, `FallbackNeverReplayed`, `TypingNeverStartsInference`; backends and protocol: `RankingsAreRead`, `PromotionEarned`, `BetterStillWins`; dual encoder: `TogetherIffDominant`, `RecentTextIsKept`; `NumbersAreWritten`; start-up: `StatusIsTrue` | hold |
| `pipe` | the pipe: `TypeOK`, `AnsweredIsCounted`, `ServiceKept` (the refinement, with liveness), `PeerGoes`; speculation: `AnswersFresh`, `NoSameCall`, `ConversionEnds`; the pill: `PillOnlyWhileRanking` | hold |
| `rewriter` | `TypeOK`, `RetrySeesWinners`, `RememberedWasTakenIn`, `NoNewTexts`, `PromotedAsShown` | hold |
| `tray` | the tray: `TypeOK`, `RankerIsOwned`, `StaleOnlyIfSkipped`, `LoadingEnds`, `DeadServerNoticed`; `SwitchOwnsRanker`, `HandoffReplaces`, `FilesAreWhole`, `InstallIsAllOrNothing` | hold |
| `engine_stranded` | `QueuedIsTaken` | violated: finding 1 |
| `engine_misses` | `MissesAreCompleted` | violated: finding 2 |
| `response_stable` | `StableIsRanked` | violated: finding 3 |
| `tray_off` | `OffMeansStopped` | violated: finding 4 |
| `tray_settings` | `SettingsTakeEffect` under `FairSpec` | violated: finding 5 |
| `answers_agree` | `BothEndsAgree` | violated: finding 6 |

### Findings

1. **A queued prefetch can be stranded.** `_run_pending_prefetch` decides under the
   lock that nothing is pending, lets go, and takes the lock again to leave its
   slot. A request queued in between sees a live worker, starts none, and waits
   for the next request of its side.
2. **A conversion can lose its vectors to a new context generation.**
   `prefetch_context_batch` clears the context cache without the joint lock;
   `rank_batch` then meets a `KeyError` and answers in Mozc's order.
3. **A stable legacy request is not ranked after 500 ms.** The `ResponseCache` around the
   guard replays the guard's provisional answer for 3 s; the guard forgets after 2 s.
4. **OFF can leave a ranker running.** The watcher's restart and the user's stop
   interleave freely.
5. **Settings saved while the model loads are not applied.** The watcher counts them
   as seen without restarting anything.
6. **A small confidence makes the client drop a whole batch.** The fallback for backends
   without `rank_batch` may report a share below 0.0001, which `json.dumps` writes with an
   exponent; the server's checks accept it, the client's expression does not.

What holds beside them is stated so that the difference is exact. In the engine a
conversion is given up only for the reason of finding 2 or its own encoder's failure
(`GivesUpOnlyWhenDisturbed`), and nothing queued is ever thrown away
(`NewestNeverDropped`). In the tray everything holds as long as its threads take
turns and no error is shown over a live ranker (`~disturbed`), and settings are
stale only if the watcher skipped them (`StaleOnlyIfSkipped`). Of answers,
`RankingsAreRead` has both ends agree on everything but a batch.

### Bounds

- **engine**: two requests, two context queries, one candidate surface, one warmup
  batch. Two contexts are what a generation change needs; with overlapping plans one
  snapshot finds part of its queries cached. Which surface is looked up never
  depends on another one, so one is enough. The candidate side has one sender of
  snapshots, the context side two. About 2.6 million states. SQLite failures are
  off in this run (they multiply the states and add only "missing again") and on
  in `engine_live`.
- **engine_live**: one snapshot per side, disjoint plans, encoder and SQLite may fail.
- **response**: one request of each kind (explicit, weak explicit, batch,
  interactive, bare), a cache of two entries so that eviction happens,
  `Settle < Forget < TTL` as in the code, and a clock (`MaxTime`) long enough for an
  entry to be made, replayed, dropped and made again. Requests of one and two segments
  with two or three candidates: each surface type, shared affixes, contexts and none, and
  opinions on both sides of each threshold of the gate. For joint decoding batches of one, two and
  three segments, one with a gap, cosines of 0 and 0.40 (their sums fall on both sides of
  both margins), typed texts of up to five characters where the code's "long" is four.
  Numbers up to 100, hundreds and thousands to 3222, some beyond, with each counter and two
  cuts anywhere between Mozc's segments. Two rankers on every kind of machine (no GPU,
  DirectML, CUDA), set of installed models and configuration.
- **response_stable** and **answers_agree**: half-second units with the shipped values
  0.5 s, 2 s, 3 s.
- **pipe**: two of three calls meet: two conversions, one of which needs two pieces each
  way, or one of them and a probe. The server may die and come back any number of
  times. Speculation: one caller, three conversions of which two are the same
  to the delegate, a cache of one, a clock of four. The pill: three conversions, a
  caret inside and at the edge of the screen.
- **rewriter**: four conversions of one and two segments, two contexts, four requests of
  which one may be a prefetch: a prefetch, a batch and the retries of two segments.
  The window is two candidates and one more for a supplement (the code's nine and ten).
- **tray**: two starts at a time (the one that is on and the one that replaces it, or
  two racing), `MaxSaves = 1`. Identities are reused once nothing refers to them, so
  the number of starts in a run is not bounded. Three starts of the native switch, since
  the third is the first that can begin after two that overlapped; four processes for the
  handoff (a tray, its ranker, its window, and one of those again); two writers of files.
  Instructions of at most two characters for the code's 500: the one that is too long is
  cut to a character and a blank, others are empty or nothing but a blank. What is found may
  have wrong values, a length that is not offered, or a length where context is off.

### Fairness

Weak fairness of each thread's next step, which is what the operating system gives;
never strong fairness of a lock, and nothing owed by the user, a crash or a restart.

- `PrefetchEngine!FairSpec`: each thread. Waiting for a prefetch ends by its timeout, which
  is weak fairness of `WaitForPrefetch`.
- `PipeExchange!FairSpec`: each caller's thread, its deadline (time passes), the server.
  A server that has died need not come back, and calls end nevertheless.
- `SpeculativeRanker!FairSpec`: the callers and the worker.
- `TrayLifecycle!FairSpec`: each tray thread: `launch` ends by its 120 s deadline, the
  watcher polls every second.

Deadlock is checked where a component never ends: the engine, the request path, the
pipe. It is not in `tray*`, where quit, an installation's end and a removal are ends,
nor in `rewriter`, where the bound on requests is one.

### Other disagreements

Met while reading; no run is about them, and some of the hazards refer to them.

- `ranker.py:585` waits for `ERROR_PIPE_CONNECTED` from `ctypes.get_last_error()`, which is 0
  for functions of `ctypes.windll` loaded without `use_last_error`; likewise
  `ERROR_ALREADY_EXISTS` in the single-instance guards (`ai_ime_tray.py:599`,
  `onboarding_ui.py:295`).
- `ai_rewriter.h:15-16` says a failure leaves the segments untouched; supplements have been
  added before the ranker is asked (`ai_rewriter.cc:725`). "Dot products only"
  (`ai_rewriter.cc:401-404`) does not hold of a supplement, which only the explicit path adds.
- The candidate prefetch key puts `'\0'` before readings and texts alike
  (`ai_rewriter.cc:465-471`): conversions that are cut differently can have the same key, and
  then the second is not prefetched.
- More than six segments: the whole batch is refused. `AppendIfNotAlreadyAtEnd` loses a
  commit that repeats the text before it. A candidate that its shared affixes cover
  completely is shown whole.
- `_parse_number_prefix` reads "じゅうまん" as 110000 and "ひゃくまん" as 1010000, so the
  model's numbers end below 100000; readings with a shifted sound (ろっぴゃく,
  はっぴゃく, はっせん) get no supplement.
- `contextual_candidate_bonus` is called directional; a needle anywhere counts, and the first
  rule that matches hides a larger later one. `select_safe_local_context` keeps what is
  less than 18 characters from the end, its docstring says 20. `scoring.py:360-361` can never
  be true. The right-context rule of `RuleBasedRanker` works as meant without a prefix only.
- Mozc's first candidate, kept by the gate, may lose when the models think better of it;
  `BetterStillWins` is about promoted candidates. The confidence of the ONNX `rank_batch` is
  the neural winner's also when Mozc's first is kept. A joint path may take a
  later candidate of a segment without context.
- The dual encoder does not verify that a session given the GPU has it (its base class
  trusts "gpu"); a GPU requested without a provider runs on the CPU silently. Qwen and the
  rules are not behind the `InteractiveBurstGuard`.
- A second ranker that loses the pipe writes "on" and then "off" over the first one's status;
  returns before the `try` (`ranker.py:535-567`) leave "loading"; an invalid pipe name is an
  uncaught `ValueError` (`ranker.py:870-872`).
- `speculative.py`: the worker does not look at the cache again once it has the lock.
- Texts of the settings window and the guide ("既定値: OFF", "推奨: 128文字", "AIの初期状態はOFFです")
  against `DEFAULT_SETTINGS` (autostart on, 64 characters). Context disabled stores a length
  of 0, and enabling it again keeps that; a migration keeps the length it finds with context
  disabled. A loaded instruction of more than 500 characters may end in a blank until it is
  saved. `Infinity` as a length raises uncaught. The
  migration deletes the registry value before it saves, and may undo a save beside it.
- The taskbar switch: two quick toggles start two servers and forget one; leaving during a start
  orphans it.
- The installer: a removal that fails after `UnregisterTIP64` leaves the product unregistered;
  a failed upgrade registers the old product at `GetServerDirectory()` wherever it was;
  no rollback takes the permissions of `EnsureAllApplicationPackagesPermisssions` back;
  `LaunchYamatanaTray` runs before the registration and survives a rollback. A settings
  window that the guide opens between `tasklist` and `taskkill` escapes the handoff.
- `rank_once` reads only the first piece of an answer. The probe of `ai_ime_gui.py:103` is an
  invalid request. Opening the store deletes the rows of every other model, so GPU and
  CPU, which load different files, empty it in turn.

## 4. Proofs

Each theorem holds for every value of the constants that satisfies the named
assumptions; TLC checked each inductive invariant first, and evaluates every
assumption on the values of the runs.

| Module | Theorem | States | Assumes |
|---|---|---|---|
| `PrefetchEngineProofs` | `Inductive` | the engine's `IndInv` | `PrefetchAssumption` |
| | `TypeCorrect` | `TypeOK` | |
| | `VectorsAlwaysExact` | `VectorsExact` | |
| | `ContextsAlwaysCoalesced` | `ContextsCoalesced` | |
| | `ScoringAlwaysFindsCandidates` | `ScoringFindsCandidates` | |
| | `NoOtherGiveUp` | `GivesUpOnlyWhenDisturbed` | |
| | `QueuedNeverDropped` | `NewestNeverDropped` | |
| `ResponsePathProofs` | `TypesHold` | `TypeOK` | `ResponsePathAssumption` |
| | `RankingsRecent` | `AnswersAreRecent` | |
| | `FallbacksForgotten` | `FallbackNeverReplayed` | |
| | `InferenceIsAsked` | `TypingNeverStartsInference` | |
| | `StatusStaysTrue` | `StatusIsTrue` | `StartupAssumption` |
| `DecisionProofs` | `PromotionsEarned` | `PromotionEarned` | `RankingAssumption` |
| | `RecentTextStays` | `RecentTextIsKept` | `JointAssumption` |
| | `PathsAreExact` | `TogetherIffDominant` | |
| `RankerAnswersProofs` | `AnswersRead` | `RankingsAreRead` | `RankingAssumption`, `AnswersAssumption` |
| | `BetterStays` | `BetterStillWins` | |
| `MCPipeProofs` | `TypesHold` | `TypeOK` | `PipeAssumption` |
| | `AnswersCounted` | `AnsweredIsCounted` | |
| | `ExchangeImplementsCall` | the safety of `ServiceKept`: every step is `RankCall`'s or a stutter | |
| | `AnswersOfTheRequest` | `AnswersFresh` | `SpeculativeAssumption` |
| | `RankedOnce` | `NoSameCall` | |
| | `PillOnlyThen` | `PillOnlyWhileRanking` | `IndicatorAssumption` |
| `AiRewriterProofs` | `RewriterTypes` | `TypeOK` | `RewriterAssumption`, `WindowAssumption` |
| | `OnlyShownPromoted` | `PromotedAsShown` | |
| | `WinnersSeen` | `RetrySeesWinners` | |
| | `RememberedTakenIn` | `RememberedWasTakenIn` | |
| | `RewriterImplementsCall` | the rewriter's calls are `RankCall`'s | |
| `MCTrayProofs` | `TypesHold` | `TypeOK` | `TrayAssumption` |
| | `RankersOwned` | `RankerIsOwned` | |
| | `SettingsNotLost` | `StaleOnlyIfSkipped` | |
| | `SwitchOwns` | `SwitchOwnsRanker` | `SwitchAssumption` |
| | `HandoffLeavesNothing` | `HandoffReplaces` | `HandoffAssumption` |
| | `FilesStayWhole` | `FilesAreWhole` | `ProductAssumption`; `Distinguished`: what is found has the fields' types or `Bad` and a text for an instruction, what is chosen says whether there is context, and no marker is a body |
| | `InstallsWhole` | `InstallIsAllOrNothing` | |

What the assumptions leave open is what the code leaves open: any number of requests,
threads of callers, processes and saves, any lengths and limits, any tables of words and
rules, any number a model may say. `WindowAssumption` has the window for a supplement
one wider than the normal one, as its two constants are. `JointAssumption` has
the context at least as long as the tail no comma may cut off, less one character; each
length the settings offer is, but for 0, which switches context off; and it says what a batch
is made of, with a candidate in each segment, and that cosines and bonuses are numbers.
`AnswersAssumption` has the backends of the families there are, and the names the client gives
to requests and segments no longer than either end takes. `StartupAssumption` says
which names a pipe is given: the Mozc server's, or none, behind anything that
`normalize_windows_pipe_name` strips.

None of the properties is inductive. What strengthens them:

- **PrefetchEngine**, `IndInv`. `HasWork`: a thread at work on a request has one.
  `ModelLockHeld`: whoever is inside the model call holds `_model_lock`, alone, and the
  truncation is the one it set; what it has in hand afterwards was tokenised under it.
  This is why `VectorsExact` survives `FillContexts`, `FillCandidates` and
  `SaveCandidates`. `JointLockHeld`: whoever is between `LockJoint` and `StackContexts`,
  except a single `rank`, holds `_joint_context_lock`; `ContextsCoalesced` follows.
  `PipeCandidates` and `PipeContexts`: from each point of the pipe thread's path on,
  what is not in its `missing` set is cached (for contexts, unless the cache was
  `cleared` under it).
- **ResponsePath**. `EntriesRecent`: how old an entry's ranking may have been when it was
  cached, by kind; `GuardKnows`: what the guard has ranked or first seen, with its times.
  The lemmas on the cache (touching, replacing, evicting the oldest) are stated once.
- **RankerStartup**, `StartupInv`. `Ready`: a ranker past its loading has a backend as asked
  for, and a name for its pipe; `Announced`: a file that says "on" is of a process that came
  that far, has not left it unless the last write failed, and names that pipe and device.
- **RankerAnswers**, `RankingInv`: a backend, a request and the opinions stay what they are;
  an answer, once given, is `Ranker` of what was sent (`AnswerStays`), and what was read and
  counted came of it. The work is in the lemmas.
  `BestPlace`, `Highest`, `FirstPlaced`: what sorting by evidence puts first; `EvidenceIs`: the
  evidence of every family is a number, and of what it is the sum; `GateIsEarned`,
  `SegmentEarned`: behind the gate only a candidate with the margin, the bonus or the
  rule that the policy asks for comes before Mozc's first.
  For `RankingsAreRead`: `StrictByLevels`, no name twice in anything either end writes, level by
  level; `RankPayloadValid`, `BatchPayloadValid`: the server's checks take what the client
  writes; `RankedWell`: every backend answers with each candidate once, in an order, and
  with a confidence that is a share; `RankAnswerRead`, `BatchAnswerTaken`: what the client's
  parser makes of that.
  For `BetterStillWins`: `RawRises`, `EnsembleRises`, `EvidenceRises`: a candidate's score rises by as
  much as the models' opinions and the others' stays; `FirstStays`: it is still sorted first;
  `ShareRises`: so is its share of the softmax, whose table is only known to fall;
  `RunnerStays`: the runner-up is the same, or one with the same text; `GateHolds`: so the
  gate, whose exceptions look at all of these, still lets it pass.
- **JointDecoding**: the typed texts stay texts, and what is decided is `rank_batch` of what was sent.
  `StripFrom`, `ContextFrom`, `EndOfEnd`: each cut of `select_safe_local_context` leaves an end of
  the text, and never less than the tail. `StatesKept`: after each segment the search holds,
  for each candidate, the best two of all the paths that end in it; two are enough because
  a third that is extended stays behind the same two (`BestTwoOfThem`). `RankedBest`: so the first
  two of all are the best two. `SafeIffDominates`: the two margins of the code hold
  exactly when one path beats Mozc's and every other by them; `NoneDominates`: no path
  does where no segment has a context. `ScoresLattice`: what is
  searched are numbers, of each segment a row; `DecidedAlone`: otherwise each segment is as if by itself.
- **TrayLifecycle**. `OneAtWork`: as long as the threads take turns, one of them at most
  is starting or ending anything; `Whereabouts`: where the live rankers are, by what that
  thread is about to do; `Launching`, `UpToDate`: what a launch shows and which settings its
  ranker has read; `Unwatched`: a start is watched only once it is launched.
- **PipeExchange**. `ClientKnows` and `ServerKnows`: what each end's step implies for the
  instance between them; `AnsweredWhole`: when a conversion has its answer, the server is
  past writing it, and has counted it before it closes. `ExchangeImplementsCall` maps each step to a
  step of `RankCall` or a stutter under the mapping `Service`.
- **AiRewriter**, `RewriteInv`. `Calls`: a call is pending only while the thread is in it;
  `Waits`: what each phase knows about the call it waits for; `RememberedWasTakenIn` itself.
  `Shaped`: every segment has candidates, each a text with its two marks; what waits for a
  retry is of the conversion at hand. `Asking`: the segments are as they were when they
  were asked about, and a retry asks about the foremost. `Told`: a retry that was
  answered concerned a segment ahead of all that still wait. It rests on
  `PromotedWindow`: the window of a segment holds the same texts after one of them
  was moved to the front. `WindowPasses` says which texts each of the three passes takes
  (`Foremosts`), `OneForemost` that there is no choice. A promoted text that the first pass
  had not taken drives out the last it had (`OneDrivenOut`), and that one comes back in
  the second pass or in the third; there is one place for it because the window is one wider
  than the first pass. `SamePrefix`: what the texts have in common depends on the window only.
- **SpeculativeRanker**, `SpeculativeInv`. `Turns`: the delegate is called by whoever holds its
  lock; `Absent`: no cached entry is what a caller is having ranked, because it looked once
  more after it got its turn, and only who has the turn stores.
- **LoadingIndicator**, `PillInv`. `WindowLives`: when the window exists and who knows its
  handle; `PillTold`: outside a ranking a pill that is or will be visible has a message
  to go behind it; `PillPlaced`: the clamped position lies on the screen.
- **TaskbarSwitch**, unless `overlapped`: one start at most is under way; whose process the
  handle is, by that start's step; what the flags say then.
- **InstallerHandoff**, `HandoffInv`. `InSight`: unless a tool did not do as it was told, what
  runs of the old program is on the helper's list, has a parent that runs, or has escaped it;
  `NoCircle`: no process is its own ancestor, so that following parents ends at a listed one.
- **ProductFiles**, `FilesInv`. `Writers`: a process that saves holds a whole body of its own
  file, and has it in its own temporary file when it renames; `OnDisk`: each file is as found
  or a whole body. A whole body of settings (`Whole`) is `Normal`, and chosen or migrated. The
  lemmas say what one normalisation leaves of any settings (`Once`: offered values, an
  instruction that is short enough and begins with no blank), that a second makes it `Normal`
  (it ends with none either), and that a third changes nothing (`NormalKept`). They rest on
  what `strip` and a cut do to any sequence (`Stripped`, `Cut`).
- **Installer**, `InstallInv`, unless a failure was ignored. `InOrder`: the script is what is left of its
  phase's, and what is recorded for rollback is the end of one list (`Undoing`), as long as
  `RecordedAt` says; so a rollback, wherever it begins, undoes what was done, in order.
  `FreshStands`, `UpgradeStands`, `UninstallStands`: what there is, by what is left. The module has
  no parameters and the run covers it whole; the proof says why it holds.

Each proof has one lemma or step per action, and in it one step per part of the
invariant. `RankerIsOwned` and `SwitchOwnsRanker` are conditional because without the
condition they are false (finding 4, and the switch above).

Induction. The library's theorems on induction take a predicate, which the provers at hand do
not instantiate. `RecursionProofs` goes round that: a set of numbers has a least one
(`Least`), so a claim about all numbers has a first counterexample; and a
function that goes on by a given step exists (`Recursion`), which gives
a recursive definition its equation. Proved that way, once, and cited wherever they are needed:
`KeptOnly`, `KeptAscending`, `KeptDistinct` (what is left of a sequence when something is
dropped), `SumTakes`, `SumSame`, `SumCompared` (a sum over a set, taken apart or compared with
another), `Sorted` (sorting lists every place once, the better first and of
equals the earlier), `PlaceByPlace`
(a sequence made by a loop), `GoesOn` (a claim handed from each place to the next). The claim is
written out in each proof.

Only model-checked:

- liveness: `PipeAlwaysReturns`, `LoadingEnds`, `DeadServerNoticed`, `PeerGoes`,
  `ConversionEnds` and the fairness of `ServiceKept` are outside the prover;
- `NumbersAreWritten` is a claim about two recursions over tables of readings, and holds for
  the numbers of the run and not for all (section 3, other disagreements);
- `NoNewTexts` is not true of all conversions: the key does not tell where a segment ends
  (section 3, other disagreements), and those of the run's conversions differ.

## 5. Plan

1. `PrefetchEngine`, `ResponsePath`, `TrayLifecycle` — done.
2. `RankCall`, `PipeExchange` and the refinement — done.
3. `CandidateWindow`, `AiRewriter` over `RankCall` — done.
4. Backends, protocol, joint decoding, supplements, start-up — done.
5. Speculation, pill, switch, handoff, files, installer — done.
6. Proofs about every component of the table in section 4 — done.
7. The invariants about what a ranking decides: `RankingsAreRead`, `BetterStillWins`,
   `TogetherIffDominant`, and `InstallIsAllOrNothing` — done.

## 6. Not modelled

- **Similarity arithmetic and tokenisation**: ONNX sessions, prompts, float16 rounding. What
  a model says is an input of the models.
- **Bytes**: UTF-8, JSON escapes, the Windows security descriptor of the pipe.
- **The look**: painting, widgets, icons, notifications, texts.
- **The torch dual encoder** (`dual_encoder_ranker.py`): only scripts and tests construct it,
  and the ONNX engine restates its decisions.
- **The old control window** (`ai_ime_gui.py`), not shipped; **`client/fallback.py`**, called
  by tests only; **`launcher/main.cpp`, `mozc_server.cc`**, which keep no state.
- **Training, data, evaluation, packaging and video scripts**: run by hand, from files to
  files.
- **Mozc itself and the Windows Installer engine**: external, as the code uses them.

`PROJECT.json` gives the reason for each component.

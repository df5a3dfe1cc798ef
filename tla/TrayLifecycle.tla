--------------------------- MODULE TrayLifecycle ---------------------------
(***************************************************************************)
(* The notification-area controller, which starts, stops and restarts the  *)
(* resident ranker.  Its threads share state, server_proc and              *)
(* _settings_signature without a lock:                                     *)
(*                                                                         *)
(*   "ui"       the icon's message loop: toggle, the menu, quit;           *)
(*   "setup"    starts the ranker with the icon, when it is to start on;   *)
(*   "watcher"  polls the settings file and restarts a running ranker;     *)
(*   launchers  one for each start: the process, then its readiness;       *)
(*   monitors   one for each successful start: waits for the process.      *)
(*                                                                         *)
(* A start has an identity, shared by its launcher, its ranker process and *)
(* its monitor.  The settings UI is a process of its own.                  *)
(***************************************************************************)
EXTENDS Naturals, FiniteSets

CONSTANTS
  Starts,       \* identities of starts: a bound on those under way at a time
  StartOn,      \* whether the tray starts with the ranker on
  OpenMayFail,  \* whether starting a window's process may fail
  MaxSaves,     \* bound on how often the settings are saved
  NoProc        \* server_proc is None

Starters == {"ui", "setup", "watcher"}

ASSUME TrayAssumption ==
  /\ IsFiniteSet(Starts) /\ Starts \cap Starters = {}
  /\ StartOn \in BOOLEAN /\ OpenMayFail \in BOOLEAN
  /\ MaxSaves \in Nat
  /\ NoProc \notin Starts

Versions == 0..MaxSaves

VARIABLES
  state,        \* what the tray shows: "off", "loading", "on" or "error"
  server_proc,  \* the process the tray owns, or NoProc
  signature,    \* _settings_signature: the settings version last looked at
  disk,         \* the version of the settings on disk
  proc,         \* each ranker process: "loading", "serving", or "dead" when
                \* there is none
  uses,         \* the settings version each process read as it started
  pc,           \* where each starter is
  launcher,     \* where each launch thread is
  monitor,      \* where each monitor thread is
  watched,      \* the process each monitor waits for
  victim,       \* the process a thread is terminating
  exited,       \* the tray has quit
  skipped,      \* history: the watcher noted new settings without a restart
  disturbed     \* history: two threads started or stopped the ranker at once,
                \* or an error was shown over a live ranker

tray == <<state, server_proc, signature>>
world == <<disk, proc, uses>>
history == <<skipped, disturbed>>
vars == <<tray, world, pc, launcher, monitor, watched, victim, exited, history>>

Killers == Starters \cup Starts

Init ==
  /\ state = "off"
  /\ server_proc = NoProc
  /\ signature = 0
  /\ disk = 0
  /\ proc = [l \in Starts |-> "dead"]
  /\ uses = [l \in Starts |-> 0]
  /\ pc = [t \in Starters |-> IF t = "setup" /\ StartOn THEN "check" ELSE "idle"]
  /\ launcher = [l \in Starts |-> "none"]
  /\ monitor = [l \in Starts |-> "none"]
  /\ watched = [l \in Starts |-> NoProc]
  /\ victim = [t \in Killers |-> NoProc]
  /\ exited = FALSE
  /\ skipped = FALSE
  /\ disturbed = FALSE

\* An identity no thread and no process uses any more.
Free ==
  {l \in Starts : /\ proc[l] = "dead"
                  /\ launcher[l] = "none" /\ monitor[l] = "none"
                  /\ server_proc # l
                  /\ \A k \in Starts : watched[k] # l
                  /\ \A t \in Killers : victim[t] # l}
Starting == {t \in Starters : pc[t] \in {"restart", "restart_take", "restart_end",
                                         "check", "begin"}}
\* One more start is within the bound.
Room == Cardinality(Free) > Cardinality(Starting)

Serving == {l \in Starts : proc[l] = "serving"}
Alive == {l \in Starts : proc[l] \in {"loading", "serving"}}

\* The watcher has been told to stop.
Quitting == pc["ui"] \in {"quit_take", "quit_end", "gone"}

\* The threads that are starting or stopping the ranker.
AtWork == {t \in Starters : pc[t] \notin {"idle", "gone"}}
          \cup {l \in Starts : launcher[l] # "none"}

Disturb(when) ==
  /\ disturbed' = (disturbed \/ when)
  /\ skipped' = skipped
-----------------------------------------------------------------------------
(***************************************************************************)
(* _set_state shows a state; _terminate_owned_server: a thread takes the   *)
(* process out of server_proc, and ends it.                                *)
(***************************************************************************)
_set_state(shown) == state' = shown

TakeProc(t) ==
  /\ victim' = [victim EXCEPT ![t] = server_proc]
  /\ server_proc' = NoProc

EndProc(t) ==
  /\ proc' = [l \in Starts |-> IF l = victim[t] /\ l \in Alive THEN "dead"
                               ELSE proc[l]]
  /\ victim' = [victim EXCEPT ![t] = NoProc]
-----------------------------------------------------------------------------
(***************************************************************************)
(* The menu.                                                               *)
(***************************************************************************)
_toggle_enabled == state # "loading"

Toggle ==
  /\ pc["ui"] = "idle"
  /\ _toggle_enabled
  /\ \/ state = "on" /\ pc' = [pc EXCEPT !["ui"] = "stop_take"]
     \/ state # "on" /\ Room /\ pc' = [pc EXCEPT !["ui"] = "check"]
  /\ Disturb(AtWork # {})
  /\ UNCHANGED <<tray, world, launcher, monitor, watched, victim, exited>>

\* open_settings, show_onboarding: the window's process cannot be started.
OpenFails ==
  /\ OpenMayFail
  /\ pc["ui"] = "idle"
  /\ _set_state("error")
  /\ Disturb(AtWork # {} \/ Alive # {})
  /\ UNCHANGED <<server_proc, signature, world, pc, launcher, monitor, watched,
                 victim, exited>>

Quit ==
  /\ pc["ui"] = "idle"
  /\ pc' = [pc EXCEPT !["ui"] = "quit_take"]
  /\ Disturb(AtWork # {})
  /\ UNCHANGED <<tray, world, launcher, monitor, watched, victim, exited>>

\* _stop_server, and quit_app, step by step.
StopTake ==
  \E next \in {<<"stop_take", "stop_end">>, <<"quit_take", "quit_end">>} :
    /\ pc["ui"] = next[1]
    /\ TakeProc("ui")
    /\ pc' = [pc EXCEPT !["ui"] = next[2]]
    /\ UNCHANGED <<state, signature, world, launcher, monitor, watched, exited,
                   history>>

StopEnd ==
  /\ pc["ui"] \in {"stop_end", "quit_end"}
  /\ EndProc("ui")
  /\ exited' = (pc["ui"] = "quit_end")
  /\ pc' = [pc EXCEPT !["ui"] = IF exited' THEN "gone" ELSE "stop_set"]
  /\ UNCHANGED <<tray, disk, uses, launcher, monitor, watched, history>>

StopSet ==
  /\ pc["ui"] = "stop_set"
  /\ _set_state("off")
  /\ pc' = [pc EXCEPT !["ui"] = "idle"]
  /\ UNCHANGED <<server_proc, signature, world, launcher, monitor, watched,
                 victim, exited, history>>
-----------------------------------------------------------------------------
(***************************************************************************)
(* _start_server, on the thread that asks for it.                          *)
(***************************************************************************)
\* Another ranker's pipe is there: an error.  A ranker that is serving a client
\* has no pipe to offer at that moment.
CheckPipe(t) ==
  /\ pc[t] = "check"
  /\ \/ /\ Serving # {}
        /\ _set_state("error")
        /\ pc' = [pc EXCEPT ![t] = "idle"]
     \/ /\ state' = state
        /\ pc' = [pc EXCEPT ![t] = "begin"]
  /\ UNCHANGED <<server_proc, signature, world, launcher, monitor, watched,
                 victim, exited, history>>

\* The settings are read, and a launch thread started.  Identities are names: any
\* free one will do, and Room has seen to it that there is one.
BeginStart(t) ==
  /\ pc[t] = "begin" /\ Free # {}
  /\ _set_state("loading")
  /\ signature' = disk
  /\ launcher' = [launcher EXCEPT ![CHOOSE l \in Free : TRUE] = "popen"]
  /\ pc' = [pc EXCEPT ![t] = "idle"]
  /\ UNCHANGED <<server_proc, world, monitor, watched, victim, exited, history>>
-----------------------------------------------------------------------------
(***************************************************************************)
(* launch.                                                                 *)
(***************************************************************************)
Popen(l) ==
  /\ launcher[l] = "popen"
  /\ proc' = [proc EXCEPT ![l] = "loading"]
  /\ uses' = [uses EXCEPT ![l] = disk]
  /\ server_proc' = l
  /\ launcher' = [launcher EXCEPT ![l] = "poll"]
  /\ UNCHANGED <<state, signature, disk, pc, monitor, watched, victim, exited,
                 history>>

\* Whatever ranker answers the probe.
Probe(l) ==
  /\ launcher[l] = "poll"
  /\ server_proc # NoProc /\ proc[server_proc] # "dead"
  /\ Serving # {}
  /\ launcher' = [launcher EXCEPT ![l] = "probed"]
  /\ UNCHANGED <<tray, world, pc, monitor, watched, victim, exited, history>>

\* Mutant: a ranker that is on is not watched.
TurnOnUnwatched(l) ==
  /\ launcher[l] = "probed"
  /\ _set_state("on")
  /\ launcher' = [launcher EXCEPT ![l] = "none"]
  /\ UNCHANGED <<server_proc, signature, world, pc, monitor, watched, victim,
                 exited, history>>

TurnOn(l) ==
  /\ launcher[l] = "probed"
  /\ _set_state("on")
  /\ launcher' = [launcher EXCEPT ![l] = "none"]
  /\ monitor' = [monitor EXCEPT ![l] = "start"]
  /\ UNCHANGED <<server_proc, signature, world, pc, watched, victim, exited,
                 history>>

\* Mutant: a launch that has failed leaves its process alone.
LaunchFailsKeeping(l) ==
  /\ launcher[l] \in {"popen", "poll"}
  /\ launcher' = [launcher EXCEPT ![l] = "fail_end"]
  /\ UNCHANGED <<tray, world, pc, monitor, watched, victim, exited, history>>

\* No process could be started; or the one server_proc names is dead, or there is
\* none any more; or 120 seconds are over.
LaunchFails(l) ==
  /\ launcher[l] \in {"popen", "poll"}
  /\ launcher' = [launcher EXCEPT ![l] = "fail_end"]
  /\ TakeProc(l)
  /\ UNCHANGED <<state, signature, world, pc, monitor, watched, exited, history>>

FailEnd(l) ==
  /\ launcher[l] = "fail_end"
  /\ EndProc(l)
  /\ launcher' = [launcher EXCEPT ![l] = "fail_set"]
  /\ UNCHANGED <<tray, disk, uses, pc, monitor, watched, exited, history>>

\* Mutant: a failed launch only notifies the user.
FailSilently(l) ==
  /\ launcher[l] = "fail_set"
  /\ launcher' = [launcher EXCEPT ![l] = "none"]
  /\ UNCHANGED <<tray, world, pc, monitor, watched, victim, exited, history>>

FailSet(l) ==
  /\ launcher[l] = "fail_set"
  /\ _set_state("error")
  /\ launcher' = [launcher EXCEPT ![l] = "none"]
  /\ UNCHANGED <<server_proc, signature, world, pc, monitor, watched, victim,
                 exited, history>>
-----------------------------------------------------------------------------
(***************************************************************************)
(* The monitor waits for the process server_proc names as it starts.       *)
(***************************************************************************)
\* Mutant: the monitor does not look whether there is a process.
MonitorStartUnchecked(l) ==
  /\ monitor[l] = "start"
  /\ watched' = [watched EXCEPT ![l] = server_proc]
  /\ monitor' = [monitor EXCEPT ![l] = "wait"]
  /\ UNCHANGED <<tray, world, pc, launcher, victim, exited, history>>

MonitorStart(l) ==
  /\ monitor[l] = "start"
  /\ watched' = [watched EXCEPT ![l] = server_proc]
  /\ monitor' = [monitor EXCEPT ![l] = IF server_proc = NoProc THEN "none"
                                       ELSE "wait"]
  /\ UNCHANGED <<tray, world, pc, launcher, victim, exited, history>>

MonitorWakes(l) ==
  /\ monitor[l] = "wait"
  /\ proc[watched[l]] = "dead"
  /\ watched' = [watched EXCEPT ![l] = NoProc]
  /\ monitor' = [monitor EXCEPT ![l] = IF state = "on" THEN "report" ELSE "none"]
  /\ UNCHANGED <<tray, world, pc, launcher, victim, exited, history>>

MonitorReports(l) ==
  /\ monitor[l] = "report"
  /\ _set_state("error")
  /\ monitor' = [monitor EXCEPT ![l] = "none"]
  /\ Disturb(AtWork # {} \/ Alive # {})
  /\ UNCHANGED <<server_proc, signature, world, pc, launcher, watched, victim,
                 exited>>
-----------------------------------------------------------------------------
(***************************************************************************)
(* The settings watcher.                                                   *)
(***************************************************************************)
\* Mutant: new settings are noted, and that is all.
SeeSettingsOnly ==
  /\ pc["watcher"] = "idle" /\ ~Quitting
  /\ disk # signature
  /\ signature' = disk
  /\ UNCHANGED <<state, server_proc, world, pc, launcher, monitor, watched,
                 victim, exited, history>>

\* New settings are noted; the ranker is restarted if the tray shows it on.
SeeSettings ==
  /\ pc["watcher"] = "idle" /\ ~Quitting
  /\ disk # signature
  /\ signature' = disk
  /\ \/ /\ state = "on"
        /\ Room
        /\ pc' = [pc EXCEPT !["watcher"] = "restart"]
        /\ Disturb(AtWork # {})
     \/ /\ state # "on"
        /\ skipped' = TRUE
        /\ UNCHANGED <<pc, disturbed>>
  /\ UNCHANGED <<state, server_proc, world, launcher, monitor, watched, victim,
                 exited>>

RestartSet ==
  /\ pc["watcher"] = "restart"
  /\ _set_state("loading")
  /\ pc' = [pc EXCEPT !["watcher"] = "restart_take"]
  /\ UNCHANGED <<server_proc, signature, world, launcher, monitor, watched,
                 victim, exited, history>>

RestartTake ==
  /\ pc["watcher"] = "restart_take"
  /\ TakeProc("watcher")
  /\ pc' = [pc EXCEPT !["watcher"] = "restart_end"]
  /\ UNCHANGED <<state, signature, world, launcher, monitor, watched, exited,
                 history>>

RestartEnd ==
  /\ pc["watcher"] = "restart_end"
  /\ EndProc("watcher")
  /\ pc' = [pc EXCEPT !["watcher"] = "check"]
  /\ UNCHANGED <<tray, disk, uses, launcher, monitor, watched, exited, history>>
-----------------------------------------------------------------------------
(***************************************************************************)
(* The rest of the world: the settings UI, and the ranker processes.       *)
(***************************************************************************)
Save ==
  /\ disk < MaxSaves
  /\ disk' = disk + 1
  /\ UNCHANGED <<tray, proc, uses, pc, launcher, monitor, watched, victim,
                 exited, history>>

\* A loaded ranker creates the pipe's one instance.  While another has it, it
\* fails and exits; but the other lets go of it between two clients, and then it
\* is the other that exits.
Ready(l) ==
  /\ proc[l] = "loading"
  /\ \E winner \in IF Serving = {} THEN {l} ELSE Serving \cup {l} :
       proc' = [k \in Starts |->
                  IF k = winner THEN "serving"
                  ELSE IF k \in Serving \cup {l} THEN "dead" ELSE proc[k]]
  /\ UNCHANGED <<tray, disk, uses, pc, launcher, monitor, watched, victim,
                 exited, history>>

Crash(l) ==
  /\ l \in Alive
  /\ proc' = [proc EXCEPT ![l] = "dead"]
  /\ UNCHANGED <<tray, disk, uses, pc, launcher, monitor, watched, victim,
                 exited, history>>
-----------------------------------------------------------------------------
UiStep == StopTake \/ StopEnd \/ StopSet
StartStep(t) == CheckPipe(t) \/ BeginStart(t)
WatcherStep == SeeSettings \/ RestartSet \/ RestartTake \/ RestartEnd
LaunchStep(l) ==
  Popen(l) \/ Probe(l) \/ TurnOn(l) \/ LaunchFails(l) \/ FailEnd(l) \/ FailSet(l)
MonitorStep(l) == MonitorStart(l) \/ MonitorWakes(l) \/ MonitorReports(l)

\* The model ends where the tray does.
Next ==
  /\ ~exited
  /\ \/ Toggle \/ OpenFails \/ Quit \/ UiStep \/ WatcherStep
     \/ \E t \in Starters : StartStep(t)
     \/ \E l \in Starts : LaunchStep(l) \/ MonitorStep(l)
     \/ Save
     \/ \E l \in Starts : Ready(l) \/ Crash(l)

Spec == Init /\ [][Next]_vars

\* Every thread of the tray runs; the user, the settings and the rankers owe
\* nothing.
FairSpec ==
  /\ Spec
  /\ WF_vars(~exited /\ UiStep)
  /\ WF_vars(~exited /\ WatcherStep)
  /\ \A t \in Starters : WF_vars(~exited /\ StartStep(t))
  /\ \A l \in Starts : WF_vars(~exited /\ LaunchStep(l))
                       /\ WF_vars(~exited /\ MonitorStep(l))
-----------------------------------------------------------------------------
(***************************************************************************)
(* Properties.                                                             *)
(***************************************************************************)
\* Type correctness of the tray's state; a monitor that waits has a process.
TypeOK ==
  /\ state \in {"off", "loading", "on", "error"}
  /\ server_proc \in Starts \cup {NoProc}
  /\ signature \in Versions /\ disk \in Versions
  /\ proc \in [Starts -> {"loading", "serving", "dead"}]
  /\ uses \in [Starts -> Versions]
  /\ pc \in [Starters -> {"idle", "check", "begin", "restart", "restart_take",
                          "restart_end", "stop_take", "stop_end", "stop_set",
                          "quit_take", "quit_end", "gone"}]
  /\ launcher \in [Starts -> {"none", "popen", "poll", "probed", "fail_end",
                              "fail_set"}]
  /\ monitor \in [Starts -> {"none", "start", "wait", "report"}]
  /\ watched \in [Starts -> Starts \cup {NoProc}]
  /\ \A l \in Starts : (monitor[l] = "wait") <=> (watched[l] # NoProc)
  /\ victim \in [Killers -> Starts \cup {NoProc}]
  /\ exited \in BOOLEAN /\ skipped \in BOOLEAN /\ disturbed \in BOOLEAN

\* As long as the tray's threads take turns, and no error is shown over a live
\* ranker, every ranker that lives is the one the tray owns, or is being ended:
\* no start that fails, restart or stop loses a process; and OFF is shown only
\* when none lives.
RankerIsOwned ==
  ~disturbed /\ ~exited
    => /\ Alive \subseteq {server_proc} \cup {victim[t] : t \in Killers}
       /\ state = "off" => Alive = {}

\* ... and a ranker runs on older settings than the tray has seen only if the
\* watcher saw them while the tray did not show it on: a save while a ranker is
\* on, or being restarted for an earlier save, is not lost.
StaleOnlyIfSkipped ==
  ~disturbed /\ ~skipped /\ state = "on" /\ server_proc # NoProc
    /\ pc["watcher"] = "idle"
    => uses[server_proc] >= signature

\* The menu is not inert for ever: every loading ends, in on, off or error.
LoadingEnds == (state = "loading") ~> (state # "loading" \/ exited)

\* Once nothing serves and nothing loads, an undisturbed tray does not go on
\* showing ON.
DeadServerNoticed ==
  (state = "on" /\ Alive = {} /\ ~disturbed)
    ~> (state # "on" \/ disturbed \/ exited)

\* The status window says of OFF that the model is stopped, and uses no memory:
\* so it is at least once nothing is being started or stopped any more.
OffMeansStopped == state = "off" /\ AtWork = {} => Alive = {}

\* The settings window says that a ranker which is ON is restarted, to run on what
\* was saved.
SettingsTakeEffect ==
  \A l \in Starts :
    (state = "on" /\ server_proc = l /\ proc[l] = "serving" /\ uses[l] < disk)
      ~> (state # "on" \/ server_proc # l \/ proc[l] # "serving" \/ exited)
=============================================================================

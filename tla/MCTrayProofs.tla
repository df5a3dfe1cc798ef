---------------------------- MODULE MCTrayProofs -----------------------------
(*****************************************************************************)
(* What MCTrayLifecycle checks, for all constants: the tray owns the rankers *)
(* that live, for any number of starts and of saves; the native switch owns *)
(* its ranker, for any number of starts; a handoff leaves nothing of the old *)
(* program but what escaped it, for any number of processes; the product's  *)
(* files are whole, for any number of writers, whatever was found in        *)
(* settings.json and whatever a user sets; and an installation is whole, or *)
(* has been undone.                                                         *)
(*****************************************************************************)
EXTENDS MCTrayLifecycle, Integers, RecursionProofs, SequenceTheorems, TLAPS

\* As long as nothing disturbs them, the tray's threads take turns: one at most is
\* starting or stopping the ranker.
OneAtWork == \A x, y \in AtWork : x = y

\* Where the live rankers are, by what that thread is about to do.
Ending ==
  \/ pc["ui"] \in {"stop_end", "quit_end"}
  \/ pc["watcher"] = "restart_end"
  \/ \E l \in Starts : launcher[l] = "fail_end"
Whereabouts ==
  /\ state = "off" => Alive = {}
  /\ state = "error" /\ AtWork = {} => Alive = {}
  /\ \A t \in Starters : pc[t] \in {"check", "begin", "stop_set"} => Alive = {}
  /\ \A l \in Starts : launcher[l] \in {"popen", "fail_set"} => Alive = {}
  /\ pc["ui"] \in {"stop_end", "quit_end"} => Alive \subseteq {victim["ui"]}
  /\ pc["watcher"] = "restart_end" => Alive \subseteq {victim["watcher"]}
  /\ \A l \in Starts : launcher[l] = "fail_end" => Alive \subseteq {victim[l]}
  /\ ~Ending => Alive \subseteq {server_proc}

\* The tray shows that it is launching; and what it launched, or shows on, has
\* read settings as new as those the watcher has seen.
Launching == \A l \in Starts : launcher[l] # "none" => state = "loading"
Launched  == state = "on" \/ \E l \in Starts : launcher[l] \in {"poll", "probed"}
UpToDate  ==
  ~skipped /\ Launched /\ server_proc # NoProc /\ pc["watcher"] = "idle"
    => uses[server_proc] >= signature

\* A start is watched only once it is launched.
Unwatched == \A l \in Starts : launcher[l] # "none" => monitor[l] = "none"

IndInv ==
  /\ TypeOK
  /\ Unwatched
  /\ signature <= disk
  /\ ~disturbed => OneAtWork /\ Whereabouts /\ Launching /\ UpToDate
-----------------------------------------------------------------------------
(* The steps. *)

LEMMA ToggleStep ==
  ASSUME IndInv, ~exited, Toggle
  PROVE  IndInv'
<1> USE TrayAssumption
    DEF IndInv, TypeOK, Starters, Killers, Versions, Toggle, Disturb, _toggle_enabled, tray, world, history
<1>1. TypeOK'
  OBVIOUS
<1>2. signature' <= disk' /\ Unwatched'
  BY DEF Unwatched
<1>3. ASSUME ~disturbed'
      PROVE  OneAtWork' /\ Whereabouts' /\ Launching' /\ UpToDate'
  <2> USE <1>3
  <2>1. OneAtWork /\ Whereabouts /\ Launching /\ UpToDate
    OBVIOUS
  <2>2. OneAtWork'
    <3>1. AtWork = {}
      BY <2>1
    <3>2. AtWork' = {"ui"}
      BY <3>1 DEF AtWork
    <3>3. QED
      BY <3>2 DEF OneAtWork
  <2>3. Whereabouts'
    <3>1. AtWork = {}
      BY <2>1
    <3>2. ~Ending /\ ~Ending' /\ Alive' = Alive
      BY <3>1 DEF Ending, AtWork, Alive
    <3>3. pc'["ui"] = "check" => Alive = {}
      BY <2>1, <3>1 DEF Whereabouts
    <3>4. QED
      BY <2>1, <3>1, <3>2, <3>3 DEF Whereabouts, AtWork
  <2>4. Launching'
    BY <2>1 DEF OneAtWork, AtWork, Launching
  <2>5. UpToDate'
    BY <2>1 DEF OneAtWork, AtWork, UpToDate, Launched, Launching
  <2>6. QED
    BY <2>2, <2>3, <2>4, <2>5
<1>4. QED
  BY <1>1, <1>2, <1>3

LEMMA OpenFailsStep ==
  ASSUME IndInv, ~exited, OpenFails
  PROVE  IndInv'
<1> USE TrayAssumption
    DEF IndInv, TypeOK, Starters, Killers, Versions, OpenFails, _set_state, Disturb, tray, world, history
<1>1. TypeOK'
  OBVIOUS
<1>2. signature' <= disk' /\ Unwatched'
  BY DEF Unwatched
<1>3. ASSUME ~disturbed'
      PROVE  OneAtWork' /\ Whereabouts' /\ Launching' /\ UpToDate'
  <2> USE <1>3
  <2>1. OneAtWork /\ Whereabouts /\ Launching /\ UpToDate
    OBVIOUS
  <2>2. OneAtWork'
    BY <2>1 DEF OneAtWork, AtWork
  <2>3. Whereabouts'
    BY <2>1 DEF OneAtWork, AtWork, Whereabouts, Ending, Alive, Launching
  <2>4. Launching'
    BY <2>1 DEF OneAtWork, AtWork, Launching
  <2>5. UpToDate'
    BY <2>1 DEF OneAtWork, AtWork, UpToDate, Launched, Launching
  <2>6. QED
    BY <2>2, <2>3, <2>4, <2>5
<1>4. QED
  BY <1>1, <1>2, <1>3

LEMMA QuitStep ==
  ASSUME IndInv, ~exited, Quit
  PROVE  IndInv'
<1> USE TrayAssumption
    DEF IndInv, TypeOK, Starters, Killers, Versions, Quit, Disturb, tray, world, history
<1>1. TypeOK'
  OBVIOUS
<1>2. signature' <= disk' /\ Unwatched'
  BY DEF Unwatched
<1>3. ASSUME ~disturbed'
      PROVE  OneAtWork' /\ Whereabouts' /\ Launching' /\ UpToDate'
  <2> USE <1>3
  <2>1. OneAtWork /\ Whereabouts /\ Launching /\ UpToDate
    OBVIOUS
  <2>2. OneAtWork'
    BY <2>1 DEF OneAtWork, AtWork
  <2>3. Whereabouts'
    BY <2>1 DEF OneAtWork, AtWork, Whereabouts, Ending, Alive, Launching
  <2>4. Launching'
    BY <2>1 DEF OneAtWork, AtWork, Launching
  <2>5. UpToDate'
    BY <2>1 DEF OneAtWork, AtWork, UpToDate, Launched, Launching
  <2>6. QED
    BY <2>2, <2>3, <2>4, <2>5
<1>4. QED
  BY <1>1, <1>2, <1>3

LEMMA StopTakeStep ==
  ASSUME IndInv, ~exited, StopTake
  PROVE  IndInv'
<1> USE TrayAssumption
    DEF IndInv, TypeOK, Starters, Killers, Versions, StopTake, TakeProc, tray, world, history
<1>1. TypeOK'
  OBVIOUS
<1>2. signature' <= disk' /\ Unwatched'
  BY DEF Unwatched
<1>3. ASSUME ~disturbed'
      PROVE  OneAtWork' /\ Whereabouts' /\ Launching' /\ UpToDate'
  <2> USE <1>3
  <2>1. OneAtWork /\ Whereabouts /\ Launching /\ UpToDate
    OBVIOUS
  <2>2. OneAtWork'
    BY <2>1 DEF OneAtWork, AtWork
  <2>3. Whereabouts'
    <3>0. pc["ui"] \in {"stop_take", "quit_take"} /\ "ui" \in AtWork
      BY DEF AtWork
    <3>1. /\ \A t \in Starters \ {"ui"} : pc[t] \in {"idle", "gone"}
          /\ \A k \in Starts \ {"ui"} : launcher[k] = "none"
      BY <2>1, <3>0 DEF OneAtWork, AtWork
    <3>2. ~Ending /\ Alive \subseteq {server_proc}
      BY <2>1, <3>1 DEF Whereabouts, Ending
    <3>3. Alive' = Alive /\ victim'["ui"] = server_proc
      BY DEF Alive
    <3>4. QED
      BY <2>1, <3>1, <3>2, <3>3 DEF Whereabouts, Ending, AtWork
  <2>4. Launching'
    BY <2>1 DEF OneAtWork, AtWork, Launching
  <2>5. UpToDate'
    BY <2>1 DEF OneAtWork, AtWork, UpToDate, Launched, Launching
  <2>6. QED
    BY <2>2, <2>3, <2>4, <2>5
<1>4. QED
  BY <1>1, <1>2, <1>3

LEMMA StopEndStep ==
  ASSUME IndInv, ~exited, StopEnd
  PROVE  IndInv'
<1> USE TrayAssumption
    DEF IndInv, TypeOK, Starters, Killers, Versions, StopEnd, EndProc, tray, world, history
<1>1. TypeOK'
  OBVIOUS
<1>2. signature' <= disk' /\ Unwatched'
  BY DEF Unwatched
<1>3. ASSUME ~disturbed'
      PROVE  OneAtWork' /\ Whereabouts' /\ Launching' /\ UpToDate'
  <2> USE <1>3
  <2>1. OneAtWork /\ Whereabouts /\ Launching /\ UpToDate
    OBVIOUS
  <2>2. OneAtWork'
    BY <2>1 DEF OneAtWork, AtWork
  <2>3. Whereabouts'
    BY <2>1 DEF OneAtWork, AtWork, Whereabouts, Ending, Alive, Launching
  <2>4. Launching'
    BY <2>1 DEF OneAtWork, AtWork, Launching
  <2>5. UpToDate'
    BY <2>1 DEF OneAtWork, AtWork, UpToDate, Launched, Launching
  <2>6. QED
    BY <2>2, <2>3, <2>4, <2>5
<1>4. QED
  BY <1>1, <1>2, <1>3

LEMMA StopSetStep ==
  ASSUME IndInv, ~exited, StopSet
  PROVE  IndInv'
<1> USE TrayAssumption
    DEF IndInv, TypeOK, Starters, Killers, Versions, StopSet, _set_state, tray, world, history
<1>1. TypeOK'
  OBVIOUS
<1>2. signature' <= disk' /\ Unwatched'
  BY DEF Unwatched
<1>3. ASSUME ~disturbed'
      PROVE  OneAtWork' /\ Whereabouts' /\ Launching' /\ UpToDate'
  <2> USE <1>3
  <2>1. OneAtWork /\ Whereabouts /\ Launching /\ UpToDate
    OBVIOUS
  <2>2. OneAtWork'
    BY <2>1 DEF OneAtWork, AtWork
  <2>3. Whereabouts'
    BY <2>1 DEF OneAtWork, AtWork, Whereabouts, Ending, Alive, Launching
  <2>4. Launching'
    <3>1. /\ \A t \in Starters \ {"ui"} : pc[t] \in {"idle", "gone"}
          /\ \A k \in Starts \ {"ui"} : launcher[k] = "none"
      BY <2>1 DEF OneAtWork, AtWork
    <3>2. QED
      BY <2>1, <3>1 DEF Launching
  <2>5. UpToDate'
    BY <2>1 DEF OneAtWork, AtWork, UpToDate, Launched, Launching
  <2>6. QED
    BY <2>2, <2>3, <2>4, <2>5
<1>4. QED
  BY <1>1, <1>2, <1>3

LEMMA CheckPipeStep ==
  ASSUME IndInv, ~exited, NEW t \in Starters, CheckPipe(t)
  PROVE  IndInv'
<1> USE TrayAssumption
    DEF IndInv, TypeOK, Starters, Killers, Versions, CheckPipe, _set_state, tray, world, history
<1>1. TypeOK'
  OBVIOUS
<1>2. signature' <= disk' /\ Unwatched'
  BY DEF Unwatched
<1>3. ASSUME ~disturbed'
      PROVE  OneAtWork' /\ Whereabouts' /\ Launching' /\ UpToDate'
  <2> USE <1>3
  <2>1. OneAtWork /\ Whereabouts /\ Launching /\ UpToDate
    OBVIOUS
  <2>2. OneAtWork'
    BY <2>1 DEF OneAtWork, AtWork
  <2>3. Whereabouts'
    BY <2>1 DEF OneAtWork, AtWork, Whereabouts, Ending, Alive, Launching
  <2>4. Launching'
    <3>1. /\ \A u \in Starters \ {t} : pc[u] \in {"idle", "gone"}
          /\ \A k \in Starts \ {t} : launcher[k] = "none"
      BY <2>1 DEF OneAtWork, AtWork
    <3>2. QED
      BY <2>1, <3>1 DEF Launching
  <2>5. UpToDate'
    <3>1. /\ \A u \in Starters \ {t} : pc[u] \in {"idle", "gone"}
          /\ \A k \in Starts \ {t} : launcher[k] = "none"
      BY <2>1 DEF OneAtWork, AtWork
    <3>2. state' = "on" => state = "on"
      OBVIOUS
    <3>3. QED
      BY <2>1, <3>1, <3>2 DEF UpToDate, Launched
  <2>6. QED
    BY <2>2, <2>3, <2>4, <2>5
<1>4. QED
  BY <1>1, <1>2, <1>3

LEMMA BeginStartStep ==
  ASSUME IndInv, ~exited, NEW t \in Starters, BeginStart(t)
  PROVE  IndInv'
<1> USE TrayAssumption
    DEF IndInv, TypeOK, Starters, Killers, Versions, _set_state, tray, world, history
<1>1. PICK l \in Free :
        /\ pc[t] = "begin" /\ pc' = [pc EXCEPT ![t] = "idle"]
        /\ launcher' = [launcher EXCEPT ![l] = "popen"]
        /\ state' = "loading" /\ signature' = disk
        /\ UNCHANGED <<server_proc, disk, proc, uses, monitor, watched, victim, exited,
                       skipped, disturbed>>
  BY DEF BeginStart
<1>2. l \in Starts /\ launcher[l] = "none" /\ monitor[l] = "none"
  BY DEF Free
<1>3. TypeOK'
  BY <1>1, <1>2
<1>4. signature' <= disk' /\ Unwatched'
  BY <1>1, <1>2 DEF Unwatched
<1>5. ASSUME ~disturbed'
      PROVE  OneAtWork' /\ Whereabouts' /\ Launching' /\ UpToDate'
  <2> USE <1>1, <1>2, <1>5
  <2>1. OneAtWork /\ Whereabouts /\ Launching /\ UpToDate
    OBVIOUS
  <2>2. t \in AtWork
    BY DEF AtWork
  <2>3. /\ \A u \in Starters \ {t} : pc[u] \in {"idle", "gone"}
        /\ \A k \in Starts : launcher[k] = "none"
    <3>1. \A u \in Starters : pc[u] \notin {"idle", "gone"} => u = t
      BY <2>1, <2>2 DEF OneAtWork, AtWork
    <3>2. \A k \in Starts : launcher[k] # "none" => k = t
      BY <2>1, <2>2 DEF OneAtWork, AtWork
    <3>3. QED
      BY <3>1, <3>2
  <2>4. AtWork' = {l}
    BY <2>3 DEF AtWork
  <2>5. OneAtWork'
    BY <2>4 DEF OneAtWork
  <2>6. Alive = {} /\ Alive' = {}
    BY <2>1 DEF Whereabouts, Alive
  <2>7. Whereabouts' /\ Launching'
    BY <2>6 DEF Whereabouts, Launching
  <2>8. UpToDate'
    BY <2>3 DEF UpToDate, Launched
  <2>9. QED
    BY <2>5, <2>7, <2>8
<1>6. QED
  BY <1>3, <1>4, <1>5

LEMMA PopenStep ==
  ASSUME IndInv, ~exited, NEW l \in Starts, Popen(l)
  PROVE  IndInv'
<1> USE TrayAssumption
    DEF IndInv, TypeOK, Starters, Killers, Versions, Popen, tray, world, history
<1>1. TypeOK'
  OBVIOUS
<1>2. signature' <= disk' /\ Unwatched'
  BY DEF Unwatched
<1>3. ASSUME ~disturbed'
      PROVE  OneAtWork' /\ Whereabouts' /\ Launching' /\ UpToDate'
  <2> USE <1>3
  <2>1. OneAtWork /\ Whereabouts /\ Launching /\ UpToDate
    OBVIOUS
  <2>2. OneAtWork'
    BY <2>1 DEF OneAtWork, AtWork
  <2>3. Whereabouts'
    <3>1. /\ \A t \in Starters \ {l} : pc[t] \in {"idle", "gone"}
          /\ \A k \in Starts \ {l} : launcher[k] = "none"
      BY <2>1 DEF OneAtWork, AtWork
    <3>2. Alive' = {l} /\ server_proc' = l
      BY <2>1 DEF Whereabouts, Alive
    <3>3. QED
      BY <2>1, <3>1, <3>2 DEF Whereabouts, Ending, AtWork, Launching
  <2>4. Launching'
    BY <2>1 DEF OneAtWork, AtWork, Launching
  <2>5. UpToDate'
    BY <2>1 DEF OneAtWork, AtWork, UpToDate, Launched, Launching
  <2>6. QED
    BY <2>2, <2>3, <2>4, <2>5
<1>4. QED
  BY <1>1, <1>2, <1>3

LEMMA ProbeStep ==
  ASSUME IndInv, ~exited, NEW l \in Starts, Probe(l)
  PROVE  IndInv'
<1> USE TrayAssumption
    DEF IndInv, TypeOK, Starters, Killers, Versions, Probe, tray, world, history
<1>1. TypeOK'
  OBVIOUS
<1>2. signature' <= disk' /\ Unwatched'
  BY DEF Unwatched
<1>3. ASSUME ~disturbed'
      PROVE  OneAtWork' /\ Whereabouts' /\ Launching' /\ UpToDate'
  <2> USE <1>3
  <2>1. OneAtWork /\ Whereabouts /\ Launching /\ UpToDate
    OBVIOUS
  <2>2. OneAtWork'
    BY <2>1 DEF OneAtWork, AtWork
  <2>3. Whereabouts'
    BY <2>1 DEF OneAtWork, AtWork, Whereabouts, Ending, Alive, Launching
  <2>4. Launching'
    BY <2>1 DEF OneAtWork, AtWork, Launching
  <2>5. UpToDate'
    BY <2>1 DEF OneAtWork, AtWork, UpToDate, Launched, Launching
  <2>6. QED
    BY <2>2, <2>3, <2>4, <2>5
<1>4. QED
  BY <1>1, <1>2, <1>3

LEMMA TurnOnStep ==
  ASSUME IndInv, ~exited, NEW l \in Starts, TurnOn(l)
  PROVE  IndInv'
<1> USE TrayAssumption
    DEF IndInv, TypeOK, Starters, Killers, Versions, TurnOn, _set_state, tray, world, history
<1>1. TypeOK'
  BY DEF Unwatched
<1>2. signature' <= disk' /\ Unwatched'
  BY DEF Unwatched
<1>3. ASSUME ~disturbed'
      PROVE  OneAtWork' /\ Whereabouts' /\ Launching' /\ UpToDate'
  <2> USE <1>3
  <2>1. OneAtWork /\ Whereabouts /\ Launching /\ UpToDate
    OBVIOUS
  <2>2. OneAtWork'
    BY <2>1 DEF OneAtWork, AtWork
  <2>3. Whereabouts'
    BY <2>1 DEF OneAtWork, AtWork, Whereabouts, Ending, Alive, Launching
  <2>4. Launching'
    <3>1. /\ \A t \in Starters \ {l} : pc[t] \in {"idle", "gone"}
          /\ \A k \in Starts \ {l} : launcher[k] = "none"
      BY <2>1 DEF OneAtWork, AtWork
    <3>2. QED
      BY <2>1, <3>1 DEF Launching
  <2>5. UpToDate'
    BY <2>1 DEF OneAtWork, AtWork, UpToDate, Launched, Launching
  <2>6. QED
    BY <2>2, <2>3, <2>4, <2>5
<1>4. QED
  BY <1>1, <1>2, <1>3

LEMMA LaunchFailsStep ==
  ASSUME IndInv, ~exited, NEW l \in Starts, LaunchFails(l)
  PROVE  IndInv'
<1> USE TrayAssumption
    DEF IndInv, TypeOK, Starters, Killers, Versions, LaunchFails, TakeProc, tray, world, history
<1>1. TypeOK'
  OBVIOUS
<1>2. signature' <= disk' /\ Unwatched'
  BY DEF Unwatched
<1>3. ASSUME ~disturbed'
      PROVE  OneAtWork' /\ Whereabouts' /\ Launching' /\ UpToDate'
  <2> USE <1>3
  <2>1. OneAtWork /\ Whereabouts /\ Launching /\ UpToDate
    OBVIOUS
  <2>2. OneAtWork'
    BY <2>1 DEF OneAtWork, AtWork
  <2>3. Whereabouts'
    <3>1. /\ \A t \in Starters \ {l} : pc[t] \in {"idle", "gone"}
          /\ \A k \in Starts \ {l} : launcher[k] = "none"
      BY <2>1 DEF OneAtWork, AtWork
    <3>2. ~Ending /\ Alive \subseteq {server_proc}
      BY <2>1, <3>1 DEF Whereabouts, Ending
    <3>3. Alive' = Alive /\ victim'[l] = server_proc
      BY DEF Alive
    <3>4. QED
      BY <2>1, <3>1, <3>2, <3>3 DEF Whereabouts, Ending, AtWork
  <2>4. Launching'
    BY <2>1 DEF OneAtWork, AtWork, Launching
  <2>5. UpToDate'
    BY <2>1 DEF OneAtWork, AtWork, UpToDate, Launched, Launching
  <2>6. QED
    BY <2>2, <2>3, <2>4, <2>5
<1>4. QED
  BY <1>1, <1>2, <1>3

LEMMA FailEndStep ==
  ASSUME IndInv, ~exited, NEW l \in Starts, FailEnd(l)
  PROVE  IndInv'
<1> USE TrayAssumption
    DEF IndInv, TypeOK, Starters, Killers, Versions, FailEnd, EndProc, tray, world, history
<1>1. TypeOK'
  OBVIOUS
<1>2. signature' <= disk' /\ Unwatched'
  BY DEF Unwatched
<1>3. ASSUME ~disturbed'
      PROVE  OneAtWork' /\ Whereabouts' /\ Launching' /\ UpToDate'
  <2> USE <1>3
  <2>1. OneAtWork /\ Whereabouts /\ Launching /\ UpToDate
    OBVIOUS
  <2>2. OneAtWork'
    BY <2>1 DEF OneAtWork, AtWork
  <2>3. Whereabouts'
    BY <2>1 DEF OneAtWork, AtWork, Whereabouts, Ending, Alive, Launching
  <2>4. Launching'
    BY <2>1 DEF OneAtWork, AtWork, Launching
  <2>5. UpToDate'
    BY <2>1 DEF OneAtWork, AtWork, UpToDate, Launched, Launching
  <2>6. QED
    BY <2>2, <2>3, <2>4, <2>5
<1>4. QED
  BY <1>1, <1>2, <1>3

LEMMA FailSetStep ==
  ASSUME IndInv, ~exited, NEW l \in Starts, FailSet(l)
  PROVE  IndInv'
<1> USE TrayAssumption
    DEF IndInv, TypeOK, Starters, Killers, Versions, FailSet, _set_state, tray, world, history
<1>1. TypeOK'
  OBVIOUS
<1>2. signature' <= disk' /\ Unwatched'
  BY DEF Unwatched
<1>3. ASSUME ~disturbed'
      PROVE  OneAtWork' /\ Whereabouts' /\ Launching' /\ UpToDate'
  <2> USE <1>3
  <2>1. OneAtWork /\ Whereabouts /\ Launching /\ UpToDate
    OBVIOUS
  <2>2. OneAtWork'
    BY <2>1 DEF OneAtWork, AtWork
  <2>3. Whereabouts'
    BY <2>1 DEF OneAtWork, AtWork, Whereabouts, Ending, Alive, Launching
  <2>4. Launching'
    <3>1. /\ \A t \in Starters \ {l} : pc[t] \in {"idle", "gone"}
          /\ \A k \in Starts \ {l} : launcher[k] = "none"
      BY <2>1 DEF OneAtWork, AtWork
    <3>2. QED
      BY <2>1, <3>1 DEF Launching
  <2>5. UpToDate'
    BY <2>1 DEF OneAtWork, AtWork, UpToDate, Launched, Launching
  <2>6. QED
    BY <2>2, <2>3, <2>4, <2>5
<1>4. QED
  BY <1>1, <1>2, <1>3

LEMMA MonitorStartStep ==
  ASSUME IndInv, ~exited, NEW l \in Starts, MonitorStart(l)
  PROVE  IndInv'
<1> USE TrayAssumption
    DEF IndInv, TypeOK, Starters, Killers, Versions, MonitorStart, tray, world, history
<1>1. TypeOK'
  OBVIOUS
<1>2. signature' <= disk' /\ Unwatched'
  BY DEF Unwatched
<1>3. ASSUME ~disturbed'
      PROVE  OneAtWork' /\ Whereabouts' /\ Launching' /\ UpToDate'
  <2> USE <1>3
  <2>1. OneAtWork /\ Whereabouts /\ Launching /\ UpToDate
    OBVIOUS
  <2>2. OneAtWork'
    BY <2>1 DEF OneAtWork, AtWork
  <2>3. Whereabouts'
    BY <2>1 DEF OneAtWork, AtWork, Whereabouts, Ending, Alive, Launching
  <2>4. Launching'
    BY <2>1 DEF OneAtWork, AtWork, Launching
  <2>5. UpToDate'
    BY <2>1 DEF OneAtWork, AtWork, UpToDate, Launched, Launching
  <2>6. QED
    BY <2>2, <2>3, <2>4, <2>5
<1>4. QED
  BY <1>1, <1>2, <1>3

LEMMA MonitorWakesStep ==
  ASSUME IndInv, ~exited, NEW l \in Starts, MonitorWakes(l)
  PROVE  IndInv'
<1> USE TrayAssumption
    DEF IndInv, TypeOK, Starters, Killers, Versions, MonitorWakes, tray, world, history
<1>1. TypeOK'
  OBVIOUS
<1>2. signature' <= disk' /\ Unwatched'
  BY DEF Unwatched
<1>3. ASSUME ~disturbed'
      PROVE  OneAtWork' /\ Whereabouts' /\ Launching' /\ UpToDate'
  <2> USE <1>3
  <2>1. OneAtWork /\ Whereabouts /\ Launching /\ UpToDate
    OBVIOUS
  <2>2. OneAtWork'
    BY <2>1 DEF OneAtWork, AtWork
  <2>3. Whereabouts'
    BY <2>1 DEF OneAtWork, AtWork, Whereabouts, Ending, Alive, Launching
  <2>4. Launching'
    BY <2>1 DEF OneAtWork, AtWork, Launching
  <2>5. UpToDate'
    BY <2>1 DEF OneAtWork, AtWork, UpToDate, Launched, Launching
  <2>6. QED
    BY <2>2, <2>3, <2>4, <2>5
<1>4. QED
  BY <1>1, <1>2, <1>3

LEMMA MonitorReportsStep ==
  ASSUME IndInv, ~exited, NEW l \in Starts, MonitorReports(l)
  PROVE  IndInv'
<1> USE TrayAssumption
    DEF IndInv, TypeOK, Starters, Killers, Versions, MonitorReports, _set_state, Disturb, tray, world, history
<1>1. TypeOK'
  OBVIOUS
<1>2. signature' <= disk' /\ Unwatched'
  BY DEF Unwatched
<1>3. ASSUME ~disturbed'
      PROVE  OneAtWork' /\ Whereabouts' /\ Launching' /\ UpToDate'
  <2> USE <1>3
  <2>1. OneAtWork /\ Whereabouts /\ Launching /\ UpToDate
    OBVIOUS
  <2>2. OneAtWork'
    BY <2>1 DEF OneAtWork, AtWork
  <2>3. Whereabouts'
    <3>1. AtWork = {} /\ Alive = {} /\ Alive' = {}
      BY <2>1 DEF Alive
    <3>2. QED
      BY <3>1 DEF Whereabouts
  <2>4. Launching'
    BY <2>1 DEF OneAtWork, AtWork, Launching
  <2>5. UpToDate'
    BY <2>1 DEF OneAtWork, AtWork, UpToDate, Launched, Launching
  <2>6. QED
    BY <2>2, <2>3, <2>4, <2>5
<1>4. QED
  BY <1>1, <1>2, <1>3

LEMMA SeeSettingsStep ==
  ASSUME IndInv, ~exited, SeeSettings
  PROVE  IndInv'
<1> USE TrayAssumption
    DEF IndInv, TypeOK, Starters, Killers, Versions, SeeSettings, Disturb, tray, world, history
<1>1. TypeOK'
  <2>1. disturbed' \in BOOLEAN /\ skipped' \in BOOLEAN
    OBVIOUS
  <2>2. QED
    BY <2>1
<1>2. signature' <= disk' /\ Unwatched'
  BY DEF Unwatched
<1>3. ASSUME ~disturbed'
      PROVE  OneAtWork' /\ Whereabouts' /\ Launching' /\ UpToDate'
  <2> USE <1>3
  <2>1. OneAtWork /\ Whereabouts /\ Launching /\ UpToDate
    OBVIOUS
  <2>2. OneAtWork'
    <3>1. CASE state = "on"
      <4>1. AtWork = {}
        BY <3>1
      <4>2. AtWork' \subseteq {"watcher"}
        BY <3>1, <4>1 DEF AtWork
      <4>3. QED
        BY <4>2 DEF OneAtWork
    <3>2. CASE state # "on"
      <4>1. AtWork' = AtWork
        BY <3>2 DEF AtWork
      <4>2. QED
        BY <2>1, <4>1 DEF OneAtWork
    <3>3. QED
      BY <3>1, <3>2
  <2>3. Whereabouts'
    BY <2>1 DEF OneAtWork, AtWork, Whereabouts, Ending, Alive, Launching
  <2>4. Launching'
    BY <2>1 DEF OneAtWork, AtWork, Launching
  <2>5. UpToDate'
    BY <2>1 DEF OneAtWork, AtWork, UpToDate, Launched, Launching
  <2>6. QED
    BY <2>2, <2>3, <2>4, <2>5
<1>4. QED
  BY <1>1, <1>2, <1>3

LEMMA RestartSetStep ==
  ASSUME IndInv, ~exited, RestartSet
  PROVE  IndInv'
<1> USE TrayAssumption
    DEF IndInv, TypeOK, Starters, Killers, Versions, RestartSet, _set_state, tray, world, history
<1>1. TypeOK'
  OBVIOUS
<1>2. signature' <= disk' /\ Unwatched'
  BY DEF Unwatched
<1>3. ASSUME ~disturbed'
      PROVE  OneAtWork' /\ Whereabouts' /\ Launching' /\ UpToDate'
  <2> USE <1>3
  <2>1. OneAtWork /\ Whereabouts /\ Launching /\ UpToDate
    OBVIOUS
  <2>2. OneAtWork'
    BY <2>1 DEF OneAtWork, AtWork
  <2>3. Whereabouts'
    BY <2>1 DEF OneAtWork, AtWork, Whereabouts, Ending, Alive, Launching
  <2>4. Launching'
    BY <2>1 DEF OneAtWork, AtWork, Launching
  <2>5. UpToDate'
    BY <2>1 DEF OneAtWork, AtWork, UpToDate, Launched, Launching
  <2>6. QED
    BY <2>2, <2>3, <2>4, <2>5
<1>4. QED
  BY <1>1, <1>2, <1>3

LEMMA RestartTakeStep ==
  ASSUME IndInv, ~exited, RestartTake
  PROVE  IndInv'
<1> USE TrayAssumption
    DEF IndInv, TypeOK, Starters, Killers, Versions, RestartTake, TakeProc, tray, world, history
<1>1. TypeOK'
  OBVIOUS
<1>2. signature' <= disk' /\ Unwatched'
  BY DEF Unwatched
<1>3. ASSUME ~disturbed'
      PROVE  OneAtWork' /\ Whereabouts' /\ Launching' /\ UpToDate'
  <2> USE <1>3
  <2>1. OneAtWork /\ Whereabouts /\ Launching /\ UpToDate
    OBVIOUS
  <2>2. OneAtWork'
    BY <2>1 DEF OneAtWork, AtWork
  <2>3. Whereabouts'
    <3>1. /\ \A t \in Starters \ {"watcher"} : pc[t] \in {"idle", "gone"}
          /\ \A k \in Starts \ {"watcher"} : launcher[k] = "none"
      BY <2>1 DEF OneAtWork, AtWork
    <3>2. ~Ending /\ Alive \subseteq {server_proc}
      BY <2>1, <3>1 DEF Whereabouts, Ending
    <3>3. Alive' = Alive /\ victim'["watcher"] = server_proc
      BY DEF Alive
    <3>4. QED
      BY <2>1, <3>1, <3>2, <3>3 DEF Whereabouts, Ending, AtWork
  <2>4. Launching'
    BY <2>1 DEF OneAtWork, AtWork, Launching
  <2>5. UpToDate'
    BY <2>1 DEF OneAtWork, AtWork, UpToDate, Launched, Launching
  <2>6. QED
    BY <2>2, <2>3, <2>4, <2>5
<1>4. QED
  BY <1>1, <1>2, <1>3

LEMMA RestartEndStep ==
  ASSUME IndInv, ~exited, RestartEnd
  PROVE  IndInv'
<1> USE TrayAssumption
    DEF IndInv, TypeOK, Starters, Killers, Versions, RestartEnd, EndProc, tray, world, history
<1>1. TypeOK'
  OBVIOUS
<1>2. signature' <= disk' /\ Unwatched'
  BY DEF Unwatched
<1>3. ASSUME ~disturbed'
      PROVE  OneAtWork' /\ Whereabouts' /\ Launching' /\ UpToDate'
  <2> USE <1>3
  <2>1. OneAtWork /\ Whereabouts /\ Launching /\ UpToDate
    OBVIOUS
  <2>2. OneAtWork'
    BY <2>1 DEF OneAtWork, AtWork
  <2>3. Whereabouts'
    BY <2>1 DEF OneAtWork, AtWork, Whereabouts, Ending, Alive, Launching
  <2>4. Launching'
    BY <2>1 DEF OneAtWork, AtWork, Launching
  <2>5. UpToDate'
    BY <2>1 DEF OneAtWork, AtWork, UpToDate, Launched, Launching
  <2>6. QED
    BY <2>2, <2>3, <2>4, <2>5
<1>4. QED
  BY <1>1, <1>2, <1>3

LEMMA SaveStep ==
  ASSUME IndInv, ~exited, Save
  PROVE  IndInv'
<1> USE TrayAssumption
    DEF IndInv, TypeOK, Starters, Killers, Versions, Save, tray, world, history
<1>1. TypeOK'
  OBVIOUS
<1>2. signature' <= disk' /\ Unwatched'
  BY DEF Unwatched
<1>3. ASSUME ~disturbed'
      PROVE  OneAtWork' /\ Whereabouts' /\ Launching' /\ UpToDate'
  <2> USE <1>3
  <2>1. OneAtWork /\ Whereabouts /\ Launching /\ UpToDate
    OBVIOUS
  <2>2. OneAtWork'
    BY <2>1 DEF OneAtWork, AtWork
  <2>3. Whereabouts'
    BY <2>1 DEF OneAtWork, AtWork, Whereabouts, Ending, Alive, Launching
  <2>4. Launching'
    BY <2>1 DEF OneAtWork, AtWork, Launching
  <2>5. UpToDate'
    BY <2>1 DEF OneAtWork, AtWork, UpToDate, Launched, Launching
  <2>6. QED
    BY <2>2, <2>3, <2>4, <2>5
<1>4. QED
  BY <1>1, <1>2, <1>3

LEMMA ReadyStep ==
  ASSUME IndInv, ~exited, NEW l \in Starts, Ready(l)
  PROVE  IndInv'
<1> USE TrayAssumption
    DEF IndInv, TypeOK, Starters, Killers, Versions, Ready, tray, world, history
<1>1. TypeOK'
  OBVIOUS
<1>2. signature' <= disk' /\ Unwatched'
  BY DEF Unwatched
<1>3. ASSUME ~disturbed'
      PROVE  OneAtWork' /\ Whereabouts' /\ Launching' /\ UpToDate'
  <2> USE <1>3
  <2>1. OneAtWork /\ Whereabouts /\ Launching /\ UpToDate
    OBVIOUS
  <2>2. OneAtWork'
    BY <2>1 DEF OneAtWork, AtWork
  <2>3. Whereabouts'
    <3>1. Alive' \subseteq Alive
      BY DEF Alive, Serving
    <3>2. QED
      BY <2>1, <3>1 DEF Whereabouts, Ending, AtWork
  <2>4. Launching'
    BY <2>1 DEF OneAtWork, AtWork, Launching
  <2>5. UpToDate'
    BY <2>1 DEF OneAtWork, AtWork, UpToDate, Launched, Launching
  <2>6. QED
    BY <2>2, <2>3, <2>4, <2>5
<1>4. QED
  BY <1>1, <1>2, <1>3

LEMMA CrashStep ==
  ASSUME IndInv, ~exited, NEW l \in Starts, Crash(l)
  PROVE  IndInv'
<1> USE TrayAssumption
    DEF IndInv, TypeOK, Starters, Killers, Versions, Crash, tray, world, history
<1>1. TypeOK'
  OBVIOUS
<1>2. signature' <= disk' /\ Unwatched'
  BY DEF Unwatched
<1>3. ASSUME ~disturbed'
      PROVE  OneAtWork' /\ Whereabouts' /\ Launching' /\ UpToDate'
  <2> USE <1>3
  <2>1. OneAtWork /\ Whereabouts /\ Launching /\ UpToDate
    OBVIOUS
  <2>2. OneAtWork'
    BY <2>1 DEF OneAtWork, AtWork
  <2>3. Whereabouts'
    BY <2>1 DEF OneAtWork, AtWork, Whereabouts, Ending, Alive, Launching
  <2>4. Launching'
    BY <2>1 DEF OneAtWork, AtWork, Launching
  <2>5. UpToDate'
    BY <2>1 DEF OneAtWork, AtWork, UpToDate, Launched, Launching
  <2>6. QED
    BY <2>2, <2>3, <2>4, <2>5
<1>4. QED
  BY <1>1, <1>2, <1>3
-----------------------------------------------------------------------------
LEMMA InitEstablishes == Init => IndInv
<1> SUFFICES ASSUME Init PROVE IndInv
  OBVIOUS
<1> USE TrayAssumption DEF Init, Starters, Killers, Versions
<1>1. TypeOK /\ signature <= disk
  <2>1. pc \in [Starters -> {"idle", "check"}]
    OBVIOUS
  <2>2. /\ signature = 0 /\ disk = 0 /\ 0 \in Versions
        /\ \A l \in Starts : monitor[l] = "none" /\ watched[l] = NoProc
    OBVIOUS
  <2>3. /\ proc \in [Starts -> {"dead"}] /\ uses \in [Starts -> Versions]
        /\ launcher \in [Starts -> {"none"}] /\ monitor \in [Starts -> {"none"}]
        /\ watched \in [Starts -> {NoProc}] /\ victim \in [Killers -> {NoProc}]
    OBVIOUS
  <2>4. exited \in BOOLEAN /\ skipped \in BOOLEAN /\ disturbed \in BOOLEAN
    OBVIOUS
  <2>5. QED
    BY <2>1, <2>2, <2>3, <2>4 DEF TypeOK
<1>2. Unwatched /\ Launching /\ Alive = {}
  BY DEF Unwatched, Launching, Alive
<1>3. Whereabouts
  BY <1>2 DEF Whereabouts
<1>4. OneAtWork
  <2>1. AtWork \subseteq {"setup"}
    BY DEF AtWork
  <2>2. QED
    BY <2>1 DEF OneAtWork
<1>5. UpToDate
  BY DEF UpToDate
<1>6. QED
  BY <1>1, <1>2, <1>3, <1>4, <1>5 DEF IndInv

LEMMA StutterPreserves == IndInv /\ UNCHANGED vars => IndInv'
BY DEF vars, tray, world, history, IndInv, TypeOK, Unwatched, OneAtWork, AtWork, Whereabouts,
       Ending, Alive, Launching, Launched, UpToDate

LEMMA StepPreserves == IndInv /\ [Next]_vars => IndInv'
<1> SUFFICES ASSUME IndInv, Next PROVE IndInv'
  BY StutterPreserves
<1>1. ~exited
  BY DEF Next
<1>2. CASE Toggle \/ OpenFails \/ Quit \/ UiStep
  BY <1>1, <1>2, ToggleStep, OpenFailsStep, QuitStep, StopTakeStep, StopEndStep, StopSetStep
     DEF UiStep
<1>3. CASE WatcherStep
  BY <1>1, <1>3, SeeSettingsStep, RestartSetStep, RestartTakeStep, RestartEndStep DEF WatcherStep
<1>4. ASSUME NEW t \in Starters, StartStep(t)
      PROVE  IndInv'
  BY <1>1, <1>4, CheckPipeStep, BeginStartStep DEF StartStep
<1>5. ASSUME NEW l \in Starts, LaunchStep(l) \/ MonitorStep(l) \/ Ready(l) \/ Crash(l)
      PROVE  IndInv'
  <2>1. CASE LaunchStep(l)
    BY <1>1, <2>1, PopenStep, ProbeStep, TurnOnStep, LaunchFailsStep, FailEndStep, FailSetStep
       DEF LaunchStep
  <2>2. CASE MonitorStep(l)
    BY <1>1, <2>2, MonitorStartStep, MonitorWakesStep, MonitorReportsStep DEF MonitorStep
  <2>3. CASE Ready(l) \/ Crash(l)
    BY <1>1, <2>3, ReadyStep, CrashStep
  <2>4. QED
    BY <1>5, <2>1, <2>2, <2>3
<1>6. CASE Save
  BY <1>1, <1>6, SaveStep
<1>7. QED
  BY <1>2, <1>3, <1>4, <1>5, <1>6 DEF Next

LEMMA InvariantHolds == Spec => []IndInv
BY InitEstablishes, StepPreserves, PTL DEF Spec

\* The tray keeps its types, and a monitor that waits waits for a process
\* (ai_ime_tray.py:289-297).
THEOREM TypesHold == Spec => []TypeOK
<1>1. IndInv => TypeOK
  BY DEF IndInv
<1>2. QED
  BY <1>1, InvariantHolds, PTL

\* While its threads take turns, the tray loses no ranker, and OFF is not shown
\* over one that lives (ai_ime_tray.py:216-318).
THEOREM RankersOwned == Spec => []RankerIsOwned
<1>1. IndInv => RankerIsOwned
  <2> SUFFICES ASSUME IndInv, ~disturbed, ~exited
               PROVE  /\ Alive \subseteq {server_proc} \cup {victim[t] : t \in Killers}
                      /\ state = "off" => Alive = {}
    BY DEF RankerIsOwned
  <2>1. Whereabouts
    BY DEF IndInv
  <2>2. CASE ~Ending
    BY <2>1, <2>2 DEF Whereabouts
  <2>3. CASE Ending
    <3>1. \E t \in Killers : Alive \subseteq {victim[t]}
      BY <2>1, <2>3 DEF Whereabouts, Ending, Killers, Starters
    <3>2. QED
      BY <2>1, <3>1 DEF Whereabouts
  <2>4. QED
    BY <2>2, <2>3
<1>2. QED
  BY <1>1, InvariantHolds, PTL

\* Unless the watcher saw them while the ranker was not on, new settings are not
\* lost to the ranker that is on (ai_ime_tray.py:380-395).
THEOREM SettingsNotLost == Spec => []StaleOnlyIfSkipped
<1>1. IndInv => StaleOnlyIfSkipped
  BY DEF IndInv, StaleOnlyIfSkipped, UpToDate, Launched
<1>2. QED
  BY <1>1, InvariantHolds, PTL
-----------------------------------------------------------------------------
(* The native taskbar switch. *)
SwitchTypes ==
  /\ g_isAIOn \in BOOLEAN /\ g_isLoading \in BOOLEAN
  /\ g_hServerProcess \in SwitchStarts \cup {None}
  /\ shown \in {"on", "loading", "off"}
  /\ window \in {"shown", "hidden", "destroyed", "exited"}
  /\ thread \in [SwitchStarts -> {"none", "created", "loading", "launched", "asleep",
                            "failed", "ending", "ended"}]
  /\ alive \subseteq SwitchStarts
  /\ overlapped \in BOOLEAN
  /\ \A s \in SwitchStarts : g_hServerProcess = s => thread[s] \in {"asleep", "ending", "ended"}

(* One start at a time; one that has begun to load has said so, and the switch *)
(* is not on before its ranker is.                                             *)
OneStart ==
  /\ \A s, t \in Switch!UnderWay : s = t
  /\ \A s \in Switch!UnderWay : thread[s] # "created" => g_isLoading
  /\ \A s \in Switch!UnderWay : thread[s] # "ending" => ~g_isAIOn

(* What runs is kept, or about to be; what is kept and runs is on, or will be. *)
RankerKept ==
  /\ \A s \in alive : s = g_hServerProcess \/ thread[s] = "launched"
  /\ g_hServerProcess \in alive => g_isAIOn \/ \E s \in SwitchStarts : thread[s] = "asleep"

(* ON is shown when a start has ended in it, and nothing is left behind. *)
OnShown ==
  /\ g_isAIOn /\ Switch!UnderWay = {} => shown = "on"
  /\ window \in {"destroyed", "exited"} => alive = {} /\ Switch!UnderWay = {}

SwitchInv == SwitchTypes /\ (~overlapped => OneStart /\ RankerKept /\ OnShown)
-----------------------------------------------------------------------------
LEMMA SwitchInit == ASSUME None \notin SwitchStarts, Switch!Init PROVE SwitchInv
BY DEF Switch!Init, SwitchInv, SwitchTypes, OneStart, RankerKept, OnShown, Switch!UnderWay

(* What the steps of the message loop keep. *)
LEMMA ToggleKeeps ==
  ASSUME None \notin SwitchStarts, SwitchInv, Switch!ToggleAI
  PROVE  SwitchInv'
<1> USE DEF SwitchInv, SwitchTypes, Switch!ToggleAI, Switch!globals
<1>1. CASE /\ g_isAIOn
           /\ Switch!KillAIProcess
           /\ g_isAIOn' = FALSE /\ UNCHANGED g_isLoading
           /\ Switch!UpdateUI
           /\ UNCHANGED <<thread, overlapped>>
  <2> USE <1>1 DEF Switch!KillAIProcess, Switch!UpdateUI
  <2>1. SwitchTypes'
    OBVIOUS
  <2>2. ASSUME ~overlapped'
        PROVE  OneStart' /\ RankerKept' /\ OnShown'
    <3>1. OneStart /\ RankerKept /\ OnShown
      BY <2>2
    <3>2. Switch!UnderWay' = Switch!UnderWay
      BY DEF Switch!UnderWay
    <3>3. OneStart'
      BY <3>1, <3>2 DEF OneStart
    <3>4. RankerKept'
      BY <3>1 DEF RankerKept
    <3>5. OnShown'
      BY <3>1, <3>2 DEF OnShown
    <3>6. QED
      BY <3>3, <3>4, <3>5
  <2>3. QED
    BY <2>1, <2>2
<1>2. ASSUME NEW s \in SwitchStarts, Switch!At(s, "none", "created"), ~g_isAIOn,
             overlapped' = (overlapped \/ \E t \in SwitchStarts : thread[t] = "created"),
             UNCHANGED <<Switch!globals, shown, alive>>
      PROVE  SwitchInv'
  <2> USE <1>2 DEF Switch!At
  <2>1. SwitchTypes'
    OBVIOUS
  <2>2. ASSUME ~overlapped'
        PROVE  OneStart' /\ RankerKept' /\ OnShown'
    <3>1. OneStart /\ RankerKept /\ OnShown
      BY <2>2
    <3>2. Switch!UnderWay = {}
      BY <2>2, <3>1 DEF OneStart, Switch!UnderWay
    <3>3. Switch!UnderWay' = {s}
      BY <3>2 DEF Switch!UnderWay
    <3>4. OneStart'
      BY <3>1, <3>3 DEF OneStart
    <3>5. RankerKept'
      BY <3>1 DEF RankerKept
    <3>6. OnShown'
      BY <3>1, <3>3 DEF OnShown
    <3>7. QED
      BY <3>4, <3>5, <3>6
  <2>3. QED
    BY <2>1, <2>2
<1>3. QED
  BY <1>1, <1>2 DEF Switch!Switch

LEMMA ShowOrHideKeeps == ASSUME SwitchInv, Switch!ShowOrHide PROVE SwitchInv'
BY DEF SwitchInv, SwitchTypes, OneStart, RankerKept, OnShown, Switch!UnderWay, Switch!ShowOrHide, Switch!globals

LEMMA DestroyKeeps ==
  ASSUME None \notin SwitchStarts, SwitchInv, Switch!Destroy
  PROVE  SwitchInv'
<1> USE DEF SwitchInv, SwitchTypes, Switch!Destroy, Switch!KillAIProcess
<1>1. SwitchTypes'
  OBVIOUS
<1>2. ASSUME ~overlapped'
      PROVE  OneStart' /\ RankerKept' /\ OnShown'
  <2>1. OneStart /\ RankerKept /\ OnShown
    BY <1>2
  <2>2. Switch!UnderWay = {} /\ Switch!UnderWay' = {}
    BY <1>2 DEF Switch!UnderWay
  <2>3. alive' = {}
    BY <2>1, <2>2 DEF RankerKept, Switch!UnderWay
  <2>4. QED
    BY <2>1, <2>2, <2>3 DEF OneStart, RankerKept, OnShown
<1>3. QED
  BY <1>1, <1>2

LEMMA ReturnKeeps == ASSUME SwitchInv, Switch!wWinMainReturns PROVE SwitchInv'
<1> USE DEF SwitchInv, SwitchTypes, Switch!wWinMainReturns, Switch!globals
<1>1. SwitchTypes'
  OBVIOUS
<1>2. Switch!UnderWay' = {}
  BY DEF Switch!UnderWay
<1>3. ~overlapped => alive' = {}
  BY DEF OnShown
<1>4. ~overlapped /\ g_isAIOn => shown = "on"
  BY DEF OnShown
<1>5. QED
  BY <1>1, <1>2, <1>3, <1>4 DEF OneStart, RankerKept, OnShown
-----------------------------------------------------------------------------
(* What the steps of a start keep. *)

(* A start under way that is not overlapped is the only one, and the window  *)
(* is there.                                                                 *)
LEMMA Alone ==
  ASSUME SwitchInv, ~overlapped, NEW s \in Switch!UnderWay
  PROVE  /\ Switch!UnderWay = {s}
         /\ window \notin {"destroyed", "exited"}
BY DEF SwitchInv, OneStart, OnShown

LEMMA StartKeeps ==
  ASSUME None \notin SwitchStarts, SwitchInv, NEW s \in SwitchStarts, Switch!StartServerThread(s)
  PROVE  SwitchInv'
<1> USE DEF SwitchInv, SwitchTypes, Switch!globals, Switch!At, Switch!UpdateUI
<1>1. SwitchTypes'
  BY DEF Switch!StartServerThread, Switch!Load, Switch!CreateProcess, Switch!Keep, Switch!Wake, Switch!Fail, Switch!EndLoading
<1>2. ASSUME ~overlapped'
      PROVE  OneStart' /\ RankerKept' /\ OnShown'
  <2>1. ~overlapped /\ OneStart /\ RankerKept /\ OnShown
    BY <1>2 DEF Switch!StartServerThread, Switch!Load, Switch!CreateProcess, Switch!Keep, Switch!Wake, Switch!Fail, Switch!EndLoading
  <2>2. s \in Switch!UnderWay
    BY DEF Switch!UnderWay, Switch!StartServerThread, Switch!Load, Switch!CreateProcess, Switch!Keep, Switch!Wake, Switch!Fail, Switch!EndLoading
  <2>3. Switch!UnderWay = {s} /\ window \notin {"destroyed", "exited"}
    BY <2>1, <2>2, Alone
  <2>4. Switch!UnderWay' \subseteq {s} /\ (Switch!UnderWay' # {} => thread'[s] # "ended")
    BY <2>3 DEF Switch!UnderWay, Switch!StartServerThread, Switch!Load, Switch!CreateProcess, Switch!Keep, Switch!Wake, Switch!Fail, Switch!EndLoading
  <2>5. CASE Switch!Load(s)
    BY <2>1, <2>2, <2>3, <2>4, <2>5 DEF Switch!Load, OneStart, RankerKept, OnShown, Switch!UnderWay
  <2>6. CASE Switch!CreateProcess(s)
    <3>1. /\ alive = {}
          /\ thread[s] = "loading"
          /\ UNCHANGED <<g_isAIOn, g_isLoading, g_hServerProcess, shown, window>>
      BY <2>1, <2>2, <2>3, <2>6 DEF Switch!CreateProcess, OneStart, RankerKept, Switch!UnderWay
    <3>2. OneStart'
      BY <2>1, <2>2, <2>3, <2>4, <3>1 DEF OneStart
    <3>3. CASE Switch!At(s, "loading", "launched") /\ alive' = alive \cup {s}
      <4>1. thread'[s] = "launched" /\ alive' = {s} /\ Switch!UnderWay' = {s}
        BY <2>4, <3>1, <3>3 DEF Switch!UnderWay
      <4>2. g_hServerProcess # s
        BY <3>1
      <4>3. QED
        BY <2>3, <3>1, <3>2, <4>1, <4>2 DEF RankerKept, OnShown
    <3>4. CASE Switch!At(s, "loading", "failed") /\ UNCHANGED alive
      <4>1. alive' = {} /\ Switch!UnderWay' = {s}
        BY <2>4, <3>1, <3>4 DEF Switch!UnderWay
      <4>2. QED
        BY <2>3, <3>1, <3>2, <4>1 DEF RankerKept, OnShown
    <3>5. QED
      BY <2>6, <3>3, <3>4 DEF Switch!CreateProcess
  <2>7. CASE Switch!Keep(s)
    <3>1. \A t \in alive : t = s
      BY <2>1, <2>2, <2>3, <2>7 DEF Switch!Keep, OneStart, RankerKept, Switch!UnderWay
    <3>2. QED
      BY <2>1, <2>2, <2>3, <2>4, <2>7, <3>1 DEF Switch!Keep, OneStart, RankerKept, OnShown, Switch!UnderWay
  <2>8. CASE Switch!Wake(s)
    BY <2>1, <2>2, <2>3, <2>4, <2>8 DEF Switch!Wake, OneStart, RankerKept, OnShown, Switch!UnderWay
  <2>9. CASE Switch!Fail(s)
    BY <2>1, <2>2, <2>3, <2>4, <2>9 DEF Switch!Fail, OneStart, RankerKept, OnShown, Switch!UnderWay
  <2>10. CASE Switch!EndLoading(s)
    BY <2>1, <2>2, <2>3, <2>4, <2>10 DEF Switch!EndLoading, OneStart, RankerKept, OnShown, Switch!UnderWay
  <2>11. QED
    BY <2>5, <2>6, <2>7, <2>8, <2>9, <2>10 DEF Switch!StartServerThread
<1>3. QED
  BY <1>1, <1>2

LEMMA DieKeeps == ASSUME SwitchInv, NEW s \in SwitchStarts, Switch!Die(s) PROVE SwitchInv'
<1> USE DEF SwitchInv, SwitchTypes, Switch!Die, Switch!globals
<1>1. SwitchTypes'
  OBVIOUS
<1>2. Switch!UnderWay' = Switch!UnderWay
  BY DEF Switch!UnderWay
<1>3. OneStart => OneStart'
  BY <1>2 DEF OneStart
<1>4. RankerKept => RankerKept'
  BY DEF RankerKept
<1>5. OnShown => OnShown'
  BY <1>2 DEF OnShown
<1>6. QED
  BY <1>1, <1>3, <1>4, <1>5
-----------------------------------------------------------------------------
(* OFF means that no ranker runs, and the switch leaves none behind, unless   *)
(* starts overlap (taskbar_switch.cpp:41 and :110): for any number of starts. *)
THEOREM SwitchOwns ==
  Switch!Spec => []SwitchOwnsRanker
<1>1. Switch!Init => SwitchInv
  BY SwitchInit, SwitchAssumption
<1>2. SwitchInv /\ [Switch!Next]_(Switch!vars) => SwitchInv'
  <2> SUFFICES ASSUME SwitchInv, [Switch!Next]_(Switch!vars) PROVE SwitchInv'
    OBVIOUS
  <2>1. CASE UNCHANGED Switch!vars
    BY <2>1 DEF Switch!vars, Switch!globals, SwitchInv, SwitchTypes, OneStart, RankerKept, OnShown, Switch!UnderWay
  <2>2. CASE Switch!Next
    BY <2>2, SwitchAssumption, ToggleKeeps, ShowOrHideKeeps, DestroyKeeps, ReturnKeeps,
       StartKeeps, DieKeeps
    DEF Switch!Next
  <2>3. QED
    BY <2>1, <2>2
<1>3. SwitchInv => SwitchOwnsRanker
  <2> SUFFICES ASSUME SwitchInv, ~overlapped
               PROVE  /\ alive \subseteq {g_hServerProcess} \cup {s \in SwitchStarts : thread[s] = "launched"}
                      /\ (shown = "off" /\ Switch!UnderWay = {}) \/ window = "exited" => alive = {}
    BY DEF SwitchOwnsRanker, Switch!SwitchOwnsRanker
  <2>1. alive \subseteq {g_hServerProcess} \cup {s \in SwitchStarts : thread[s] = "launched"}
    BY DEF SwitchInv, SwitchTypes, RankerKept
  <2>2. ASSUME shown = "off", Switch!UnderWay = {}
        PROVE  alive = {}
    BY <2>2 DEF SwitchInv, SwitchTypes, RankerKept, OnShown, Switch!UnderWay
  <2>3. ASSUME window = "exited"
        PROVE  alive = {}
    BY <2>3 DEF SwitchInv, OnShown
  <2>4. QED
    BY <2>1, <2>2, <2>3
<1>4. QED
  BY <1>1, <1>2, <1>3, PTL DEF Switch!Spec
-----------------------------------------------------------------------------
(* The handoff after an installation. *)

(* A process that is not there yet has no parent and has done nothing. *)
HandoffTypes ==
  /\ kind \in [Pids -> {"none", "tray", "ranker", "window"}]
  /\ parent \in [Pids -> Pids \cup {Orphan}]
  /\ helper \in {"asleep", "listed", "done"}
  /\ running \cup ended \cup listed \cup seen \subseteq {p \in Pids : kind[p] # "none"}
  /\ \A p \in Pids : kind[p] = "none" => parent[p] = Orphan
  /\ \A p \in Pids : parent[p] = Orphan \/ kind[parent[p]] # "none"

(* No process is its own ancestor: whatever some are, one was there first. *)
NoCircle == \A S \in SUBSET Pids : S # {} => \E p \in S : parent[p] \notin S

Escaped == UNION {Handoff!Tree(q, Pids) : q \in ended}

(* Nobody loses sight of a process that runs: the helper has it on its list, or *)
(* its parent runs and will be ended with it, or it has escaped.                *)
InSight ==
  /\ running \cap seen \subseteq listed
  /\ \A r \in running : r \in listed \/ parent[r] \in running \/ r \in Escaped

HandoffInv ==
  /\ HandoffTypes /\ NoCircle
  /\ helper # "asleep" /\ ~spoiled => InSight
  /\ helper = "done" => listed = {}
  /\ new => helper = "done"

(* A tree holds its root, and with a process those of the set that it has started. *)
LEMMA TreeGrown ==
  ASSUME NEW p, NEW in
  PROVE  /\ p \in Handoff!Tree(p, in)
         /\ Handoff!Tree(p, in) \subseteq {p} \cup in
         /\ \A c \in in : parent[c] \in Handoff!Tree(p, in) => c \in Handoff!Tree(p, in)
BY DEF Handoff!Tree, Handoff!Grown

LEMMA EscapedGrown ==
  /\ \A q \in ended : q \in Escaped
  /\ \A c \in Pids : parent[c] \in Escaped => c \in Escaped
<1>1. \A q \in ended : q \in Handoff!Tree(q, Pids)
  BY TreeGrown
<1>2. ASSUME NEW c \in Pids, NEW q \in ended, parent[c] \in Handoff!Tree(q, Pids)
      PROVE  c \in Handoff!Tree(q, Pids)
  BY <1>2, TreeGrown
<1>3. QED
  BY <1>1, <1>2 DEF Escaped

(* What has escaped stays so when another process starts or ends. *)
LEMMA EscapedKept ==
  ASSUME ended \subseteq ended', ended \subseteq Pids, UNCHANGED parent
  PROVE  Escaped \subseteq Escaped'
<1>1. ASSUME NEW q \in ended
      PROVE  Handoff!Tree(q, Pids)' = Handoff!Tree(q, Pids)
  BY DEF Handoff!Tree, Handoff!Grown
<1>2. QED
  BY <1>1 DEF Escaped

LEMMA SpawnKeeps ==
  ASSUME HandoffInv, NEW p \in Pids, NEW child \in Pids, Handoff!Spawn(p, child)
  PROVE  HandoffInv'
<1> USE HandoffAssumption
<1>1. HandoffTypes'
  <2>1. kind[p] # "none" /\ p # child /\ Handoff!StartedBy[kind[p]] \subseteq {"ranker", "window"}
    BY DEF HandoffInv, HandoffTypes, Handoff!Spawn, Handoff!StartedBy
  <2>2. PICK k \in {"ranker", "window"} : kind' = [kind EXCEPT ![child] = k]
    BY <2>1 DEF Handoff!Spawn
  <2>3. QED
    BY <2>1, <2>2 DEF HandoffInv, HandoffTypes, Handoff!Spawn
<1>2. /\ kind[child] = "none" /\ parent[child] = Orphan /\ p # child
      /\ \A q \in Pids : parent[q] # child
      /\ \A q \in Pids : parent'[q] = IF q = child THEN p ELSE parent[q]
  BY DEF HandoffInv, HandoffTypes, Handoff!Spawn
<1>3. NoCircle'
  <2> SUFFICES ASSUME NEW S \in SUBSET Pids, S # {} PROVE \E q \in S : parent'[q] \notin S
    BY DEF NoCircle
  <2>1. CASE S = {child}
    BY <2>1, <1>2
  <2>2. CASE S # {child}
    <3>1. PICK q \in S \ {child} : parent[q] \notin S \ {child}
      BY <2>2 DEF HandoffInv, NoCircle
    <3>2. QED
      BY <3>1, <1>2
  <2>3. QED
    BY <2>1, <2>2
<1>4. ASSUME NEW q \in ended
      PROVE  Handoff!Tree(q, Pids) \subseteq Handoff!Tree(q, Pids)'
  <2> SUFFICES ASSUME NEW x \in Handoff!Tree(q, Pids),
                      NEW S \in SUBSET ({q} \cup Pids), q \in S, Handoff!Grown(S, Pids)'
               PROVE  x \in S
    BY DEF Handoff!Tree, Handoff!Grown
  <2>1. q \in Pids
    BY DEF HandoffInv, HandoffTypes
  <2>2. Handoff!Grown(S, Pids)
    BY <2>1, <1>2 DEF Handoff!Grown
  <2>3. QED
    BY <2>2 DEF Handoff!Tree
<1>5. Escaped \subseteq Escaped'
  BY <1>4 DEF Escaped, Handoff!Spawn
<1>6. InSight => InSight'
  BY <1>2, <1>5 DEF HandoffInv, HandoffTypes, InSight, Handoff!Spawn
<1>7. QED
  BY <1>1, <1>3, <1>6 DEF HandoffInv, Handoff!Spawn

LEMMA EndItselfKeeps ==
  ASSUME HandoffInv, NEW p \in Pids, Handoff!EndItself(p)
  PROVE  HandoffInv'
<1>1. PICK gone \in SUBSET running : running' = running \ gone /\ ended' = ended \cup gone
  <2>1. PICK also \in SUBSET {c \in running : parent[c] = p /\ kind[c] = "ranker"} :
          /\ running' = running \ ({p} \cup also)
          /\ ended' = ended \cup {p} \cup also
    BY DEF Handoff!EndItself
  <2>2. QED
    BY <2>1 DEF Handoff!EndItself
<1>2. HandoffTypes' /\ NoCircle'
  BY <1>1 DEF HandoffInv, HandoffTypes, NoCircle, Handoff!EndItself
<1>3. Escaped \subseteq Escaped'
  BY <1>1, EscapedKept DEF HandoffInv, HandoffTypes, Handoff!EndItself
<1>4. \A r \in Pids : parent[r] \in gone => r \in Escaped'
  <2>1. \A q \in ended' : \A c \in Pids : parent[c] = q => c \in Handoff!Tree(q, Pids)
    BY TreeGrown
  <2>2. \A q \in ended' : Handoff!Tree(q, Pids)' = Handoff!Tree(q, Pids)
    BY DEF Handoff!Tree, Handoff!Grown, Handoff!EndItself
  <2>3. QED
    BY <1>1, <2>1, <2>2 DEF Escaped
<1>5. InSight => InSight'
  BY <1>1, <1>3, <1>4 DEF HandoffInv, HandoffTypes, InSight, Handoff!EndItself
<1>6. QED
  BY <1>2, <1>5 DEF HandoffInv, Handoff!EndItself

LEMMA TasklistKeeps == ASSUME HandoffInv, Handoff!tasklist PROVE HandoffInv'
<1>1. HandoffTypes' /\ NoCircle'
  BY DEF HandoffInv, HandoffTypes, NoCircle, Handoff!tasklist, Handoff!processes
<1>2. ~spoiled' => InSight'
  BY DEF InSight, Handoff!tasklist, Handoff!processes
<1>3. QED
  BY <1>1, <1>2 DEF HandoffInv, Handoff!tasklist

LEMMA TaskkillKeeps ==
  ASSUME HandoffInv, NEW p \in Pids, Handoff!taskkill(p)
  PROVE  HandoffInv'
<1>1. HandoffTypes' /\ NoCircle'
  BY DEF HandoffInv, HandoffTypes, NoCircle, Handoff!taskkill
<1>2. Escaped' = Escaped
  BY DEF Escaped, Handoff!Tree, Handoff!Grown, Handoff!taskkill
<1>3. ASSUME ~spoiled'
      PROVE  InSight'
  <2>1. ~spoiled /\ InSight
    BY <1>3 DEF HandoffInv, Handoff!taskkill
  <2>2. CASE p \in running /\ running' = running \ Handoff!Tree(p, running)
    <3> DEFINE T == Handoff!Tree(p, running)
    <3>1. p \in T /\ \A c \in running : parent[c] \in T => c \in T
      BY TreeGrown
    <3> HIDE DEF T
    <3>2. running' = running \ T
      BY <2>2 DEF T
    <3>3. QED
      BY <2>1, <3>1, <3>2, <1>2 DEF InSight, Handoff!taskkill
  <2>3. CASE p \notin running /\ UNCHANGED running
    BY <2>1, <2>3, <1>2 DEF InSight, Handoff!taskkill
  <2>4. QED
    BY <1>3, <2>2, <2>3 DEF Handoff!taskkill
<1>4. QED
  BY <1>1, <1>3 DEF HandoffInv, Handoff!taskkill

LEMMA StartTrayKeeps == ASSUME HandoffInv, Handoff!StartTray PROVE HandoffInv'
<1>1. HandoffTypes' /\ NoCircle'
  BY DEF HandoffInv, HandoffTypes, NoCircle, Handoff!StartTray, Handoff!processes
<1>2. InSight => InSight'
  BY DEF InSight, Escaped, Handoff!Tree, Handoff!Grown, Handoff!StartTray, Handoff!processes
<1>3. QED
  BY <1>1, <1>2 DEF HandoffInv, Handoff!StartTray

(* When the new tray runs and the tools have done as they were told, all that   *)
(* is left of the old program was started by what had ended by itself, after    *)
(* the helper looked (ai_ime_tray.py:525): for any number of processes.         *)
THEOREM HandoffLeavesNothing ==
  Handoff!Spec => []HandoffReplaces
<1>1. Handoff!Init => HandoffInv
  BY HandoffAssumption DEF Handoff!Init, HandoffInv, HandoffTypes, NoCircle
<1>2. HandoffInv /\ [Handoff!Next]_(Handoff!vars) => HandoffInv'
  <2> SUFFICES ASSUME HandoffInv, [Handoff!Next]_(Handoff!vars) PROVE HandoffInv'
    OBVIOUS
  <2>1. CASE UNCHANGED Handoff!vars
    BY <2>1 DEF Handoff!vars, Handoff!processes, HandoffInv, HandoffTypes, NoCircle, InSight,
                Escaped, Handoff!Tree, Handoff!Grown
  <2>2. CASE Handoff!Next
    BY <2>2, SpawnKeeps, EndItselfKeeps, TasklistKeeps, TaskkillKeeps, StartTrayKeeps
    DEF Handoff!Next
  <2>3. QED
    BY <2>1, <2>2
<1>3. HandoffInv => HandoffReplaces
  <2> SUFFICES ASSUME HandoffInv, new, ~spoiled PROVE running \subseteq Escaped \ seen
    BY DEF HandoffReplaces, Handoff!HandoffReplaces, Escaped
  <2>1. listed = {} /\ InSight /\ running \subseteq Pids
    BY DEF HandoffInv, HandoffTypes
  <2>2. running \ Escaped = {}
    <3> SUFFICES ASSUME running \ Escaped # {} PROVE FALSE
      OBVIOUS
    <3>1. PICK r \in running \ Escaped : parent[r] \notin running \ Escaped
      BY <2>1 DEF HandoffInv, NoCircle
    <3>2. parent[r] \in Escaped
      BY <2>1, <3>1 DEF InSight
    <3>3. QED
      BY <2>1, <3>1, <3>2, EscapedGrown
  <2>3. QED
    BY <2>1, <2>2 DEF InSight
<1>4. QED
  BY <1>1, <1>2, <1>3, PTL DEF Handoff!Spec
-----------------------------------------------------------------------------
(* The product's files. *)

Files == {"settings", "status", "onboarding"}
Saving == {"open", "write", "replace"}

Settings(s) ==
  s = [ai_autostart |-> s.ai_autostart, context_enabled |-> s.context_enabled,
       context_chars |-> s.context_chars, document_domain |-> s.document_domain,
       custom_instruction |-> s.custom_instruction]

(* What json.load may make of a file with the five fields; and what            *)
(* normalize_settings makes of that.  An instruction that is stripped and cut  *)
(* begins with no blank, and ends with none once it is stripped again.         *)
IsText(t) == \E C : t \in Seq(C)
Headed(t) == t # <<>> => t[1] \notin Blanks
Tailed(t) == t # <<>> => t[Len(t)] \notin Blanks

Raw(s) ==
  /\ Settings(s)
  /\ s.ai_autostart \in BOOLEAN \cup {Bad}
  /\ s.context_enabled \in BOOLEAN \cup {Bad}
  /\ s.context_chars \in Int \cup {Bad}
  /\ IsText(s.custom_instruction)

Once(s) ==
  /\ Settings(s)
  /\ s.ai_autostart \in BOOLEAN
  /\ s.context_enabled \in BOOLEAN
  /\ s.context_chars \in Product!CONTEXT_LENGTHS
  /\ s.document_domain \in Product!DOMAIN_PRESETS
  /\ IsText(s.custom_instruction)
  /\ Headed(s.custom_instruction)
  /\ Len(s.custom_instruction) <= InstructionLimit

Normal(s) == Once(s) /\ Tailed(s.custom_instruction)

Distinguished ==
  /\ \A found \in Found \ {Absent, Torn} : Raw(found)
  /\ \A choice \in Edits : Raw(choice) /\ choice.context_enabled \in BOOLEAN
  /\ Bad \notin BOOLEAN \cup Int
  /\ Torn \notin {Absent, "loading", "on", "seen"}
  /\ \A s : Normal(s) => s \notin {Absent, Torn}

(* What a save writes: a user's choice, or what was found, migrated. *)
Whole(s) ==
  /\ Normal(s)
  /\ Product!Chosen(s) \/ \E found \in Found \ {Absent, Torn} : Product!Migrated(s, found)

Body(r, body) ==
  \/ r \in {"window", "migration"} /\ Whole(body)
  \/ r = "ranker" /\ body \in {"loading", "on"}
  \/ r = "guide" /\ body = "seen"

FilesTypes ==
  /\ file = [f \in Files |-> file[f]]
  /\ tmp = [p \in Numbers |-> tmp[p]]
  /\ mem = [p \in Numbers |-> mem[p]]
  /\ role \in [Numbers -> {"none", "window", "ranker", "guide", "migration"}]
  /\ at \in [Numbers -> {"ready", "load"} \cup Saving]

(* What a process is about to rename is a whole body of its own file. *)
Writers ==
  \A p \in Numbers :
    /\ role[p] = "none" => at[p] = "ready"
    /\ at[p] = "load" => role[p] = "migration"
    /\ at[p] \in Saving => Body(role[p], mem[p])
    /\ at[p] = "replace" => tmp[p] = mem[p]

OnDisk ==
  /\ file["settings"] \in Found \/ Whole(file["settings"])
  /\ file["status"] \in {Absent, "loading", "on"}
  /\ file["onboarding"] \in {Absent, "seen"}

FilesInv == FilesTypes /\ Writers /\ OnDisk
-----------------------------------------------------------------------------
(* Every length has a nearest one among those offered, and one that is         *)
(* offered is its own.                                                         *)
LEMMA NearestIs ==
  ASSUME NEW n \in Int, NEW l \in Product!CONTEXT_LENGTHS,
         \A k \in Product!CONTEXT_LENGTHS : Product!Distance(l, n) <= Product!Distance(k, n)
  PROVE  Product!Nearest(n) \in Product!CONTEXT_LENGTHS
<1> DEFINE S == {m \in Product!CONTEXT_LENGTHS : \A k \in Product!CONTEXT_LENGTHS : Product!Distance(m, n) <= Product!Distance(k, n)}
<1>1. l \in S
  OBVIOUS
<1>2. \A m \in S : Product!Distance(m, n) = Product!Distance(l, n)
  BY DEF Product!Distance, Product!CONTEXT_LENGTHS
<1>3. \E m \in S : \A k \in S : m <= k
  <2>1. \A k \in S : k = l \/ k = 2 * n - l
    BY <1>2 DEF Product!Distance, Product!CONTEXT_LENGTHS
  <2>2. CASE \E k \in S : k < l
    BY <2>1, <2>2, <1>1 DEF Product!CONTEXT_LENGTHS
  <2>3. CASE ~\E k \in S : k < l
    BY <2>3, <1>1 DEF Product!CONTEXT_LENGTHS
  <2>4. QED
    BY <2>2, <2>3
<1>4. Product!Min(S) \in S
  BY <1>3 DEF Product!Min
<1>5. QED
  BY <1>4 DEF Product!Nearest

LEMMA NearestOffered ==
  ASSUME NEW n \in Int
  PROVE  Product!Nearest(n) \in Product!CONTEXT_LENGTHS
<1>1. CASE n <= 16
  <2>1. \A k \in Product!CONTEXT_LENGTHS : Product!Distance(0, n) <= Product!Distance(k, n)
    BY <1>1 DEF Product!Distance, Product!CONTEXT_LENGTHS
  <2>2. QED
    BY <2>1, NearestIs DEF Product!CONTEXT_LENGTHS
<1>2. CASE n > 16 /\ n <= 48
  <2>1. \A k \in Product!CONTEXT_LENGTHS : Product!Distance(32, n) <= Product!Distance(k, n)
    BY <1>2 DEF Product!Distance, Product!CONTEXT_LENGTHS
  <2>2. QED
    BY <2>1, NearestIs DEF Product!CONTEXT_LENGTHS
<1>3. CASE n > 48 /\ n <= 96
  <2>1. \A k \in Product!CONTEXT_LENGTHS : Product!Distance(64, n) <= Product!Distance(k, n)
    BY <1>3 DEF Product!Distance, Product!CONTEXT_LENGTHS
  <2>2. QED
    BY <2>1, NearestIs DEF Product!CONTEXT_LENGTHS
<1>4. CASE n > 96 /\ n <= 192
  <2>1. \A k \in Product!CONTEXT_LENGTHS : Product!Distance(128, n) <= Product!Distance(k, n)
    BY <1>4 DEF Product!Distance, Product!CONTEXT_LENGTHS
  <2>2. QED
    BY <2>1, NearestIs DEF Product!CONTEXT_LENGTHS
<1>5. CASE n > 192 /\ n <= 384
  <2>1. \A k \in Product!CONTEXT_LENGTHS : Product!Distance(256, n) <= Product!Distance(k, n)
    BY <1>5 DEF Product!Distance, Product!CONTEXT_LENGTHS
  <2>2. QED
    BY <2>1, NearestIs DEF Product!CONTEXT_LENGTHS
<1>6. CASE n > 384
  <2>1. \A k \in Product!CONTEXT_LENGTHS : Product!Distance(512, n) <= Product!Distance(k, n)
    BY <1>6 DEF Product!Distance, Product!CONTEXT_LENGTHS
  <2>2. QED
    BY <2>1, NearestIs DEF Product!CONTEXT_LENGTHS
<1>7. QED
  BY <1>1, <1>2, <1>3, <1>4, <1>5, <1>6

LEMMA NearestKeeps ==
  ASSUME NEW n \in Product!CONTEXT_LENGTHS
  PROVE  Product!Nearest(n) = n
<1>1. {l \in Product!CONTEXT_LENGTHS : \A k \in Product!CONTEXT_LENGTHS : Product!Distance(l, n) <= Product!Distance(k, n)} = {n}
  BY DEF Product!Distance, Product!CONTEXT_LENGTHS
<1>2. Product!Min({n}) = n
  BY DEF Product!Min, Product!CONTEXT_LENGTHS
<1>3. QED
  BY <1>1, <1>2 DEF Product!Nearest

(* What strip() leaves of a text: nothing, or what is between the first and    *)
(* the last character that is no blank.                                        *)
LEMMA Stripped ==
  ASSUME NEW C, NEW t \in Seq(C)
  PROVE  /\ Product!strip(t) \in Seq(C)
         /\ Len(Product!strip(t)) <= Len(t)
         /\ Headed(Product!strip(t)) /\ Tailed(Product!strip(t))
         /\ Headed(t) /\ t # <<>> => Product!strip(t) # <<>>
         /\ Headed(t) /\ Tailed(t) => Product!strip(t) = t
<1> DEFINE kept == {i \in DOMAIN t : t[i] \notin Blanks}
           r == Product!strip(t)
<1>0. Len(t) \in Nat /\ DOMAIN t = 1 .. Len(t)
  OBVIOUS
<1>1. CASE kept = {}
  <2>1. r = <<>>
    BY <1>1 DEF Product!strip
  <2>2. Headed(t) => t = <<>>
    <3>1. t # <<>> => 1 \in DOMAIN t
      BY <1>0
    <3>2. QED
      BY <1>1, <3>1 DEF Headed
  <2>3. QED
    BY <1>0, <2>1, <2>2 DEF Headed, Tailed
<1>2. CASE kept # {}
  <2> DEFINE lo == Product!Min(kept)
             hi == Product!Max(kept)
  <2>1. lo \in kept /\ \A i \in kept : lo <= i
    <3>1. kept \subseteq Nat
      BY <1>0
    <3> HIDE DEF kept
    <3>2. QED
      BY <1>2, <3>1, Lowest DEF Product!Min
  <2>2. hi \in kept /\ \A i \in kept : hi >= i
    <3>1. kept \subseteq 0 .. Len(t)
      BY <1>0
    <3> HIDE DEF kept
    <3>2. QED
      BY <1>0, <1>2, <3>1, Greatest DEF Product!Max
  <2>3. r = SubSeq(t, lo, hi)
    BY <1>2 DEF Product!strip
  <2> HIDE DEF lo, hi, r
  <2>4. lo \in 1 .. Len(t) /\ hi \in 1 .. Len(t) /\ lo <= hi /\ t[lo] \notin Blanks /\ t[hi] \notin Blanks
    BY <1>0, <2>1, <2>2
  <2>5. /\ r \in Seq(C) /\ Len(r) = hi - lo + 1
        /\ \A i \in 1 .. hi - lo + 1 : r[i] = t[lo + i - 1]
    <3>1. \A i \in lo .. hi : t[i] \in C
      BY <2>4
    <3>2. lo \in Int /\ hi \in Int
      BY <2>4
    <3>3. QED
      BY <2>3, <2>4, <3>1, <3>2, SubSeqProperties
  <2>6. r # <<>> /\ Len(r) <= Len(t) /\ r[1] = t[lo] /\ r[Len(r)] = t[hi]
    BY <1>0, <2>4, <2>5
  <2>7. ASSUME Headed(t), Tailed(t) PROVE r = t
    <3>1. lo = 1 /\ hi = Len(t)
      <4>1. t # <<>> /\ 1 \in DOMAIN t /\ Len(t) \in DOMAIN t
        BY <1>0, <2>4
      <4>2. 1 \in kept /\ Len(t) \in kept
        BY <2>7, <4>1 DEF Headed, Tailed
      <4> HIDE DEF kept
      <4>3. lo <= 1 /\ hi >= Len(t)
        BY <2>1, <2>2, <4>2, Zenon
      <4> DEFINE n == Len(t)
      <4>4. lo \in 1 .. n /\ hi \in 1 .. n /\ n \in Nat /\ lo <= 1 /\ hi >= n
        BY <1>0, <2>4, <4>3, Zenon
      <4> HIDE DEF n
      <4>5. lo = 1 /\ hi = n
        BY <4>4
      <4>6. QED
        BY <4>5 DEF n
    <3>2. Len(r) = Len(t) /\ \A i \in 1 .. Len(t) : r[i] = t[i]
      BY <1>0, <2>5, <3>1
    <3>3. QED
      BY <2>5, <3>2, SeqEqual
  <2>8. QED
    BY <2>4, <2>5, <2>6, <2>7 DEF Headed, Tailed, r
<1>3. QED
  BY <1>1, <1>2

(* What a cut leaves: a text's beginning. *)
LEMMA Cut ==
  ASSUME NEW C, NEW t \in Seq(C), Headed(t)
  PROVE  /\ Product!Shortened(t) \in Seq(C)
         /\ Len(Product!Shortened(t)) <= InstructionLimit
         /\ Headed(Product!Shortened(t))
<1>0. Len(t) \in Nat /\ InstructionLimit \in Nat \ {0}
  BY ProductAssumption
<1>1. CASE Len(t) <= InstructionLimit
  BY <1>1 DEF Product!Shortened
<1>2. CASE Len(t) > InstructionLimit
  <2> DEFINE r == SubSeq(t, 1, InstructionLimit)
  <2>1. Product!Shortened(t) = r
    BY <1>0, <1>2 DEF Product!Shortened
  <2>2. /\ r \in Seq(C) /\ Len(r) = InstructionLimit
        /\ \A i \in 1 .. InstructionLimit : r[i] = t[i]
    <3>1. \A i \in 1 .. InstructionLimit : t[i] \in C
      BY <1>0, <1>2
    <3>2. QED
      BY <1>0, <3>1, SubSeqProperties
  <2> HIDE DEF r
  <2>3. r[1] = t[1] /\ t # <<>>
    BY <1>0, <1>2, <2>2
  <2>4. QED
    BY <1>0, <2>1, <2>2, <2>3 DEF Headed
<1>3. QED
  BY <1>0, <1>1, <1>2

(* An instruction that is normalised; and one that is normalised again. *)
LEMMA InstructionOnce ==
  ASSUME NEW t, IsText(t)
  PROVE  LET r == Product!Shortened(Product!strip(t))
         IN  IsText(r) /\ Headed(r) /\ Len(r) <= InstructionLimit
<1>1. PICK C : t \in Seq(C)
  BY DEF IsText
<1>2. Product!strip(t) \in Seq(C) /\ Headed(Product!strip(t))
  BY <1>1, Stripped
<1>3. QED
  BY <1>2, Cut DEF IsText

LEMMA InstructionTwice ==
  ASSUME NEW t, IsText(t), Headed(t), Len(t) <= InstructionLimit
  PROVE  LET r == Product!Shortened(Product!strip(t))
         IN  /\ r = Product!strip(t)
             /\ IsText(r) /\ Headed(r) /\ Tailed(r) /\ Len(r) <= InstructionLimit
             /\ t # <<>> => r # <<>>
             /\ Tailed(t) => r = t
<1>1. PICK C : t \in Seq(C)
  BY DEF IsText
<1> DEFINE r == Product!strip(t)
<1>2. /\ r \in Seq(C) /\ Len(r) <= Len(t) /\ Headed(r) /\ Tailed(r)
      /\ t # <<>> => r # <<>>
      /\ Tailed(t) => r = t
  BY <1>1, Stripped
<1> HIDE DEF r
<1>3. Len(r) <= InstructionLimit
  <2>1. Len(r) \in Nat /\ Len(t) \in Nat /\ InstructionLimit \in Nat
    BY <1>1, <1>2, ProductAssumption
  <2>2. QED
    BY <1>2, <2>1
<1>4. Product!Shortened(r) = r
  BY <1>3 DEF Product!Shortened
<1>5. QED
  BY <1>2, <1>3, <1>4 DEF r, IsText

(* The other fields, of what was found and of what is normalised already. *)
LEMMA FieldsOnce ==
  ASSUME NEW s, Raw(s)
  PROVE  LET n == Product!normalize_settings(s)
         IN  /\ Settings(n) /\ n.ai_autostart \in BOOLEAN /\ n.context_enabled \in BOOLEAN
             /\ n.context_chars \in Product!CONTEXT_LENGTHS
             /\ n.document_domain \in Product!DOMAIN_PRESETS
             /\ n.custom_instruction = Product!Shortened(Product!strip(s.custom_instruction))
<1> DEFINE n == Product!normalize_settings(s)
<1>1. n.context_chars \in Product!CONTEXT_LENGTHS
  <2>1. Product!Flag(s, "context_chars") \in Int
    BY DEF Raw, Product!Flag, Product!DEFAULT_SETTINGS
  <2>2. QED
    BY <2>1, NearestOffered DEF Product!normalize_settings
<1>2. n.ai_autostart \in BOOLEAN /\ n.context_enabled \in BOOLEAN
  BY DEF Product!normalize_settings, Raw, Product!Flag, Product!DEFAULT_SETTINGS
<1>3. n.document_domain \in Product!DOMAIN_PRESETS
  BY DEF Product!normalize_settings, Product!OrDefault, Product!DEFAULT_SETTINGS, Product!DOMAIN_PRESETS
<1>4. /\ Settings(n)
      /\ n.custom_instruction = Product!Shortened(Product!strip(s.custom_instruction))
  BY DEF Product!normalize_settings, Settings
<1>5. QED
  BY <1>1, <1>2, <1>3, <1>4

LEMMA FieldsTwice ==
  ASSUME Distinguished, NEW s, Once(s)
  PROVE  Product!normalize_settings(s) =
           [ai_autostart |-> s.ai_autostart, context_enabled |-> s.context_enabled,
            context_chars |-> s.context_chars, document_domain |-> s.document_domain,
            custom_instruction |-> Product!Shortened(Product!strip(s.custom_instruction))]
<1>1. /\ Product!Flag(s, "ai_autostart") = s.ai_autostart
      /\ Product!Flag(s, "context_enabled") = s.context_enabled
      /\ Product!Flag(s, "context_chars") = s.context_chars
  BY DEF Once, Product!Flag, Distinguished, Product!CONTEXT_LENGTHS
<1>2. Product!Nearest(s.context_chars) = s.context_chars
  BY NearestKeeps DEF Once
<1>3. Product!OrDefault(s, "document_domain", Product!DOMAIN_PRESETS) = s.document_domain
  BY DEF Once, Product!OrDefault
<1>4. QED
  BY <1>1, <1>2, <1>3 DEF Product!normalize_settings

(* Settings that are normalised; that are normalised again, as a save does to  *)
(* what has been read or collected; and again, as they are read back.          *)
LEMMA Normalized ==
  ASSUME NEW s, Raw(s)
  PROVE  Once(Product!normalize_settings(s))
<1>1. IsText(s.custom_instruction)
  BY DEF Raw
<1>2. QED
  BY <1>1, FieldsOnce, InstructionOnce DEF Once

LEMMA NormalizedTwice ==
  ASSUME Distinguished, NEW s, Once(s)
  PROVE  LET n == Product!normalize_settings(s)
         IN  /\ Normal(n)
             /\ n.ai_autostart = s.ai_autostart /\ n.context_enabled = s.context_enabled
             /\ n.context_chars = s.context_chars /\ n.document_domain = s.document_domain
             /\ n.custom_instruction = Product!strip(s.custom_instruction)
             /\ s.custom_instruction # <<>> => n.custom_instruction # <<>>
<1> DEFINE n == Product!normalize_settings(s)
           t == s.custom_instruction
           r == Product!Shortened(Product!strip(t))
<1>1. n = [ai_autostart |-> s.ai_autostart, context_enabled |-> s.context_enabled,
           context_chars |-> s.context_chars, document_domain |-> s.document_domain,
           custom_instruction |-> r]
  BY FieldsTwice
<1>2. /\ r = Product!strip(t)
      /\ IsText(r) /\ Headed(r) /\ Tailed(r) /\ Len(r) <= InstructionLimit
      /\ t # <<>> => r # <<>>
  <2>1. IsText(t) /\ Headed(t) /\ Len(t) <= InstructionLimit
    BY DEF Once
  <2> HIDE DEF t
  <2>2. QED
    BY <2>1, InstructionTwice
<1> HIDE DEF n, r
<1>3. /\ Settings(n)
      /\ n.ai_autostart = s.ai_autostart /\ n.context_enabled = s.context_enabled
      /\ n.context_chars = s.context_chars /\ n.document_domain = s.document_domain
      /\ n.custom_instruction = r
  BY <1>1 DEF Settings
<1>4. Normal(n)
  BY <1>2, <1>3 DEF Normal, Once
<1>5. QED
  BY <1>2, <1>3, <1>4 DEF n

LEMMA NormalKept ==
  ASSUME Distinguished, NEW s, Normal(s)
  PROVE  Product!normalize_settings(s) = s
<1>1. Once(s) /\ Settings(s)
  BY DEF Normal, Once
<1>2. Product!Shortened(Product!strip(s.custom_instruction)) = s.custom_instruction
  <2>1. /\ IsText(s.custom_instruction) /\ Headed(s.custom_instruction) /\ Tailed(s.custom_instruction)
        /\ Len(s.custom_instruction) <= InstructionLimit
    BY DEF Normal, Once
  <2>2. QED
    BY <2>1, InstructionTwice
<1>3. QED
  BY <1>1, <1>2, FieldsTwice DEF Settings

LEMMA DefaultIs ==
  /\ Raw(Product!DEFAULT_SETTINGS) /\ Product!DEFAULT_SETTINGS.context_enabled \in BOOLEAN
  /\ Once(Product!DEFAULT_SETTINGS) /\ Product!DEFAULT_SETTINGS.ai_autostart
<1>1. IsText(<<>>) /\ Headed(<<>>) /\ Len(<<>>) <= InstructionLimit
  <2>1. <<>> \in Seq({})
    OBVIOUS
  <2>2. QED
    BY <2>1, ProductAssumption DEF IsText, Headed
<1>2. QED
  BY <1>1 DEF Product!DEFAULT_SETTINGS, Raw, Once, Settings, Product!CONTEXT_LENGTHS, Product!DOMAIN_PRESETS

(* What a program reads: the defaults, what a save has written, or what was    *)
(* found.                                                                      *)
LEMMA Loaded ==
  ASSUME Distinguished, FilesInv
  PROVE  LET s == Product!load_settings
         IN  /\ Once(s)
             /\ \/ s.ai_autostart
                \/ Whole(s)
                \/ \E found \in Found \ {Absent, Torn} : s = Product!normalize_settings(found)
<1> DEFINE s == file["settings"]
<1>1. CASE s \in {Absent, Torn}
  BY <1>1, DefaultIs DEF Product!load_settings
<1>2. CASE s \notin {Absent, Torn} /\ s \in Found
  <2>1. Raw(s)
    BY <1>2 DEF Distinguished
  <2>2. Once(Product!normalize_settings(s))
    BY <2>1, Normalized
  <2>3. QED
    BY <1>2, <2>2 DEF Product!load_settings
<1>3. CASE s \notin {Absent, Torn} /\ Whole(s)
  <2>1. Normal(s) /\ Once(s)
    BY <1>3 DEF Whole, Normal
  <2>2. Product!normalize_settings(s) = s
    BY <2>1, NormalKept
  <2>3. Product!load_settings = s
    BY <1>3, <2>2 DEF Product!load_settings
  <2>4. QED
    BY <1>3, <2>1, <2>3
<1>4. QED
  BY <1>1, <1>2, <1>3 DEF FilesInv, OnDisk

(* Settings with one field changed. *)
LEMMA LengthChanged ==
  ASSUME NEW s, Settings(s), NEW v
  PROVE  [s EXCEPT !.context_chars = v] =
           [ai_autostart |-> s.ai_autostart, context_enabled |-> s.context_enabled,
            context_chars |-> v, document_domain |-> s.document_domain,
            custom_instruction |-> s.custom_instruction]
<1> DEFINE a == s.ai_autostart
           e == s.context_enabled
           c == s.context_chars
           d == s.document_domain
           i == s.custom_instruction
<1>1. s = [ai_autostart |-> a, context_enabled |-> e, context_chars |-> c,
           document_domain |-> d, custom_instruction |-> i]
  BY DEF Settings
<1> HIDE DEF a, e, c, d, i
<1>2. [[ai_autostart |-> a, context_enabled |-> e, context_chars |-> c,
        document_domain |-> d, custom_instruction |-> i] EXCEPT !.context_chars = v]
      = [ai_autostart |-> a, context_enabled |-> e, context_chars |-> v,
         document_domain |-> d, custom_instruction |-> i]
  OBVIOUS
<1>3. QED
  BY <1>1, <1>2 DEF a, e, c, d, i

LEMMA AutostartChanged ==
  ASSUME NEW s, Settings(s), NEW v
  PROVE  [s EXCEPT !.ai_autostart = v] =
           [ai_autostart |-> v, context_enabled |-> s.context_enabled,
            context_chars |-> s.context_chars, document_domain |-> s.document_domain,
            custom_instruction |-> s.custom_instruction]
<1> DEFINE a == s.ai_autostart
           e == s.context_enabled
           c == s.context_chars
           d == s.document_domain
           i == s.custom_instruction
<1>1. s = [ai_autostart |-> a, context_enabled |-> e, context_chars |-> c,
           document_domain |-> d, custom_instruction |-> i]
  BY DEF Settings
<1> HIDE DEF a, e, c, d, i
<1>2. [[ai_autostart |-> a, context_enabled |-> e, context_chars |-> c,
        document_domain |-> d, custom_instruction |-> i] EXCEPT !.ai_autostart = v]
      = [ai_autostart |-> v, context_enabled |-> e, context_chars |-> c,
         document_domain |-> d, custom_instruction |-> i]
  OBVIOUS
<1>3. QED
  BY <1>1, <1>2 DEF a, e, c, d, i

LEMMA InstructionChanged ==
  ASSUME NEW s, Settings(s), NEW v
  PROVE  [s EXCEPT !.custom_instruction = v] =
           [ai_autostart |-> s.ai_autostart, context_enabled |-> s.context_enabled,
            context_chars |-> s.context_chars, document_domain |-> s.document_domain,
            custom_instruction |-> v]
<1> DEFINE a == s.ai_autostart
           e == s.context_enabled
           c == s.context_chars
           d == s.document_domain
           i == s.custom_instruction
<1>1. s = [ai_autostart |-> a, context_enabled |-> e, context_chars |-> c,
           document_domain |-> d, custom_instruction |-> i]
  BY DEF Settings
<1> HIDE DEF a, e, c, d, i
<1>2. [[ai_autostart |-> a, context_enabled |-> e, context_chars |-> c,
        document_domain |-> d, custom_instruction |-> i] EXCEPT !.custom_instruction = v]
      = [ai_autostart |-> a, context_enabled |-> e, context_chars |-> c,
         document_domain |-> d, custom_instruction |-> v]
  OBVIOUS
<1>3. QED
  BY <1>1, <1>2 DEF a, e, c, d, i

(* What a migration writes of what was found, field by field. *)
LEMMA MigratedIs ==
  ASSUME NEW found, Raw(found), NEW s
  PROVE  LET was == Product!normalize_settings(found)
         IN  Product!Migrated(s, found) <=>
               s = [ai_autostart |-> TRUE, context_enabled |-> was.context_enabled,
                    context_chars |-> was.context_chars, document_domain |-> was.document_domain,
                    custom_instruction |-> Product!strip(was.custom_instruction)]
<1> DEFINE was == Product!normalize_settings(found)
           on == [was EXCEPT !.ai_autostart = TRUE]
<1>1. Settings(was)
  BY FieldsOnce
<1>2. Product!Migrated(s, found) <=>
        s = [on EXCEPT !.custom_instruction = Product!strip(on.custom_instruction)]
  BY DEF Product!Migrated
<1> HIDE DEF was
<1>3. on = [ai_autostart |-> TRUE, context_enabled |-> was.context_enabled,
            context_chars |-> was.context_chars, document_domain |-> was.document_domain,
            custom_instruction |-> was.custom_instruction]
  BY <1>1, AutostartChanged
<1> HIDE DEF on
<1>4. /\ Settings(on) /\ on.ai_autostart = TRUE
      /\ on.context_enabled = was.context_enabled /\ on.context_chars = was.context_chars
      /\ on.document_domain = was.document_domain
      /\ on.custom_instruction = was.custom_instruction
  BY <1>3 DEF Settings
<1>5. [on EXCEPT !.custom_instruction = Product!strip(on.custom_instruction)] =
        [ai_autostart |-> TRUE, context_enabled |-> was.context_enabled,
         context_chars |-> was.context_chars, document_domain |-> was.document_domain,
         custom_instruction |-> Product!strip(was.custom_instruction)]
  <2> DEFINE t == Product!strip(on.custom_instruction)
  <2>1. t = Product!strip(was.custom_instruction)
    BY <1>4, Zenon
  <2> HIDE DEF t
  <2>2. [on EXCEPT !.custom_instruction = t] =
          [ai_autostart |-> on.ai_autostart, context_enabled |-> on.context_enabled,
           context_chars |-> on.context_chars, document_domain |-> on.document_domain,
           custom_instruction |-> t]
    BY <1>4, InstructionChanged, Zenon
  <2>3. [on EXCEPT !.custom_instruction = t] =
          [ai_autostart |-> TRUE, context_enabled |-> was.context_enabled,
           context_chars |-> was.context_chars, document_domain |-> was.document_domain,
           custom_instruction |-> t]
    BY <1>4, <2>2, Zenon
  <2>4. QED
    BY <2>1, <2>3, Zenon DEF t
<1>6. Product!Migrated(s, found) <=>
        s = [ai_autostart |-> TRUE, context_enabled |-> was.context_enabled,
             context_chars |-> was.context_chars, document_domain |-> was.document_domain,
             custom_instruction |-> Product!strip(was.custom_instruction)]
  BY <1>2, <1>5, Zenon
<1>7. QED
  BY <1>6, Zenon DEF was

LEMMA ZeroIsALength == 0 \in Int /\ 0 \in Product!CONTEXT_LENGTHS
BY DEF Product!CONTEXT_LENGTHS

(* What a window has collected, and what it writes of it. *)
LEMMA CollectedWhole ==
  ASSUME Distinguished, NEW choice \in Edits \cup {Product!DEFAULT_SETTINGS},
         Product!_collect(choice).document_domain = "custom" =>
           Product!_collect(choice).custom_instruction # <<>>
  PROVE  Whole(Product!Written(Product!_collect(choice)))
<1> DEFINE c == IF choice.context_enabled THEN choice ELSE [choice EXCEPT !.context_chars = 0]
           d == Product!_collect(choice)
           w == Product!Written(d)
<1>1. Raw(choice) /\ choice.context_enabled \in BOOLEAN
  BY DefaultIs DEF Distinguished
<1>2. /\ Raw(c)
      /\ c.context_enabled = choice.context_enabled
      /\ ~choice.context_enabled => c.context_chars = 0
  <2>1. CASE choice.context_enabled
    BY <1>1, <2>1
  <2>2. CASE ~choice.context_enabled
    <3>1. c = [ai_autostart |-> choice.ai_autostart, context_enabled |-> choice.context_enabled,
               context_chars |-> 0, document_domain |-> choice.document_domain,
               custom_instruction |-> choice.custom_instruction]
      <4>1. c = [choice EXCEPT !.context_chars = 0]
        BY <2>2
      <4>2. Settings(choice)
        BY <1>1 DEF Raw
      <4> HIDE DEF c
      <4>3. QED
        BY <4>1, <4>2, LengthChanged, Zenon
    <3> HIDE DEF c
    <3>2. /\ Settings(c)
          /\ c.context_chars = 0
          /\ c.ai_autostart = choice.ai_autostart
          /\ c.context_enabled = choice.context_enabled
          /\ c.custom_instruction = choice.custom_instruction
      BY <3>1 DEF Settings
    <3>3. c.context_chars \in Int
      BY <3>2, ZeroIsALength, Zenon
    <3>4. QED
      BY <1>1, <3>2, <3>3, Zenon DEF Raw
  <2>3. QED
    BY <2>1, <2>2
<1>3. d = Product!normalize_settings(c)
  BY DEF Product!_collect
<1> HIDE DEF c, d
<1>4. Once(d)
  BY <1>2, <1>3, Normalized
<1>5. ~d.context_enabled => d.context_chars = 0
  <2>1. d.context_enabled = Product!Flag(c, "context_enabled")
        /\ d.context_chars = Product!Nearest(Product!Flag(c, "context_chars"))
    BY <1>3 DEF Product!normalize_settings
  <2>2. d.context_enabled = choice.context_enabled
    BY <1>1, <1>2, <2>1 DEF Product!Flag, Distinguished
  <2>3. c.context_chars = 0 => Product!Flag(c, "context_chars") = 0
    BY ZeroIsALength DEF Product!Flag, Distinguished
  <2>4. Product!Nearest(0) = 0
    BY ZeroIsALength, NearestKeeps
  <2>5. QED
    BY <1>2, <2>1, <2>2, <2>3, <2>4
<1>6. /\ Normal(w)
      /\ w.context_enabled = d.context_enabled /\ w.context_chars = d.context_chars
      /\ w.document_domain = d.document_domain
      /\ d.custom_instruction # <<>> => w.custom_instruction # <<>>
  BY <1>4, NormalizedTwice DEF Product!Written
<1> HIDE DEF w
<1>7. Product!Chosen(w)
  BY <1>5, <1>6 DEF Product!Chosen, d
<1>8. QED
  BY <1>6, <1>7 DEF Whole, w, d

(* What a migration writes. *)
LEMMA MigrationWhole ==
  ASSUME Distinguished, FilesInv, ~Product!load_settings.ai_autostart
  PROVE  Whole(Product!Written([Product!load_settings EXCEPT !.ai_autostart = TRUE]))
<1> DEFINE was == Product!load_settings
           body == [was EXCEPT !.ai_autostart = TRUE]
           w == Product!Written(body)
<1>1. /\ Once(was) /\ ~was.ai_autostart
      /\ \/ Whole(was)
         \/ \E found \in Found \ {Absent, Torn} : was = Product!normalize_settings(found)
  BY Loaded
<1> HIDE DEF was
<1>2. body = [ai_autostart |-> TRUE, context_enabled |-> was.context_enabled,
              context_chars |-> was.context_chars, document_domain |-> was.document_domain,
              custom_instruction |-> was.custom_instruction]
  BY <1>1, AutostartChanged DEF Once
<1> HIDE DEF body
<1>3. /\ Settings(body) /\ body.ai_autostart = TRUE
      /\ body.context_enabled = was.context_enabled /\ body.context_chars = was.context_chars
      /\ body.document_domain = was.document_domain
      /\ body.custom_instruction = was.custom_instruction
  BY <1>2 DEF Settings
<1>4. Once(body)
  BY <1>1, <1>3 DEF Once
<1>5. /\ Normal(w) /\ w.ai_autostart = TRUE
      /\ w.context_enabled = was.context_enabled /\ w.context_chars = was.context_chars
      /\ w.document_domain = was.document_domain
      /\ w.custom_instruction = Product!strip(was.custom_instruction)
      /\ was.custom_instruction # <<>> => w.custom_instruction # <<>>
  BY <1>3, <1>4, NormalizedTwice DEF Product!Written
<1> HIDE DEF w
<1>6. CASE Whole(was)
  <2>1. ASSUME NEW found \in Found \ {Absent, Torn}, Product!Migrated(was, found)
        PROVE  FALSE
    <3>1. Raw(found)
      BY DEF Distinguished
    <3>2. was.ai_autostart = TRUE
      BY <2>1, <3>1, MigratedIs
    <3>3. QED
      BY <1>1, <3>2
  <2>2. Product!Chosen(was)
    BY <1>6, <2>1 DEF Whole
  <2>3. Product!Chosen(w)
    BY <1>5, <2>2 DEF Product!Chosen
  <2>4. QED
    BY <1>5, <2>3 DEF Whole, w, body, was
<1>7. CASE \E found \in Found \ {Absent, Torn} : was = Product!normalize_settings(found)
  <2>1. PICK found \in Found \ {Absent, Torn} : was = Product!normalize_settings(found)
    BY <1>7
  <2>2. Raw(found)
    BY DEF Distinguished
  <2>3. w = [ai_autostart |-> TRUE, context_enabled |-> was.context_enabled,
             context_chars |-> was.context_chars, document_domain |-> was.document_domain,
             custom_instruction |-> Product!strip(was.custom_instruction)]
    BY <1>5 DEF Normal, Once, Settings
  <2>4. Product!Migrated(w, found)
    BY <2>1, <2>2, <2>3, MigratedIs
  <2>5. QED
    BY <1>5, <2>4 DEF Whole, w, body, was
<1>8. QED
  BY <1>1, <1>6, <1>7
-----------------------------------------------------------------------------
(* The steps. *)

LEMMA StartProcessKeeps ==
  ASSUME Distinguished, FilesInv, NEW p \in Numbers, Product!Start(p)
  PROVE  FilesInv'
BY DEF FilesInv, FilesTypes, Writers, OnDisk, Product!Start, Product!Goto, Saving

LEMMA MigrateKeeps ==
  ASSUME Distinguished, FilesInv, NEW p \in Numbers, Product!Migrate(p)
  PROVE  FilesInv'
<1>1. CASE Product!load_settings.ai_autostart
  <2>1. Product!Exit(p) /\ UNCHANGED <<file, tmp>>
    BY <1>1 DEF Product!Migrate
  <2>2. QED
    BY <2>1 DEF FilesInv, FilesTypes, Writers, OnDisk, Product!Exit, Product!Rest, Product!Goto, Saving
<1>2. CASE ~Product!load_settings.ai_autostart
  <2> DEFINE was == Product!load_settings
             body == Product!Written([was EXCEPT !.ai_autostart = TRUE])
  <2>1. Whole(body)
    BY <1>2, MigrationWhole
  <2> HIDE DEF body
  <2>2. mem' = [mem EXCEPT ![p] = body] /\ Product!Goto(p, "open")
    BY <1>2 DEF Product!Migrate, body
  <2>3. Body("migration", body)
    BY <2>1 DEF Body
  <2>4. QED
    BY <1>2, <2>2, <2>3 DEF FilesInv, FilesTypes, Writers, OnDisk, Product!Migrate, Product!Goto, Saving, Product!Running
<1>3. QED
  BY <1>1, <1>2

(* A process turns to a save of a body for its own file. *)
LEMMA SaveKeeps ==
  ASSUME FilesInv, NEW p \in Numbers, NEW body, at[p] = "ready", Body(role[p], body),
         mem' = [mem EXCEPT ![p] = body], Product!Goto(p, "open"), UNCHANGED <<file, tmp, role>>
  PROVE  FilesInv'
BY DEF FilesInv, FilesTypes, Writers, OnDisk, Product!Goto, Saving, Body

LEMMA WritersKeep ==
  ASSUME Distinguished, FilesInv, NEW p \in Numbers,
         Product!_save(p) \/ Product!WriteStatus(p) \/ Product!mark_onboarding_seen(p)
  PROVE  FilesInv'
<1>1. CASE Product!_save(p)
  <2>1. PICK choice \in Edits \cup {Product!DEFAULT_SETTINGS} :
          /\ Product!_collect(choice).document_domain = "custom" =>
               Product!_collect(choice).custom_instruction # <<>>
          /\ mem' = [mem EXCEPT ![p] = Product!Written(Product!_collect(choice))]
    BY <1>1 DEF Product!_save
  <2>2. Body(role[p], Product!Written(Product!_collect(choice)))
    BY <1>1, <2>1, CollectedWhole DEF Product!_save, Product!Running, Body
  <2>3. QED
    BY <1>1, <2>1, <2>2, SaveKeeps DEF Product!_save, Product!Running
<1>2. CASE Product!WriteStatus(p)
  <2>1. PICK next_file \in {"loading", "on"} : mem' = [mem EXCEPT ![p] = next_file]
    BY <1>2 DEF Product!WriteStatus
  <2>2. QED
    BY <1>2, <2>1, SaveKeeps DEF Product!WriteStatus, Product!Running, Body
<1>3. CASE Product!mark_onboarding_seen(p)
  BY <1>3, SaveKeeps DEF Product!mark_onboarding_seen, Product!Running, Body
<1>4. QED
  BY <1>1, <1>2, <1>3

LEMMA OpenKeeps ==
  ASSUME FilesInv, NEW p \in Numbers, Product!Open(p) \/ Product!Write(p)
  PROVE  FilesInv'
BY DEF FilesInv, FilesTypes, Writers, OnDisk, Product!Open, Product!Write, Product!Goto, Saving, Body

LEMMA ReplaceKeeps ==
  ASSUME FilesInv, NEW p \in Numbers, Product!Replace(p)
  PROVE  FilesInv'
<1>1. Body(role[p], tmp[p]) /\ role[p] # "none"
  BY DEF FilesInv, Writers, Product!Replace, Saving, Body
<1>2. OnDisk' /\ file' = [f \in Files |-> file'[f]]
  <2>1. file' = [file EXCEPT ![Product!FileOf[role[p]]] = tmp[p]]
    BY DEF Product!Replace
  <2>2. CASE role[p] \in {"window", "migration"}
    <3>1. file' = [file EXCEPT !["settings"] = tmp[p]] /\ Whole(tmp[p])
      <4>1. Product!FileOf[role[p]] = "settings"
        <5>1. CASE role[p] = "window"
          BY <5>1 DEF Product!FileOf
        <5>2. CASE role[p] = "migration"
          BY <5>2 DEF Product!FileOf
        <5>3. QED
          BY <2>2, <5>1, <5>2
      <4>2. QED
        BY <1>1, <2>1, <2>2, <4>1 DEF Body
    <3>2. file' = [f \in Files |-> file'[f]] /\ file'["settings"] = tmp[p]
          /\ file'["status"] = file["status"] /\ file'["onboarding"] = file["onboarding"]
      BY <3>1 DEF FilesInv, FilesTypes, Files
    <3>3. QED
      BY <3>1, <3>2 DEF FilesInv, OnDisk
  <2>3. CASE role[p] = "ranker"
    <3>1. file' = [file EXCEPT !["status"] = tmp[p]] /\ tmp[p] \in {"loading", "on"}
      BY <1>1, <2>1, <2>3 DEF Body, Product!FileOf
    <3>2. QED
      BY <3>1 DEF FilesInv, FilesTypes, OnDisk, Files
  <2>4. CASE role[p] = "guide"
    <3>1. file' = [file EXCEPT !["onboarding"] = tmp[p]] /\ tmp[p] = "seen"
      BY <1>1, <2>1, <2>4 DEF Body, Product!FileOf
    <3>2. QED
      BY <3>1 DEF FilesInv, FilesTypes, OnDisk, Files
  <2>5. QED
    BY <1>1, <2>2, <2>3, <2>4 DEF Body
<1>3. CASE Product!Rest(p) /\ UNCHANGED role
  BY <1>2, <1>3 DEF FilesInv, FilesTypes, Writers, Product!Replace, Product!Rest, Product!Goto, Saving, Body
<1>4. CASE Product!Exit(p)
  BY <1>2, <1>4 DEF FilesInv, FilesTypes, Writers, Product!Replace, Product!Exit, Product!Rest, Product!Goto, Saving, Body
<1>5. CASE Product!_launch_settings(p)
  BY <1>2, <1>5 DEF FilesInv, FilesTypes, Writers, Product!Replace, Product!_launch_settings, Product!Rest, Product!Goto, Saving, Body
<1>6. QED
  BY <1>3, <1>4, <1>5 DEF Product!Replace, Product!Done

LEMMA RaiseKeeps ==
  ASSUME FilesInv, NEW p \in Numbers, Product!Raise(p)
  PROVE  FilesInv'
BY DEF FilesInv, FilesTypes, Writers, OnDisk, Product!Raise, Product!Exit, Product!Rest, Product!Goto, Saving

LEMMA EndKeeps ==
  ASSUME FilesInv, NEW p \in Numbers, Product!End(p)
  PROVE  FilesInv'
BY DEF FilesInv, FilesTypes, Writers, OnDisk, Product!End, Product!Leave, Product!Exit, Product!Rest, Product!Goto, Saving
-----------------------------------------------------------------------------
(* Whatever fails, ends or runs beside it, each file is as it was found or one *)
(* save's whole body; settings.json reads back as it was written, whatever the *)
(* texts that were found or typed and wherever they are cut; it is a user's    *)
(* choice or what was found, migrated; and a ranker is told something of a     *)
(* domain (product_settings.py:63-119, ranker.py's and the guide's writes).    *)
THEOREM FilesStayWhole ==
  ASSUME Distinguished
  PROVE  Product!Spec => []FilesAreWhole
<1>1. Product!Init => FilesInv
  BY DEF Product!Init, FilesInv, FilesTypes, Writers, OnDisk, Files, Saving
<1>2. FilesInv /\ [Product!Next]_(Product!vars) => FilesInv'
  <2> SUFFICES ASSUME FilesInv, [Product!Next]_(Product!vars) PROVE FilesInv'
    OBVIOUS
  <2>1. CASE UNCHANGED Product!vars
    BY <2>1 DEF Product!vars, FilesInv, FilesTypes, Writers, OnDisk
  <2>2. CASE Product!Next
    BY <2>2, StartProcessKeeps, MigrateKeeps, WritersKeep, OpenKeeps, ReplaceKeeps, RaiseKeeps, EndKeeps
    DEF Product!Next
  <2>3. QED
    BY <2>1, <2>2
<1>3. FilesInv => FilesAreWhole
  <2> SUFFICES ASSUME FilesInv PROVE FilesAreWhole
    OBVIOUS
  <2>1. ASSUME NEW f \in DOMAIN file, file[f] = Torn
        PROVE  f = "settings" /\ Torn \in Found
    BY <2>1 DEF FilesInv, FilesTypes, OnDisk, Files, Distinguished, Whole
  <2>2. ASSUME file["settings"] \notin Found
        PROVE  /\ Product!normalize_settings(file["settings"]) = file["settings"]
               /\ \/ Product!Chosen(file["settings"])
                  \/ \E found \in Found \ {Absent, Torn} : Product!Migrated(file["settings"], found)
    BY <2>2, NormalKept DEF FilesInv, OnDisk, Whole
  <2>3. LET told == Product!domain_instruction(Product!load_settings)
        IN  told.preset # "none" \/ told.custom # <<>>
    <3> DEFINE n == Product!normalize_settings(Product!load_settings)
    <3>1. n.document_domain \in Product!DOMAIN_PRESETS
      BY Loaded, NormalizedTwice DEF Normal, Once
    <3> HIDE DEF n
    <3>2. CASE n.document_domain = "custom" /\ n.custom_instruction # <<>>
      BY <3>2 DEF Product!domain_instruction, n
    <3>3. CASE n.document_domain = "custom" /\ n.custom_instruction = <<>>
      BY <3>3 DEF Product!domain_instruction, n
    <3>4. CASE n.document_domain # "custom"
      BY <3>1, <3>4 DEF Product!domain_instruction, Product!DOMAIN_PRESETS, n
    <3>5. QED
      BY <3>2, <3>3, <3>4
  <2>4. QED
    BY <2>1, <2>2, <2>3 DEF FilesAreWhole, Product!FilesAreWhole
<1>4. QED
  BY <1>1, <1>2, <1>3, PTL DEF Product!Spec
-----------------------------------------------------------------------------
(* The installation.  Without a failure that is ignored, what a phase has still *)
(* to execute says what there is: which files, which registration, what the     *)
(* service does and what is recorded for rollback.                              *)

\* How many records are still to be executed.
left == Len(script)
\* The last n records of a script.
LastOf(plan, n) == SubSeq(plan, Len(plan) - n + 1, Len(plan))

\* The scripts, by phase.
Plan == [execute |-> Msi!ExecuteScript[mode], nested |-> Msi!NestedScript,
         finalize |-> Msi!FinalScript[mode], commit |-> Msi!CommitScript[mode]]

\* All that may be recorded for rollback, the last recorded first.
Undoing ==
  [fresh   |-> <<"RegisterTIPRollback64", "StopCacheServiceForRollback",
                 "UninstallFiles", "StartServices">>,
   upgrade |-> <<"StopCacheServiceForRollback", "RestoreOldFiles",
                 "UnregisterTIPRollback64", "UninstallFiles", "StartServices">>]

\* How much of it is, with n records of a script left.
RecordedAt(step, n) ==
  IF mode = "fresh"
  THEN IF step = "execute" THEN IF n >= 2 THEN 0 ELSE 2 - n
       ELSE IF n = 6 THEN 2 ELSE IF n >= 4 THEN 3 ELSE 4
  ELSE IF step = "execute" THEN 2 - n
       ELSE IF step = "nested" THEN 4 - n
       ELSE IF n = 5 THEN 4 ELSE 5

\* The phases that record for rollback.
Forward == {"execute", "nested", "finalize"}

\* The script is what is left of the phase's, and what is recorded follows from that.
InOrder ==
  /\ phase \in Forward \cup {"commit"} =>
       left \in 0 .. Len(Plan[phase]) /\ script = LastOf(Plan[phase], left)
  /\ phase \in Forward /\ mode # "uninstall" => undo = LastOf(Undoing[mode], RecordedAt(phase, left))
  /\ phase = "nested" => mode = "upgrade"
  /\ phase = "rollback" /\ mode # "uninstall" =>
       left \in 0 .. Len(Undoing[mode]) /\ script = LastOf(Undoing[mode], left)

\* A first installation, by phase and by what is left of it.
FreshStands ==
  /\ ~before /\ ~service
  /\ phase \in Forward \cup {"commit", "rollback"} => data = MozcDir
  /\ phase \in {"immediate"} \cup Forward \cup {"rollback"} => ~enabled
  /\ phase = "immediate" => omaha = "none"
  /\ phase = "execute" => omaha = IF left = 3 THEN "none" ELSE "error"
  /\ phase \in {"finalize", "rollback"} => omaha = "error"
  /\ phase = "commit" => omaha = IF left = 3 THEN "error" ELSE "cleared"
  /\ phase = "immediate" => files = {} /\ data = "none"
  /\ phase = "execute" => files = IF left = 0 THEN {"new"} ELSE {}
  /\ phase \in {"finalize", "commit"} => files = {"new"}
  /\ phase = "rollback" => files \subseteq {"new"} /\ (left <= 1 => files = {})
  /\ phase \in {"immediate", "execute"} => tsf = Msi!Unregistered
  /\ phase = "finalize" =>
       tsf = IF left > 2 THEN Msi!Unregistered ELSE Msi!Registered(MozcDir)
  /\ phase = "rollback" /\ left <= 3 => tsf = Msi!Unregistered
  /\ phase = "finalize" /\ left <= 1 => granted
  /\ phase = "commit" => granted /\ tsf = Msi!Registered(MozcDir)

\* The same of an upgrade, whose service runs again before the text service is
\* registered, and whose old product is removed in between.
UpgradeStands ==
  /\ granted \/ phase = "failed"
  /\ phase \in Forward \cup {"commit", "rollback"} => data = MozcDir
  /\ phase \in {"immediate"} \cup Forward \cup {"commit", "done"} => omaha = "none"
  /\ phase \in {"immediate", "execute"} =>
       files = IF phase = "execute" /\ left = 0 THEN {"old", "new"} ELSE {"old"}
  /\ phase = "nested" => files = IF left = 0 THEN {"new"} ELSE {"old", "new"}
  /\ phase \in {"finalize", "commit"} => files = {"new"}
  /\ phase = "rollback" =>
       /\ files \subseteq {"old", "new"}
       /\ left <= 3 => "old" \in files
       /\ left <= 1 => files = {"old"}
       /\ left <= 2 => tsf \in {Msi!Registered(OldDir), Msi!Registered("server")}
       /\ left = 0 => service = before
  /\ phase \in {"immediate", "execute", "nested"} => tsf = Msi!Registered(OldDir)
  /\ phase = "finalize" =>
       tsf = IF left > 2 THEN Msi!Registered(OldDir) ELSE Msi!Registered(MozcDir)
  /\ phase = "commit" => tsf = Msi!Registered(MozcDir)
  /\ phase = "immediate" => service = before
  /\ phase = "execute" => IF left = 2 THEN service = before ELSE ~service
  /\ phase = "nested" => ~service
  /\ phase = "finalize" => IF left <= 3 THEN service = before ELSE ~service
  /\ phase = "commit" => service = before

\* And of a removal that is not sent back.
UninstallStands ==
  /\ phase = "execute" => (left <= 1 => tsf = Msi!Unregistered)
  /\ phase \in {"immediate", "execute"} =>
       files = IF phase = "execute" /\ left = 0 THEN {} ELSE {"old"}
  /\ phase \in {"finalize", "commit"} => tsf = Msi!Unregistered /\ files = {}

InstallInv ==
  /\ mode \in {"fresh", "upgrade", "uninstall"} /\ MozcDir \in Msi!Dirs
  /\ before \in BOOLEAN /\ service \in BOOLEAN /\ ignored \in BOOLEAN
  /\ phase \in {"immediate", "commit", "rollback", "done", "failed"} \cup Forward
  /\ ~ignored =>
       /\ InOrder
       /\ mode = "fresh" => FreshStands
       /\ mode = "upgrade" => UpgradeStands
       /\ mode = "uninstall" => UninstallStands
       /\ phase \in {"done", "failed"} => InstallIsAllOrNothing

-----------------------------------------------------------------------------
(* The last n records of a script: the first of them, and those after it. *)
LEMMA LastRecords ==
  ASSUME NEW S, NEW p \in Seq(S), NEW n \in 1 .. Len(p)
  PROVE  /\ LastOf(p, n) # <<>> /\ Len(LastOf(p, n)) = n
         /\ Head(LastOf(p, n)) = p[Len(p) - n + 1]
         /\ Tail(LastOf(p, n)) = LastOf(p, n - 1) /\ Len(LastOf(p, n - 1)) = n - 1
<1>1. Len(p) \in Nat /\ Len(p) - n + 1 \in 1 .. Len(p)
  OBVIOUS
<1>2. LastOf(p, n) \in Seq(S) /\ Len(LastOf(p, n)) = n
      /\ \A i \in 1 .. n : LastOf(p, n)[i] = p[Len(p) - n + i]
  BY <1>1 DEF LastOf
<1>3. LastOf(p, n - 1) \in Seq(S) /\ Len(LastOf(p, n - 1)) = n - 1
      /\ \A i \in 1 .. n - 1 : LastOf(p, n - 1)[i] = p[Len(p) - n + 1 + i]
  BY <1>1 DEF LastOf
<1>4. LastOf(p, n) # <<>>
  BY <1>1, <1>2
<1>5. /\ Tail(LastOf(p, n)) \in Seq(S) /\ Len(Tail(LastOf(p, n))) = n - 1
      /\ \A i \in 1 .. n - 1 : Tail(LastOf(p, n))[i] = LastOf(p, n)[i + 1]
  BY <1>2, <1>4, HeadTailProperties
<1>6. Tail(LastOf(p, n)) = LastOf(p, n - 1)
  <2>1. \A i \in 1 .. n - 1 : Tail(LastOf(p, n))[i] = LastOf(p, n - 1)[i]
    <3> TAKE i \in 1 .. n - 1
    <3>1. i + 1 \in 1 .. n /\ Len(p) - n + (i + 1) = Len(p) - n + 1 + i
      BY <1>1
    <3>2. QED
      BY <1>2, <1>3, <1>5, <3>1
  <2>2. QED
    BY <1>3, <1>5, <2>1, SeqEqual
<1>7. Head(LastOf(p, n)) = p[Len(p) - n + 1]
  BY <1>1, <1>2, <1>4
<1>8. QED
  BY <1>2, <1>3, <1>4, <1>6, <1>7

(* With the record before them they are the last n + 1. *)
LEMMA OneMoreRecord ==
  ASSUME NEW S, NEW p \in Seq(S), NEW n \in 0 .. Len(p) - 1
  PROVE  <<p[Len(p) - n]>> \o LastOf(p, n) = LastOf(p, n + 1)
<1>1. Len(p) \in Nat /\ p[Len(p) - n] \in S
  OBVIOUS
<1>2. LastOf(p, n) \in Seq(S) /\ Len(LastOf(p, n)) = n
      /\ \A i \in 1 .. n : LastOf(p, n)[i] = p[Len(p) - n + i]
  BY <1>1 DEF LastOf
<1>3. LastOf(p, n + 1) \in Seq(S) /\ Len(LastOf(p, n + 1)) = n + 1
      /\ \A i \in 1 .. n + 1 : LastOf(p, n + 1)[i] = p[Len(p) - n - 1 + i]
  BY <1>1 DEF LastOf
<1>4. <<p[Len(p) - n]>> \in Seq(S) /\ Len(<<p[Len(p) - n]>>) = 1
  BY <1>1
<1>5. LET t == <<p[Len(p) - n]>> \o LastOf(p, n) IN
      /\ t \in Seq(S) /\ Len(t) = 1 + n
      /\ \A i \in 1 .. 1 + n : t[i] = IF i <= 1 THEN <<p[Len(p) - n]>>[i] ELSE LastOf(p, n)[i - 1]
  BY <1>2, <1>4, ConcatProperties
<1>6. \A i \in 1 .. n + 1 : (<<p[Len(p) - n]>> \o LastOf(p, n))[i] = LastOf(p, n + 1)[i]
  <2> TAKE i \in 1 .. n + 1
  <2>1. CASE i = 1
    BY <1>1, <1>3, <1>5, <2>1
  <2>2. CASE i # 1
    <3>1. i - 1 \in 1 .. n /\ i \in 1 .. 1 + n /\ ~(i <= 1)
          /\ Len(p) - n + (i - 1) = Len(p) - n - 1 + i
      BY <1>1, <2>2
    <3>2. QED
      BY <1>2, <1>3, <1>5, <3>1
  <2>3. QED
    BY <2>1, <2>2
<1>7. QED
  BY <1>1, <1>3, <1>5, <1>6, SeqEqual

(* None of them, and all. *)
LEMMA AllOrNone ==
  ASSUME NEW S, NEW p \in Seq(S)
  PROVE  LastOf(p, 0) = <<>> /\ LastOf(p, Len(p)) = p
BY DEF LastOf

\* Every name in the tables.
Records == {"InitialInstallation", "StopServices", "InstallFiles", "UnregisterTIP64", "RemoveFiles",
            "UnregisterTIPRollback64", "RemoveOldFiles", "StopCacheServiceForRollback",
            "RestoreServiceState", "RegisterTIPRollback64", "RegisterTIP64",
            "EnsureAllApplicationPackagesPermisssions", "PublishProduct",
            "InitialInstallationCommit", "FixupConfigFilePermission", "EnableTipProfile",
            "UninstallFiles", "StartServices", "RestoreOldFiles"}

(* The tables of a first installation, and how long they are. *)
LEMMA FreshTables ==
  ASSUME mode = "fresh"
  PROVE  /\ Plan["execute"] \in Seq(Records) /\ Len(Plan["execute"]) = 3
         /\ Plan["execute"][1] = "InitialInstallation"
         /\ Plan["execute"][2] = "StopServices"
         /\ Plan["execute"][3] = "InstallFiles"
         /\ Plan["finalize"] \in Seq(Records) /\ Len(Plan["finalize"]) = 6
         /\ Plan["finalize"][1] = "StopCacheServiceForRollback"
         /\ Plan["finalize"][2] = "RestoreServiceState"
         /\ Plan["finalize"][3] = "RegisterTIPRollback64"
         /\ Plan["finalize"][4] = "RegisterTIP64"
         /\ Plan["finalize"][5] = "EnsureAllApplicationPackagesPermisssions"
         /\ Plan["finalize"][6] = "PublishProduct"
         /\ Plan["commit"] \in Seq(Records) /\ Len(Plan["commit"]) = 3
         /\ Plan["commit"][1] = "InitialInstallationCommit"
         /\ Plan["commit"][2] = "FixupConfigFilePermission"
         /\ Plan["commit"][3] = "EnableTipProfile"
         /\ Undoing[mode] \in Seq(Records) /\ Len(Undoing[mode]) = 4
         /\ Undoing[mode][1] = "RegisterTIPRollback64"
         /\ Undoing[mode][2] = "StopCacheServiceForRollback"
         /\ Undoing[mode][3] = "UninstallFiles"
         /\ Undoing[mode][4] = "StartServices"
<1> DEFINE a == <<"InitialInstallation", "StopServices", "InstallFiles">>
           b == <<"StopCacheServiceForRollback", "RestoreServiceState", "RegisterTIPRollback64",
                  "RegisterTIP64", "EnsureAllApplicationPackagesPermisssions", "PublishProduct">>
           c == <<"InitialInstallationCommit", "FixupConfigFilePermission", "EnableTipProfile">>
           d == <<"RegisterTIPRollback64", "StopCacheServiceForRollback",
                  "UninstallFiles", "StartServices">>
<1>1. /\ a \in Seq(Records) /\ Len(a) = 3
      /\ a[1] = "InitialInstallation"
      /\ a[2] = "StopServices"
      /\ a[3] = "InstallFiles"
  BY DEF Records
<1>2. /\ b \in Seq(Records) /\ Len(b) = 6
      /\ b[1] = "StopCacheServiceForRollback"
      /\ b[2] = "RestoreServiceState"
      /\ b[3] = "RegisterTIPRollback64"
      /\ b[4] = "RegisterTIP64"
      /\ b[5] = "EnsureAllApplicationPackagesPermisssions"
      /\ b[6] = "PublishProduct"
  BY DEF Records
<1>3. /\ c \in Seq(Records) /\ Len(c) = 3
      /\ c[1] = "InitialInstallationCommit"
      /\ c[2] = "FixupConfigFilePermission"
      /\ c[3] = "EnableTipProfile"
  BY DEF Records
<1>4. /\ d \in Seq(Records) /\ Len(d) = 4
      /\ d[1] = "RegisterTIPRollback64"
      /\ d[2] = "StopCacheServiceForRollback"
      /\ d[3] = "UninstallFiles"
      /\ d[4] = "StartServices"
  BY DEF Records
<1>5. Plan["execute"] = a /\ Plan["finalize"] = b /\ Plan["commit"] = c /\ Undoing[mode] = d
  BY DEF Plan, Undoing, Msi!ExecuteScript, Msi!NestedScript, Msi!FinalScript, Msi!CommitScript
<1> HIDE DEF a, b, c, d
<1>6. QED
  BY <1>1, <1>2, <1>3, <1>4, <1>5

(* Those of an upgrade. *)
LEMMA UpgradeTables ==
  ASSUME mode = "upgrade"
  PROVE  /\ Plan["execute"] \in Seq(Records) /\ Len(Plan["execute"]) = 2
         /\ Plan["execute"][1] = "StopServices"
         /\ Plan["execute"][2] = "InstallFiles"
         /\ Plan["nested"] \in Seq(Records) /\ Len(Plan["nested"]) = 2
         /\ Plan["nested"][1] = "UnregisterTIPRollback64"
         /\ Plan["nested"][2] = "RemoveOldFiles"
         /\ Plan["finalize"] \in Seq(Records) /\ Len(Plan["finalize"]) = 5
         /\ Plan["finalize"][1] = "StopCacheServiceForRollback"
         /\ Plan["finalize"][2] = "RestoreServiceState"
         /\ Plan["finalize"][3] = "RegisterTIP64"
         /\ Plan["finalize"][4] = "EnsureAllApplicationPackagesPermisssions"
         /\ Plan["finalize"][5] = "PublishProduct"
         /\ Plan["commit"] \in Seq(Records) /\ Len(Plan["commit"]) = 1
         /\ Plan["commit"][1] = "FixupConfigFilePermission"
         /\ Undoing[mode] \in Seq(Records) /\ Len(Undoing[mode]) = 5
         /\ Undoing[mode][1] = "StopCacheServiceForRollback"
         /\ Undoing[mode][2] = "RestoreOldFiles"
         /\ Undoing[mode][3] = "UnregisterTIPRollback64"
         /\ Undoing[mode][4] = "UninstallFiles"
         /\ Undoing[mode][5] = "StartServices"
<1> DEFINE a == <<"StopServices", "InstallFiles">>
           b == <<"UnregisterTIPRollback64", "RemoveOldFiles">>
           c == <<"StopCacheServiceForRollback", "RestoreServiceState",
                  "RegisterTIP64", "EnsureAllApplicationPackagesPermisssions", "PublishProduct">>
           d == <<"FixupConfigFilePermission">>
           e == <<"StopCacheServiceForRollback", "RestoreOldFiles",
                  "UnregisterTIPRollback64", "UninstallFiles", "StartServices">>
<1>1. /\ a \in Seq(Records) /\ Len(a) = 2
      /\ a[1] = "StopServices"
      /\ a[2] = "InstallFiles"
  BY DEF Records
<1>2. /\ b \in Seq(Records) /\ Len(b) = 2
      /\ b[1] = "UnregisterTIPRollback64"
      /\ b[2] = "RemoveOldFiles"
  BY DEF Records
<1>3. /\ c \in Seq(Records) /\ Len(c) = 5
      /\ c[1] = "StopCacheServiceForRollback"
      /\ c[2] = "RestoreServiceState"
      /\ c[3] = "RegisterTIP64"
      /\ c[4] = "EnsureAllApplicationPackagesPermisssions"
      /\ c[5] = "PublishProduct"
  BY DEF Records
<1>4. /\ d \in Seq(Records) /\ Len(d) = 1
      /\ d[1] = "FixupConfigFilePermission"
  BY DEF Records
<1>5. /\ e \in Seq(Records) /\ Len(e) = 5
      /\ e[1] = "StopCacheServiceForRollback"
      /\ e[2] = "RestoreOldFiles"
      /\ e[3] = "UnregisterTIPRollback64"
      /\ e[4] = "UninstallFiles"
      /\ e[5] = "StartServices"
  BY DEF Records
<1>6. Plan["execute"] = a /\ Plan["nested"] = b /\ Plan["finalize"] = c /\ Plan["commit"] = d /\ Undoing[mode] = e
  BY DEF Plan, Undoing, Msi!ExecuteScript, Msi!NestedScript, Msi!FinalScript, Msi!CommitScript
<1> HIDE DEF a, b, c, d, e
<1>7. QED
  BY <1>1, <1>2, <1>3, <1>4, <1>5, <1>6

(* Those of a removal. *)
LEMMA UninstallTables ==
  ASSUME mode = "uninstall"
  PROVE  /\ Plan["execute"] \in Seq(Records) /\ Len(Plan["execute"]) = 3
         /\ Plan["execute"][1] = "StopServices"
         /\ Plan["execute"][2] = "UnregisterTIP64"
         /\ Plan["execute"][3] = "RemoveFiles"
         /\ Plan["finalize"] \in Seq(Records) /\ Len(Plan["finalize"]) = 0
         /\ Plan["commit"] \in Seq(Records) /\ Len(Plan["commit"]) = 0
<1> DEFINE a == <<"StopServices", "UnregisterTIP64", "RemoveFiles">>
           b == <<>>
           c == <<>>
<1>1. /\ a \in Seq(Records) /\ Len(a) = 3
      /\ a[1] = "StopServices"
      /\ a[2] = "UnregisterTIP64"
      /\ a[3] = "RemoveFiles"
  BY DEF Records
<1>2. /\ b \in Seq(Records) /\ Len(b) = 0
  BY DEF Records
<1>3. /\ c \in Seq(Records) /\ Len(c) = 0
  BY DEF Records
<1>4. Plan["execute"] = a /\ Plan["finalize"] = b /\ Plan["commit"] = c
  BY DEF Plan, Undoing, Msi!ExecuteScript, Msi!NestedScript, Msi!FinalScript, Msi!CommitScript
<1> HIDE DEF a, b, c
<1>5. QED
  BY <1>1, <1>2, <1>3, <1>4

(* What is executed next. *)
LEMMA NextRecord ==
  ASSUME InstallInv, ~ignored, phase \in Forward \cup {"commit"}
  PROVE  /\ Plan[phase] \in Seq(Records) /\ Len(Plan[phase]) \in Nat
         /\ left \in 0 .. Len(Plan[phase])
         /\ script = <<>> <=> left = 0
         /\ script # <<>> =>
              /\ left \in 1 .. Len(Plan[phase])
              /\ Head(script) = Plan[phase][Len(Plan[phase]) - left + 1]
              /\ Tail(script) = LastOf(Plan[phase], left - 1) /\ Len(Tail(script)) = left - 1
<1> DEFINE p == Plan[phase]
<1>1. p \in Seq(Records)
  <2>1. CASE mode = "fresh"
    BY <2>1, FreshTables DEF InstallInv, InOrder, Forward
  <2>2. CASE mode = "upgrade"
    BY <2>2, UpgradeTables DEF InstallInv, InOrder, Forward
  <2>3. CASE mode = "uninstall"
    BY <2>3, UninstallTables DEF InstallInv, InOrder, Forward
  <2>4. QED
    BY <2>1, <2>2, <2>3 DEF InstallInv
<1>2. left \in 0 .. Len(p) /\ script = LastOf(p, left)
  BY DEF InstallInv, InOrder
<1> HIDE DEF p
<1>3. Len(p) \in Nat
  BY <1>1
<1>4. left = 0 => script = <<>>
  BY <1>1, <1>2, AllOrNone
<1>5. script = <<>> => left = 0
  BY DEF left
<1>6. ASSUME script # <<>>
      PROVE  /\ left \in 1 .. Len(p)
             /\ Head(script) = p[Len(p) - left + 1]
             /\ Tail(script) = LastOf(p, left - 1) /\ Len(Tail(script)) = left - 1
  <2>1. left \in 1 .. Len(p)
    BY <1>2, <1>3, <1>4, <1>6
  <2>2. QED
    BY <1>1, <1>2, <2>1, LastRecords
<1>7. QED
  BY <1>1, <1>2, <1>3, <1>4, <1>5, <1>6 DEF p

\* What Windows Installer records for rollback of a record, if anything.
ToUndo(record) == IF record \in Msi!ForRollback THEN record ELSE Msi!UndoOf[record]
Undone == Msi!ForRollback \cup DOMAIN Msi!UndoOf

\* The record that comes next, when n are left.
Comes(n, record) == left = n /\ Head(script) = record

(* Which record that is in a first installation. *)
LEMMA FreshNext ==
  ASSUME InstallInv, ~ignored, mode = "fresh", phase \in Forward \cup {"commit"}, script # <<>>
  PROVE  /\ phase # "nested"
         /\ phase = "execute" =>
              \/ Comes(3, "InitialInstallation")
              \/ Comes(2, "StopServices")
              \/ Comes(1, "InstallFiles")
         /\ phase = "finalize" =>
              \/ Comes(6, "StopCacheServiceForRollback")
              \/ Comes(5, "RestoreServiceState")
              \/ Comes(4, "RegisterTIPRollback64")
              \/ Comes(3, "RegisterTIP64")
              \/ Comes(2, "EnsureAllApplicationPackagesPermisssions")
              \/ Comes(1, "PublishProduct")
         /\ phase = "commit" =>
              \/ Comes(3, "InitialInstallationCommit")
              \/ Comes(2, "FixupConfigFilePermission")
              \/ Comes(1, "EnableTipProfile")
<1> DEFINE p == Plan[phase]
           h == Head(script)
<1>1. /\ left \in 1 .. Len(p) /\ h = p[Len(p) - left + 1]
      /\ phase = "nested" => mode = "upgrade"
  BY NextRecord DEF InstallInv, InOrder
<1>2. CASE phase = "execute"
  <2>1. Len(p) = 3
        /\ p[1] = "InitialInstallation"
        /\ p[2] = "StopServices"
        /\ p[3] = "InstallFiles"
    BY <1>2, FreshTables
  <2> HIDE DEF p, h
  <2>2. left \in {1, 2, 3}
    BY <1>1, <2>1
  <2>3. QED
    BY <1>1, <1>2, <2>1, <2>2 DEF Comes, h
<1>3. CASE phase = "finalize"
  <2>1. Len(p) = 6
        /\ p[1] = "StopCacheServiceForRollback"
        /\ p[2] = "RestoreServiceState"
        /\ p[3] = "RegisterTIPRollback64"
        /\ p[4] = "RegisterTIP64"
        /\ p[5] = "EnsureAllApplicationPackagesPermisssions"
        /\ p[6] = "PublishProduct"
    BY <1>3, FreshTables
  <2> HIDE DEF p, h
  <2>2. left \in {1, 2, 3, 4, 5, 6}
    BY <1>1, <2>1
  <2>3. QED
    BY <1>1, <1>3, <2>1, <2>2 DEF Comes, h
<1>4. CASE phase = "commit"
  <2>1. Len(p) = 3
        /\ p[1] = "InitialInstallationCommit"
        /\ p[2] = "FixupConfigFilePermission"
        /\ p[3] = "EnableTipProfile"
    BY <1>4, FreshTables
  <2> HIDE DEF p, h
  <2>2. left \in {1, 2, 3}
    BY <1>1, <2>1
  <2>3. QED
    BY <1>1, <1>4, <2>1, <2>2 DEF Comes, h
<1>5. QED
  BY <1>1, <1>2, <1>3, <1>4 DEF Forward

(* In an upgrade. *)
LEMMA UpgradeNext ==
  ASSUME InstallInv, ~ignored, mode = "upgrade", phase \in Forward \cup {"commit"}, script # <<>>
  PROVE  /\ phase = "execute" =>
              \/ Comes(2, "StopServices")
              \/ Comes(1, "InstallFiles")
         /\ phase = "nested" =>
              \/ Comes(2, "UnregisterTIPRollback64")
              \/ Comes(1, "RemoveOldFiles")
         /\ phase = "finalize" =>
              \/ Comes(5, "StopCacheServiceForRollback")
              \/ Comes(4, "RestoreServiceState")
              \/ Comes(3, "RegisterTIP64")
              \/ Comes(2, "EnsureAllApplicationPackagesPermisssions")
              \/ Comes(1, "PublishProduct")
         /\ phase = "commit" =>
              \/ Comes(1, "FixupConfigFilePermission")
<1> DEFINE p == Plan[phase]
           h == Head(script)
<1>1. /\ left \in 1 .. Len(p) /\ h = p[Len(p) - left + 1]
      /\ phase = "nested" => mode = "upgrade"
  BY NextRecord DEF InstallInv, InOrder
<1>2. CASE phase = "execute"
  <2>1. Len(p) = 2 /\ p[1] = "StopServices" /\ p[2] = "InstallFiles"
    BY <1>2, UpgradeTables
  <2> HIDE DEF p, h
  <2>2. left \in {1, 2}
    BY <1>1, <2>1
  <2>3. QED
    BY <1>1, <1>2, <2>1, <2>2 DEF Comes, h
<1>3. CASE phase = "nested"
  <2>1. Len(p) = 2 /\ p[1] = "UnregisterTIPRollback64" /\ p[2] = "RemoveOldFiles"
    BY <1>3, UpgradeTables
  <2> HIDE DEF p, h
  <2>2. left \in {1, 2}
    BY <1>1, <2>1
  <2>3. QED
    BY <1>1, <1>3, <2>1, <2>2 DEF Comes, h
<1>4. CASE phase = "finalize"
  <2>1. Len(p) = 5
        /\ p[1] = "StopCacheServiceForRollback"
        /\ p[2] = "RestoreServiceState"
        /\ p[3] = "RegisterTIP64"
        /\ p[4] = "EnsureAllApplicationPackagesPermisssions"
        /\ p[5] = "PublishProduct"
    BY <1>4, UpgradeTables
  <2> HIDE DEF p, h
  <2>2. left \in {1, 2, 3, 4, 5}
    BY <1>1, <2>1
  <2>3. QED
    BY <1>1, <1>4, <2>1, <2>2 DEF Comes, h
<1>5. CASE phase = "commit"
  <2>1. Len(p) = 1 /\ p[1] = "FixupConfigFilePermission"
    BY <1>5, UpgradeTables
  <2> HIDE DEF p, h
  <2>2. left \in {1}
    BY <1>1, <2>1
  <2>3. QED
    BY <1>1, <1>5, <2>1, <2>2 DEF Comes, h
<1>6. QED
  BY <1>1, <1>2, <1>3, <1>4, <1>5 DEF Forward

(* In a removal. *)
LEMMA UninstallNext ==
  ASSUME InstallInv, ~ignored, mode = "uninstall", phase \in Forward \cup {"commit"}, script # <<>>
  PROVE  /\ phase = "execute"
         /\ \/ Comes(3, "StopServices")
            \/ Comes(2, "UnregisterTIP64")
            \/ Comes(1, "RemoveFiles")
<1> DEFINE p == Plan[phase]
           h == Head(script)
<1>1. /\ left \in 1 .. Len(p) /\ h = p[Len(p) - left + 1]
      /\ phase = "nested" => mode = "upgrade"
  BY NextRecord DEF InstallInv, InOrder
<1>2. CASE phase = "execute"
  <2>1. Len(p) = 3
        /\ p[1] = "StopServices"
        /\ p[2] = "UnregisterTIP64"
        /\ p[3] = "RemoveFiles"
    BY <1>2, UninstallTables
  <2> HIDE DEF p, h
  <2>2. left \in {1, 2, 3}
    BY <1>1, <2>1
  <2>3. QED
    BY <1>1, <1>2, <2>1, <2>2 DEF Comes, h
<1>3. CASE phase = "finalize"
  <2>1. Len(p) = 0
    BY <1>3, UninstallTables
  <2> HIDE DEF p, h
  <2>2. QED
    BY <1>1, <2>1
<1>4. CASE phase = "commit"
  <2>1. Len(p) = 0
    BY <1>4, UninstallTables
  <2> HIDE DEF p, h
  <2>2. QED
    BY <1>1, <2>1
<1>5. QED
  BY <1>1, <1>2, <1>3, <1>4 DEF Forward

(* What is recorded for rollback, and as what. *)
LEMMA UndoneAre ==
  /\ Undone = {"UnregisterTIPRollback64", "StopCacheServiceForRollback", "RegisterTIPRollback64",
               "StopServices", "InstallFiles", "RemoveFiles", "RemoveOldFiles"}
  /\ \A record \in Msi!ForRollback : ToUndo(record) = record
  /\ ToUndo("StopServices") = "StartServices" /\ ToUndo("InstallFiles") = "UninstallFiles"
  /\ ToUndo("RemoveOldFiles") = "RestoreOldFiles"
<1>1. DOMAIN Msi!UndoOf = {"StopServices", "InstallFiles", "RemoveFiles", "RemoveOldFiles"}
  BY DEF Msi!UndoOf
<1>2. Undone = {"UnregisterTIPRollback64", "StopCacheServiceForRollback", "RegisterTIPRollback64",
               "StopServices", "InstallFiles", "RemoveFiles", "RemoveOldFiles"}
  BY <1>1 DEF Undone, Msi!ForRollback
<1>3. QED
  BY <1>2 DEF ToUndo, Msi!ForRollback, Msi!UndoOf

(* The record to be executed next is recorded as the next of what is undone. *)
LEMMA NextUndo ==
  ASSUME InstallInv, ~ignored, phase \in Forward, script # <<>>, mode # "uninstall"
  PROVE  LET u == Undoing[mode]
             n == RecordedAt(phase, left)
         IN  /\ u \in Seq(Records) /\ Len(u) \in Nat /\ n \in 0 .. Len(u)
             /\ Head(script) \in Undone =>
                  /\ n \in 0 .. Len(u) - 1 /\ ToUndo(Head(script)) = u[Len(u) - n]
                  /\ RecordedAt(phase, left - 1) = n + 1
             /\ Head(script) \notin Undone => RecordedAt(phase, left - 1) = n
<1> DEFINE u == Undoing[mode]
           h == Head(script)
<1>0. \A record \in {"UnregisterTIPRollback64", "StopCacheServiceForRollback", "RegisterTIPRollback64"} :
        record \in Undone /\ ToUndo(record) = record
  BY UndoneAre DEF Msi!ForRollback
<1>1. CASE mode = "fresh"
  <2>1. u \in Seq(Records) /\ Len(u) = 4 /\ u[1] = "RegisterTIPRollback64"
        /\ u[2] = "StopCacheServiceForRollback" /\ u[3] = "UninstallFiles" /\ u[4] = "StartServices"
    BY <1>1, FreshTables
  <2> HIDE DEF u
  <2>2. CASE phase = "execute"
    <3>1. \/ left = 3 /\ h = "InitialInstallation"
          \/ left = 2 /\ h = "StopServices"
          \/ left = 1 /\ h = "InstallFiles"
      BY <1>1, <2>2, FreshNext DEF Comes
    <3> HIDE DEF h
    <3>2. QED
      BY <1>1, <2>1, <2>2, <3>1, UndoneAre DEF RecordedAt, u, h
  <2>3. CASE phase = "finalize"
    <3>1. \/ left = 6 /\ h = "StopCacheServiceForRollback"
          \/ left = 5 /\ h = "RestoreServiceState"
          \/ left = 4 /\ h = "RegisterTIPRollback64"
          \/ left = 3 /\ h = "RegisterTIP64"
          \/ left = 2 /\ h = "EnsureAllApplicationPackagesPermisssions"
          \/ left = 1 /\ h = "PublishProduct"
      BY <1>1, <2>3, FreshNext DEF Comes
    <3> HIDE DEF h
    <3>2. QED
      BY <1>0, <1>1, <2>1, <2>3, <3>1, UndoneAre DEF RecordedAt, u, h
  <2>4. QED
    BY <1>1, <2>2, <2>3, FreshNext DEF Forward
<1>2. CASE mode = "upgrade"
  <2>1. u \in Seq(Records) /\ Len(u) = 5 /\ u[1] = "StopCacheServiceForRollback"
        /\ u[2] = "RestoreOldFiles" /\ u[3] = "UnregisterTIPRollback64"
        /\ u[4] = "UninstallFiles" /\ u[5] = "StartServices"
    BY <1>2, UpgradeTables
  <2> HIDE DEF u
  <2>2. CASE phase = "execute"
    <3>1. \/ left = 2 /\ h = "StopServices"
          \/ left = 1 /\ h = "InstallFiles"
      BY <1>2, <2>2, UpgradeNext DEF Comes
    <3> HIDE DEF h
    <3>2. CASE left = 2
      BY <1>2, <2>1, <2>2, <3>1, <3>2, UndoneAre DEF RecordedAt, u, h
    <3>3. CASE left = 1
      BY <1>2, <2>1, <2>2, <3>1, <3>3, UndoneAre DEF RecordedAt, u, h
    <3>4. QED
      BY <3>1, <3>2, <3>3
  <2>3. CASE phase = "nested"
    <3>1. \/ left = 2 /\ h = "UnregisterTIPRollback64"
          \/ left = 1 /\ h = "RemoveOldFiles"
      BY <1>2, <2>3, UpgradeNext DEF Comes
    <3> HIDE DEF h
    <3>2. QED
      BY <1>0, <1>2, <2>1, <2>3, <3>1, UndoneAre DEF RecordedAt, u, h
  <2>4. CASE phase = "finalize"
    <3>1. \/ left = 5 /\ h = "StopCacheServiceForRollback"
          \/ left = 4 /\ h = "RestoreServiceState"
          \/ left = 3 /\ h = "RegisterTIP64"
          \/ left = 2 /\ h = "EnsureAllApplicationPackagesPermisssions"
          \/ left = 1 /\ h = "PublishProduct"
      BY <1>2, <2>4, UpgradeNext DEF Comes
    <3> HIDE DEF h
    <3>2. QED
      BY <1>0, <1>2, <2>1, <2>4, <3>1, UndoneAre DEF RecordedAt, u, h
  <2>5. QED
    BY <2>2, <2>3, <2>4 DEF Forward
<1>3. QED
  BY <1>1, <1>2 DEF InstallInv

(* What a script says goes on being so as it is executed. *)
LEMMA OrderKeeps ==
  ASSUME InstallInv, ~ignored, phase \in Forward \cup {"commit"}, script # <<>>,
         script' = Tail(script), UNCHANGED <<mode, phase>>,
         undo' = IF phase # "commit" /\ Head(script) \in Undone
                 THEN <<ToUndo(Head(script))>> \o undo ELSE undo
  PROVE  InOrder' /\ left' = left - 1 /\ left \in Nat
<1> DEFINE p == Plan[phase]
           u == Undoing[mode]
           n == RecordedAt(phase, left)
<1>1. /\ p \in Seq(Records) /\ Len(p) \in Nat /\ left \in 1 .. Len(p)
      /\ script' = LastOf(p, left - 1) /\ Len(script') = left - 1
  BY NextRecord
<1>2. left' = left - 1 /\ left' \in 0 .. Len(p) /\ left \in Nat
  BY <1>1 DEF left
<1>3. Plan' = Plan /\ Undoing' = Undoing
  BY DEF Plan, Undoing
<1>4. phase \in Forward /\ mode # "uninstall" => undo' = LastOf(u, RecordedAt(phase, left - 1))
  <2> SUFFICES ASSUME phase \in Forward, mode # "uninstall"
               PROVE  undo' = LastOf(u, RecordedAt(phase, left - 1))
    OBVIOUS
  <2>1. undo = LastOf(u, n) /\ phase # "commit"
    BY DEF InstallInv, InOrder, Forward
  <2>2. /\ u \in Seq(Records) /\ Len(u) \in Nat /\ n \in 0 .. Len(u)
        /\ Head(script) \in Undone =>
             /\ n \in 0 .. Len(u) - 1 /\ ToUndo(Head(script)) = u[Len(u) - n]
             /\ RecordedAt(phase, left - 1) = n + 1
        /\ Head(script) \notin Undone => RecordedAt(phase, left - 1) = n
    BY NextUndo
  <2>3. CASE Head(script) \in Undone
    <3> HIDE DEF u, n
    <3>1. <<u[Len(u) - n]>> \o LastOf(u, n) = LastOf(u, n + 1)
      BY <2>2, <2>3, OneMoreRecord
    <3>2. QED
      BY <2>1, <2>2, <2>3, <3>1
  <2>4. CASE Head(script) \notin Undone
    BY <2>1, <2>2, <2>4
  <2>5. QED
    BY <2>3, <2>4
<1>5. RecordedAt(phase, left)' = RecordedAt(phase, left - 1)
  BY <1>2 DEF RecordedAt
<1>6. phase # "rollback"
  BY DEF Forward
<1>7. QED
  BY <1>1, <1>2, <1>3, <1>4, <1>5, <1>6 DEF InstallInv, InOrder

(* What a handler that succeeds does. *)
LEMMA HandledWell ==
  /\ Msi!Handle("InitialInstallation", TRUE) =>
       omaha' = "error" /\ UNCHANGED <<tsf, files, service, granted, enabled>>
  /\ Msi!Handle("InitialInstallationCommit", TRUE) =>
       omaha' = "cleared" /\ UNCHANGED <<tsf, files, service, granted, enabled>>
  /\ Msi!Handle("StopServices", TRUE) =>
       service' = FALSE /\ UNCHANGED <<tsf, files, omaha, granted, enabled>>
  /\ Msi!Handle("RestoreServiceState", TRUE) =>
       service' = before /\ UNCHANGED <<tsf, files, omaha, granted, enabled>>
  /\ Msi!Handle("InstallFiles", TRUE) =>
       files' = files \cup {"new"} /\ UNCHANGED <<tsf, omaha, service, granted, enabled>>
  /\ \A record \in {"RemoveFiles", "RemoveOldFiles"} : Msi!Handle(record, TRUE) =>
       files' = files \ {"old"} /\ UNCHANGED <<tsf, omaha, service, granted, enabled>>
  /\ Msi!Handle("RegisterTIP64", TRUE) =>
       tsf' = Msi!Registered(Msi!GetMozcComponentPath(data))
       /\ UNCHANGED <<files, omaha, service, granted, enabled>>
  /\ Msi!Handle("UnregisterTIP64", TRUE) =>
       tsf' = Msi!Unregistered /\ UNCHANGED <<files, omaha, service, granted, enabled>>
  /\ Msi!Handle("EnsureAllApplicationPackagesPermisssions", TRUE) =>
       granted' = TRUE /\ UNCHANGED <<tsf, files, omaha, service, enabled>>
  /\ Msi!Handle("EnableTipProfile", TRUE) => UNCHANGED <<tsf, files, omaha, service, granted>>
  /\ \A record \in {"FixupConfigFilePermission", "PublishProduct"} : Msi!Handle(record, TRUE) =>
       UNCHANGED <<tsf, files, omaha, service, granted, enabled>>
BY DEF Msi!Handle, Msi!UnregisterTIP, Msi!RegisterTIP, Msi!system

(* A record that is executed, or recorded. *)
LEMMA SucceedKeeps ==
  ASSUME InstallInv, Msi!Succeed \/ Msi!Record \/ Msi!Commit
  PROVE  InstallInv'
<1>0. /\ phase \in Forward \cup {"commit"} /\ script # <<>> /\ script' = Tail(script)
      /\ UNCHANGED <<mode, MozcDir, OldDir, before, phase, data, ignored>>
      /\ undo' = IF phase # "commit" /\ Head(script) \in Undone
                 THEN <<ToUndo(Head(script))>> \o undo ELSE undo
  <2>1. CASE Msi!Record
    BY <2>1 DEF Msi!Record, Msi!InScript, Msi!place, Forward, Undone, ToUndo
  <2>2. CASE Msi!Succeed
    BY <2>2 DEF Msi!Succeed, Msi!InScript, Msi!place, Forward, Undone, ToUndo
  <2>3. CASE Msi!Commit
    BY <2>3 DEF Msi!Commit, Msi!place, Forward
  <2>4. QED
    BY <2>1, <2>2, <2>3
<1>1. service' \in BOOLEAN
  BY DEF InstallInv, Msi!Succeed, Msi!Record, Msi!Commit, Msi!Handle, Msi!system
<1> SUFFICES ASSUME ~ignored
             PROVE  InOrder' /\ (mode = "fresh" => FreshStands') /\ (mode = "upgrade" => UpgradeStands')
                    /\ (mode = "uninstall" => UninstallStands')
  BY <1>0, <1>1 DEF InstallInv, Forward
<1>2. InOrder' /\ left' = left - 1 /\ left \in Nat
  BY <1>0, OrderKeeps
<1> DEFINE h == Head(script)
<1>3. /\ h \in Msi!ForRollback /\ phase # "commit" =>
           UNCHANGED <<tsf, files, omaha, service, granted, enabled>>
      /\ h \notin Msi!ForRollback \/ phase = "commit" => Msi!Handle(h, TRUE)
  BY <1>0 DEF Msi!Record, Msi!Succeed, Msi!Commit, Msi!InScript, Msi!system
<1>4. MozcDir # "none" /\ data' = data
  BY <1>0 DEF InstallInv, Msi!Dirs
<1>5. ASSUME mode = "fresh" PROVE FreshStands'
  <2>1. FreshStands /\ UNCHANGED <<mode, MozcDir, OldDir, before, phase, data>>
        /\ service \in BOOLEAN /\ before \in BOOLEAN
    BY <1>0, <1>5 DEF InstallInv
  <2>2. CASE phase = "execute"
    <3>1. \/ left = 3 /\ h = "InitialInstallation"
          \/ left = 2 /\ h = "StopServices"
          \/ left = 1 /\ h = "InstallFiles"
      BY <1>0, <1>5, <2>2, FreshNext DEF Comes
    <3> HIDE DEF h
    <3>2. CASE left = 3
      <4>1. omaha' = "error" /\ UNCHANGED <<tsf, files, service, granted, enabled>>
        BY <1>3, <1>4, <2>1, <2>2, <3>1, <3>2, HandledWell DEF Msi!ForRollback
      <4>2. QED
        BY <1>2, <1>5, <2>1, <2>2, <3>2, <4>1 DEF FreshStands, Forward
    <3>3. CASE left = 2
      <4>1. service' = FALSE /\ UNCHANGED <<tsf, files, omaha, granted, enabled>>
        BY <1>3, <1>4, <2>1, <2>2, <3>1, <3>3, HandledWell DEF Msi!ForRollback
      <4>2. QED
        BY <1>2, <1>5, <2>1, <2>2, <3>3, <4>1 DEF FreshStands, Forward
    <3>4. CASE left = 1
      <4>1. files' = files \cup {"new"} /\ UNCHANGED <<tsf, omaha, service, granted, enabled>>
        BY <1>3, <1>4, <2>1, <2>2, <3>1, <3>4, HandledWell DEF Msi!ForRollback
      <4>2. QED
        BY <1>2, <1>5, <2>1, <2>2, <3>4, <4>1 DEF FreshStands, Forward
    <3>5. QED
      BY <3>1, <3>2, <3>3, <3>4
  <2>3. CASE phase = "finalize"
    <3>1. \/ left = 6 /\ h = "StopCacheServiceForRollback"
          \/ left = 5 /\ h = "RestoreServiceState"
          \/ left = 4 /\ h = "RegisterTIPRollback64"
          \/ left = 3 /\ h = "RegisterTIP64"
          \/ left = 2 /\ h = "EnsureAllApplicationPackagesPermisssions"
          \/ left = 1 /\ h = "PublishProduct"
      BY <1>0, <1>5, <2>3, FreshNext DEF Comes
    <3> HIDE DEF h
    <3>2. CASE left = 5
      <4>1. service' = before /\ UNCHANGED <<tsf, files, omaha, granted, enabled>>
        BY <1>3, <1>4, <2>1, <2>3, <3>1, <3>2, HandledWell DEF Msi!ForRollback
      <4>2. QED
        BY <1>2, <1>5, <2>1, <2>3, <3>2, <4>1 DEF FreshStands, Forward
    <3>3. CASE left = 3
      <4>1. tsf' = Msi!Registered(MozcDir) /\ UNCHANGED <<files, omaha, service, granted, enabled>>
        BY <1>3, <1>4, <2>1, <2>3, <3>1, <3>3, HandledWell DEF Msi!ForRollback, Msi!GetMozcComponentPath, Forward, FreshStands
      <4>2. QED
        BY <1>2, <1>5, <2>1, <2>3, <3>3, <4>1 DEF FreshStands, Forward
    <3>4. CASE left = 2
      <4>1. granted' = TRUE /\ UNCHANGED <<tsf, files, omaha, service, enabled>>
        BY <1>3, <1>4, <2>1, <2>3, <3>1, <3>4, HandledWell DEF Msi!ForRollback
      <4>2. QED
        BY <1>2, <1>5, <2>1, <2>3, <3>4, <4>1 DEF FreshStands, Forward
    <3>5. CASE left = 1
      <4>1. UNCHANGED <<tsf, files, omaha, service, granted, enabled>>
        BY <1>3, <2>3, <3>1, <3>5, HandledWell DEF Msi!ForRollback
      <4>2. QED
        BY <1>2, <1>5, <2>1, <2>3, <3>5, <4>1 DEF FreshStands, Forward
    <3>6. CASE left \in {4, 6}
      <4>1. UNCHANGED <<tsf, files, omaha, service, granted, enabled>>
        BY <1>3, <2>3, <3>1, <3>6, HandledWell DEF Msi!ForRollback
      <4>2. QED
        BY <1>2, <1>5, <2>1, <2>3, <3>6, <4>1 DEF FreshStands, Forward
    <3>7. QED
      BY <3>1, <3>2, <3>3, <3>4, <3>5, <3>6
  <2>4. CASE phase = "commit"
    <3>1. \/ left = 3 /\ h = "InitialInstallationCommit"
          \/ left = 2 /\ h = "FixupConfigFilePermission"
          \/ left = 1 /\ h = "EnableTipProfile"
      BY <1>0, <1>5, <2>4, FreshNext DEF Comes
    <3> HIDE DEF h
    <3>2. CASE left = 3
      <4>1. omaha' = "cleared" /\ UNCHANGED <<tsf, files, service, granted, enabled>>
        BY <1>3, <1>4, <2>1, <2>4, <3>1, <3>2, HandledWell DEF Msi!ForRollback
      <4>2. QED
        BY <1>2, <1>5, <2>1, <2>4, <3>2, <4>1 DEF FreshStands, Forward
    <3>3. CASE left = 1
      <4>1. UNCHANGED <<tsf, files, omaha, service, granted>>
        BY <1>3, <1>4, <2>1, <2>4, <3>1, <3>3, HandledWell DEF Msi!ForRollback
      <4>2. QED
        BY <1>2, <1>5, <2>1, <2>4, <3>3, <4>1 DEF FreshStands, Forward
    <3>4. CASE left = 2
      <4>1. UNCHANGED <<tsf, files, omaha, service, granted, enabled>>
        BY <1>3, <2>4, <3>1, <3>4, HandledWell DEF Msi!ForRollback
      <4>2. QED
        BY <1>2, <1>5, <2>1, <2>4, <3>4, <4>1 DEF FreshStands, Forward
    <3>5. QED
      BY <3>1, <3>2, <3>3, <3>4
  <2>5. QED
    BY <1>0, <1>5, <2>2, <2>3, <2>4, FreshNext DEF Forward
<1>6. ASSUME mode = "upgrade" PROVE UpgradeStands'
  <2>1. UpgradeStands /\ UNCHANGED <<mode, MozcDir, OldDir, before, phase, data>>
        /\ service \in BOOLEAN /\ before \in BOOLEAN
    BY <1>0, <1>6 DEF InstallInv
  <2>2. CASE phase = "execute"
    <3>1. \/ left = 2 /\ h = "StopServices"
          \/ left = 1 /\ h = "InstallFiles"
      BY <1>0, <1>6, <2>2, UpgradeNext DEF Comes
    <3> HIDE DEF h
    <3>2. CASE left = 2
      <4>1. service' = FALSE /\ UNCHANGED <<tsf, files, omaha, granted, enabled>>
        BY <1>3, <1>4, <2>1, <2>2, <3>1, <3>2, HandledWell DEF Msi!ForRollback
      <4>2. QED
        BY <1>2, <1>6, <2>1, <2>2, <3>2, <4>1 DEF UpgradeStands, Forward
    <3>3. CASE left = 1
      <4>1. files' = files \cup {"new"} /\ UNCHANGED <<tsf, omaha, service, granted, enabled>>
        BY <1>3, <1>4, <2>1, <2>2, <3>1, <3>3, HandledWell DEF Msi!ForRollback
      <4>2. QED
        BY <1>2, <1>6, <2>1, <2>2, <3>3, <4>1 DEF UpgradeStands, Forward
    <3>4. QED
      BY <3>1, <3>2, <3>3
  <2>3. CASE phase = "nested"
    <3>1. \/ left = 2 /\ h = "UnregisterTIPRollback64"
          \/ left = 1 /\ h = "RemoveOldFiles"
      BY <1>0, <1>6, <2>3, UpgradeNext DEF Comes
    <3> HIDE DEF h
    <3>2. CASE left = 1
      <4>1. files' = files \ {"old"} /\ UNCHANGED <<tsf, omaha, service, granted, enabled>>
        BY <1>3, <1>4, <2>1, <2>3, <3>1, <3>2, HandledWell DEF Msi!ForRollback
      <4>2. QED
        BY <1>2, <1>6, <2>1, <2>3, <3>2, <4>1 DEF UpgradeStands, Forward
    <3>3. CASE left = 2
      <4>1. UNCHANGED <<tsf, files, omaha, service, granted, enabled>>
        BY <1>3, <2>3, <3>1, <3>3, HandledWell DEF Msi!ForRollback
      <4>2. QED
        BY <1>2, <1>6, <2>1, <2>3, <3>3, <4>1 DEF UpgradeStands, Forward
    <3>4. QED
      BY <3>1, <3>2, <3>3
  <2>4. CASE phase = "finalize"
    <3>1. \/ left = 5 /\ h = "StopCacheServiceForRollback"
          \/ left = 4 /\ h = "RestoreServiceState"
          \/ left = 3 /\ h = "RegisterTIP64"
          \/ left = 2 /\ h = "EnsureAllApplicationPackagesPermisssions"
          \/ left = 1 /\ h = "PublishProduct"
      BY <1>0, <1>6, <2>4, UpgradeNext DEF Comes
    <3> HIDE DEF h
    <3>2. CASE left = 4
      <4>1. service' = before /\ UNCHANGED <<tsf, files, omaha, granted, enabled>>
        BY <1>3, <1>4, <2>1, <2>4, <3>1, <3>2, HandledWell DEF Msi!ForRollback
      <4>2. QED
        BY <1>2, <1>6, <2>1, <2>4, <3>2, <4>1 DEF UpgradeStands, Forward
    <3>3. CASE left = 3
      <4>1. tsf' = Msi!Registered(MozcDir) /\ UNCHANGED <<files, omaha, service, granted, enabled>>
        BY <1>3, <1>4, <2>1, <2>4, <3>1, <3>3, HandledWell DEF Msi!ForRollback, Msi!GetMozcComponentPath, Forward, UpgradeStands
      <4>2. QED
        BY <1>2, <1>6, <2>1, <2>4, <3>3, <4>1 DEF UpgradeStands, Forward
    <3>4. CASE left = 2
      <4>1. granted' = TRUE /\ UNCHANGED <<tsf, files, omaha, service, enabled>>
        BY <1>3, <1>4, <2>1, <2>4, <3>1, <3>4, HandledWell DEF Msi!ForRollback
      <4>2. QED
        BY <1>2, <1>6, <2>1, <2>4, <3>4, <4>1 DEF UpgradeStands, Forward
    <3>5. CASE left = 1
      <4>1. UNCHANGED <<tsf, files, omaha, service, granted, enabled>>
        BY <1>3, <2>4, <3>1, <3>5, HandledWell DEF Msi!ForRollback
      <4>2. QED
        BY <1>2, <1>6, <2>1, <2>4, <3>5, <4>1 DEF UpgradeStands, Forward
    <3>6. CASE left = 5
      <4>1. UNCHANGED <<tsf, files, omaha, service, granted, enabled>>
        BY <1>3, <2>4, <3>1, <3>6, HandledWell DEF Msi!ForRollback
      <4>2. QED
        BY <1>2, <1>6, <2>1, <2>4, <3>6, <4>1 DEF UpgradeStands, Forward
    <3>7. QED
      BY <3>1, <3>2, <3>3, <3>4, <3>5, <3>6
  <2>5. CASE phase = "commit"
    <3>1. left = 1 /\ h = "FixupConfigFilePermission"
      BY <1>0, <1>6, <2>5, UpgradeNext DEF Comes
    <3> HIDE DEF h
    <3>2. CASE left = 1
      <4>1. UNCHANGED <<tsf, files, omaha, service, granted, enabled>>
        BY <1>3, <2>5, <3>1, <3>2, HandledWell DEF Msi!ForRollback
      <4>2. QED
        BY <1>2, <1>6, <2>1, <2>5, <3>2, <4>1 DEF UpgradeStands, Forward
    <3>3. QED
      BY <3>1, <3>2
  <2>6. QED
    BY <1>0, <1>6, <2>2, <2>3, <2>4, <2>5, UpgradeNext DEF Forward
<1>7. ASSUME mode = "uninstall" PROVE UninstallStands'
  <2>1. UninstallStands /\ UNCHANGED <<mode, MozcDir, OldDir, before, phase, data>>
        /\ service \in BOOLEAN /\ before \in BOOLEAN
    BY <1>0, <1>7 DEF InstallInv
  <2>2. CASE phase = "execute"
    <3>1. \/ left = 3 /\ h = "StopServices"
          \/ left = 2 /\ h = "UnregisterTIP64"
          \/ left = 1 /\ h = "RemoveFiles"
      BY <1>0, <1>7, <2>2, UninstallNext DEF Comes
    <3> HIDE DEF h
    <3>2. CASE left = 3
      <4>1. service' = FALSE /\ UNCHANGED <<tsf, files, omaha, granted, enabled>>
        BY <1>3, <1>4, <2>1, <2>2, <3>1, <3>2, HandledWell DEF Msi!ForRollback
      <4>2. QED
        BY <1>2, <1>7, <2>1, <2>2, <3>2, <4>1 DEF UninstallStands, Forward
    <3>3. CASE left = 2
      <4>1. tsf' = Msi!Unregistered /\ UNCHANGED <<files, omaha, service, granted, enabled>>
        BY <1>3, <1>4, <2>1, <2>2, <3>1, <3>3, HandledWell DEF Msi!ForRollback
      <4>2. QED
        BY <1>2, <1>7, <2>1, <2>2, <3>3, <4>1 DEF UninstallStands, Forward
    <3>4. CASE left = 1
      <4>1. files' = files \ {"old"} /\ UNCHANGED <<tsf, omaha, service, granted, enabled>>
        BY <1>3, <1>4, <2>1, <2>2, <3>1, <3>4, HandledWell DEF Msi!ForRollback
      <4>2. QED
        BY <1>2, <1>7, <2>1, <2>2, <3>4, <4>1 DEF UninstallStands, Forward
    <3>5. QED
      BY <3>1, <3>2, <3>3, <3>4
  <2>3. QED
    BY <1>0, <1>7, <2>2, UninstallNext DEF Forward
<1>8. QED
  BY <1>2, <1>5, <1>6, <1>7

(* And one that fails. *)
LEMMA HandledIll ==
  /\ ~Msi!Handle("InitialInstallation", FALSE)
  /\ Msi!Handle("StopServices", FALSE) /\ service \in BOOLEAN =>
       UNCHANGED <<service, tsf, files, omaha, granted, enabled>>
  /\ Msi!Handle("InstallFiles", FALSE) =>
       files' = files \ {"new"} /\ UNCHANGED <<tsf, omaha, service, granted, enabled>>
  /\ Msi!Handle("RemoveOldFiles", FALSE) =>
       files' = files \cup {"old"} /\ UNCHANGED <<tsf, omaha, service, granted, enabled>>
  /\ Msi!Handle("RegisterTIP64", FALSE) => UNCHANGED <<files, omaha, service, granted, enabled>>
  /\ Msi!Handle("PublishProduct", FALSE) =>
       UNCHANGED <<tsf, files, omaha, service, granted, enabled>>
BY DEF Msi!Handle, Msi!UnregisterTIP, Msi!RegisterTIP, Msi!system

(* What is undone. *)
LEMMA HandledBack ==
  /\ \A record \in {"StopCacheServiceForRollback", "StartServices"} : Msi!Handle(record, TRUE) =>
       UNCHANGED <<tsf, files, omaha, granted, enabled>>
  /\ Msi!Handle("StartServices", TRUE) => service' = before
  /\ Msi!Handle("StopCacheServiceForRollback", TRUE) => service' = FALSE
  /\ Msi!Handle("UninstallFiles", TRUE) =>
       files' = files \ {"new"} /\ UNCHANGED <<tsf, omaha, service, granted, enabled>>
  /\ Msi!Handle("RestoreOldFiles", TRUE) =>
       files' = files \cup {"old"} /\ UNCHANGED <<tsf, omaha, service, granted, enabled>>
  /\ Msi!Handle("RegisterTIPRollback64", TRUE) =>
       tsf' = Msi!Unregistered /\ UNCHANGED <<files, omaha, service, granted, enabled>>
  /\ Msi!Handle("UnregisterTIPRollback64", TRUE) =>
       tsf' = Msi!Registered("server") /\ UNCHANGED <<files, omaha, service, granted, enabled>>
BY DEF Msi!Handle, Msi!UnregisterTIP, Msi!RegisterTIP, Msi!GetMozcComponentPath, Msi!system

(* A record that fails sends the installation back from where it is. *)
LEMMA FailKeeps ==
  ASSUME InstallInv, Msi!Fail
  PROVE  InstallInv'
<1> DEFINE h == Head(script)
           u == Undoing[mode]
           n == RecordedAt(phase, left)
<1>0. /\ phase \in Forward /\ script # <<>> /\ Msi!Handle(h, FALSE)
      /\ h \notin Msi!Ignored \cup Msi!ForRollback
      /\ phase' = "rollback" /\ script' = undo
      /\ UNCHANGED <<mode, MozcDir, OldDir, before, data, ignored>>
  BY DEF Msi!Fail, Msi!InScript, Msi!place, Forward
<1>1. service' \in BOOLEAN
  BY <1>0 DEF InstallInv, Msi!Handle, Msi!system
<1> SUFFICES ASSUME ~ignored
             PROVE  InOrder' /\ (mode = "fresh" => FreshStands') /\ (mode = "upgrade" => UpgradeStands')
                    /\ (mode = "uninstall" => UninstallStands')
  BY <1>0, <1>1 DEF InstallInv, Forward
<1>2. mode # "uninstall" => left' = n /\ n \in 0 .. Len(u) /\ script' = LastOf(u, n)
  <2> SUFFICES ASSUME mode # "uninstall" PROVE left' = n /\ n \in 0 .. Len(u) /\ script' = LastOf(u, n)
    OBVIOUS
  <2>1. u \in Seq(Records) /\ Len(u) \in Nat /\ n \in 0 .. Len(u)
    BY <1>0, NextUndo
  <2>2. script' = LastOf(u, n)
    BY <1>0 DEF InstallInv, InOrder
  <2> HIDE DEF u, n
  <2>3. Len(LastOf(u, n)) = n
    BY <2>1, LastRecords, AllOrNone
  <2>4. QED
    BY <2>1, <2>2, <2>3 DEF left
<1>3. InOrder'
  <2>1. Undoing' = Undoing
    BY DEF Undoing
  <2>2. QED
    BY <1>0, <1>2, <2>1 DEF InOrder, Forward
<1>4. ASSUME mode = "fresh" PROVE FreshStands'
  <2>1. FreshStands /\ UNCHANGED <<MozcDir, OldDir, before, data>> /\ service \in BOOLEAN
    BY <1>0, <1>4 DEF InstallInv
  <2>2. CASE phase = "execute"
    <3>1. \/ left = 3 /\ h = "InitialInstallation"
          \/ left = 2 /\ h = "StopServices"
          \/ left = 1 /\ h = "InstallFiles"
      BY <1>0, <1>4, <2>2, FreshNext DEF Comes
    <3> HIDE DEF h
    <3>2. left' = 2 - left /\ left \in {1, 2}
      <4>1. left # 3
        <5>1. h # "InitialInstallation"
          BY <1>0, HandledIll
        <5>2. QED
          BY <3>1, <5>1
      <4>2. left \in {1, 2}
        BY <3>1, <4>1
      <4>3. RecordedAt(phase, left) = 2 - left
        BY <1>4, <2>2, <4>2 DEF RecordedAt
      <4>4. QED
        BY <1>2, <1>4, <4>2, <4>3
    <3>3. CASE left = 2
      <4>1. UNCHANGED <<service, tsf, files, omaha, granted, enabled>>
        BY <1>0, <2>1, <3>1, <3>3, HandledIll
      <4>2. QED
        BY <1>0, <2>1, <2>2, <3>2, <3>3, <4>1 DEF FreshStands, Forward
    <3>4. CASE left = 1
      <4>1. files' = files \ {"new"} /\ UNCHANGED <<tsf, omaha, service, granted, enabled>>
        BY <1>0, <3>1, <3>4, HandledIll
      <4>2. QED
        BY <1>0, <2>1, <2>2, <3>2, <3>4, <4>1 DEF FreshStands, Forward
    <3>5. QED
      BY <3>2, <3>3, <3>4
  <2>3. CASE phase = "finalize"
    <3>1. \/ left = 3 /\ h = "RegisterTIP64"
          \/ left = 1 /\ h = "PublishProduct"
      BY <1>0, <1>4, <2>3, FreshNext DEF Comes, Msi!Ignored, Msi!ForRollback
    <3> HIDE DEF h
    <3>2. left' = 4
      BY <1>2, <1>4, <2>3, <3>1 DEF RecordedAt
    <3>3. UNCHANGED <<files, omaha, service, granted, enabled>>
      BY <1>0, <3>1, HandledIll
    <3>4. QED
      BY <1>0, <2>1, <2>3, <3>2, <3>3 DEF FreshStands, Forward
  <2>4. QED
    BY <1>0, <1>4, <2>2, <2>3, FreshNext DEF Forward
<1>5. ASSUME mode = "upgrade" PROVE UpgradeStands'
  <2>1. UpgradeStands /\ UNCHANGED <<MozcDir, OldDir, before, data>> /\ service \in BOOLEAN
    BY <1>0, <1>5 DEF InstallInv
  <2>2. CASE phase = "execute"
    <3>1. \/ left = 2 /\ h = "StopServices"
          \/ left = 1 /\ h = "InstallFiles"
      BY <1>0, <1>5, <2>2, UpgradeNext DEF Comes
    <3> HIDE DEF h
    <3>2. left' = 2 - left
      BY <1>2, <1>5, <2>2 DEF RecordedAt
    <3>3. CASE left = 2
      <4>1. UNCHANGED <<service, tsf, files, omaha, granted, enabled>>
        BY <1>0, <2>1, <3>1, <3>3, HandledIll
      <4>2. QED
        BY <1>0, <2>1, <2>2, <3>2, <3>3, <4>1 DEF UpgradeStands, Forward
    <3>4. CASE left = 1
      <4>1. files' = files \ {"new"} /\ UNCHANGED <<tsf, omaha, service, granted, enabled>>
        BY <1>0, <3>1, <3>4, HandledIll
      <4>2. QED
        BY <1>0, <2>1, <2>2, <3>2, <3>4, <4>1 DEF UpgradeStands, Forward
    <3>5. QED
      BY <3>1, <3>3, <3>4
  <2>3. CASE phase = "nested"
    <3>1. left = 1 /\ h = "RemoveOldFiles"
      BY <1>0, <1>5, <2>3, UpgradeNext DEF Comes, Msi!ForRollback
    <3> HIDE DEF h
    <3>2. left' = 3
      BY <1>2, <1>5, <2>3, <3>1 DEF RecordedAt
    <3>3. files' = files \cup {"old"} /\ UNCHANGED <<tsf, omaha, service, granted, enabled>>
      BY <1>0, <3>1, HandledIll
    <3>4. QED
      BY <1>0, <2>1, <2>3, <3>1, <3>2, <3>3 DEF UpgradeStands, Forward
  <2>4. CASE phase = "finalize"
    <3>1. \/ left = 3 /\ h = "RegisterTIP64"
          \/ left = 1 /\ h = "PublishProduct"
      BY <1>0, <1>5, <2>4, UpgradeNext DEF Comes, Msi!Ignored, Msi!ForRollback
    <3> HIDE DEF h
    <3>2. left' = 5
      BY <1>2, <1>5, <2>4, <3>1 DEF RecordedAt
    <3>3. UNCHANGED <<files, omaha, service, granted, enabled>>
      BY <1>0, <3>1, HandledIll
    <3>4. QED
      BY <1>0, <2>1, <2>4, <3>2, <3>3 DEF UpgradeStands, Forward
  <2>5. QED
    BY <1>0, <2>2, <2>3, <2>4 DEF Forward
<1>6. UninstallStands'
  BY <1>0 DEF UninstallStands, Forward
<1>7. QED
  BY <1>3, <1>4, <1>5, <1>6

(* What is undone is undone in order, down to what there was. *)
LEMMA RollBackKeeps ==
  ASSUME InstallInv, Msi!RollBack
  PROVE  InstallInv'
<1> DEFINE h == Head(script)
           u == Undoing[mode]
<1>0. /\ phase = "rollback" /\ script # <<>> /\ script' = Tail(script)
      /\ UNCHANGED <<mode, MozcDir, OldDir, before, phase, data>>
  BY DEF Msi!RollBack, Msi!place
<1>1. PICK ok \in BOOLEAN : Msi!Handle(h, ok) /\ ignored' = (ignored \/ ~ok)
  BY DEF Msi!RollBack
<1>2. service' \in BOOLEAN /\ ignored' \in BOOLEAN
  BY <1>1 DEF InstallInv, Msi!Handle, Msi!system
<1> SUFFICES ASSUME ~ignored'
             PROVE  InOrder' /\ (mode = "fresh" => FreshStands') /\ (mode = "upgrade" => UpgradeStands')
                    /\ (mode = "uninstall" => UninstallStands')
  BY <1>0, <1>2 DEF InstallInv, Forward
<1>3. ~ignored /\ Msi!Handle(h, TRUE)
  BY <1>1 DEF InstallInv
<1>4. CASE mode = "uninstall"
  BY <1>0, <1>4 DEF InOrder, UninstallStands, Forward
<1>5. mode # "uninstall" =>
        /\ left \in 1 .. Len(u) /\ h = u[Len(u) - left + 1]
        /\ script' = LastOf(u, left - 1) /\ left' = left - 1
  <2> SUFFICES ASSUME mode # "uninstall"
               PROVE  /\ left \in 1 .. Len(u) /\ h = u[Len(u) - left + 1]
                      /\ script' = LastOf(u, left - 1) /\ left' = left - 1
    OBVIOUS
  <2>1. u \in Seq(Records) /\ Len(u) \in Nat
    BY FreshTables, UpgradeTables DEF InstallInv
  <2>2. left \in 0 .. Len(u) /\ script = LastOf(u, left)
    BY <1>0, <1>3 DEF InstallInv, InOrder
  <2> HIDE DEF u
  <2>3. left \in 1 .. Len(u)
    BY <1>0, <2>1, <2>2, AllOrNone
  <2>4. /\ Head(LastOf(u, left)) = u[Len(u) - left + 1]
        /\ Tail(LastOf(u, left)) = LastOf(u, left - 1) /\ Len(LastOf(u, left - 1)) = left - 1
    BY <2>1, <2>3, LastRecords
  <2>5. script' = LastOf(u, left - 1)
    BY <1>0, <2>2, <2>4
  <2>6. left' = left - 1
    BY <2>4, <2>5 DEF left
  <2>7. QED
    BY <2>2, <2>3, <2>4, <2>5, <2>6
<1>6. mode # "uninstall" => InOrder'
  <2>1. Undoing' = Undoing
    BY DEF Undoing
  <2>2. left' = left - 1 /\ left \in 1 .. Len(u) => left' \in 0 .. Len(u)
    OBVIOUS
  <2>3. QED
    BY <1>0, <1>5, <2>1, <2>2 DEF InOrder, Forward
<1>7. ASSUME mode = "fresh" PROVE FreshStands'
  <2>1. FreshStands /\ UNCHANGED <<MozcDir, OldDir, before, data>>
    BY <1>0, <1>3, <1>7 DEF InstallInv
  <2>2. \/ left = 4 /\ h = "RegisterTIPRollback64"
        \/ left = 3 /\ h = "StopCacheServiceForRollback"
        \/ left = 2 /\ h = "UninstallFiles"
        \/ left = 1 /\ h = "StartServices"
    <3>1. Len(u) = 4 /\ u[1] = "RegisterTIPRollback64" /\ u[2] = "StopCacheServiceForRollback"
          /\ u[3] = "UninstallFiles" /\ u[4] = "StartServices"
      BY <1>7, FreshTables
    <3>2. left \in {1, 2, 3, 4} /\ h = u[4 - left + 1]
      BY <1>5, <1>7, <3>1
    <3> HIDE DEF u, h
    <3>3. QED
      BY <3>1, <3>2
  <2>3. left' = left - 1
    BY <1>5, <1>7
  <2> HIDE DEF h
  <2>4. CASE left = 4
    BY <1>0, <1>3, <2>1, <2>2, <2>3, <2>4, HandledBack DEF FreshStands, Forward
  <2>5. CASE left = 3
    BY <1>0, <1>3, <2>1, <2>2, <2>3, <2>5, HandledBack DEF FreshStands, Forward
  <2>6. CASE left = 2
    BY <1>0, <1>3, <2>1, <2>2, <2>3, <2>6, HandledBack DEF FreshStands, Forward
  <2>7. CASE left = 1
    BY <1>0, <1>3, <2>1, <2>2, <2>3, <2>7, HandledBack DEF FreshStands, Forward
  <2>8. QED
    BY <2>2, <2>4, <2>5, <2>6, <2>7
<1>8. ASSUME mode = "upgrade" PROVE UpgradeStands'
  <2>1. UpgradeStands /\ UNCHANGED <<MozcDir, OldDir, before, data>>
    BY <1>0, <1>3, <1>8 DEF InstallInv
  <2>2. \/ left = 5 /\ h = "StopCacheServiceForRollback"
        \/ left = 4 /\ h = "RestoreOldFiles"
        \/ left = 3 /\ h = "UnregisterTIPRollback64"
        \/ left = 2 /\ h = "UninstallFiles"
        \/ left = 1 /\ h = "StartServices"
    <3>1. Len(u) = 5 /\ u[1] = "StopCacheServiceForRollback" /\ u[2] = "RestoreOldFiles"
          /\ u[3] = "UnregisterTIPRollback64" /\ u[4] = "UninstallFiles" /\ u[5] = "StartServices"
      BY <1>8, UpgradeTables
    <3>2. left \in {1, 2, 3, 4, 5} /\ h = u[5 - left + 1]
      BY <1>5, <1>8, <3>1
    <3> HIDE DEF u, h
    <3>3. QED
      BY <3>1, <3>2
  <2>3. left' = left - 1
    BY <1>5, <1>8
  <2> HIDE DEF h
  <2>4. CASE left = 5
    BY <1>0, <1>3, <2>1, <2>2, <2>3, <2>4, HandledBack DEF UpgradeStands, Forward
  <2>5. CASE left = 4
    BY <1>0, <1>3, <2>1, <2>2, <2>3, <2>5, HandledBack DEF UpgradeStands, Forward
  <2>6. CASE left = 3
    BY <1>0, <1>3, <2>1, <2>2, <2>3, <2>6, HandledBack DEF UpgradeStands, Forward
  <2>7. CASE left = 2
    BY <1>0, <1>3, <2>1, <2>2, <2>3, <2>7, HandledBack DEF UpgradeStands, Forward
  <2>8. CASE left = 1
    BY <1>0, <1>3, <2>1, <2>2, <2>3, <2>8, HandledBack DEF UpgradeStands, Forward
  <2>9. QED
    BY <2>2, <2>4, <2>5, <2>6, <2>7, <2>8
<1>9. QED
  BY <1>4, <1>6, <1>7, <1>8 DEF InstallInv

(* A failure that is ignored: of what follows nothing is said. *)
LEMMA FailIgnoredKeeps ==
  ASSUME InstallInv, Msi!FailIgnored
  PROVE  InstallInv'
<1>1. /\ Msi!Handle(Head(script), FALSE) /\ ignored' = TRUE
      /\ UNCHANGED <<mode, MozcDir, OldDir, before, phase>>
  BY DEF Msi!FailIgnored, Msi!place
<1>2. service' \in BOOLEAN
  BY <1>1 DEF InstallInv, Msi!Handle, Msi!system
<1>3. QED
  BY <1>1, <1>2 DEF InstallInv

(* From one script to the next. *)
LEMMA ScriptBegins ==
  ASSUME InstallInv, phase' \in Forward \cup {"commit"}, phase' = "nested" => mode = "upgrade",
         mode' = mode, script' = Plan[phase']
  PROVE  /\ left' = Len(Plan[phase']) /\ left' \in Nat
         /\ script' = LastOf(Plan'[phase'], left') /\ left' \in 0 .. Len(Plan'[phase'])
<1> DEFINE p == Plan[phase']
<1>1. p \in Seq(Records)
  <2>1. CASE mode = "fresh"
    BY <2>1, FreshTables DEF Forward
  <2>2. CASE mode = "upgrade"
    BY <2>2, UpgradeTables DEF Forward
  <2>3. CASE mode = "uninstall"
    BY <2>3, UninstallTables DEF Forward
  <2>4. QED
    BY <2>1, <2>2, <2>3 DEF InstallInv
<1>2. Plan' = Plan
  BY DEF Plan
<1>3. left' = Len(script')
  BY DEF left
<1> HIDE DEF p
<1>4. Len(p) \in Nat /\ LastOf(p, Len(p)) = p
  BY <1>1, AllOrNone
<1>5. QED
  BY <1>2, <1>3, <1>4 DEF p

LEMMA ProceedKeeps ==
  ASSUME InstallInv, Msi!Proceed
  PROVE  InstallInv'
<1>0. /\ phase \in Forward /\ script = <<>>
      /\ \/ phase = "execute" /\ mode = "upgrade" /\ phase' = "nested"
         \/ phase = "nested" /\ mode = "upgrade" /\ phase' = "finalize"
         \/ phase = "execute" /\ mode # "upgrade" /\ phase' = "finalize"
         \/ phase = "finalize" /\ phase' = "commit"
      /\ script' = Plan[phase'] /\ undo' = undo
      /\ UNCHANGED <<mode, MozcDir, OldDir, before, data, ignored>>
      /\ UNCHANGED <<tsf, files, omaha, service, granted, enabled>>
  BY DEF Msi!Proceed, Msi!place, Msi!system, Forward, Plan
<1>1. left = 0
  BY <1>0 DEF left
<1>2. /\ left' = Len(Plan[phase']) /\ left' \in Nat
      /\ script' = LastOf(Plan'[phase'], left') /\ left' \in 0 .. Len(Plan'[phase'])
  BY <1>0, ScriptBegins DEF Forward
<1> SUFFICES ASSUME ~ignored
             PROVE  InOrder' /\ (mode = "fresh" => FreshStands') /\ (mode = "upgrade" => UpgradeStands')
                    /\ (mode = "uninstall" => UninstallStands')
  BY <1>0 DEF InstallInv, Forward
<1>3. mode = "fresh" => left' = IF phase' = "finalize" THEN 6 ELSE 3
  BY <1>0, <1>2, FreshTables
<1>4. mode = "upgrade" => left' = IF phase' = "nested" THEN 2 ELSE IF phase' = "finalize" THEN 5 ELSE 1
  BY <1>0, <1>2, UpgradeTables
<1>5. phase' \in Forward /\ mode # "uninstall" => RecordedAt(phase, left)' = RecordedAt(phase, left)
  <2>1. CASE mode = "fresh"
    BY <1>0, <1>1, <1>3, <2>1 DEF RecordedAt, Forward
  <2>2. CASE mode = "upgrade"
    BY <1>0, <1>1, <1>4, <2>2 DEF RecordedAt, Forward
  <2>3. QED
    BY <2>1, <2>2 DEF InstallInv
<1>6. InOrder'
  <2>1. Undoing' = Undoing
    BY DEF Undoing
  <2>2. InOrder
    BY DEF InstallInv
  <2>3. phase' # "rollback" /\ (phase' = "nested" => mode' = "upgrade")
    BY <1>0 DEF Forward
  <2>4. phase' \in Forward /\ mode' # "uninstall" =>
          undo' = LastOf(Undoing'[mode'], RecordedAt(phase, left)')
    BY <1>0, <1>5, <2>1, <2>2 DEF InOrder
  <2>5. QED
    BY <1>2, <2>3, <2>4 DEF InOrder
<1>7. mode = "fresh" => FreshStands'
  BY <1>0, <1>1, <1>3 DEF InstallInv, FreshStands, Forward
<1>8. mode = "upgrade" => UpgradeStands'
  BY <1>0, <1>1, <1>4 DEF InstallInv, UpgradeStands, Forward
<1>9. mode = "uninstall" => UninstallStands'
  BY <1>0, <1>1 DEF InstallInv, UninstallStands, Forward
<1>10. QED
  BY <1>6, <1>7, <1>8, <1>9

(* The first script. *)
LEMMA ImmediateKeeps ==
  ASSUME InstallInv, undo = <<>>, Msi!Immediate
  PROVE  InstallInv'
<1>0. /\ phase = "immediate" /\ phase' = "execute" /\ script' = Plan[phase'] /\ undo' = undo
      /\ UNCHANGED <<mode, MozcDir, OldDir, before, tsf, files, omaha, service, granted, ignored>>
      /\ mode # "uninstall" => data' = MozcDir /\ enabled' = enabled
  BY DEF Msi!Immediate, Msi!place, Plan
<1>2. /\ left' = Len(Plan[phase']) /\ left' \in Nat
      /\ script' = LastOf(Plan'[phase'], left') /\ left' \in 0 .. Len(Plan'[phase'])
  BY <1>0, ScriptBegins DEF Forward
<1> SUFFICES ASSUME ~ignored
             PROVE  InOrder' /\ (mode = "fresh" => FreshStands') /\ (mode = "upgrade" => UpgradeStands')
                    /\ (mode = "uninstall" => UninstallStands')
  BY <1>0 DEF InstallInv, Forward
<1>3. mode = "fresh" => left' = 3
  BY <1>0, <1>2, FreshTables
<1>4. mode = "upgrade" => left' = 2
  BY <1>0, <1>2, UpgradeTables
<1>5. mode = "uninstall" => left' = 3
  BY <1>0, <1>2, UninstallTables
<1>6. mode # "uninstall" => undo' = LastOf(Undoing'[mode'], RecordedAt(phase, left)')
  <2> SUFFICES ASSUME mode # "uninstall" PROVE undo' = LastOf(Undoing'[mode'], RecordedAt(phase, left)')
    OBVIOUS
  <2>1. RecordedAt(phase, left)' = 0
    BY <1>0, <1>3, <1>4 DEF RecordedAt, InstallInv
  <2>2. Undoing' = Undoing
    BY DEF Undoing
  <2>3. Undoing[mode] \in Seq(Records)
    BY FreshTables, UpgradeTables DEF InstallInv
  <2>4. LastOf(Undoing[mode], 0) = <<>>
    BY <2>3, AllOrNone
  <2>5. QED
    BY <1>0, <2>1, <2>2, <2>4
<1>7. InOrder'
  BY <1>0, <1>2, <1>6 DEF InOrder
<1>8. mode = "fresh" => FreshStands'
  BY <1>0, <1>3 DEF InstallInv, FreshStands, Forward
<1>9. mode = "upgrade" => UpgradeStands'
  BY <1>0, <1>4 DEF InstallInv, UpgradeStands, Forward
<1>10. mode = "uninstall" => UninstallStands'
  BY <1>0, <1>5 DEF InstallInv, UninstallStands, Forward
<1>11. QED
  BY <1>7, <1>8, <1>9, <1>10

(* How it ends. *)
LEMMA InstallEnds ==
  ASSUME InstallInv, Msi!End \/ Msi!SaveCustomActionDataFails
  PROVE  InstallInv'
<1>0. /\ \/ phase = "commit" /\ phase' = "done" /\ script = <<>>
         \/ phase = "rollback" /\ phase' = "failed" /\ script = <<>>
         \/ phase = "immediate" /\ phase' = "failed" /\ mode # "uninstall"
      /\ UNCHANGED <<mode, MozcDir, OldDir, before, script, undo, data, ignored>>
      /\ UNCHANGED <<tsf, files, omaha, service, granted, enabled>>
  BY DEF Msi!End, Msi!SaveCustomActionDataFails, Msi!place, Msi!system
<1> SUFFICES ASSUME ~ignored
             PROVE  /\ InOrder' /\ (mode = "fresh" => FreshStands') /\ (mode = "upgrade" => UpgradeStands')
                    /\ (mode = "uninstall" => UninstallStands') /\ InstallIsAllOrNothing'
  BY <1>0 DEF InstallInv, Forward
<1>1. phase # "immediate" => left = 0
  BY <1>0 DEF left
<1>2. InOrder'
  BY <1>0 DEF InOrder, Forward
<1>3. CASE mode = "fresh"
  <2>1. FreshStands /\ before \in BOOLEAN /\ service \in BOOLEAN
    BY <1>3 DEF InstallInv
  <2>2. FreshStands'
    BY <1>0, <1>1, <2>1 DEF FreshStands, Forward
  <2>3. InstallIsAllOrNothing'
    BY <1>0, <1>1, <1>3, <2>1 DEF FreshStands, Forward, InstallIsAllOrNothing, Msi!InstallIsAllOrNothing
  <2>4. QED
    BY <1>2, <1>3, <2>2, <2>3
<1>4. CASE mode = "upgrade"
  <2>1. UpgradeStands
    BY <1>4 DEF InstallInv
  <2>2. UpgradeStands'
    BY <1>0, <1>1, <2>1 DEF UpgradeStands, Forward
  <2>3. InstallIsAllOrNothing'
    BY <1>0, <1>1, <1>4, <2>1 DEF UpgradeStands, Forward, InstallIsAllOrNothing, Msi!InstallIsAllOrNothing
  <2>4. QED
    BY <1>2, <1>4, <2>2, <2>3
<1>5. CASE mode = "uninstall"
  <2>1. UninstallStands
    BY <1>5 DEF InstallInv
  <2>2. UninstallStands'
    BY <1>0, <2>1 DEF UninstallStands, Forward
  <2>3. InstallIsAllOrNothing'
    BY <1>0, <1>5, <2>1 DEF UninstallStands, Forward, InstallIsAllOrNothing, Msi!InstallIsAllOrNothing
  <2>4. QED
    BY <1>2, <1>5, <2>2, <2>3
<1>6. QED
  BY <1>3, <1>4, <1>5 DEF InstallInv

\* Before the first script nothing is recorded.
NothingYet == phase = "immediate" => undo = <<>>

(* custom_action.cc:97-100: unless an action whose result is ignored has failed, an *)
(* installation that is done is whole, and one that failed has left nothing, or the *)
(* old product as it was.                                                           *)
THEOREM InstallsWhole == Msi!Spec => []InstallIsAllOrNothing
<1>1. Msi!Init => InstallInv /\ NothingYet
  <2> SUFFICES ASSUME Msi!Init PROVE InstallInv /\ NothingYet
    OBVIOUS
  <2>1. /\ mode \in {"fresh", "upgrade", "uninstall"} /\ MozcDir \in Msi!Dirs
        /\ phase = "immediate" /\ undo = <<>> /\ data = "none" /\ omaha = "none"
        /\ before \in BOOLEAN /\ service = before /\ ignored = FALSE
    BY DEF Msi!Init
  <2>2. InOrder
    BY <2>1 DEF InOrder, Forward
  <2>3. ASSUME mode = "fresh" PROVE FreshStands
    <3>1. before = FALSE /\ enabled = FALSE /\ tsf = Msi!Unregistered /\ files = {}
      BY <2>3 DEF Msi!Init
    <3>2. QED
      BY <2>1, <3>1 DEF FreshStands, Forward
  <2>4. mode = "upgrade" => UpgradeStands
    BY <2>1 DEF Msi!Init, UpgradeStands, Forward
  <2>5. mode = "uninstall" => UninstallStands
    BY <2>1 DEF Msi!Init, UninstallStands, Forward
  <2>6. QED
    BY <2>1, <2>2, <2>3, <2>4, <2>5 DEF InstallInv, NothingYet
<1>2. InstallInv /\ NothingYet /\ [Msi!Next]_(Msi!vars) => InstallInv' /\ NothingYet'
  <2> SUFFICES ASSUME InstallInv, NothingYet, [Msi!Next]_(Msi!vars) PROVE InstallInv' /\ NothingYet'
    OBVIOUS
  <2>1. CASE Msi!Immediate
    <3>1. undo = <<>> /\ phase' = "execute"
      BY <2>1 DEF NothingYet, Msi!Immediate
    <3>2. QED
      BY <2>1, <3>1, ImmediateKeeps DEF NothingYet
  <2>2. CASE Msi!End \/ Msi!SaveCustomActionDataFails
    BY <2>2, InstallEnds DEF NothingYet, Msi!End, Msi!SaveCustomActionDataFails
  <2>3. CASE Msi!Succeed \/ Msi!Record \/ Msi!Commit
    <3>1. phase' # "immediate"
      BY <2>3 DEF Msi!Succeed, Msi!Record, Msi!Commit, Msi!InScript
    <3>2. QED
      BY <2>3, <3>1, SucceedKeeps DEF NothingYet
  <2>4. CASE Msi!FailIgnored
    BY <2>4, FailIgnoredKeeps DEF NothingYet, Msi!FailIgnored, Msi!InScript
  <2>5. CASE Msi!Fail
    BY <2>5, FailKeeps DEF NothingYet, Msi!Fail
  <2>6. CASE Msi!Proceed
    <3>1. phase' # "immediate"
      BY <2>6 DEF Msi!Proceed
    <3>2. QED
      BY <2>6, <3>1, ProceedKeeps DEF NothingYet
  <2>7. CASE Msi!RollBack
    BY <2>7, RollBackKeeps DEF NothingYet, Msi!RollBack
  <2>8. CASE UNCHANGED Msi!vars
    <3>1. /\ UNCHANGED <<mode, MozcDir, OldDir, before, phase, script, undo, data, ignored>>
          /\ UNCHANGED <<tsf, files, omaha, service, granted, enabled>>
      BY <2>8 DEF Msi!vars, Msi!place, Msi!system
    <3>2. left' = left
      BY <3>1 DEF left
    <3>3. Plan' = Plan /\ Undoing' = Undoing /\ RecordedAt(phase, left)' = RecordedAt(phase, left)
      BY <3>1, <3>2 DEF Plan, Undoing, RecordedAt
    <3>4. InOrder' = InOrder
      BY <3>1, <3>2, <3>3 DEF InOrder
    <3>5. FreshStands' = FreshStands /\ UpgradeStands' = UpgradeStands /\ UninstallStands' = UninstallStands
      BY <3>1, <3>2 DEF FreshStands, UpgradeStands, UninstallStands
    <3>6. InstallIsAllOrNothing' = InstallIsAllOrNothing
      BY <3>1 DEF InstallIsAllOrNothing, Msi!InstallIsAllOrNothing
    <3>7. QED
      BY <3>1, <3>4, <3>5, <3>6 DEF InstallInv, NothingYet
  <2>9. QED
    BY <2>1, <2>2, <2>3, <2>4, <2>5, <2>6, <2>7, <2>8 DEF Msi!Next
<1>3. InstallInv => InstallIsAllOrNothing
  BY DEF InstallInv, InstallIsAllOrNothing, Msi!InstallIsAllOrNothing
<1>4. QED
  BY <1>1, <1>2, <1>3, PTL DEF Msi!Spec
=============================================================================

---------------------------- MODULE TaskbarSwitch ----------------------------
(***************************************************************************)
(* The native taskbar switch: a window with one button, and an icon with a *)
(* menu.  Its message loop and the threads that start a ranker share three *)
(* globals without a lock.  A start is named after its thread, and so is   *)
(* the ranker process it creates.                                          *)
(***************************************************************************)
EXTENDS FiniteSets

CONSTANTS
  Starts,  \* identities of starts: a bound on how many there are
  None     \* g_hServerProcess is NULL

VARIABLES
  g_isAIOn, g_isLoading, g_hServerProcess,
  shown,       \* what the window and the icon's tip say: "on", "loading", "off"
  window,      \* "shown", "hidden", "destroyed"; "exited" with the process
  thread,      \* of a start: "none", "created", "loading", "launched", "asleep",
               \* "failed", "ending", "ended"
  alive,       \* ranker processes that run
  overlapped   \* history: a start was asked for before another had said that it
               \* loads, or the window went while one was under way

globals == <<g_isAIOn, g_isLoading, g_hServerProcess>>
vars == <<globals, shown, window, thread, alive, overlapped>>

Init ==
  /\ g_isAIOn = FALSE /\ g_isLoading = FALSE /\ g_hServerProcess = None
  /\ shown = "off" /\ window = "shown"
  /\ thread = [s \in Starts |-> "none"]
  /\ alive = {} /\ overlapped = FALSE

UnderWay == {s \in Starts : thread[s] \notin {"none", "ended"}}
At(s, here, there) == thread[s] = here /\ thread' = [thread EXCEPT ![s] = there]

UpdateUI ==
  shown' = IF g_isAIOn' THEN "on" ELSE IF g_isLoading' THEN "loading" ELSE "off"

\* What the two taskkills look for, a console's title, no ranker has: they end none.
KillAIProcess ==
  /\ alive' = alive \ {g_hServerProcess}
  /\ g_hServerProcess' = None
-----------------------------------------------------------------------------
(* The message loop. *)

Switch ==
  \/ /\ g_isAIOn
     /\ KillAIProcess
     /\ g_isAIOn' = FALSE /\ UNCHANGED g_isLoading
     /\ UpdateUI
     /\ UNCHANGED <<thread, overlapped>>
  \/ /\ ~g_isAIOn
     /\ \E s \in Starts : At(s, "none", "created")
     /\ overlapped' = (overlapped \/ \E s \in Starts : thread[s] = "created")
     /\ UNCHANGED <<globals, shown, alive>>

\* Mutant: a start under way is no reason not to begin another.
ToggleAIWhileLoading ==
  /\ window \in {"shown", "hidden"}
  /\ Switch
  /\ UNCHANGED window

\* The button, which is disabled while "loading" is shown; or the menu's entry,
\* which is not.
ToggleAI ==
  /\ window \in {"shown", "hidden"}
  /\ ~g_isLoading
  /\ Switch
  /\ UNCHANGED window

\* The close box and the minimise box hide the window, a click on the icon brings
\* it back; so does a second switch, before it exits.
ShowOrHide ==
  /\ window \in {"shown", "hidden"}
  /\ window' \in {"shown", "hidden"} \ {window}
  /\ UNCHANGED <<globals, shown, thread, alive, overlapped>>

\* The menu's exit.
Destroy ==
  /\ window \in {"shown", "hidden"}
  /\ window' = "destroyed"
  /\ KillAIProcess
  /\ overlapped' = (overlapped \/ UnderWay # {})
  /\ UNCHANGED <<g_isAIOn, g_isLoading, shown, thread>>

\* The threads go with the process, wherever they are.
wWinMainReturns ==
  /\ window = "destroyed"
  /\ window' = "exited"
  /\ thread' = [s \in Starts |-> "ended"]
  /\ UNCHANGED <<globals, shown, alive, overlapped>>
-----------------------------------------------------------------------------
(* StartServerThread. *)

Load(s) ==
  /\ At(s, "created", "loading")
  /\ g_isLoading' = TRUE
  /\ UNCHANGED <<g_isAIOn, g_hServerProcess>>
  /\ UpdateUI
  /\ UNCHANGED <<window, alive, overlapped>>

CreateProcess(s) ==
  /\ \/ At(s, "loading", "launched") /\ alive' = alive \cup {s}
     \/ At(s, "loading", "failed") /\ UNCHANGED alive
  /\ UNCHANGED <<globals, shown, window, overlapped>>

Keep(s) ==
  /\ At(s, "launched", "asleep")
  /\ g_hServerProcess' = s
  /\ UNCHANGED <<g_isAIOn, g_isLoading, shown, window, alive, overlapped>>

\* Seven seconds are over, and the ranker counts as on.
Wake(s) ==
  /\ At(s, "asleep", "ending")
  /\ g_isAIOn' = TRUE
  /\ UNCHANGED <<g_isLoading, g_hServerProcess, shown, window, alive, overlapped>>

\* The user has seen the message.
Fail(s) ==
  /\ At(s, "failed", "ending")
  /\ g_isAIOn' = FALSE
  /\ UNCHANGED <<g_isLoading, g_hServerProcess, shown, window, alive, overlapped>>

EndLoading(s) ==
  /\ At(s, "ending", "ended")
  /\ g_isLoading' = FALSE
  /\ UNCHANGED <<g_isAIOn, g_hServerProcess>>
  /\ UpdateUI
  /\ UNCHANGED <<window, alive, overlapped>>

StartServerThread(s) ==
  Load(s) \/ CreateProcess(s) \/ Keep(s) \/ Wake(s) \/ Fail(s) \/ EndLoading(s)
-----------------------------------------------------------------------------
\* A ranker ends by itself.
Die(s) ==
  /\ s \in alive
  /\ alive' = alive \ {s}
  /\ UNCHANGED <<globals, shown, window, thread, overlapped>>

Next ==
  /\ window # "exited"
  /\ \/ ToggleAI \/ ShowOrHide \/ Destroy \/ wWinMainReturns
     \/ \E s \in Starts : StartServerThread(s) \/ Die(s)

Spec == Init /\ [][Next]_vars
-----------------------------------------------------------------------------
(* taskbar_switch.cpp:41 and :110, "VRAM: 0 MB" when OFF: unless a start was   *)
(* asked for twice before the first had begun, or the window left during one,  *)
(* every ranker that runs is the one a toggle or the exit will end, none does  *)
(* when OFF is shown and nothing starts, and none outlives the switch.         *)
SwitchOwnsRanker ==
  ~overlapped =>
    /\ alive \subseteq {g_hServerProcess} \cup {s \in Starts : thread[s] = "launched"}
    /\ (shown = "off" /\ UnderWay = {}) \/ window = "exited" => alive = {}
=============================================================================

-------------------------- MODULE InstallerHandoff --------------------------
(***************************************************************************)
(* The handoff after an installation.  The installer starts the new        *)
(* program, which leaves a helper behind; the helper waits a second, lists *)
(* the program's processes, ends each with its children, and starts a new  *)
(* tray.  The old tray, its ranker and its windows, all of one image, go   *)
(* on meanwhile: a ranker is started or stopped, a window opens or closes, *)
(* the tray is quit.  (The helper ends the Mozc server too; the text       *)
(* service starts it again when it wants one.)                             *)
(***************************************************************************)
EXTENDS FiniteSets

CONSTANTS
  Pids,   \* processes of the old program: a bound on how many there are
  Tray,   \* the old tray's, one of them
  Orphan  \* has no parent

VARIABLES
  kind,     \* of a process: "none" before it is there; "tray", "ranker", "window"
  parent,   \* its parent, or Orphan
  running,  \* the processes that run
  ended,    \* those that ended by themselves
  helper,   \* _restart_after_installer: "asleep", "listed", "done"
  listed,   \* what tasklist has told it, less what it has dealt with
  seen,     \* history: what tasklist told it
  new,      \* the new tray runs
  spoiled   \* history: tasklist or taskkill did not do what it was asked to

processes == <<kind, parent, running, ended>>
vars == <<processes, helper, listed, seen, new, spoiled>>

Init ==
  /\ kind = [p \in Pids |-> IF p = Tray THEN "tray" ELSE "none"]
  /\ parent = [p \in Pids |-> Orphan]
  /\ running \in {{}, {Tray}} /\ ended = {Tray} \ running
  /\ helper = "asleep" /\ listed = {} /\ seen = {}
  /\ new = FALSE /\ spoiled = FALSE
-----------------------------------------------------------------------------
(* The old program. *)

StartedBy == [tray |-> {"ranker", "window"}, window |-> {"window"}, ranker |-> {}]

\* The tray starts a ranker or a window; the guide, a window, starts the settings.
Spawn(p, child) ==
  /\ p \in running /\ kind[child] = "none"
  /\ \E k \in StartedBy[kind[p]] : kind' = [kind EXCEPT ![child] = k]
  /\ parent' = [parent EXCEPT ![child] = p]
  /\ running' = running \cup {child}
  /\ UNCHANGED <<ended, helper, listed, seen, new, spoiled>>

\* It ends: a crash, a window closed; the tray is quit and ends its ranker, but a
\* launch under way may leave another.
EndItself(p) ==
  /\ p \in running
  /\ \E also \in SUBSET {c \in running : parent[c] = p /\ kind[c] = "ranker"} :
       /\ running' = running \ ({p} \cup also)
       /\ ended' = ended \cup {p} \cup also
  /\ UNCHANGED <<kind, parent, helper, listed, seen, new, spoiled>>
-----------------------------------------------------------------------------
(* The helper. *)

\* _taskkill_image_except, without this process and the one that started it; none
\* of them when tasklist cannot be run.
tasklist ==
  /\ helper = "asleep"
  /\ helper' = "listed"
  /\ \/ listed' = running /\ UNCHANGED spoiled
     \/ listed' = {} /\ spoiled' = TRUE
  /\ seen' = listed'
  /\ UNCHANGED <<processes, new>>

\* A process, what it has started, and so on, as far as these are in a set.
Grown(S, in) == \A c \in in : parent[c] \in S => c \in S
Tree(p, in) ==
  {q \in {p} \cup in : \A S \in SUBSET ({p} \cup in) : p \in S /\ Grown(S, in) => q \in S}

\* Mutant: without /T.
taskkillOne(p) ==
  /\ helper = "listed" /\ p \in listed
  /\ listed' = listed \ {p}
  /\ \/ running' = running \ {p} /\ UNCHANGED spoiled
     \/ p \in running /\ UNCHANGED running /\ spoiled' = TRUE
  /\ UNCHANGED <<kind, parent, ended, helper, seen, new>>

\* With /T; a process that has ended meanwhile is not found, nor what it started.
taskkill(p) ==
  /\ helper = "listed" /\ p \in listed
  /\ listed' = listed \ {p}
  /\ \/ p \in running /\ running' = running \ Tree(p, running) /\ UNCHANGED spoiled
     \/ p \notin running /\ UNCHANGED <<running, spoiled>>
     \/ p \in running /\ UNCHANGED running /\ spoiled' = TRUE
  /\ UNCHANGED <<kind, parent, ended, helper, seen, new>>

\* --start-on; if that fails the helper raises, and there is no tray.
StartTray ==
  /\ helper = "listed" /\ listed = {}
  /\ helper' = "done"
  /\ new' \in BOOLEAN
  /\ UNCHANGED <<processes, listed, seen, spoiled>>

Next ==
  \/ \E p, child \in Pids : Spawn(p, child)
  \/ \E p \in Pids : EndItself(p) \/ taskkill(p)
  \/ tasklist \/ StartTray

Spec == Init /\ [][Next]_vars
-----------------------------------------------------------------------------
(* ai_ime_tray.py:525, "Replace the old tray/ranker": when the new tray runs,  *)
(* and the tools have done as they were told, the old one and all it has       *)
(* started, however late, are gone; but for what a process has started after   *)
(* the helper looked, and before it ended by itself and so escaped the helper. *)
HandoffReplaces ==
  new /\ ~spoiled =>
    running \subseteq (UNION {Tree(q, Pids) : q \in ended}) \ seen
=============================================================================

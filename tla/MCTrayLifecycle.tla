-------------------------- MODULE MCTrayLifecycle --------------------------
(***************************************************************************)
(* The processes a user sees, and what puts them there: the tray           *)
(* (TrayLifecycle), the older taskbar switch (TaskbarSwitch), the files    *)
(* they leave one another (ProductFiles), the installation (Installer) and *)
(* what it does to the tray it finds (InstallerHandoff).  The five share   *)
(* no state, so a behaviour of the run is one of one of them.              *)
(*                                                                         *)
(* Starts are model values, named in the .cfg files.  A ranker that is on  *)
(* takes one, the start that replaces it another.                          *)
(***************************************************************************)
EXTENDS TrayLifecycle

CONSTANTS
  SwitchStarts, None,
  Pids, Tray, Orphan,
  Numbers, Found, Edits, OldAutostart, Absent, Torn, Bad, Nothing,
  Blanks, InstructionLimit

\* Nobody and nothing are not one of them; the old tray is a process.
ASSUME SwitchAssumption == None \notin SwitchStarts
ASSUME HandoffAssumption == Tray \in Pids /\ Orphan \notin Pids
\* Some instruction is short enough.
ASSUME ProductAssumption == InstructionLimit \in Nat \ {0}

VARIABLES
  part,
  g_isAIOn, g_isLoading, g_hServerProcess, shown, window, thread, alive, overlapped,
  kind, parent, running, ended, helper, listed, seen, new, spoiled,
  file, tmp, role, at, mem, run_key,
  mode, MozcDir, OldDir, phase, script, undo, data, tsf, files, omaha, service,
  before, granted, enabled, ignored

Switch == INSTANCE TaskbarSwitch WITH Starts <- SwitchStarts
Handoff == INSTANCE InstallerHandoff
Msi == INSTANCE Installer

\* Files as an old version, or a hand, may have left them; and a user's choices.  A
\* text that is stripped and cut ends in a blank; another is nothing but blanks.
Long == <<" ", "x", " ", "x">>
Odd == [ai_autostart |-> FALSE, context_enabled |-> Bad, context_chars |-> 48,
        document_domain |-> "custom", custom_instruction |-> <<>>]
Off == [Odd EXCEPT !.context_enabled = FALSE, !.context_chars = 64,
                   !.custom_instruction = Long]
Mine == [Off EXCEPT !.context_chars = 128]

MCFound == {Absent, Torn, Odd, Off}
MCEdits == {Mine, [Mine EXCEPT !.custom_instruction = <<" ">>]}

Product == INSTANCE ProductFiles WITH disk <- file, pc <- at, Pids <- Numbers

switchVars == <<g_isAIOn, g_isLoading, g_hServerProcess, shown, window, thread,
                alive, overlapped>>
handoffVars == <<kind, parent, running, ended, helper, listed, seen, new, spoiled>>
productVars == <<file, tmp, role, at, mem, run_key>>
msiVars == <<mode, MozcDir, OldDir, phase, script, undo, data, tsf, files, omaha,
             service, before, granted, enabled, ignored>>
mcvars == <<part, vars, switchVars, handoffVars, productVars, msiVars>>

\* A part that is not the behaviour's own rests in one of its initial states.
MCInit ==
  /\ part \in {"tray", "switch", "handoff", "product", "msi"}
  /\ Init /\ Switch!Init /\ Handoff!Init /\ Product!Init /\ Msi!Init
  /\ part # "handoff" => running = {Tray}
  /\ part # "product" => file["settings"] = Absent
  /\ part # "msi" => mode = "fresh" /\ MozcDir = "server" /\ OldDir = "server"

MCNext ==
  \/ /\ part = "tray" /\ Next
     /\ UNCHANGED <<part, switchVars, handoffVars, productVars, msiVars>>
  \/ /\ part = "switch" /\ Switch!Next
     /\ UNCHANGED <<part, vars, handoffVars, productVars, msiVars>>
  \/ /\ part = "handoff" /\ Handoff!Next
     /\ UNCHANGED <<part, vars, switchVars, productVars, msiVars>>
  \/ /\ part = "product" /\ Product!Next
     /\ UNCHANGED <<part, vars, switchVars, handoffVars, msiVars>>
  \/ /\ part = "msi" /\ Msi!Next
     /\ UNCHANGED <<part, vars, switchVars, handoffVars, productVars>>

Turn(step) ==
  /\ part = "tray" /\ ~exited /\ step
  /\ UNCHANGED <<part, switchVars, handoffVars, productVars, msiVars>>

\* TrayLifecycle's fairness, of the behaviours that are the tray's.
MCSpec ==
  /\ MCInit /\ [][MCNext]_mcvars
  /\ WF_mcvars(Turn(UiStep))
  /\ WF_mcvars(Turn(WatcherStep))
  /\ \A t \in Starters : WF_mcvars(Turn(StartStep(t)))
  /\ \A l \in Starts :
       WF_mcvars(Turn(LaunchStep(l))) /\ WF_mcvars(Turn(MonitorStep(l)))
-----------------------------------------------------------------------------
(* The properties of the other four; the comments there say what they are. *)

(* taskbar_switch.cpp:110: no ranker that the switch does not know of, nor when OFF. *)
SwitchOwnsRanker == Switch!SwitchOwnsRanker

(* ai_ime_tray.py:525: the new tray replaces the old one and all it has started. *)
HandoffReplaces == Handoff!HandoffReplaces

(* product_settings.py:63-119: each file is as found or one save's whole body, and *)
(* settings read back as they were written.                                        *)
FilesAreWhole == Product!FilesAreWhole

(* custom_action.cc and its sequence table: an installation is whole, or undone. *)
InstallIsAllOrNothing == Msi!InstallIsAllOrNothing
=============================================================================

------------------------------ MODULE Installer ------------------------------
(***************************************************************************)
(* The custom actions of the MSI, in the order its sequence table gives    *)
(* them.  Windows Installer runs immediate actions at once, and collects   *)
(* the others in a script, executed at InstallExecute and InstallFinalize; *)
(* on an upgrade the old product is removed in between, by a script of its *)
(* own.  A record that fails sends the installation back: what was         *)
(* recorded for rollback runs, the last recorded first.  Commit actions    *)
(* run at the end.                                                         *)
(***************************************************************************)
EXTENDS Sequences

Parts == {"com64", "com32", "profiles", "categories"}
Dirs == {"server", "other"}  \* GetServerDirectory(), or elsewhere
Unregistered == [part \in Parts |-> "none"]
Registered(dir) == [part \in Parts |-> dir]

VARIABLES
  mode,     \* "fresh", "upgrade", "uninstall"
  MozcDir, OldDir,  \* where the product goes, and where the old one is
  phase,    \* "immediate", "execute", "nested", "finalize", "commit", "rollback";
            \* "done", "failed"
  script,   \* records to be executed
  undo,     \* records for rollback, the last recorded first
  data,     \* CustomActionData of RegisterTIP64: a directory, or "none"
  tsf,      \* the text service's registrations: Parts -> Dirs, or "none"
  files,    \* the products whose files are there
  omaha,    \* the error left for the updater: "none", "error", "cleared"
  service,  \* the cache service runs; and it did, to begin with
  before,
  granted,  \* packaged applications may read the text service
  enabled,  \* it is enabled for the user
  ignored   \* history: an action whose result is ignored has failed

place == <<mode, MozcDir, OldDir, before>>
system == <<tsf, files, omaha, service, granted, enabled>>
vars == <<place, phase, script, undo, data, system, ignored>>

ExecuteScript ==
  [fresh     |-> <<"InitialInstallation", "StopServices", "InstallFiles">>,
   upgrade   |-> <<"StopServices", "InstallFiles">>,
   uninstall |-> <<"StopServices", "UnregisterTIP64", "RemoveFiles">>]

\* REMOVE="ALL" AND UPGRADINGPRODUCTCODE: the old product, as it is removed.
NestedScript == <<"UnregisterTIPRollback64", "RemoveOldFiles">>

FinalScript ==
  [fresh   |-> <<"StopCacheServiceForRollback", "RestoreServiceState",
                 "RegisterTIPRollback64", "RegisterTIP64",
                 "EnsureAllApplicationPackagesPermisssions", "PublishProduct">>,
   upgrade |-> <<"StopCacheServiceForRollback", "RestoreServiceState",
                 "RegisterTIP64", "EnsureAllApplicationPackagesPermisssions",
                 "PublishProduct">>,
   uninstall |-> <<>>]

CommitScript ==
  [fresh   |-> <<"InitialInstallationCommit", "FixupConfigFilePermission",
                 "EnableTipProfile">>,
   upgrade |-> <<"FixupConfigFilePermission">>,
   uninstall |-> <<>>]

\* Mutant: what registered the text service is not undone.
ForRollbackButOne == {"UnregisterTIPRollback64", "StopCacheServiceForRollback"}

ForRollback ==
  {"UnregisterTIPRollback64", "StopCacheServiceForRollback", "RegisterTIPRollback64"}

\* What Windows Installer undoes by itself.
UndoOf == [StopServices |-> "StartServices", InstallFiles |-> "UninstallFiles",
           RemoveFiles |-> "RestoreFiles", RemoveOldFiles |-> "RestoreOldFiles"]

\* Return="ignore" in the table.
Ignored == {"UnregisterTIP64", "UnregisterTIPRollback64", "RestoreServiceState",
            "StopCacheServiceForRollback", "EnsureAllApplicationPackagesPermisssions"}

Init ==
  /\ mode \in {"fresh", "upgrade", "uninstall"}
  /\ MozcDir \in Dirs /\ OldDir \in Dirs
  /\ phase = "immediate" /\ script = <<>> /\ undo = <<>> /\ data = "none"
  /\ tsf = IF mode = "fresh" THEN Unregistered ELSE Registered(OldDir)
  /\ files = IF mode = "fresh" THEN {} ELSE {"old"}
  /\ before \in IF mode = "fresh" THEN {FALSE} ELSE BOOLEAN
  /\ service = before
  /\ granted = (mode # "fresh") /\ enabled = (mode # "fresh")
  /\ omaha = "none" /\ ignored = FALSE
-----------------------------------------------------------------------------
(* The actions' handlers.  ok says whether one returns success. *)

\* The four registrations, in order; at the first that fails all are undone.
UnregisterTIP == tsf' = Unregistered

RegisterTIP(dir, ok) == IF ok THEN tsf' = Registered(dir) ELSE UnregisterTIP

\* CustomActionData, or the directory the product was compiled for.
GetMozcComponentPath(given) == IF given = "none" THEN "server" ELSE given

Handle(record, ok) ==
  \/ /\ record \in {"RegisterTIP64", "UnregisterTIPRollback64"}
     /\ RegisterTIP(GetMozcComponentPath(IF record = "RegisterTIP64" THEN data
                                         ELSE "none"), ok)
     /\ UNCHANGED <<files, omaha, service, granted, enabled>>
  \/ /\ record \in {"UnregisterTIP64", "RegisterTIPRollback64"} /\ ok
     /\ UnregisterTIP
     /\ UNCHANGED <<files, omaha, service, granted, enabled>>
  \/ /\ record \in {"InitialInstallation", "InitialInstallationCommit"} /\ ok
     /\ omaha' = IF record = "InitialInstallation" THEN "error" ELSE "cleared"
     /\ UNCHANGED <<tsf, files, service, granted, enabled>>
  \/ /\ record \in {"RestoreServiceState", "StartServices"}
     /\ service' = IF ok THEN before ELSE service
     /\ UNCHANGED <<tsf, files, omaha, granted, enabled>>
  \/ /\ record \in {"StopServices", "StopCacheServiceForRollback"}
     /\ service' = (service /\ ~ok)
     /\ UNCHANGED <<tsf, files, omaha, granted, enabled>>
  \/ /\ record = "EnsureAllApplicationPackagesPermisssions"
     /\ granted' = (granted \/ ok)
     /\ UNCHANGED <<tsf, files, omaha, service, enabled>>
  \/ /\ record = "EnableTipProfile" /\ ok
     /\ enabled' \in {TRUE, enabled}
     /\ UNCHANGED <<tsf, files, omaha, service, granted>>
  \/ /\ record \in {"InstallFiles", "UninstallFiles"}
     /\ files' = IF ok /\ record = "InstallFiles" THEN files \cup {"new"}
                 ELSE files \ {"new"}
     /\ UNCHANGED <<tsf, omaha, service, granted, enabled>>
  \/ /\ record \in {"RemoveFiles", "RemoveOldFiles", "RestoreFiles", "RestoreOldFiles"}
     /\ files' = IF ok /\ record \in {"RemoveFiles", "RemoveOldFiles"}
                 THEN files \ {"old"} ELSE files \cup {"old"}
     /\ UNCHANGED <<tsf, omaha, service, granted, enabled>>
  \/ record \in {"FixupConfigFilePermission", "PublishProduct"}
     /\ UNCHANGED system
-----------------------------------------------------------------------------
(* Windows Installer. *)

\* Before InstallExecute: SaveCustomActionData.  The Mozc server is shut down if
\* it answers, the cancel button hidden, and on removal the user's input method
\* restored; whatever these return.
Immediate ==
  /\ phase = "immediate"
  /\ \/ /\ mode # "uninstall"
        /\ data' = MozcDir
        /\ UNCHANGED enabled
     \/ /\ mode = "uninstall"
        /\ enabled' \in {FALSE, enabled}
        /\ UNCHANGED data
  /\ phase' = "execute" /\ script' = ExecuteScript[mode]
  /\ UNCHANGED <<place, undo, tsf, files, omaha, service, granted, ignored>>

\* No directory, or a property that cannot be set.
SaveCustomActionDataFails ==
  /\ phase = "immediate" /\ mode # "uninstall"
  /\ phase' = "failed"
  /\ UNCHANGED <<place, script, undo, data, system, ignored>>

InScript == phase \in {"execute", "nested", "finalize"} /\ script # <<>>

Record ==
  /\ InScript /\ Head(script) \in ForRollback
  /\ undo' = <<Head(script)>> \o undo
  /\ script' = Tail(script)
  /\ UNCHANGED <<place, phase, data, system, ignored>>

Succeed ==
  /\ InScript /\ Head(script) \notin ForRollback
  /\ Handle(Head(script), TRUE)
  /\ script' = Tail(script)
  /\ undo' = IF Head(script) \in DOMAIN UndoOf
             THEN <<UndoOf[Head(script)]>> \o undo ELSE undo
  /\ UNCHANGED <<place, phase, data, ignored>>

FailIgnored ==
  /\ InScript /\ Head(script) \in Ignored \ ForRollback
  /\ Handle(Head(script), FALSE)
  /\ ignored' = TRUE
  /\ script' = Tail(script)
  /\ UNCHANGED <<place, phase, undo, data>>

Fail ==
  /\ InScript /\ Head(script) \notin Ignored \cup ForRollback
  /\ Handle(Head(script), FALSE)
  /\ phase' = "rollback" /\ script' = undo /\ undo' = <<>>
  /\ UNCHANGED <<place, data, ignored>>

\* On to the next script.  The tray is told of the installation as the last of
\* them is built, so before it is executed.
Proceed ==
  /\ phase \in {"execute", "nested", "finalize"} /\ script = <<>>
  /\ \/ /\ phase = "execute" /\ mode = "upgrade"
        /\ phase' = "nested" /\ script' = NestedScript
     \/ /\ phase = (IF mode = "upgrade" THEN "nested" ELSE "execute")
        /\ phase' = "finalize" /\ script' = FinalScript[mode]
     \/ /\ phase = "finalize"
        /\ phase' = "commit" /\ script' = CommitScript[mode]
  /\ UNCHANGED <<place, undo, data, system, ignored>>

Commit ==
  /\ phase = "commit" /\ script # <<>>
  /\ Handle(Head(script), TRUE)
  /\ script' = Tail(script)
  /\ UNCHANGED <<place, phase, undo, data, ignored>>

\* A rollback goes on whatever its actions return.
RollBack ==
  /\ phase = "rollback" /\ script # <<>>
  /\ \E ok \in BOOLEAN :
       /\ ok \/ Head(script) \in Ignored
       /\ Handle(Head(script), ok)
       /\ ignored' = (ignored \/ ~ok)
  /\ script' = Tail(script)
  /\ UNCHANGED <<place, phase, undo, data>>

End ==
  /\ phase \in {"commit", "rollback"} /\ script = <<>>
  /\ phase' = IF phase = "commit" THEN "done" ELSE "failed"
  /\ UNCHANGED <<place, script, undo, data, system, ignored>>

Next ==
  \/ Immediate \/ SaveCustomActionDataFails
  \/ Record \/ Succeed \/ FailIgnored \/ Fail \/ Proceed \/ Commit \/ RollBack \/ End

Spec == Init /\ [][Next]_vars
-----------------------------------------------------------------------------
(* custom_action.cc:97-100 and the comments of the sequence table: unless an    *)
(* action whose result is ignored has failed, an installation is whole, its     *)
(* text service registered where the product is; and a failed one has left      *)
(* nothing, or the old product as it was, but for the error it is to report.    *)
(* An old product elsewhere than GetServerDirectory() is registered there: the  *)
(* rollback is given no directory.  Of a failed removal nothing is said: what   *)
(* it has unregistered stays so.                                                *)
InstallIsAllOrNothing ==
  ~ignored =>
    /\ phase = "done" /\ mode # "uninstall" =>
         /\ tsf = Registered(MozcDir) /\ files = {"new"}
         /\ service = before /\ granted
         /\ omaha = IF mode = "fresh" THEN "cleared" ELSE "none"
    /\ phase = "done" /\ mode = "uninstall" => tsf = Unregistered /\ files = {}
    /\ phase = "failed" /\ mode = "fresh" =>
         /\ tsf = Unregistered /\ files = {} /\ ~enabled
         /\ data # "none" => omaha = "error"
    /\ phase = "failed" /\ mode = "upgrade" =>
         /\ tsf \in {Registered(OldDir), Registered("server")}
         /\ files = {"old"} /\ service = before
=============================================================================

---------------------------- MODULE ProductFiles ----------------------------
(***************************************************************************)
(* The product's files: settings.json, ranker_status.json, onboarding.json.*)
(* Several processes write them, and hold no lock: each writes a temporary *)
(* file of its own and renames it.  A write can fail, or its process end,  *)
(* between any two steps.  A process that has ended leaves its number, and *)
(* its temporary file, to a later one.                                     *)
(***************************************************************************)
EXTENDS Integers, Sequences, FiniteSetsExt

CONSTANTS
  Pids,          \* process numbers: a bound on the writers at a time
  Found,         \* what settings.json may hold to begin with
  Edits,         \* what a user may set in the settings window
  Blanks,        \* the characters that strip() drops
  InstructionLimit,  \* the longest instruction: 500 characters
  OldAutostart,  \* whether the registry's Run key starts a ranker directly
  Absent, Torn,  \* no file; one that is not a whole body
  Bad,           \* a value that is not of its field's type
  Nothing        \* no body to write

VARIABLES
  disk,     \* the three files: a body, Absent or Torn
  tmp,      \* the temporary files, one for each pid
  role,     \* which program a pid runs: "none", or the roles below
  pc,       \* where: "ready", "load", "open", "write", "replace"
  mem,      \* the body a process is to write
  run_key   \* the Run key's legacy value is there

vars == <<disk, tmp, role, pc, mem, run_key>>

FileOf == [window |-> "settings", migration |-> "settings",
           ranker |-> "status", guide |-> "onboarding"]
-----------------------------------------------------------------------------
(* product_settings.py *)

CONTEXT_LENGTHS == {0, 32, 64, 128, 256, 512}
DOMAIN_PRESETS == {"general", "medical", "custom"}

\* lexical_grounding is one more flag, compute_mode one more name.  An instruction
\* is a sequence of characters.
DEFAULT_SETTINGS ==
  [ai_autostart |-> TRUE, context_enabled |-> TRUE, context_chars |-> 64,
   document_domain |-> "general", custom_instruction |-> <<>>]

Distance(a, b) == IF a < b THEN b - a ELSE a - b

\* min() over the tuple: of two as near, the smaller one.
Nearest(n) ==
  Min({l \in CONTEXT_LENGTHS :
         \A k \in CONTEXT_LENGTHS : Distance(l, n) <= Distance(k, n)})

OrDefault(raw, field, domain) ==
  IF raw[field] \in domain THEN raw[field] ELSE DEFAULT_SETTINGS[field]

Flag(raw, field) ==
  IF raw[field] # Bad THEN raw[field] ELSE DEFAULT_SETTINGS[field]

\* str.strip().
strip(text) ==
  LET kept == {i \in DOMAIN text : text[i] \notin Blanks}
  IN  IF kept = {} THEN <<>> ELSE SubSeq(text, Min(kept), Max(kept))

\* What is cut off may leave a blank at the end.
Shortened(text) ==
  IF Len(text) <= InstructionLimit THEN text ELSE SubSeq(text, 1, InstructionLimit)

normalize_settings(raw) ==
  [ai_autostart       |-> Flag(raw, "ai_autostart"),
   context_enabled    |-> Flag(raw, "context_enabled"),
   context_chars      |-> Nearest(Flag(raw, "context_chars")),
   document_domain    |-> OrDefault(raw, "document_domain", DOMAIN_PRESETS),
   custom_instruction |-> Shortened(strip(raw.custom_instruction))]

load_settings ==
  IF disk["settings"] \in {Absent, Torn} THEN DEFAULT_SETTINGS
  ELSE normalize_settings(disk["settings"])

\* Mutant: what is saved is saved as it is given.
WrittenAsGiven(settings) == settings

\* What save_settings writes.
Written(settings) == normalize_settings(settings)

\* What the ranker is told: the domain's sentence, the user's, or both.
domain_instruction(settings) ==
  LET s == normalize_settings(settings) IN
  [preset |-> IF s.document_domain # "custom" THEN s.document_domain
              ELSE IF s.custom_instruction = <<>> THEN "general" ELSE "none",
   custom |-> s.custom_instruction]
-----------------------------------------------------------------------------
Init ==
  /\ \E found \in Found :
       disk = [settings |-> found, status |-> Absent, onboarding |-> Absent]
  /\ tmp = [p \in Pids |-> Absent]
  /\ role = [p \in Pids |-> "none"] /\ pc = [p \in Pids |-> "ready"]
  /\ mem = [p \in Pids |-> Nothing]
  /\ run_key = OldAutostart

Running(p, r, here) == role[p] = r /\ pc[p] = here
Goto(p, there) == pc' = [pc EXCEPT ![p] = there]
Rest(p) == Goto(p, "ready") /\ mem' = [mem EXCEPT ![p] = Nothing]
Exit(p) == Rest(p) /\ role' = [role EXCEPT ![p] = "none"]

\* What is left in a temporary file is of no use to anyone.
Leave(p) == tmp' = [tmp EXCEPT ![p] = IF @ = Absent THEN Absent ELSE Torn]

\* The guide is shown once for a version, or when it is asked for.
should_show_onboarding == disk["onboarding"] # "seen"

\* A process starts.  There may be any number of settings windows, and of guides:
\* the guard against a second one is never told that there is one.
Start(p) ==
  /\ role[p] = "none"
  /\ \/ \E r \in {"window", "ranker", "guide"}, force \in BOOLEAN :
          /\ r = "guide" => force \/ should_show_onboarding
          /\ role' = [role EXCEPT ![p] = r]
          /\ UNCHANGED <<pc, run_key>>
     \* migrate_legacy_windows_autostart, as the tray starts.
     \/ /\ run_key
        /\ run_key' = FALSE
        /\ role' = [role EXCEPT ![p] = "migration"]
        /\ Goto(p, "load")
  /\ UNCHANGED <<disk, tmp, mem>>

\* The settings are read only now, and written if they do not say so already.
Migrate(p) ==
  /\ Running(p, "migration", "load")
  /\ IF load_settings.ai_autostart
       THEN Exit(p)
     ELSE /\ mem' = [mem EXCEPT ![p] = Written([load_settings EXCEPT !.ai_autostart = TRUE])]
          /\ Goto(p, "open")
          /\ UNCHANGED role
  /\ UNCHANGED <<disk, tmp, run_key>>

\* No context is no characters of it.
_collect(choice) ==
  normalize_settings(
    IF choice.context_enabled THEN choice ELSE [choice EXCEPT !.context_chars = 0])

\* Of the user's own domain, an instruction is asked for first.
_save(p) ==
  /\ Running(p, "window", "ready")
  /\ \E choice \in Edits \cup {DEFAULT_SETTINGS} :
       LET settings == _collect(choice) IN
       /\ settings.document_domain = "custom" => settings.custom_instruction # <<>>
       /\ mem' = [mem EXCEPT ![p] = Written(settings)]
  /\ Goto(p, "open")
  /\ UNCHANGED <<disk, tmp, role, run_key>>

\* RuntimeStatus.write; mark_onboarding_seen.
WriteStatus(p) ==
  /\ Running(p, "ranker", "ready")
  /\ \E state \in {"loading", "on"} :
       mem' = [mem EXCEPT ![p] = state]
  /\ Goto(p, "open")
  /\ UNCHANGED <<disk, tmp, role, run_key>>

mark_onboarding_seen(p) ==
  /\ Running(p, "guide", "ready")
  /\ mem' = [mem EXCEPT ![p] = "seen"]
  /\ Goto(p, "open")
  /\ UNCHANGED <<disk, tmp, role, run_key>>
-----------------------------------------------------------------------------
(* The three steps of a save. *)

\* Mutant: all the writers of a file share one temporary file.
OpenShared(p) ==
  /\ pc[p] = "open"
  /\ tmp' = [q \in Pids |->
               IF q = p \/ (role[q] # "none" /\ tmp[q] # Absent
                             /\ FileOf[role[q]] = FileOf[role[p]])
               THEN Torn ELSE tmp[q]]
  /\ Goto(p, "write")
  /\ UNCHANGED <<disk, role, mem, run_key>>

Open(p) ==
  /\ pc[p] = "open"
  /\ tmp' = [tmp EXCEPT ![p] = Torn]
  /\ Goto(p, "write")
  /\ UNCHANGED <<disk, role, mem, run_key>>

Write(p) ==
  /\ pc[p] = "write"
  /\ tmp' = [tmp EXCEPT ![p] = mem[p]]
  /\ Goto(p, "replace")
  /\ UNCHANGED <<disk, role, mem, run_key>>

\* The guide's other button: the settings window, before the guide is closed.
_launch_settings(p) ==
  /\ role[p] = "guide"
  /\ \E q \in Pids :
       /\ role[q] = "none"
       /\ role' = [role EXCEPT ![p] = "none", ![q] = "window"]
  /\ Rest(p)

\* A guide closes; the tray, its settings migrated, writes none of the files; a
\* settings window closes a little later, and the ranker goes on.
Done(p) ==
  IF role[p] \in {"guide", "migration"} THEN Exit(p) \/ _launch_settings(p)
  ELSE Rest(p) /\ UNCHANGED role

Replace(p) ==
  /\ pc[p] = "replace"
  /\ disk' = [disk EXCEPT ![FileOf[role[p]]] = tmp[p]]
  /\ tmp' = [tmp EXCEPT ![p] = Absent]
  /\ Done(p)
  /\ UNCHANGED run_key

\* Any of them raises.  The settings window says so and stays, a ranker only logs
\* it, a guide drops its temporary file; but a migration takes the tray with it.
Raise(p) ==
  /\ pc[p] \in {"open", "write", "replace"}
  /\ IF role[p] = "migration" THEN Exit(p)
     ELSE Rest(p) /\ UNCHANGED role
  /\ tmp' = IF role[p] = "guide" THEN [tmp EXCEPT ![p] = Absent] ELSE tmp
  /\ UNCHANGED <<disk, run_key>>

\* The user closes the window, the ranker is stopped, or the process is ended
\* wherever it is.
End(p) ==
  /\ role[p] # "none"
  /\ Exit(p)
  /\ Leave(p)
  /\ UNCHANGED <<disk, run_key>>

Next ==
  \E p \in Pids :
    \/ Start(p) \/ Migrate(p) \/ _save(p) \/ WriteStatus(p) \/ mark_onboarding_seen(p)
    \/ Open(p) \/ Write(p) \/ Replace(p) \/ Raise(p) \/ End(p)

Spec == Init /\ [][Next]_vars
-----------------------------------------------------------------------------
(* What a user has chosen, and what a migration makes of what was found. *)

Chosen(s) ==
  /\ ~s.context_enabled => s.context_chars = 0
  /\ s.document_domain = "custom" => s.custom_instruction # <<>>

Migrated(s, found) ==
  LET read == [normalize_settings(found) EXCEPT !.ai_autostart = TRUE]
  IN  s = [read EXCEPT !.custom_instruction = strip(@)]

(* tests/test_product_settings.py and product_settings.py:109-119: whatever     *)
(* fails, ends or runs beside it, each file is as it was found or one save's    *)
(* whole body; and a saved settings.json reads back as it was written, though   *)
(* an instruction that is cut may have to be stripped once more.  It is a       *)
(* user's choice, with no length where there is no context and with an          *)
(* instruction where the domain is his own, or what was found, as it was read,  *)
(* but for the autostart and the blanks a cut has left.  No program is told     *)
(* nothing of the domain.                                                       *)
FilesAreWhole ==
  /\ \A f \in DOMAIN disk :
       disk[f] = Torn => f = "settings" /\ Torn \in Found
  /\ disk["settings"] \notin Found =>
       /\ normalize_settings(disk["settings"]) = disk["settings"]
       /\ \/ Chosen(disk["settings"])
          \/ \E found \in Found \ {Absent, Torn} : Migrated(disk["settings"], found)
  /\ LET told == domain_instruction(load_settings)
     IN  told.preset # "none" \/ told.custom # <<>>
=============================================================================

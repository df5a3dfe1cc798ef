-------------------------- MODULE LoadingIndicator --------------------------
(***************************************************************************)
(* The pill that says a conversion is being ranked.  The pipe's loop asks  *)
(* for it by posting messages; a thread of its own owns the window, shows  *)
(* and hides it.  Neither waits for the other, save for two seconds as the *)
(* thread starts and one as it is told to stop.                            *)
(***************************************************************************)
EXTENDS Naturals, Sequences, FiniteSetsExt

CONSTANTS
  Enabled,        \* the pill is wanted, and this is Windows
  MaxConversions, \* bound on the conversions shown
  Screen,         \* the screen's width and height: [w, h]
  Pill,           \* the pill's, no larger than the screen's
  Points          \* where a caret or the cursor may be: [x, y]

VARIABLES
  loop,    \* the server's loop: "off", "starting", "free", "ranking", "stopping",
           \* "joining", "gone"
  thread,  \* _thread: "none", "creating", "running", "leaving", "ended"
  hwnd,    \* whether self.hwnd names a window
  ready,   \* _ready_event
  window,  \* the window itself: "none", "hidden", "shown"
  at,      \* where it was shown last
  posted,  \* messages posted to it, oldest first
  ranked   \* conversions so far

vars == <<loop, thread, hwnd, ready, window, at, posted, ranked>>

Nowhere == [x |-> 0, y |-> 0]

Init ==
  /\ loop = "off" /\ thread = "none" /\ window = "none"
  /\ hwnd = FALSE /\ ready = FALSE
  /\ at = Nowhere /\ posted = <<>> /\ ranked = 0

Post(msg) == posted' = IF hwnd THEN Append(posted, msg) ELSE posted
-----------------------------------------------------------------------------
(* The server's loop. *)

start ==
  /\ loop = "off"
  /\ IF Enabled THEN loop' = "starting" /\ thread' = "creating"
     ELSE loop' = "free" /\ UNCHANGED thread
  /\ UNCHANGED <<hwnd, ready, window, at, posted, ranked>>

\* The window is there, it cannot be, or two seconds are over.
started ==
  /\ loop = "starting"
  /\ loop' = "free"
  /\ UNCHANGED <<thread, hwnd, ready, window, at, posted, ranked>>

show ==
  /\ loop = "free" /\ ranked < MaxConversions
  /\ loop' = "ranking"
  /\ ranked' = ranked + 1
  /\ Post("show")
  /\ UNCHANGED <<thread, hwnd, ready, window, at>>

\* Mutant: only a pill that can be seen is hidden.
hideIfShown ==
  /\ loop = "ranking"
  /\ loop' \in {"free", "stopping"}
  /\ IF window = "shown" THEN Post("hide") ELSE UNCHANGED posted
  /\ UNCHANGED <<thread, hwnd, ready, window, at, ranked>>

\* The ranking returns; or it raises, and the loop ends.
hide ==
  /\ loop = "ranking"
  /\ loop' \in {"free", "stopping"}
  /\ Post("hide")
  /\ UNCHANGED <<thread, hwnd, ready, window, at, ranked>>

\* No further pipe could be created.
fail ==
  /\ loop = "free"
  /\ loop' = "stopping"
  /\ UNCHANGED <<thread, hwnd, ready, window, at, posted, ranked>>

stop ==
  /\ loop = "stopping"
  /\ loop' = "joining"
  /\ Post("quit")
  /\ UNCHANGED <<thread, hwnd, ready, window, at, ranked>>

\* The thread has ended, or a second is over.
stopped ==
  /\ loop = "joining"
  /\ loop' = "gone"
  /\ hwnd' = FALSE
  /\ UNCHANGED <<thread, ready, window, at, posted, ranked>>
-----------------------------------------------------------------------------
(* The window's thread: a daemon, gone when the loop's process is. *)

\* The class or the window cannot be had.
CreateFails ==
  /\ thread = "creating"
  /\ thread' = "ended" /\ ready' = TRUE
  /\ UNCHANGED <<loop, hwnd, window, at, posted, ranked>>

Create ==
  /\ thread = "creating"
  /\ thread' = "running" /\ hwnd' = TRUE /\ ready' = TRUE /\ window' = "hidden"
  /\ UNCHANGED <<loop, at, posted, ranked>>

Clamp(low, high, v) == Max({low, Min({high, v})})
OnScreen(p) == p.x \in 0 .. Screen.w - Pill.w /\ p.y \in 0 .. Screen.h - Pill.h

\* Under the caret if there is room; else beside the cursor, pushed onto the
\* screen; else in the corner.  At most one caret, one cursor; a margin of one.
_get_target_position(caret, cursor) ==
  LET at_caret == {p \in caret : OnScreen(p)}
      pushed   == {[x |-> Clamp(1, Screen.w - Pill.w - 1, p.x + 1),
                    y |-> Clamp(1, Screen.h - Pill.h - 1, p.y + 1)] : p \in cursor}
  IN IF at_caret # {} THEN CHOOSE p \in at_caret : TRUE
     ELSE IF pushed # {} THEN CHOOSE p \in pushed : TRUE
     ELSE [x |-> Screen.w - Pill.w - 1, y |-> Screen.h - Pill.h - 1]

AtMostOne == {{}} \cup {{p} : p \in Points}

\* One message.  Quit destroys the window, and that ends the loop of messages.
wnd_proc ==
  /\ thread = "running" /\ posted # <<>>
  /\ posted' = Tail(posted)
  /\ \/ /\ Head(posted) = "show"
        /\ window' = "shown"
        /\ \E caret, cursor \in AtMostOne : at' = _get_target_position(caret, cursor)
        /\ UNCHANGED thread
     \/ Head(posted) = "hide" /\ window' = "hidden" /\ UNCHANGED <<at, thread>>
     \/ Head(posted) = "quit" /\ window' = "none" /\ thread' = "leaving" /\ UNCHANGED at
  /\ UNCHANGED <<loop, hwnd, ready, ranked>>

Leave ==
  /\ thread = "leaving"
  /\ thread' = "ended" /\ hwnd' = FALSE
  /\ UNCHANGED <<loop, ready, window, at, posted, ranked>>
-----------------------------------------------------------------------------
LoopStep   == start \/ started \/ show \/ hide \/ fail \/ stop \/ stopped
ThreadStep == CreateFails \/ Create \/ wnd_proc \/ Leave

Next == loop # "gone" /\ (LoopStep \/ ThreadStep)

Spec == Init /\ [][Next]_vars
-----------------------------------------------------------------------------
(* loading_ui.py:3-4, "exclusively while AI inference is running": a pill     *)
(* that is to be seen is that of a ranking under way, or has been told to go, *)
(* also when a ranking raises or ends before the window's thread has looked;  *)
(* and it is on the screen.                                                   *)
PillOnlyWhileRanking ==
  /\ window = "shown" =>
       \/ loop = "ranking"
       \/ \E i \in DOMAIN posted : posted[i] \in {"hide", "quit"}
       \/ loop = "gone"
  /\ window = "shown" => OnScreen(at)
=============================================================================

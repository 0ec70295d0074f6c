------------------------------- MODULE Cursor -------------------------------
(***************************************************************************)
(* Who has the mouse: gui_initializer's cursor, which SA:MP's own windows  *)
(* take from it through the hooked set_cursor_mode, and the main window,   *)
(* which asks for it.  SA:MP is external: it may set any mode at any time. *)
(***************************************************************************)
EXTENDS Naturals

VARIABLES
  cursor_active,
  cursor_state_intercepted,
  cursor_mode,        \* of SA:MP: "none" is 0, "cursor" 2 and 3, "other" the rest
  active, closing,    \* the main window
  window_alpha,       \* Hidden, Full or between
  wanted,             \* history: the last that the user or a window asked for
  stale               \* history: ... while SA:MP had taken the cursor

cursor == <<cursor_active, cursor_state_intercepted, cursor_mode, wanted, stale>>
window == <<active, closing, window_alpha>>

Hidden == 0
Full == 2

CursorTypeOK ==
  /\ cursor_active \in BOOLEAN /\ cursor_state_intercepted \in BOOLEAN
  /\ cursor_mode \in {"none", "cursor", "other"}
  /\ active \in BOOLEAN /\ closing \in BOOLEAN /\ window_alpha \in Hidden..Full
  /\ wanted \in BOOLEAN /\ stale \in BOOLEAN

CursorInit ==
  /\ cursor_active = FALSE /\ cursor_state_intercepted = FALSE /\ cursor_mode = "none"
  /\ active = FALSE /\ closing = FALSE /\ window_alpha = Hidden
  /\ wanted = FALSE /\ stale = FALSE

-----------------------------------------------------------------------------
\* enable_cursor and disable_cursor, by the user or a window
Asked(on) ==
  /\ cursor_active' = on
  /\ wanted' = on /\ stale' = cursor_state_intercepted
  /\ UNCHANGED <<cursor_state_intercepted, cursor_mode>>

EnableCursor == Asked(TRUE)
DisableCursor == Asked(FALSE)

-----------------------------------------------------------------------------
(* set_cursor_mode_hooked                                                  *)

TakenForGood == cursor_state_intercepted' = cursor_state_intercepted   \* mutant
Taken == cursor_state_intercepted' = TRUE

ReturnsAlways(mode) == ~cursor_active /\ mode = "none" /\ cursor_mode # "none" \* mutant

Returns(mode) ==
  /\ ~cursor_active /\ mode = "none" /\ cursor_mode # "none"
  /\ cursor_state_intercepted

Takes(mode) == mode = "cursor" /\ cursor_active /\ ~cursor_state_intercepted

SetCursorMode(mode) ==
  /\ cursor_mode' = mode
  /\ \/ Takes(mode) /\ cursor_active' = FALSE /\ Taken
     \/ Returns(mode) /\ cursor_active' = TRUE /\ cursor_state_intercepted' = FALSE
     \/ /\ ~Takes(mode) /\ ~Returns(mode)
        /\ UNCHANGED <<cursor_active, cursor_state_intercepted>>
  /\ UNCHANGED <<wanted, stale, window>>

-----------------------------------------------------------------------------
(* The hotkey of the cursor, and the main window: switch_window by its     *)
(* hotkey, by /gadmin and by Escape.                                       *)

SwitchCursor == Asked(~cursor_active) /\ UNCHANGED window

SwitchWindow ==
  /\ active' = TRUE
  /\ IF active THEN closing' = TRUE /\ DisableCursor
     ELSE UNCHANGED <<closing, cursor>>
  /\ UNCHANGED window_alpha

\* Escape closes the window, and without one puts the cursor away.
Escape ==
  \/ active /\ SwitchWindow
  \/ ~active /\ cursor_active /\ DisableCursor /\ UNCHANGED window

\* animation::bring_to, for any time since it was started
Brought ==
  IF closing THEN Hidden..window_alpha ELSE window_alpha..Full

\* main::initializer::render: the window has the cursor while it appears.
RenderWindow ==
  \/ ~active /\ UNCHANGED <<cursor, window>>
  \/ /\ active /\ window_alpha' \in Brought
     /\ IF ~closing /\ window_alpha' # Full /\ ~cursor_active
        THEN EnableCursor ELSE UNCHANGED cursor
     /\ IF closing /\ window_alpha' = Hidden
        THEN active' = FALSE /\ closing' = FALSE
        ELSE UNCHANGED <<active, closing>>

-----------------------------------------------------------------------------
\* A cursor that was asked for is there whenever no window of SA:MP has it:
\* what SA:MP takes it gives back.
CursorKept == wanted /\ cursor_mode = "none" => cursor_active

\* A cursor appears only if it was asked for, unless that was while SA:MP had
\* taken it: the mark that it did is kept then, and returns it later.
CursorAsked == cursor_active /\ ~stale => wanted
=============================================================================

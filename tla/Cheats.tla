------------------------------- MODULE Cheats -------------------------------
(***************************************************************************)
(* The cheats that move the user: airbreak, which locks what he moves, and *)
(* clickwarp, whose choice of a place needs the cursor.  They meet where a *)
(* warp into a vehicle changes what airbreak has locked, and both end with *)
(* /alogin.                                                                *)
(*                                                                         *)
(* The switches of the configuration and a spectator session only make     *)
(* the hotkey and the mouse do nothing: they are not represented.          *)
(***************************************************************************)
EXTENDS Cursor, Visuals

CONSTANTS Vehicles, Ped, None

ASSUME CheatsAssumption == Ped \notin Vehicles /\ None \notin Vehicles \cup {Ped}

VARIABLES
  cheat_active,       \* of airbreak
  vehicle,            \* the user's, or None
  locked,             \* placeable::is_locked
  enter_blocked,      \* pad::set_player_enter_vehicle
  left,               \* history: what the user left locked
  selecting_place_to_warp,
  recently_pressed_middle_mouse_button,
  teleport_information    \* None, Place or the vehicle to jump into

airbreak == <<cheat_active, vehicle, locked, enter_blocked, left>>
clickwarp == <<selecting_place_to_warp, recently_pressed_middle_mouse_button,
               teleport_information>>
visuals == <<on_alogin, wallhack, bullets>>
vars == <<cursor, window, visuals, airbreak, clickwarp>>

Place == Ped          \* a place to teleport to without a vehicle
Placeables == Vehicles \cup {Ped}

TypeOK ==
  /\ CursorTypeOK /\ VisualsTypeOK
  /\ cheat_active \in BOOLEAN /\ enter_blocked \in BOOLEAN
  /\ vehicle \in Vehicles \cup {None}
  /\ locked \subseteq Placeables /\ left \subseteq Placeables
  /\ selecting_place_to_warp \in BOOLEAN
  /\ recently_pressed_middle_mouse_button \in BOOLEAN
  /\ teleport_information \in Placeables \cup {None}

Init ==
  /\ CursorInit /\ VisualsInit
  /\ cheat_active = FALSE /\ enter_blocked = FALSE /\ vehicle \in Vehicles \cup {None}
  /\ locked = {} /\ left = {}
  /\ selecting_place_to_warp = FALSE
  /\ recently_pressed_middle_mouse_button = FALSE /\ teleport_information = None

-----------------------------------------------------------------------------
(* airbreak                                                                *)

\* What is moved: the vehicle, or the user on foot.
Common == IF vehicle = None THEN Ped ELSE vehicle

Unlock ==
  /\ locked' = locked \ {Common} /\ left' = left \ {Common}
  /\ enter_blocked' = FALSE
  /\ UNCHANGED vehicle

\* hotkey_callback
ToggleAirbreak ==
  /\ on_alogin
  /\ cheat_active' = ~cheat_active /\ Unlock
  /\ UNCHANGED <<cursor, window, visuals, clickwarp>>

\* main_loop
MainLoop ==
  /\ cheat_active
  /\ locked' = locked \cup {Common} /\ left' = left \ {Common}
  /\ enter_blocked' = TRUE
  /\ UNCHANGED <<cheat_active, vehicle, cursor, window, visuals, clickwarp>>

\* on_alogin_new_state(false)
EndAirbreakLocked ==                                             \* mutant
  cheat_active' = FALSE /\ enter_blocked' = FALSE /\ UNCHANGED <<vehicle, locked, left>>

EndAirbreak ==
  IF cheat_active THEN cheat_active' = FALSE /\ Unlock ELSE UNCHANGED airbreak

\* The user gets in or out, or the game or the server moves him.
ComesTo(v) ==
  /\ vehicle' = v /\ left' = left \cup ({Common} \cap locked)
  /\ UNCHANGED <<cheat_active, locked, enter_blocked>>

GetsInOrOut(v) ==
  /\ v # vehicle /\ (enter_blocked => vehicle # None)
  /\ ComesTo(v)
  /\ UNCHANGED <<cursor, window, visuals, clickwarp>>

-----------------------------------------------------------------------------
(* clickwarp::on_event                                                     *)

StopSelectingPlace ==
  selecting_place_to_warp' = FALSE /\ teleport_information' = None

MiddleButtonDown ==
  /\ on_alogin /\ ~selecting_place_to_warp
  /\ selecting_place_to_warp' = TRUE /\ recently_pressed_middle_mouse_button' = TRUE
  /\ EnableCursor
  /\ UNCHANGED <<teleport_information, window, visuals, airbreak>>

\* The release of the press that began the selection does not end it.
MiddleButtonUp ==
  /\ on_alogin /\ selecting_place_to_warp
  /\ IF recently_pressed_middle_mouse_button
     THEN UNCHANGED <<selecting_place_to_warp, teleport_information, cursor>>
     ELSE StopSelectingPlace /\ DisableCursor
  /\ recently_pressed_middle_mouse_button' = FALSE
  /\ UNCHANGED <<window, visuals, airbreak>>

LeftButtonDown ==
  /\ on_alogin /\ selecting_place_to_warp /\ teleport_information # None
  /\ IF teleport_information = Place THEN UNCHANGED airbreak
     ELSE ComesTo(teleport_information)
  /\ StopSelectingPlace /\ DisableCursor
  /\ UNCHANGED <<recently_pressed_middle_mouse_button, window, visuals>>

\* on_alogin_new_state(false)
EndSelectionLate == UNCHANGED clickwarp                          \* mutant

EndSelection ==
  /\ IF selecting_place_to_warp THEN StopSelectingPlace
     ELSE UNCHANGED <<selecting_place_to_warp, teleport_information>>
  /\ UNCHANGED recently_pressed_middle_mouse_button

-----------------------------------------------------------------------------
\* render: without the cursor the selection ends; with nothing in sight the
\* place last seen is kept.  `hovered` is what the ray meets, None for nothing.
RenderClickwarp(hovered) ==
  /\ IF selecting_place_to_warp /\ ~cursor_active' THEN StopSelectingPlace
     ELSE /\ UNCHANGED selecting_place_to_warp
          /\ teleport_information' =
               IF selecting_place_to_warp /\ hovered # None THEN hovered
               ELSE teleport_information
  /\ UNCHANGED recently_pressed_middle_mouse_button

\* plugin_initializer::on_frame; windows are not drawn over the game's menu.
\* A vehicle is jumped into only by a user on foot.
Frame(hovered, menu) ==
  /\ hovered \in Vehicles => vehicle = None
  /\ IF menu THEN UNCHANGED <<cursor, window>> ELSE RenderWindow
  /\ RenderClickwarp(hovered)
  /\ UNCHANGED <<visuals, airbreak>>

\* user::set_alogin_state, and initializer::on_alogin_new_state; the state may be
\* what it was.
SetAloginState(state) ==
  /\ NewState(state)
  /\ IF state THEN UNCHANGED <<airbreak, clickwarp>>
     ELSE EndAirbreak /\ EndSelection
  /\ UNCHANGED <<cursor, window>>

-----------------------------------------------------------------------------
Draws ==
  /\ \/ ToggleWallhack \/ SwitchUse \/ SwitchRenderer
     \/ OnBullet \/ RenderTracers \/ ClearTracers \/ (\E l \in Limits : SetLimit(l))
  /\ UNCHANGED <<cursor, window, airbreak, clickwarp>>

Points ==
  /\ SwitchCursor \/ SwitchWindow \/ Escape
     \/ (\E mode \in {"none", "cursor", "other"} : SetCursorMode(mode))
  /\ UNCHANGED <<visuals, airbreak, clickwarp>>

Moves ==
  \/ ToggleAirbreak \/ MainLoop
  \/ \E v \in Vehicles \cup {None} : GetsInOrOut(v)
  \/ MiddleButtonDown \/ MiddleButtonUp \/ LeftButtonDown
  \/ \E hovered \in Placeables \cup {None}, menu \in BOOLEAN : Frame(hovered, menu)

Next == (\E state \in BOOLEAN : SetAloginState(state)) \/ Draws \/ Points \/ Moves

Spec == Init /\ [][Next]_vars

-----------------------------------------------------------------------------
\* When airbreak ends, by the hotkey or with /alogin, what it locked can be
\* moved again, but for what the user left while it was locked.
GivesBack == ~cheat_active => locked \subseteq left /\ ~enter_blocked

\* The cheats act only on /alogin: they end with it in the middle of a flight or
\* of a choice.
OnlyOnAlogin == cheat_active \/ selecting_place_to_warp => on_alogin
=============================================================================

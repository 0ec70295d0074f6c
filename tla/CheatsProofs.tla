---------------------------- MODULE CheatsProofs ----------------------------
(***************************************************************************)
(* What the cheats, the cursor and the name tags promise, proved for every *)
(* set of vehicles and of limits and without a bound on the tracers that   *)
(* matters.  Each part has its own strengthening: an invariant on the few  *)
(* variables it is about, which the other actions leave alone.             *)
(***************************************************************************)
EXTENDS Cheats, TLAPS

\* The cursor is where it was asked to be: shown, or held back by a window of
\* SA:MP that gives it back; and a mark of interception is not left over.
CursorInv ==
  /\ wanted => cursor_active \/ (cursor_state_intercepted /\ cursor_mode # "none")
  /\ cursor_active \/ cursor_state_intercepted => wanted \/ stale

\* Airbreak has locked nothing but what it moves and what was left behind.
LockInv ==
  /\ locked \subseteq left \cup (IF cheat_active THEN {Common} ELSE {})
  /\ ~cheat_active => ~enter_blocked

\* Wallhack is on only on /alogin, and what it changes of the tags is what its
\* state says.
TagsInv ==
  /\ wallhack_active => on_alogin
  /\ ~wallhack_active => tags_shown
  /\ ~wallhack_active /\ ~mixed => ~tags_far
  /\ ~mixed /\ ~tags_far => tags_behind_wall

IInv == TypeOK /\ CursorInv /\ LockInv /\ OnlyOnAlogin /\ TagsInv /\ TracersLimited

-----------------------------------------------------------------------------
LEMMA InitIInv == Init => IInv
<1> SUFFICES ASSUME Init PROVE IInv
  OBVIOUS
<1> USE DEF Init, CursorInit, VisualsInit
<1>1. TypeOK
  <2>1. CursorTypeOK
    <3>1. window_alpha \in Hidden..Full
      BY DEF Hidden, Full
    <3> QED
      BY <3>1, Zenon DEF CursorTypeOK
  <2>2. VisualsTypeOK
    <3>1. limit \in Limits /\ tracers \in Nat
      OBVIOUS
    <3> QED
      BY <3>1, Zenon DEF VisualsTypeOK
  <2> QED
    BY <2>1, <2>2 DEF TypeOK, Placeables
<1>2. CursorInv /\ OnlyOnAlogin /\ TagsInv
  BY DEF CursorInv, OnlyOnAlogin, TagsInv
<1>3. LockInv
  BY DEF LockInv
<1>4. TracersLimited
  BY VisualsAssumption DEF TracersLimited
<1> QED
  BY <1>1, <1>2, <1>3, <1>4 DEF IInv

-----------------------------------------------------------------------------
(* Types, one lemma for each part of the state                             *)

LEMMA CursorType ==
  ASSUME TypeOK, [Next]_vars
  PROVE  CursorTypeOK'
<1> USE DEF TypeOK, CursorTypeOK, Hidden, Full
<1>w. ASSUME RenderWindow PROVE CursorTypeOK'
  <2>1. window_alpha' \in Hidden..Full
    BY <1>w DEF RenderWindow, Brought, window
  <2>2. UNCHANGED cursor \/ Asked(TRUE)
    BY <1>w, Zenon DEF RenderWindow, EnableCursor
  <2>3. active' \in BOOLEAN /\ closing' \in BOOLEAN
    BY <1>w, Zenon DEF RenderWindow, window
  <2> QED
    BY <2>1, <2>2, <2>3 DEF Asked, cursor
<1>1. CASE \E state \in BOOLEAN : SetAloginState(state)
  BY <1>1 DEF SetAloginState, cursor, window
<1>2. CASE Draws
  BY <1>2 DEF Draws, cursor, window
<1>3. CASE Points
  <2>1. CASE SwitchCursor
    BY <2>1 DEF SwitchCursor, Asked, window
  <2>2. CASE SwitchWindow
    BY <2>2 DEF SwitchWindow, DisableCursor, Asked, cursor
  <2>3. CASE Escape
    BY <2>3 DEF Escape, SwitchWindow, DisableCursor, Asked, cursor, window
  <2>4. CASE \E mode \in {"none", "cursor", "other"} : SetCursorMode(mode)
    BY <2>4 DEF SetCursorMode, Taken, window
  <2> QED
    BY <1>3, <2>1, <2>2, <2>3, <2>4 DEF Points
<1>4. CASE Moves
  <2>1. CASE ToggleAirbreak \/ MainLoop \/ \E v \in Vehicles \cup {None} : GetsInOrOut(v)
    BY <2>1 DEF ToggleAirbreak, MainLoop, GetsInOrOut, cursor, window
  <2>2. CASE MiddleButtonDown
    BY <2>2 DEF MiddleButtonDown, EnableCursor, Asked, window
  <2>3. CASE MiddleButtonUp
    BY <2>3 DEF MiddleButtonUp, DisableCursor, Asked, cursor, window
  <2>4. CASE LeftButtonDown
    BY <2>4 DEF LeftButtonDown, DisableCursor, Asked, window
  <2>5. CASE \E h \in Placeables \cup {None}, menu \in BOOLEAN : Frame(h, menu)
    BY <1>w, <2>5 DEF Frame, cursor, window
  <2> QED
    BY <1>4, <2>1, <2>2, <2>3, <2>4, <2>5 DEF Moves
<1>5. CASE UNCHANGED vars
  BY <1>5 DEF vars, cursor, window
<1> QED
  BY <1>1, <1>2, <1>3, <1>4, <1>5 DEF Next

LEMMA UpdateType ==
  ASSUME VisualsTypeOK, NEW on \in BOOLEAN, NEW custom \in BOOLEAN, Update(on, custom)
  PROVE  /\ wallhack_active' \in BOOLEAN /\ mixed' \in BOOLEAN
         /\ tags_shown' \in BOOLEAN /\ tags_behind_wall' \in BOOLEAN
         /\ tags_far' \in BOOLEAN
  BY DEF VisualsTypeOK, Update

LEMMA VisualsType ==
  ASSUME TypeOK, [Next]_vars
  PROVE  VisualsTypeOK'
<1> USE DEF TypeOK, VisualsTypeOK
<1>1. CASE \E state \in BOOLEAN : SetAloginState(state)
  <2>0. PICK state \in BOOLEAN : SetAloginState(state)
    BY <1>1
  <2>1. on_alogin' \in BOOLEAN /\ Update(state, custom_render)
    BY <2>0 DEF SetAloginState, NewState
  <2>2. UNCHANGED <<wallhack_use, custom_render, limit, tracers, lowered>>
    BY <1>1 DEF SetAloginState, NewState, bullets
  <2> QED
    BY <2>1, <2>2, UpdateType
<1>2. CASE Draws
  <2>1. CASE ToggleWallhack
    BY <2>1, UpdateType DEF ToggleWallhack, bullets
  <2>2. CASE SwitchUse
    <3>1. wallhack_use' \in BOOLEAN /\ UNCHANGED <<on_alogin, custom_render, bullets>>
      BY <2>2 DEF SwitchUse
    <3>2. CASE on_alogin
      BY <2>2, <3>1, <3>2, UpdateType DEF SwitchUse, bullets
    <3>3. CASE ~on_alogin
      BY <2>2, <3>1, <3>3 DEF SwitchUse, bullets, tags
    <3> QED
      BY <3>2, <3>3
  <2>3. CASE SwitchRenderer
    <3>1. custom_render' \in BOOLEAN /\ Update(wallhack_active, custom_render')
      BY <2>3 DEF SwitchRenderer
    <3> QED
      BY <2>3, <3>1, UpdateType DEF SwitchRenderer, bullets
  <2>4. CASE OnBullet
    BY <2>4 DEF OnBullet, WithBullet, wallhack, tags
  <2>5. CASE RenderTracers \/ ClearTracers
    <3>1. PICK n \in Nat : Remaining(n)
      BY <2>5 DEF RenderTracers, ClearTracers
    <3>2. lowered' \in BOOLEAN
      BY <3>1, Zenon DEF Remaining
    <3> QED
      BY <3>1, <3>2 DEF Remaining, wallhack, tags
  <2>6. CASE \E l \in Limits : SetLimit(l)
    <3>1. PICK l \in Limits : SetLimit(l)
      BY <2>6
    <3>2. (tracers > l) \in BOOLEAN
      BY VisualsAssumption
    <3>3. lowered' \in BOOLEAN
      BY <3>1, <3>2, Zenon DEF SetLimit
    <3> QED
      BY <3>1, <3>3 DEF SetLimit, wallhack, tags
  <2> QED
    BY <1>2, <2>1, <2>2, <2>3, <2>4, <2>5, <2>6 DEF Draws
<1>3. CASE Points \/ Moves \/ UNCHANGED vars
  <2>1. UNCHANGED visuals
    BY <1>3 DEF Points, Moves, vars, ToggleAirbreak, MainLoop, GetsInOrOut,
                MiddleButtonDown, MiddleButtonUp, LeftButtonDown, Frame
  <2> QED
    BY <2>1 DEF visuals, wallhack, bullets, tags
<1> QED
  BY <1>1, <1>2, <1>3 DEF Next

LEMMA RestType ==
  ASSUME TypeOK, [Next]_vars
  PROVE  /\ cheat_active' \in BOOLEAN /\ enter_blocked' \in BOOLEAN
         /\ vehicle' \in Vehicles \cup {None}
         /\ locked' \subseteq Placeables /\ left' \subseteq Placeables
         /\ selecting_place_to_warp' \in BOOLEAN
         /\ recently_pressed_middle_mouse_button' \in BOOLEAN
         /\ teleport_information' \in Placeables \cup {None}
<1> USE DEF TypeOK
<1>c. Common \in Placeables
  BY DEF Common, Placeables
<1>1. CASE \E state \in BOOLEAN : SetAloginState(state)
  BY <1>1, <1>c DEF SetAloginState, EndAirbreak, Unlock, EndSelection, StopSelectingPlace,
                    airbreak, clickwarp
<1>2. CASE Draws \/ Points
  BY <1>2 DEF Draws, Points, airbreak, clickwarp
<1>3. CASE Moves
  <2>1. CASE ToggleAirbreak
    BY <2>1, <1>c DEF ToggleAirbreak, Unlock, clickwarp
  <2>2. CASE MainLoop
    BY <2>2, <1>c DEF MainLoop, clickwarp
  <2>3. CASE \E v \in Vehicles \cup {None} : GetsInOrOut(v)
    BY <2>3, <1>c DEF GetsInOrOut, ComesTo, clickwarp
  <2>4. CASE MiddleButtonDown
    BY <2>4 DEF MiddleButtonDown, airbreak
  <2>5. CASE MiddleButtonUp
    BY <2>5 DEF MiddleButtonUp, StopSelectingPlace, airbreak
  <2>6. CASE LeftButtonDown
    <3>1. teleport_information # Place => teleport_information \in Vehicles
      BY <2>6 DEF LeftButtonDown, Placeables, Place
    <3> QED
      BY <2>6, <3>1, <1>c DEF LeftButtonDown, StopSelectingPlace, ComesTo, airbreak
  <2>7. CASE \E h \in Placeables \cup {None}, menu \in BOOLEAN : Frame(h, menu)
    BY <2>7 DEF Frame, RenderClickwarp, StopSelectingPlace, airbreak
  <2> QED
    BY <1>3, <2>1, <2>2, <2>3, <2>4, <2>5, <2>6, <2>7 DEF Moves
<1>4. CASE UNCHANGED vars
  BY <1>4 DEF vars, airbreak, clickwarp
<1> QED
  BY <1>1, <1>2, <1>3, <1>4 DEF Next

LEMMA TypeStep == TypeOK /\ [Next]_vars => TypeOK'
  BY CursorType, VisualsType, RestType DEF TypeOK

-----------------------------------------------------------------------------
(* The parts                                                               *)

\* The cursor: whoever asks leaves it as asked; SA:MP only takes what is shown
\* and only returns what it took.
LEMMA AskedCursor ==
  ASSUME NEW on \in BOOLEAN, TypeOK, CursorInv, Asked(on)
  PROVE  CursorInv'
  BY DEF Asked, CursorInv, TypeOK, CursorTypeOK

LEMMA CursorStep ==
  ASSUME TypeOK, CursorInv, [Next]_vars
  PROVE  CursorInv'
<1>u. UNCHANGED cursor => CursorInv'
  BY DEF CursorInv, cursor
<1>w. RenderWindow => CursorInv'
  BY <1>u, AskedCursor DEF RenderWindow, EnableCursor
<1>1. CASE (\E state \in BOOLEAN : SetAloginState(state)) \/ Draws \/ UNCHANGED vars
  BY <1>1, <1>u DEF SetAloginState, Draws, vars
<1>2. CASE Points
  <2>1. CASE SwitchCursor \/ SwitchWindow \/ Escape
    <3>1. cursor_active \in BOOLEAN
      BY DEF TypeOK, CursorTypeOK
    <3> QED
      BY <2>1, <3>1, <1>u, AskedCursor DEF SwitchCursor, SwitchWindow, Escape, DisableCursor
  <2>2. CASE \E mode \in {"none", "cursor", "other"} : SetCursorMode(mode)
    BY <2>2 DEF SetCursorMode, Takes, Returns, Taken, CursorInv, TypeOK, CursorTypeOK
  <2> QED
    BY <1>2, <2>1, <2>2 DEF Points
<1>3. CASE Moves
  <2>1. CASE MiddleButtonDown \/ MiddleButtonUp \/ LeftButtonDown
    BY <2>1, <1>u, AskedCursor
       DEF MiddleButtonDown, MiddleButtonUp, LeftButtonDown, EnableCursor, DisableCursor
  <2>2. CASE \E h \in Placeables \cup {None}, menu \in BOOLEAN : Frame(h, menu)
    BY <2>2, <1>u, <1>w DEF Frame
  <2>3. CASE ToggleAirbreak \/ MainLoop \/ \E v \in Vehicles \cup {None} : GetsInOrOut(v)
    BY <2>3, <1>u DEF ToggleAirbreak, MainLoop, GetsInOrOut
  <2> QED
    BY <1>3, <2>1, <2>2, <2>3 DEF Moves
<1> QED
  BY <1>1, <1>2, <1>3 DEF Next

\* Airbreak: what changes under it goes to `left` before it is let go.
LEMMA ComesToLock ==
  ASSUME NEW v, LockInv, ComesTo(v)
  PROVE  LockInv'
<1>1. locked' \subseteq left'
  BY DEF LockInv, ComesTo
<1> QED
  BY <1>1 DEF LockInv, ComesTo

LEMMA LockStep ==
  ASSUME TypeOK, LockInv, [Next]_vars
  PROVE  LockInv'
<1>u. UNCHANGED airbreak => LockInv'
  BY DEF LockInv, airbreak, Common
<1>k. Unlock => locked' \subseteq left' /\ enter_blocked' = FALSE /\ UNCHANGED vehicle
  BY DEF Unlock, LockInv
<1>1. CASE \E state \in BOOLEAN : SetAloginState(state)
  BY <1>1, <1>u, <1>k DEF SetAloginState, EndAirbreak, LockInv
<1>2. CASE Draws \/ Points \/ UNCHANGED vars
  BY <1>2, <1>u DEF Draws, Points, vars
<1>3. CASE Moves
  <2>1. CASE ToggleAirbreak
    BY <2>1, <1>k DEF ToggleAirbreak, LockInv
  <2>2. CASE MainLoop
    <3>1. Common' = Common
      BY <2>2 DEF MainLoop, Common
    <3>2. locked' \subseteq left' \cup {Common'} /\ cheat_active'
      BY <2>2, <3>1 DEF MainLoop, LockInv
    <3> QED
      BY <3>2 DEF LockInv
  <2>3. CASE \E v \in Vehicles \cup {None} : GetsInOrOut(v)
    BY <2>3, ComesToLock DEF GetsInOrOut
  <2>4. CASE LeftButtonDown
    BY <2>4, <1>u, ComesToLock DEF LeftButtonDown
  <2>5. CASE \/ MiddleButtonDown \/ MiddleButtonUp
             \/ \E h \in Placeables \cup {None}, menu \in BOOLEAN : Frame(h, menu)
    BY <2>5, <1>u DEF MiddleButtonDown, MiddleButtonUp, Frame
  <2> QED
    BY <1>3, <2>1, <2>2, <2>3, <2>4, <2>5 DEF Moves
<1> QED
  BY <1>1, <1>2, <1>3 DEF Next

\* Both cheats that move begin on /alogin and end with it.
LEMMA OnAloginStep ==
  ASSUME TypeOK, OnlyOnAlogin, [Next]_vars
  PROVE  OnlyOnAlogin'
<1> USE DEF OnlyOnAlogin
<1>1. CASE \E state \in BOOLEAN : SetAloginState(state)
  BY <1>1 DEF SetAloginState, NewState, EndAirbreak, Unlock, EndSelection,
              StopSelectingPlace, airbreak, clickwarp, TypeOK
<1>2. CASE Draws
  <2>1. UNCHANGED <<cheat_active, selecting_place_to_warp, on_alogin>>
    BY <1>2 DEF Draws, airbreak, clickwarp, ToggleWallhack, SwitchUse, SwitchRenderer,
                OnBullet, RenderTracers, ClearTracers, Remaining, SetLimit
  <2> QED
    BY <2>1
<1>3. CASE Points \/ UNCHANGED vars
  BY <1>3 DEF Points, vars, visuals, airbreak, clickwarp
<1>4. CASE Moves
  <2>1. UNCHANGED on_alogin
    BY <1>4 DEF Moves, visuals, ToggleAirbreak, MainLoop, GetsInOrOut, MiddleButtonDown,
                MiddleButtonUp, LeftButtonDown, Frame
  <2>2. on_alogin \/ (cheat_active' => cheat_active)
    BY <1>4 DEF Moves, ToggleAirbreak, MainLoop, GetsInOrOut, ComesTo, MiddleButtonDown,
                MiddleButtonUp, LeftButtonDown, Frame, airbreak
  <2>3. on_alogin \/ (selecting_place_to_warp' => selecting_place_to_warp)
    BY <1>4 DEF Moves, ToggleAirbreak, MainLoop, GetsInOrOut, MiddleButtonDown,
                MiddleButtonUp, LeftButtonDown, Frame, RenderClickwarp,
                StopSelectingPlace, clickwarp
  <2> QED
    BY <2>1, <2>2, <2>3
<1> QED
  BY <1>1, <1>2, <1>3, <1>4 DEF Next

\* The name tags: both ways of drawing keep what TagsInv says of them.
LEMMA UpdateTags ==
  ASSUME NEW on \in BOOLEAN, NEW custom \in BOOLEAN, TypeOK, TagsInv,
         Update(on, custom), on => on_alogin'
  PROVE  TagsInv'
  BY DEF Update, TagsInv, TypeOK, VisualsTypeOK

LEMMA TagsStep ==
  ASSUME TypeOK, TagsInv, [Next]_vars
  PROVE  TagsInv'
<1>t. on_alogin \in BOOLEAN /\ custom_render \in BOOLEAN /\ wallhack_active \in BOOLEAN
      /\ wallhack_use \in BOOLEAN
  BY DEF TypeOK, VisualsTypeOK
<1>u. UNCHANGED <<on_alogin, wallhack_active, tags>> => TagsInv'
  BY DEF TagsInv, tags
<1>1. CASE \E state \in BOOLEAN : SetAloginState(state)
  BY <1>1, <1>t, UpdateTags DEF SetAloginState, NewState
<1>2. CASE Draws
  <2>1. CASE ToggleWallhack
    BY <2>1, <1>t, UpdateTags DEF ToggleWallhack
  <2>2. CASE SwitchUse
    BY <2>2, <1>t, <1>u, UpdateTags DEF SwitchUse
  <2>3. CASE SwitchRenderer
    <3>1. wallhack_active => on_alogin'
      BY <2>3 DEF SwitchRenderer, TagsInv
    <3> QED
      BY <2>3, <3>1, <1>t, UpdateTags DEF SwitchRenderer
  <2>4. CASE OnBullet \/ RenderTracers \/ ClearTracers \/ \E l \in Limits : SetLimit(l)
    BY <2>4, <1>u DEF OnBullet, RenderTracers, ClearTracers, Remaining, SetLimit, wallhack
  <2> QED
    BY <1>2, <2>1, <2>2, <2>3, <2>4 DEF Draws
<1>3. CASE Points \/ Moves \/ UNCHANGED vars
  <2>1. UNCHANGED visuals
    BY <1>3 DEF Points, Moves, vars, ToggleAirbreak, MainLoop, GetsInOrOut,
                MiddleButtonDown, MiddleButtonUp, LeftButtonDown, Frame
  <2> QED
    BY <2>1, <1>u DEF visuals, wallhack
<1> QED
  BY <1>1, <1>2, <1>3 DEF Next

\* The tracers: a bullet adds one only below the limit or above it, and above
\* it only a lowered limit leads.
LEMMA TracersStep ==
  ASSUME TypeOK, TracersLimited, [Next]_vars
  PROVE  TracersLimited'
<1>t. tracers \in Nat /\ limit \in Nat /\ lowered \in BOOLEAN
  BY VisualsAssumption DEF TypeOK, VisualsTypeOK
<1>u. UNCHANGED bullets => TracersLimited'
  BY DEF TracersLimited, bullets
<1>1. CASE \E state \in BOOLEAN : SetAloginState(state)
  BY <1>1, <1>u DEF SetAloginState, NewState
<1>2. CASE Draws
  <2>1. CASE ToggleWallhack \/ SwitchUse \/ SwitchRenderer
    BY <2>1, <1>u DEF ToggleWallhack, SwitchUse, SwitchRenderer
  <2>2. CASE OnBullet
    BY <2>2, <1>t DEF OnBullet, WithBullet, TracersLimited
  <2>3. CASE RenderTracers \/ ClearTracers
    BY <2>3, <1>t DEF RenderTracers, ClearTracers, Remaining, TracersLimited
  <2>4. CASE \E l \in Limits : SetLimit(l)
    <3>1. PICK l \in Limits : SetLimit(l)
      BY <2>4
    <3>2. ~lowered' => ~(tracers > l)
      BY <3>1, Zenon DEF SetLimit
    <3>3. l \in Nat /\ limit' = l /\ tracers' = tracers
      BY <3>1, VisualsAssumption DEF SetLimit
    <3> QED
      BY <3>2, <3>3, <1>t DEF TracersLimited
  <2> QED
    BY <1>2, <2>1, <2>2, <2>3, <2>4 DEF Draws
<1>3. CASE Points \/ Moves \/ UNCHANGED vars
  <2>1. UNCHANGED visuals
    BY <1>3 DEF Points, Moves, vars, ToggleAirbreak, MainLoop, GetsInOrOut,
                MiddleButtonDown, MiddleButtonUp, LeftButtonDown, Frame
  <2> QED
    BY <2>1, <1>u DEF visuals
<1> QED
  BY <1>1, <1>2, <1>3 DEF Next

LEMMA StepIInv == IInv /\ [Next]_vars => IInv'
  BY TypeStep, CursorStep, LockStep, OnAloginStep, TagsStep, TracersStep DEF IInv

LEMMA Inductive == Spec => []IInv
  BY InitIInv, StepIInv, PTL DEF Spec

-----------------------------------------------------------------------------
\* The state of the cheats, the cursor and the tags has its types.
THEOREM TypeCorrect == Spec => []TypeOK
<1>1. IInv => TypeOK
  BY DEF IInv
<1> QED
  BY <1>1, Inductive, PTL

\* set_cursor_mode_hooked loses no cursor: one asked for is there whenever
\* SA:MP has none of its own.
THEOREM CursorIsKept == Spec => []CursorKept
<1>1. IInv => CursorKept
  BY DEF IInv, CursorInv, CursorKept
<1> QED
  BY <1>1, Inductive, PTL

\* ... and brings none that nobody asked for, but for a stale interception.
THEOREM CursorIsAsked == Spec => []CursorAsked
<1>1. IInv => CursorAsked
  BY DEF IInv, CursorInv, CursorAsked
<1> QED
  BY <1>1, Inductive, PTL

\* airbreak unlocks what it locked, however it ends.
THEOREM AirbreakGivesBack == Spec => []GivesBack
<1>1. IInv => GivesBack
  BY DEF IInv, LockInv, GivesBack
<1> QED
  BY <1>1, Inductive, PTL

\* airbreak and clickwarp end with /alogin.
THEOREM CheatsOnlyOnAlogin == Spec => []OnlyOnAlogin
<1>1. IInv => OnlyOnAlogin
  BY DEF IInv
<1> QED
  BY <1>1, Inductive, PTL

\* wallhack leaves SA:MP's name tags as the server set them.
THEOREM TagsAreRestored == Spec => []TagsRestored
<1>1. IInv => TagsRestored
  BY DEF IInv, TagsInv, TagsRestored, ServersTags, TypeOK, VisualsTypeOK
<1> QED
  BY <1>1, Inductive, PTL

\* tracers keeps to its limit.
THEOREM TracersAreLimited == Spec => []TracersLimited
<1>1. IInv => TracersLimited
  BY DEF IInv
<1> QED
  BY <1>1, Inductive, PTL
=============================================================================

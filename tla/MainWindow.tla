----------------------------- MODULE MainWindow -----------------------------
(***************************************************************************)
(* The main window: its frames, switched by Switchers, one of which is the *)
(* binder's, whose menu is drawn, and its buttons pressed, only while it   *)
(* is the active one and the window is open.                               *)
(***************************************************************************)
EXTENDS Submenu, Switchers

CONSTANTS
  BinderFrame,
  Delays            \* bound: the ticks between two frames

ASSUME MainWindowAssumption ==
  /\ BinderFrame \in Frames /\ Delays \subseteq Nat
  /\ Uuids = 1..Cardinality(Uuids)     \* generate_uuid: a name not given yet

VARIABLE opened     \* the window is drawn: open, or fading out

vars == <<submenu, switchers, opened>>

TypeOK == SubmenuTypeOK /\ SwitchersTypeOK /\ opened \in BOOLEAN

Init ==
  /\ \E size \in 0..Cardinality(Uuids) : SubmenuInit([i \in 1..size |-> i])
  /\ SwitchersInit /\ opened = FALSE

\* render: the active frame, then the buttons, each by a clock read of its own
Frame(before, between, rounded) ==
  /\ opened /\ ~crashed
  /\ IF active_frame = BinderFrame THEN RenderSubmenu(before, between, rounded)
     ELSE Unrendered(before + between)
  /\ IF crashed' THEN UNCHANGED switchers ELSE RenderSwitchers(before + between)
  /\ UNCHANGED opened

\* switch_window, and the last frame of its fading out
Open == ~opened /\ opened' = TRUE /\ UNCHANGED <<submenu, switchers>>
Close == opened /\ ~crashed /\ opened' = FALSE /\ UNCHANGED <<submenu, switchers>>

Wait(ticks) ==
  ~opened /\ Unrendered(ticks) /\ UnrenderedSwitchers(ticks) /\ UNCHANGED opened

UseMenu ==
  /\ opened /\ ~crashed /\ active_frame = BinderFrame
  /\ \/ \E index \in 0..(Cardinality(Uuids) - 1) : ClickEntry(index)
     \/ Uuids # pool /\ AddBind(Min(Uuids \ pool))
     \/ DeleteEntry
  /\ UNCHANGED <<switchers, opened>>

UseSwitchers ==
  opened /\ ~crashed /\ (\E f \in Frames : ClickSwitcher(f)) /\ UNCHANGED <<submenu, opened>>

Next ==
  \/ \E before \in Delays, between \in {0, 1}, rounded \in BOOLEAN :
       Frame(before, between, rounded)
  \/ Open \/ Close \/ (\E ticks \in Delays \ {0} : Wait(ticks))
  \/ UseMenu \/ UseSwitchers

Spec == Init /\ [][Next]_vars
=============================================================================

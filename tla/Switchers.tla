----------------------------- MODULE Switchers ------------------------------
(***************************************************************************)
(* The buttons of the main window that switch its frames                   *)
(* (widgets::frame_switcher): the frame shown fades out, changes, and the  *)
(* new one fades in.  Each button has a clock of its own; the frame shown  *)
(* and its alpha are common.                                               *)
(***************************************************************************)
EXTENDS Integers, FiniteSetsExt

CONSTANTS
  FrameCount,       \* frames_count
  SwitchIn, SwitchOut   \* fade_in_duration and fade_out_duration, in ticks

\* The frame fades in for twice as long as the other fades out.
ASSUME SwitchersAssumption ==
  FrameCount \in Nat \ {0} /\ SwitchIn \in Nat \ {0} /\ SwitchOut \in Nat /\ SwitchIn <= SwitchOut

VARIABLES
  active_frame,
  opaque,           \* active_frame_alpha is 255
  switched,         \* time_clicked of each button, in ticks ago
  asked,            \* history: the frame last asked for
  disturbed         \* history: too long without a frame in the middle of a switch,
                    \* or two switches that one frame ends

switchers == <<active_frame, opaque, switched, asked, disturbed>>

Frames == 1..FrameCount
Done == SwitchIn + SwitchOut      \* fade_in_out_duration, and all that is longer
Since(age, ticks) == Min({age + ticks, Done})

SwitchersTypeOK ==
  /\ active_frame \in Frames /\ opaque \in BOOLEAN /\ switched \in [Frames -> 0..Done]
  /\ asked \in Frames /\ disturbed \in BOOLEAN

SwitchersInit ==
  /\ active_frame \in Frames /\ opaque = TRUE /\ switched = [f \in Frames |-> Done]
  /\ asked = active_frame /\ disturbed = FALSE

\* The alpha is 255 again only when a frame comes in the last part of the fade,
\* which bring_to counts from the click.
FadedInLate(age) == age - SwitchIn >= SwitchOut                   \* mutant
FadedIn(age) == age >= SwitchOut

\* handle_frame_switching of the button of frame f
Handle(state, f, age) ==
  IF age = Done THEN state
  ELSE IF age >= SwitchIn THEN [shown |-> f, opaque |-> state.opaque \/ FadedIn(age)]
  ELSE [state EXCEPT !.opaque = @ /\ age = 0]

Ages(ticks) == [f \in Frames |-> Since(switched[f], ticks)]
Switching == {f \in Frames : switched[f] # Done}

\* render_frame_switchers: what there is after the first n buttons
Handled(ages) ==
  LET state[n \in 0..FrameCount] ==
        IF n = 0 THEN [shown |-> active_frame, opaque |-> opaque]
        ELSE Handle(state[n - 1], n, ages[n])
  IN state

\* A frame comes too late for a part of a switch, or ends two: of two buttons that
\* are still switching, the last in the order of the frames decides what is shown.
Disturbs(ticks) ==
  \/ ticks >= SwitchIn /\ Switching # {}
  \/ \E f \in Switching : \E g \in Switching \ {f} : Ages(ticks)[f] = Done /\ Ages(ticks)[g] = Done

RenderSwitchers(ticks) ==
  LET state == Handled(Ages(ticks))[FrameCount]
  IN /\ switched' = Ages(ticks) /\ active_frame' = state.shown /\ opaque' = state.opaque
     /\ disturbed' = (disturbed \/ Disturbs(ticks))
     /\ UNCHANGED asked

\* A click, in render; a user's clicks are apart in time.
ClickSwitcher(f) ==
  /\ active_frame # f /\ opaque /\ \A g \in Frames : switched[g] # 0
  /\ switched' = [switched EXCEPT ![f] = 0] /\ asked' = f
  /\ UNCHANGED <<active_frame, opaque, disturbed>>

\* Time without a frame of the window
UnrenderedSwitchers(ticks) ==
  /\ switched' = Ages(ticks) /\ disturbed' = (disturbed \/ Switching # {})
  /\ UNCHANGED <<active_frame, opaque, asked>>

-----------------------------------------------------------------------------
\* When the fades are over, the frame last asked for is shown in full, which is
\* what lets any button be clicked, unless its frames disturbed them: two switches
\* in progress do not take the window from one another.
SwitchesFrames == Switching = {} /\ ~disturbed => opaque /\ active_frame = asked
=============================================================================

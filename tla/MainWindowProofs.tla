-------------------------- MODULE MainWindowProofs --------------------------
(***************************************************************************)
(* What the main window shows and what its menu of binds destroys, proved  *)
(* for any number of frames and binds, any fades and frames of any length. *)
(***************************************************************************)
EXTENDS MainWindow, FiniteSetTheorems, SequenceTheorems, WellFoundedInduction, TLAPS

\* Unless a frame disturbed them: of the buttons still switching, the one asked for
\* was pressed last, and is among them; once it is the only one, and past the
\* middle of its fade, its frame is shown, and from the last part of it on in full.
InOrder ==
  /\ \A f \in Switching \ {asked} : switched[asked] < switched[f]
  /\ Switching # {} => asked \in Switching
  /\ Switching = {} => active_frame = asked
  /\ Switching = {asked} /\ switched[asked] >= SwitchIn => active_frame = asked
  /\ switched[asked] >= SwitchOut => opaque

SwitchersInv == ~disturbed => InOrder

\* Unless an entry outlived its fade: only the entry shown is hiding, at least since
\* the last click, and it is one that the user chose to delete; nothing went without.
Unraced ==
  /\ lost = {} /\ ~crashed
  /\ \A i \in Hiding(entries) :
       /\ i = current_entry_index + 1 /\ entries[i].age >= time_clicked
       /\ entries[i].uuid \in chosen

\* A click that was not hasty finds no entry hiding, and none hides after it without
\* another click; what it asks for is where the menu will look.
WantedIsNext ==
  ~hasty /\ wanted # NoUuid =>
    /\ Hiding(entries) = {} /\ InRange(future_entry_index)
    /\ entries[future_entry_index + 1].uuid = wanted

MenuInv ==
  /\ Parallel /\ (~raced => Unraced) /\ WantedIsNext
  /\ seen => current_entry_index = future_entry_index

-----------------------------------------------------------------------------
(* Induction over a set of numbers, from which what a recursive function   *)
(* computes follows                                                        *)

LEMMA Least ==
  ASSUME NEW T, T \subseteq Nat, T # {}
  PROVE  \E n \in T : \A m \in T : n <= m
<1>1. IsWellFoundedOn(OpToRel(<, Nat), Nat)
  BY NatLessThanWellFounded
<1>2. PICK n \in T : \A m \in T : ~(<<m, n>> \in OpToRel(<, Nat))
  BY <1>1, WFMin
<1>3. ASSUME NEW m \in T
      PROVE  n <= m
  <2>1. m \in Nat /\ n \in Nat
    OBVIOUS
  <2>2. ~(m < n)
    BY <1>2, <2>1 DEF OpToRel
  <2> QED
    BY <2>1, <2>2
<1> QED
  BY <1>3

LEMMA UpTo ==
  ASSUME NEW n \in Nat, NEW T \in SUBSET (0..n), 0 \in T,
         \A i \in 1..n : i - 1 \in T => i \in T
  PROVE  T = 0..n
<1> SUFFICES ASSUME (0..n) \ T # {}
             PROVE  FALSE
  OBVIOUS
<1>1. (0..n) \ T \subseteq Nat
  OBVIOUS
<1>2. PICK i \in (0..n) \ T : \A m \in (0..n) \ T : i <= m
  BY <1>1, Least
<1>3. i \in 1..n /\ i - 1 \in 0..n
  BY <1>2
<1>4. i - 1 \in T
  BY <1>2, <1>3
<1> QED
  BY <1>2, <1>3, <1>4

-----------------------------------------------------------------------------
(* The buttons of the frames                                               *)

\* The function that Handled defines exists.
LEMMA HandledIs ==
  ASSUME NEW ages
  PROVE  LET state == Handled(ages)
         IN  state = [n \in 0..FrameCount |->
                        IF n = 0 THEN [shown |-> active_frame, opaque |-> opaque]
                        ELSE Handle(state[n - 1], n, ages[n])]
<1> DEFINE start == [shown |-> active_frame, opaque |-> opaque]
           P(g, k) == g = [n \in 0..k |-> IF n = 0 THEN start
                                          ELSE Handle(g[n - 1], n, ages[n])]
           T == {k \in 0..FrameCount : \E g : P(g, k)}
<1>0. FrameCount \in Nat
  BY SwitchersAssumption
<1>1. 0 \in T
  <2> DEFINE g == [n \in 0..0 |-> start]
  <2>1. P(g, 0)
    OBVIOUS
  <2> HIDE DEF g, P
  <2> QED
    BY <1>0, <2>1
<1>2. ASSUME NEW k \in 1..FrameCount, k - 1 \in T
      PROVE  k \in T
  <2>1. PICK g : P(g, k - 1)
    BY <1>2
  <2> DEFINE h == [n \in 0..k |-> IF n = k THEN Handle(g[k - 1], k, ages[k]) ELSE g[n]]
  <2>2. ASSUME NEW n \in 0..k
        PROVE  h[n] = IF n = 0 THEN start ELSE Handle(h[n - 1], n, ages[n])
    <3>1. k - 1 \in 0..k /\ k - 1 # k /\ k # 0
      BY <1>2
    <3>2. CASE n = k
      BY <3>1, <3>2
    <3>3. CASE n # k /\ n = 0
      BY <2>1, <3>1, <3>3
    <3>4. CASE n # k /\ n # 0
      BY <2>1, <3>1, <3>4
    <3> QED
      BY <3>2, <3>3, <3>4
  <2>3. P(h, k)
    BY <2>2
  <2> HIDE DEF h, P
  <2> QED
    BY <2>3
<1>3. T = 0..FrameCount
  <2>1. T \in SUBSET (0..FrameCount)
    OBVIOUS
  <2> HIDE DEF T
  <2> QED
    BY <1>0, <1>1, <1>2, <2>1, UpTo
<1>4. \E g : P(g, FrameCount)
  BY <1>0, <1>3
<1> QED
  BY <1>4 DEF Handled

LEMMA HandledAt ==
  ASSUME NEW ages
  PROVE  /\ Handled(ages)[0] = [shown |-> active_frame, opaque |-> opaque]
         /\ \A n \in 1..FrameCount :
              Handled(ages)[n] = Handle(Handled(ages)[n - 1], n, ages[n])
<1> DEFINE state == Handled(ages)
<1>1. state = [n \in 0..FrameCount |->
                 IF n = 0 THEN [shown |-> active_frame, opaque |-> opaque]
                 ELSE Handle(state[n - 1], n, ages[n])]
  BY HandledIs
<1> HIDE DEF state
<1>2. /\ 0 \in 0..FrameCount
      /\ \A n \in 1..FrameCount : n \in 0..FrameCount /\ n # 0
  BY SwitchersAssumption
<1>3. /\ state[0] = [shown |-> active_frame, opaque |-> opaque]
      /\ \A n \in 1..FrameCount : state[n] = Handle(state[n - 1], n, ages[n])
  BY <1>1, <1>2
<1> QED
  BY <1>3 DEF state

LEMMA Clocks ==
  /\ Done \in Nat /\ Done > SwitchOut /\ SwitchOut >= SwitchIn /\ SwitchIn > 0
  /\ SwitchIn \in Nat /\ SwitchOut \in Nat /\ Done = SwitchIn + SwitchOut
  BY SwitchersAssumption DEF Done

LEMMA SinceIs ==
  ASSUME NEW age \in 0..Done, NEW ticks \in Nat
  PROVE  /\ Since(age, ticks) = IF age + ticks <= Done THEN age + ticks ELSE Done
         /\ Since(age, ticks) \in 0..Done
<1>1. Done \in Nat
  BY Clocks
<1>2. /\ age + ticks <= Done => Since(age, ticks) = age + ticks
      /\ ~(age + ticks <= Done) => Since(age, ticks) = Done
  BY <1>1 DEF Since, Min
<1> QED
  BY <1>1, <1>2

LEMMA AgesType ==
  ASSUME NEW ticks \in Nat, SwitchersTypeOK
  PROVE  /\ Ages(ticks) \in [Frames -> 0..Done]
         /\ \A f \in Frames : Ages(ticks)[f] = IF switched[f] + ticks <= Done
                                              THEN switched[f] + ticks ELSE Done
  BY SinceIs DEF Ages, SwitchersTypeOK

LEMMA HandledType ==
  ASSUME NEW ages \in [Frames -> 0..Done], SwitchersTypeOK
  PROVE  \A n \in 0..FrameCount : Handled(ages)[n] \in [shown : Frames, opaque : BOOLEAN]
<1> DEFINE state == Handled(ages)
           S == [shown : Frames, opaque : BOOLEAN]
           T == {n \in 0..FrameCount : state[n] \in S}
<1>0. FrameCount \in Nat
  BY SwitchersAssumption
<1>1. /\ state[0] = [shown |-> active_frame, opaque |-> opaque]
      /\ \A n \in 1..FrameCount : state[n] = Handle(state[n - 1], n, ages[n])
  BY HandledAt
<1> HIDE DEF state
<1>2. 0 \in T
  BY <1>0, <1>1 DEF SwitchersTypeOK
<1>3. ASSUME NEW n \in 1..FrameCount, n - 1 \in T
      PROVE  n \in T
  <2>1. state[n - 1] \in S /\ n \in Frames /\ ages[n] \in 0..Done
    BY <1>3 DEF Frames
  <2>2. Handle(state[n - 1], n, ages[n]) \in S
    BY <2>1, Clocks DEF Handle, FadedIn
  <2> QED
    BY <1>1, <2>2
<1>4. T = 0..FrameCount
  <2> HIDE DEF T
  <2>1. T \in SUBSET (0..FrameCount)
    BY DEF T
  <2> QED
    BY <1>0, <1>2, <1>3, <2>1, UpTo
<1> QED
  BY <1>4 DEF state

\* At rest nothing changes.
LEMMA HandledAtRest ==
  ASSUME NEW ages \in [Frames -> 0..Done], \A f \in Frames : ages[f] = Done
  PROVE  Handled(ages)[FrameCount] = [shown |-> active_frame, opaque |-> opaque]
<1> DEFINE state == Handled(ages)
           start == [shown |-> active_frame, opaque |-> opaque]
           T == {n \in 0..FrameCount : state[n] = start}
<1>0. FrameCount \in Nat
  BY SwitchersAssumption
<1>1. /\ state[0] = start
      /\ \A n \in 1..FrameCount : state[n] = Handle(state[n - 1], n, ages[n])
  BY HandledAt
<1> HIDE DEF state, start
<1>2. 0 \in T
  BY <1>0, <1>1
<1>3. ASSUME NEW n \in 1..FrameCount, n - 1 \in T
      PROVE  n \in T
  <2>1. ages[n] = Done
    BY DEF Frames
  <2>2. state[n] = state[n - 1]
    BY <1>1, <2>1 DEF Handle
  <2> QED
    BY <1>3, <2>2
<1>4. T = 0..FrameCount
  <2> HIDE DEF T
  <2>1. T \in SUBSET (0..FrameCount)
    BY DEF T
  <2> QED
    BY <1>0, <1>2, <1>3, <2>1, UpTo
<1> QED
  BY <1>0, <1>4 DEF state, start

\* A button that switches alone, past the middle of its fade, shows its frame.
LEMMA HandledAlone ==
  ASSUME NEW ages \in [Frames -> 0..Done], NEW f \in Frames,
         ages[f] >= SwitchIn, ages[f] # Done, \A g \in Frames \ {f} : ages[g] = Done
  PROVE  Handled(ages)[FrameCount].shown = f
<1> DEFINE state == Handled(ages)
           T == {n \in 0..FrameCount : n >= f => state[n].shown = f}
<1>0. FrameCount \in Nat /\ f \in 1..FrameCount
  BY SwitchersAssumption DEF Frames
<1>1. \A n \in 1..FrameCount : state[n] = Handle(state[n - 1], n, ages[n])
  BY HandledAt
<1> HIDE DEF state
<1>2. 0 \in T
  BY <1>0
<1>3. ASSUME NEW n \in 1..FrameCount, n - 1 \in T
      PROVE  n \in T
  <2>1. CASE n = f
    <3>1. state[n] = Handle(state[n - 1], f, ages[f])
      BY <1>1, <2>1
    <3>2. Handle(state[n - 1], f, ages[f]).shown = f
      BY DEF Handle
    <3> QED
      BY <3>1, <3>2
  <2>2. CASE n # f
    <3>1. state[n] = state[n - 1]
      BY <1>1, <2>2 DEF Handle, Frames
    <3> QED
      BY <1>0, <1>3, <2>2, <3>1
  <2> QED
    BY <2>1, <2>2
<1>4. T = 0..FrameCount
  <2> HIDE DEF T
  <2>1. T \in SUBSET (0..FrameCount)
    BY DEF T
  <2> QED
    BY <1>0, <1>2, <1>3, <2>1, UpTo
<1> QED
  BY <1>0, <1>4 DEF state

\* The last part of a fade shows in full, if no button was pressed later.
LEMMA HandledInFull ==
  ASSUME NEW ages \in [Frames -> 0..Done], NEW f \in Frames, SwitchersTypeOK,
         ages[f] >= SwitchOut, ages[f] # Done, \A g \in Frames : ages[g] >= ages[f]
  PROVE  Handled(ages)[FrameCount].opaque
<1> DEFINE state == Handled(ages)
           T == {n \in 0..FrameCount : n >= f => state[n].opaque}
<1>0. FrameCount \in Nat /\ f \in 1..FrameCount
  BY SwitchersAssumption DEF Frames
<1>1. \A n \in 1..FrameCount : state[n] = Handle(state[n - 1], n, ages[n])
  BY HandledAt
<1>2. \A n \in 0..FrameCount : state[n] \in [shown : Frames, opaque : BOOLEAN]
  BY HandledType
<1> HIDE DEF state
<1>3. 0 \in T
  BY <1>0
<1>4. ASSUME NEW n \in 1..FrameCount, n - 1 \in T
      PROVE  n \in T
  <2>1. /\ n \in Frames /\ n - 1 \in 0..FrameCount
        /\ ages[n] \in 0..Done /\ ages[n] >= SwitchOut /\ ages[n] >= SwitchIn
    <3>1. n \in Frames /\ n - 1 \in 0..FrameCount
      BY <1>0 DEF Frames
    <3>2. ages[n] \in 0..Done /\ ages[f] \in 0..Done /\ ages[n] >= ages[f]
      BY <3>1
    <3> QED
      BY <3>1, <3>2, Clocks
  <2>2. state[n - 1] \in [shown : Frames, opaque : BOOLEAN]
    BY <1>2, <2>1
  <2>3. CASE ages[n] = Done
    <3>1. state[n] = state[n - 1] /\ n # f
      BY <1>1, <2>3 DEF Handle
    <3> QED
      BY <1>0, <1>4, <3>1
  <2>4. CASE ages[n] # Done
    <3> DEFINE full == state[n - 1].opaque \/ FadedIn(ages[n])
    <3>1. state[n] = [shown |-> n, opaque |-> full]
      BY <1>1, <2>1, <2>4 DEF Handle
    <3>2. full
      BY <2>1, <2>2 DEF FadedIn
    <3> HIDE DEF full
    <3>3. state[n].opaque
      BY <3>1, <3>2
    <3> QED
      BY <3>3
  <2> QED
    BY <2>3, <2>4
<1>5. T = 0..FrameCount
  <2> HIDE DEF T
  <2>1. T \in SUBSET (0..FrameCount)
    BY DEF T
  <2> QED
    BY <1>0, <1>3, <1>4, <2>1, UpTo
<1> QED
  BY <1>0, <1>5 DEF state

-----------------------------------------------------------------------------
(* Every step on the buttons keeps SwitchersInv.                           *)

\* A frame of the window: the fades go on, and the frames change.
LEMMA RenderSwitchersKeeps ==
  ASSUME NEW ticks \in Nat, SwitchersTypeOK, SwitchersInv, RenderSwitchers(ticks)
  PROVE  SwitchersTypeOK' /\ SwitchersInv'
<1> DEFINE ages == Ages(ticks)
           state == Handled(ages)[FrameCount]
<1>0. FrameCount \in 0..FrameCount
  BY SwitchersAssumption
<1>1. /\ switched' = ages /\ active_frame' = state.shown /\ opaque' = state.opaque
      /\ disturbed' = (disturbed \/ Disturbs(ticks)) /\ asked' = asked
  BY DEF RenderSwitchers
<1>2. /\ ages \in [Frames -> 0..Done] /\ asked \in Frames
      /\ \A f \in Frames : ages[f] = IF switched[f] + ticks <= Done
                                    THEN switched[f] + ticks ELSE Done
      /\ switched \in [Frames -> 0..Done]
  BY AgesType DEF SwitchersTypeOK
<1>3. state \in [shown : Frames, opaque : BOOLEAN]
  BY <1>0, <1>2, HandledType
<1> HIDE DEF ages, state
<1>4. SwitchersTypeOK'
  <2>1. Disturbs(ticks) \in BOOLEAN /\ disturbed' \in BOOLEAN
    BY <1>1 DEF Disturbs
  <2>2. opaque' \in BOOLEAN /\ active_frame' \in Frames
    BY <1>1, <1>3
  <2> QED
    BY <1>1, <1>2, <2>1, <2>2 DEF SwitchersTypeOK
<1>5. SwitchersInv'
  <2> SUFFICES ASSUME ~disturbed'
               PROVE  InOrder'
    BY DEF SwitchersInv
  <2>1. ~disturbed /\ InOrder /\ ~Disturbs(ticks)
    BY <1>1 DEF SwitchersInv
  <2>2. \A f \in Frames : ages[f] # Done => f \in Switching /\ ages[f] = switched[f] + ticks
    BY <1>2, Clocks DEF Switching
  <2>3. Switching' = {f \in Frames : ages[f] # Done}
    BY <1>1 DEF Switching
  <2>4. CASE Switching = {}
    <3>1. Switching' = {} /\ \A f \in Frames : ages[f] = Done
      BY <2>2, <2>3, <2>4
    <3>2. state = [shown |-> active_frame, opaque |-> opaque]
      BY <1>2, <3>1, HandledAtRest DEF state, ages
    <3>3. switched[asked] = Done /\ ages[asked] = Done
      BY <1>2, <2>4, <3>1 DEF Switching
    <3>4. active_frame = asked /\ opaque
      BY <2>1, <2>4, <3>3, Clocks DEF InOrder
    <3>5. active_frame' = asked' /\ opaque'
      BY <1>1, <3>2, <3>4
    <3> QED
      BY <3>1, <3>5 DEF InOrder
  <2>5. CASE Switching # {}
    <3>1. asked \in Switching /\ ticks < SwitchIn
      BY <2>1, <2>5, Clocks DEF InOrder, Disturbs
    <3>2. \A f \in Switching' \ {asked} : ages[asked] < ages[f]
      <4> TAKE f \in Switching' \ {asked}
      <4>1. /\ f \in Frames /\ f \in Switching /\ ages[f] = switched[f] + ticks
            /\ switched[asked] < switched[f] /\ ages[f] # Done
        BY <2>1, <2>2, <2>3 DEF InOrder
      <4> QED
        BY <1>2, <4>1, Clocks
    <3>3. Switching' # {} => asked \in Switching'
      <4> SUFFICES ASSUME NEW f \in Switching', f # asked
                   PROVE  asked \in Switching'
        OBVIOUS
      <4>1. f \in Frames /\ ages[asked] < ages[f] /\ ages[f] \in 0..Done /\ ages[asked] \in 0..Done
        BY <1>2, <2>3, <3>2
      <4> QED
        BY <1>2, <2>3, <4>1, Clocks
    \* The switch of the frame that was asked for ends.
    <3>4. ASSUME Switching' = {}
          PROVE  active_frame' = asked' /\ opaque'
      <4>1. \A f \in Frames : ages[f] = Done
        BY <2>3, <3>4
      <4>2. Switching = {asked}
        <5> SUFFICES ASSUME NEW f \in Switching \ {asked}
                     PROVE  FALSE
          BY <3>1
        <5>1. f \in Frames /\ ages[f] = Done /\ ages[asked] = Done
          BY <1>2, <4>1 DEF Switching
        <5> QED
          BY <2>1, <3>1, <5>1 DEF Disturbs, ages
      <4>3. switched[asked] \in 0..Done /\ ages[asked] = Done
        BY <1>2, <4>1
      <4>4. switched[asked] + ticks >= Done
        BY <1>2, <4>3, Clocks
      <4>5. switched[asked] >= SwitchOut /\ switched[asked] >= SwitchIn
        BY <3>1, <4>3, <4>4, Clocks
      <4>6. state = [shown |-> active_frame, opaque |-> opaque]
        BY <1>2, <4>1, HandledAtRest DEF state, ages
      <4>7. active_frame = asked /\ opaque
        BY <2>1, <4>2, <4>5 DEF InOrder
      <4> QED
        BY <1>1, <4>6, <4>7
    <3>5. ASSUME Switching' = {asked}, ages[asked] >= SwitchIn
          PROVE  active_frame' = asked'
      <4>1. ages[asked] # Done /\ \A f \in Frames \ {asked} : ages[f] = Done
        BY <2>3, <3>5
      <4>2. state.shown = asked
        BY <1>2, <3>5, <4>1, HandledAlone DEF state, ages
      <4> QED
        BY <1>1, <4>2
    <3>6. ASSUME ages[asked] >= SwitchOut
          PROVE  opaque'
      <4>1. CASE ages[asked] = Done
        <5>1. asked \notin Switching'
          BY <2>3, <4>1
        <5> QED
          BY <3>3, <3>4, <5>1
      <4>2. CASE ages[asked] # Done
        <5>1. \A f \in Frames : ages[f] >= ages[asked]
          <6> TAKE f \in Frames
          <6>1. ages[f] \in 0..Done /\ ages[asked] \in 0..Done
            BY <1>2
          <6>2. CASE f \in Switching' /\ f # asked
            BY <3>2, <6>1, <6>2
          <6>3. CASE f \notin Switching' \/ f = asked
            BY <2>3, <6>1, <6>3, Clocks
          <6> QED
            BY <6>2, <6>3
        <5>2. state.opaque
          BY <1>2, <3>6, <4>2, <5>1, HandledInFull DEF state, ages
        <5> QED
          BY <1>1, <5>2
      <4> QED
        BY <4>1, <4>2
    <3> HIDE <2>3
    <3>7. /\ \A f \in Switching' \ {asked'} : switched'[asked'] < switched'[f]
          /\ Switching' # {} => asked' \in Switching'
      BY <1>1, <3>2, <3>3
    <3>8. /\ Switching' = {asked'} /\ switched'[asked'] >= SwitchIn => active_frame' = asked'
          /\ switched'[asked'] >= SwitchOut => opaque'
      BY <1>1, <3>5, <3>6
    <3> QED
      BY <3>4, <3>7, <3>8 DEF InOrder
  <2> QED
    BY <2>4, <2>5
<1> QED
  BY <1>4, <1>5

\* A button is pressed: of those still switching it is the last.
LEMMA ClickSwitcherKeeps ==
  ASSUME NEW f \in Frames, SwitchersTypeOK, SwitchersInv, ClickSwitcher(f)
  PROVE  SwitchersTypeOK' /\ SwitchersInv'
<1>1. SwitchersTypeOK'
  BY Clocks DEF SwitchersTypeOK, ClickSwitcher
<1>2. /\ asked' = f /\ switched' \in [Frames -> 0..Done] /\ switched'[f] = 0
      /\ \A g \in Frames : switched'[g] = 0 => g = f
  BY Clocks DEF SwitchersTypeOK, ClickSwitcher
<1>3. f \in Switching'
  BY <1>2, Clocks DEF Switching
<1>4. \A g \in Switching' \ {f} : 0 < switched'[g]
  BY <1>2, Clocks DEF Switching
<1>5. ~(0 >= SwitchIn) /\ ~(0 >= SwitchOut)
  BY Clocks
<1> QED
  BY <1>1, <1>2, <1>3, <1>4, <1>5 DEF SwitchersInv, InOrder

\* The window is closed.
LEMMA UnrenderedSwitchersKeeps ==
  ASSUME NEW ticks \in Nat, SwitchersTypeOK, SwitchersInv, UnrenderedSwitchers(ticks)
  PROVE  SwitchersTypeOK' /\ SwitchersInv'
<1>1. SwitchersTypeOK'
  BY AgesType DEF SwitchersTypeOK, UnrenderedSwitchers
<1>2. ASSUME ~disturbed'
      PROVE  InOrder'
  <2>1. Switching = {} /\ InOrder
    BY <1>2 DEF UnrenderedSwitchers, SwitchersInv
  <2>2. \A f \in Frames : switched[f] = Done
    BY <2>1 DEF Switching
  <2>3. Ages(ticks) = switched
    BY <2>2, AgesType, Clocks DEF SwitchersTypeOK
  <2>4. switched' = switched /\ UNCHANGED <<active_frame, opaque, asked>>
    BY <2>3 DEF UnrenderedSwitchers
  <2> QED
    BY <2>1, <2>4 DEF InOrder, Switching
<1> QED
  BY <1>1, <1>2 DEF SwitchersInv

LEMMA SwitchersInitInv == SwitchersInit => SwitchersTypeOK /\ SwitchersInv
<1> SUFFICES ASSUME SwitchersInit
             PROVE  SwitchersTypeOK /\ SwitchersInv
  OBVIOUS
<1>0. Done \in 0..Done
  BY Clocks
<1>1. SwitchersTypeOK
  BY <1>0 DEF SwitchersInit, SwitchersTypeOK
<1>2. Switching = {} /\ active_frame = asked /\ opaque
  BY DEF SwitchersInit, Switching
<1> QED
  BY <1>1, <1>2 DEF SwitchersInv, InOrder

\* The inductive invariant says what is shown when the fades are over.
LEMMA InvSwitchesFrames == SwitchersTypeOK /\ SwitchersInv => SwitchesFrames
<1> SUFFICES ASSUME SwitchersTypeOK, InOrder, Switching = {}
             PROVE  opaque /\ active_frame = asked
  BY DEF SwitchersInv, SwitchesFrames
<1>1. switched[asked] = Done
  BY DEF Switching, SwitchersTypeOK
<1> QED
  BY <1>1, Clocks DEF InOrder

-----------------------------------------------------------------------------
(* The menu of the binds: its clock                                        *)

Entries == [uuid : Uuids, age : Shown..Over]

LEMMA Fades ==
  /\ FadeIn \in Nat \ {0} /\ FadeOut \in Nat \ {0} /\ Over \in Nat
  /\ Over = FadeIn + FadeOut + 1 /\ Over > FadeIn /\ Shown = -1
  BY SubmenuAssumption DEF Over, Shown

LEMMA OlderIs ==
  ASSUME NEW age \in Shown..Over, NEW ticks \in Nat
  PROVE  /\ Older(age, ticks) = IF age = Shown THEN Shown
                                ELSE IF age + ticks <= Over THEN age + ticks ELSE Over
         /\ Older(age, ticks) \in Shown..Over
         /\ Older(age, ticks) = Shown <=> age = Shown
<1>1. Over \in Nat /\ Shown = -1
  BY Fades
<1>2. /\ age # Shown /\ age + ticks <= Over => Older(age, ticks) = age + ticks
      /\ age # Shown /\ ~(age + ticks <= Over) => Older(age, ticks) = Over
      /\ age = Shown => Older(age, ticks) = Shown
  BY <1>1 DEF Older, Min
<1> QED
  BY <1>1, <1>2

\* Time passes for two points in time alike.
LEMMA OlderTwice ==
  ASSUME NEW age \in Shown..Over, NEW ticks \in Nat, NEW more \in Nat
  PROVE  Older(Older(age, ticks), more) = Older(age, ticks + more)
<1> DEFINE once == Older(age, ticks)
<1>1. ticks + more \in Nat /\ Over \in Nat /\ Shown = -1
  BY Fades
<1>2. /\ once = IF age = Shown THEN Shown
                ELSE IF age + ticks <= Over THEN age + ticks ELSE Over
      /\ once \in Shown..Over
  BY OlderIs
<1> HIDE DEF once
<1>3. Older(once, more) = IF once = Shown THEN Shown
                          ELSE IF once + more <= Over THEN once + more ELSE Over
  BY <1>2, OlderIs
<1>4. Older(age, ticks + more) = IF age = Shown THEN Shown
                                 ELSE IF age + (ticks + more) <= Over
                                 THEN age + (ticks + more) ELSE Over
  BY <1>1, OlderIs
<1> QED
  BY <1>1, <1>2, <1>3, <1>4 DEF once

LEMMA OlderMonotonic ==
  ASSUME NEW age \in 0..Over, NEW other \in 0..Over, NEW ticks \in Nat, age >= other
  PROVE  Older(age, ticks) >= Older(other, ticks)
<1>1. Over \in Nat /\ Shown = -1 /\ age \in Shown..Over /\ other \in Shown..Over
  BY Fades
<1>2. Older(age, ticks) = IF age = Shown THEN Shown
                          ELSE IF age + ticks <= Over THEN age + ticks ELSE Over
  BY <1>1, OlderIs
<1>3. Older(other, ticks) = IF other = Shown THEN Shown
                            ELSE IF other + ticks <= Over THEN other + ticks ELSE Over
  BY <1>1, OlderIs
<1> QED
  BY <1>1, <1>2, <1>3

LEMMA FunctionIsSeq ==
  ASSUME NEW S, NEW n \in Nat, NEW f \in [1..n -> S]
  PROVE  f \in Seq(S) /\ Len(f) = n /\ DOMAIN f = 1..n
<1>1. f \in Seq(S)
  BY SeqDef
<1> QED
  BY <1>1, LenProperties

LEMMA AgedIs ==
  ASSUME NEW es \in Seq(Entries), NEW ticks \in Nat
  PROVE  /\ Aged(es, ticks) \in Seq(Entries) /\ Len(Aged(es, ticks)) = Len(es)
         /\ Len(es) \in Nat
         /\ \A i \in 1..Len(es) :
              /\ es[i] \in Entries
              /\ Aged(es, ticks)[i] = [uuid |-> es[i].uuid, age |-> Older(es[i].age, ticks)]
              /\ Aged(es, ticks)[i].uuid = es[i].uuid
              /\ Aged(es, ticks)[i].age = Older(es[i].age, ticks)
         /\ Hiding(Aged(es, ticks)) = Hiding(es)
<1>1. DOMAIN es = 1..Len(es) /\ Len(es) \in Nat /\ \A i \in 1..Len(es) : es[i] \in Entries
  OBVIOUS
<1>2. ASSUME NEW i \in 1..Len(es)
      PROVE  /\ [es[i] EXCEPT !.age = Older(@, ticks)]
                  = [uuid |-> es[i].uuid, age |-> Older(es[i].age, ticks)]
             /\ [uuid |-> es[i].uuid, age |-> Older(es[i].age, ticks)] \in Entries
             /\ Older(es[i].age, ticks) = Shown <=> es[i].age = Shown
  <2>1. es[i] \in [uuid : Uuids, age : Shown..Over]
    BY <1>1 DEF Entries
  <2>2. es[i].uuid \in Uuids /\ es[i].age \in Shown..Over
    BY <2>1
  <2>3. /\ Older(es[i].age, ticks) \in Shown..Over
        /\ Older(es[i].age, ticks) = Shown <=> es[i].age = Shown
    BY <2>2, OlderIs
  <2> QED
    BY <2>1, <2>2, <2>3 DEF Entries
<1>3. Aged(es, ticks) = [i \in 1..Len(es) |->
                           [uuid |-> es[i].uuid, age |-> Older(es[i].age, ticks)]]
  BY <1>1, <1>2 DEF Aged
<1>4. /\ Aged(es, ticks) \in Seq(Entries) /\ Len(Aged(es, ticks)) = Len(es)
      /\ DOMAIN Aged(es, ticks) = 1..Len(es)
  <2>1. Aged(es, ticks) \in [1..Len(es) -> Entries]
    BY <1>2, <1>3
  <2> QED
    BY <1>1, <2>1, FunctionIsSeq
<1>5. Hiding(Aged(es, ticks)) = Hiding(es)
  <2>1. \A i \in 1..Len(es) : Aged(es, ticks)[i].age # Shown <=> es[i].age # Shown
    BY <1>2, <1>3
  <2> QED
    BY <1>1, <1>4, <2>1 DEF Hiding
<1>6. \A i \in 1..Len(es) :
        /\ Aged(es, ticks)[i] = [uuid |-> es[i].uuid, age |-> Older(es[i].age, ticks)]
        /\ Aged(es, ticks)[i].uuid = es[i].uuid
        /\ Aged(es, ticks)[i].age = Older(es[i].age, ticks)
  BY <1>3
<1> QED
  BY <1>1, <1>4, <1>5, <1>6

\* Faded means a time past.
LEMMA FadedMonotonic ==
  ASSUME NEW age \in 0..Over, NEW other \in 0..Over, NEW rounded \in BOOLEAN,
         age >= other, Faded(other, rounded)
  PROVE  Faded(age, rounded)
  BY Fades DEF Faded

LEMMA RemoveAtIs ==
  ASSUME NEW S, NEW s \in Seq(S), NEW p \in 1..Len(s)
  PROVE  /\ RemoveAt(s, p) \in Seq(S) /\ Len(RemoveAt(s, p)) = Len(s) - 1
         /\ Len(s) \in Nat
         /\ \A i \in 1..(Len(s) - 1) :
              RemoveAt(s, p)[i] = IF i < p THEN s[i] ELSE s[i + 1]
<1> DEFINE before == SubSeq(s, 1, p - 1)
           after == SubSeq(s, p + 1, Len(s))
<1>1. Len(s) \in Nat /\ \A i \in 1..Len(s) : s[i] \in S
  BY LenProperties
<1>2. /\ before \in Seq(S) /\ Len(before) = p - 1
      /\ \A i \in 1..(p - 1) : before[i] = s[i]
  <2>1. p - 1 \in Int /\ \A i \in 1..(p - 1) : s[i] \in S
    BY <1>1
  <2>2. /\ SubSeq(s, 1, p - 1) \in Seq(S)
        /\ Len(SubSeq(s, 1, p - 1)) = IF 1 <= p - 1 THEN p - 1 - 1 + 1 ELSE 0
        /\ \A i \in 1..(p - 1 - 1 + 1) : SubSeq(s, 1, p - 1)[i] = s[1 + i - 1]
    BY <2>1, SubSeqProperties
  <2> QED
    BY <1>1, <2>2
<1>3. /\ after \in Seq(S) /\ Len(after) = Len(s) - p
      /\ \A i \in 1..(Len(s) - p) : after[i] = s[p + i]
  <2>1. p + 1 \in Int /\ Len(s) \in Int /\ \A i \in (p + 1)..Len(s) : s[i] \in S
    BY <1>1
  <2>2. /\ SubSeq(s, p + 1, Len(s)) \in Seq(S)
        /\ Len(SubSeq(s, p + 1, Len(s))) = IF p + 1 <= Len(s) THEN Len(s) - (p + 1) + 1 ELSE 0
        /\ \A i \in 1..(Len(s) - (p + 1) + 1) :
             SubSeq(s, p + 1, Len(s))[i] = s[p + 1 + i - 1]
    BY <2>1, SubSeqProperties
  <2> QED
    BY <1>1, <2>2
<1>4. RemoveAt(s, p) = before \o after
  BY DEF RemoveAt
<1> HIDE DEF before, after
<1>5. /\ before \o after \in Seq(S) /\ Len(before \o after) = Len(before) + Len(after)
      /\ \A i \in 1..(Len(before) + Len(after)) :
           (before \o after)[i] = IF i <= Len(before) THEN before[i] ELSE after[i - Len(before)]
  BY <1>2, <1>3, ConcatProperties
<1>6. ASSUME NEW i \in 1..(Len(s) - 1)
      PROVE  RemoveAt(s, p)[i] = IF i < p THEN s[i] ELSE s[i + 1]
  <2>1. (before \o after)[i] = IF i <= p - 1 THEN before[i] ELSE after[i - (p - 1)]
    BY <1>1, <1>2, <1>3, <1>5
  <2>2. CASE i < p
    BY <1>1, <1>2, <1>4, <2>1, <2>2
  <2>3. CASE ~(i < p)
    <3>1. i - (p - 1) \in 1..(Len(s) - p) /\ p + (i - (p - 1)) = i + 1
      BY <1>1, <2>3
    <3>2. after[i - (p - 1)] = s[p + (i - (p - 1))]
      BY <1>3, <3>1
    <3> QED
      BY <1>1, <1>4, <2>1, <2>3, <3>1, <3>2
  <2> QED
    BY <2>2, <2>3
<1> QED
  BY <1>1, <1>2, <1>3, <1>4, <1>5, <1>6

-----------------------------------------------------------------------------
(* The menu of the binds: what a frame draws and destroys                  *)

\* The function that Rendered defines exists.
LEMMA RenderedIs ==
  ASSUME NEW es \in Seq(Entries), NEW rounded
  PROVE  LET m == Rendered(es, rounded)
         IN  m = [i \in 0..Len(es) |-> IF i = 0 THEN Unchanged(es)
                                      ELSE RenderEntry(m[i - 1], i, rounded)]
<1> DEFINE P(g, k) == g = [i \in 0..k |-> IF i = 0 THEN Unchanged(es)
                                          ELSE RenderEntry(g[i - 1], i, rounded)]
           T == {k \in 0..Len(es) : \E g : P(g, k)}
<1>0. Len(es) \in Nat
  BY LenProperties
<1>1. 0 \in T
  <2> DEFINE g == [i \in 0..0 |-> Unchanged(es)]
  <2>1. P(g, 0)
    OBVIOUS
  <2> HIDE DEF g, P
  <2> QED
    BY <1>0, <2>1
<1>2. ASSUME NEW k \in 1..Len(es), k - 1 \in T
      PROVE  k \in T
  <2>1. PICK g : P(g, k - 1)
    BY <1>2
  <2> DEFINE h == [i \in 0..k |-> IF i = k THEN RenderEntry(g[k - 1], k, rounded) ELSE g[i]]
  <2>2. ASSUME NEW i \in 0..k
        PROVE  h[i] = IF i = 0 THEN Unchanged(es) ELSE RenderEntry(h[i - 1], i, rounded)
    <3>1. k - 1 \in 0..k /\ k - 1 # k /\ k # 0
      BY <1>0, <1>2
    <3>2. CASE i = k
      BY <3>1, <3>2
    <3>3. CASE i # k /\ i = 0
      BY <1>0, <2>1, <3>1, <3>3
    <3>4. CASE i # k /\ i # 0
      BY <1>0, <2>1, <3>1, <3>4
    <3> QED
      BY <3>2, <3>3, <3>4
  <2>3. P(h, k)
    BY <2>2
  <2> HIDE DEF h, P
  <2> QED
    BY <2>3
<1>3. T = 0..Len(es)
  <2>1. T \in SUBSET (0..Len(es))
    OBVIOUS
  <2> HIDE DEF T
  <2> QED
    BY <1>0, <1>1, <1>2, <2>1, UpTo
<1>4. \E g : P(g, Len(es))
  BY <1>0, <1>3
<1> QED
  BY <1>4 DEF Rendered

LEMMA RenderedAt ==
  ASSUME NEW es \in Seq(Entries), NEW rounded
  PROVE  /\ Rendered(es, rounded)[0] = Unchanged(es)
         /\ \A i \in 1..Len(es) :
              Rendered(es, rounded)[i] = RenderEntry(Rendered(es, rounded)[i - 1], i, rounded)
         /\ Len(es) \in Nat
<1> DEFINE m == Rendered(es, rounded)
<1>1. m = [i \in 0..Len(es) |-> IF i = 0 THEN Unchanged(es)
                                ELSE RenderEntry(m[i - 1], i, rounded)]
  BY RenderedIs
<1> HIDE DEF m
<1>2. /\ Len(es) \in Nat /\ 0 \in 0..Len(es)
      /\ \A i \in 1..Len(es) : i \in 0..Len(es) /\ i # 0
  BY LenProperties
<1>3. /\ m[0] = Unchanged(es)
      /\ \A i \in 1..Len(es) : m[i] = RenderEntry(m[i - 1], i, rounded)
  BY <1>1, <1>2
<1> QED
  BY <1>2, <1>3 DEF m

\* The array, of which size is in use, is parallel to the binds, which are those of
\* hotkeys and differ.
ParallelSlots(m, length) ==
  /\ m \in [slots : Seq(Entries), size : Nat, binds : Seq(Uuids), lost : SUBSET Uuids,
            crashed : BOOLEAN]
  /\ Len(m.slots) = length /\ m.size \in 0..length /\ Len(m.binds) = m.size
  /\ \A i \in 1..m.size : m.slots[i].uuid = m.binds[i] /\ m.binds[i] \in pool
  /\ \A i, j \in 1..m.size : m.binds[i] = m.binds[j] => i = j

LEMMA EraseKeepsParallel ==
  ASSUME NEW length \in Nat, NEW m, ParallelSlots(m, length), current_entry_index \in Nat,
         chosen \subseteq Uuids
  PROVE  ParallelSlots(EraseShown(m), length)
<1> DEFINE c == current_entry_index
           e == EraseShown(m)
<1>0. /\ m \in [slots : Seq(Entries), size : Nat, binds : Seq(Uuids), lost : SUBSET Uuids,
                crashed : BOOLEAN]
      /\ m.slots \in Seq(Entries) /\ m.size \in Nat /\ m.binds \in Seq(Uuids)
      /\ m.lost \subseteq Uuids /\ m.crashed \in BOOLEAN
      /\ Len(m.slots) = length /\ m.size \in 0..length /\ Len(m.binds) = m.size
      /\ DOMAIN m.slots = 1..length /\ \A i \in 1..length : m.slots[i] \in Entries
      /\ \A i \in 1..m.size : m.slots[i].uuid = m.binds[i] /\ m.binds[i] \in pool
      /\ \A i, j \in 1..m.size : m.binds[i] = m.binds[j] => i = j
  BY DEF ParallelSlots
<1>1. CASE c >= m.size
  <2>1. e = [m EXCEPT !.crashed = TRUE]
    BY <1>1 DEF EraseShown
  <2> QED
    BY <1>0, <2>1 DEF ParallelSlots
<1>2. CASE ~(c >= m.size)
  <2> DEFINE s == [i \in 1..length |-> IF i > c /\ i < m.size THEN m.slots[i + 1]
                                      ELSE m.slots[i]]
             b == RemoveAt(m.binds, c + 1)
             l == m.lost \cup ({m.binds[c + 1]} \ chosen)
  <2>1. e = [slots |-> s, size |-> m.size - 1, binds |-> b, lost |-> l,
             crashed |-> m.crashed]
    BY <1>0, <1>2 DEF EraseShown
  <2>2. c + 1 \in 1..Len(m.binds) /\ m.size \in Nat \ {0}
    BY <1>0, <1>2
  <2>3. /\ b \in Seq(Uuids) /\ Len(b) = m.size - 1
        /\ \A i \in 1..(m.size - 1) :
             b[i] = IF i < c + 1 THEN m.binds[i] ELSE m.binds[i + 1]
    <3>1. /\ RemoveAt(m.binds, c + 1) \in Seq(Uuids)
          /\ Len(RemoveAt(m.binds, c + 1)) = Len(m.binds) - 1
          /\ \A i \in 1..(Len(m.binds) - 1) :
               RemoveAt(m.binds, c + 1)[i] = IF i < c + 1 THEN m.binds[i] ELSE m.binds[i + 1]
      <4>1. m.binds \in Seq(Uuids)
        BY <1>0
      <4> QED
        BY <2>2, <4>1, RemoveAtIs
    <3> QED
      BY <1>0, <3>1
  <2>4. s \in Seq(Entries) /\ Len(s) = length
    <3>1. s \in [1..length -> Entries]
      BY <1>0
    <3> QED
      BY <3>1, FunctionIsSeq
  <2>5. l \subseteq Uuids
    BY <1>0, <2>2, ElementOfSeq
  <2>6. /\ \A i \in 1..(m.size - 1) : s[i].uuid = b[i] /\ b[i] \in pool
        /\ \A i, j \in 1..(m.size - 1) : b[i] = b[j] => i = j
    <3>1. ASSUME NEW i \in 1..(m.size - 1)
          PROVE  s[i].uuid = b[i] /\ b[i] \in pool
      <4>1. i \in 1..length /\ i \in 1..m.size /\ i + 1 \in 1..m.size /\ i < m.size
        BY <1>0, <2>2
      <4>2. CASE i > c
        <5>1. s[i] = m.slots[i + 1]
          BY <4>1, <4>2
        <5>2. b[i] = m.binds[i + 1]
          BY <2>3, <4>1, <4>2
        <5> QED
          BY <1>0, <4>1, <5>1, <5>2
      <4>3. CASE ~(i > c)
        <5>1. s[i] = m.slots[i]
          BY <4>1, <4>3
        <5>2. b[i] = m.binds[i]
          BY <2>3, <4>1, <4>3
        <5> QED
          BY <1>0, <4>1, <5>1, <5>2
      <4> QED
        BY <4>2, <4>3
    <3>2. ASSUME NEW i \in 1..(m.size - 1), NEW j \in 1..(m.size - 1), b[i] = b[j]
          PROVE  i = j
      <4> DEFINE k(n) == IF n < c + 1 THEN n ELSE n + 1
      <4>1. k(i) \in 1..m.size /\ k(j) \in 1..m.size
        BY <1>0, <2>2
      <4>2. b[i] = m.binds[k(i)] /\ b[j] = m.binds[k(j)]
        BY <2>3
      <4>3. k(i) = k(j)
        BY <1>0, <3>2, <4>1, <4>2
      <4> QED
        BY <2>2, <4>3
    <3> QED
      BY <3>1, <3>2
  <2>7. m.size - 1 \in 0..length
    BY <1>0, <2>2
  <2> HIDE DEF s, b, l, e
  <2>8. e \in [slots : Seq(Entries), size : Nat, binds : Seq(Uuids), lost : SUBSET Uuids,
              crashed : BOOLEAN]
    BY <1>0, <2>1, <2>3, <2>4, <2>5, <2>7
  <2>9. ParallelSlots(e, length)
    BY <2>1, <2>3, <2>4, <2>6, <2>7, <2>8 DEF ParallelSlots
  <2> QED
    BY <2>9 DEF e
<1> QED
  BY <1>0, <1>1, <1>2

LEMMA RenderKeepsParallel ==
  ASSUME NEW es \in Seq(Entries), NEW rounded, ParallelSlots(Unchanged(es), Len(es)),
         current_entry_index \in Nat, chosen \subseteq Uuids
  PROVE  ParallelSlots(RenderMenu(es, rounded), Len(es))
<1> DEFINE m == Rendered(es, rounded)
           T == {i \in 0..Len(es) : ParallelSlots(m[i], Len(es))}
<1>0. /\ m[0] = Unchanged(es) /\ Len(es) \in Nat
      /\ \A i \in 1..Len(es) : m[i] = RenderEntry(m[i - 1], i, rounded)
  BY RenderedAt
<1> HIDE DEF m
<1>1. 0 \in T
  BY <1>0
<1>2. ASSUME NEW i \in 1..Len(es), i - 1 \in T
      PROVE  i \in T
  <2>1. ParallelSlots(m[i - 1], Len(es))
    BY <1>2
  <2>2. ParallelSlots(EraseShown(m[i - 1]), Len(es))
    BY <1>0, <2>1, EraseKeepsParallel
  <2>3. m[i] = m[i - 1] \/ m[i] = EraseShown(m[i - 1])
    BY <1>0 DEF RenderEntry
  <2> QED
    BY <2>1, <2>2, <2>3
<1>3. T = 0..Len(es)
  <2> HIDE DEF T
  <2>1. T \in SUBSET (0..Len(es))
    BY DEF T
  <2> QED
    BY <1>0, <1>1, <1>2, <2>1, UpTo
<1> QED
  BY <1>0, <1>3 DEF RenderMenu, m

\* If no entry hides but the one shown, a frame destroys that one, once its fade is
\* over, and no other: what the erasure leaves behind the last entry is not hiding.
LEMMA RenderDestroysShown ==
  ASSUME NEW es \in Seq(Entries), NEW rounded, current_entry_index \in Nat,
         \A i \in 1..Len(es) : es[i].age # Shown => i = current_entry_index + 1
  PROVE  LET p == current_entry_index + 1
         IN  RenderMenu(es, rounded) =
               IF p \in 1..Len(es) /\ ~crashed /\ es[p].age # Shown /\ Faded(es[p].age, rounded)
               THEN EraseShown(Unchanged(es)) ELSE Unchanged(es)
<1> DEFINE p == current_entry_index + 1
           m == Rendered(es, rounded)
           start == Unchanged(es)
           e == EraseShown(start)
           ends == /\ p \in 1..Len(es) /\ ~crashed
                   /\ es[p].age # Shown /\ Faded(es[p].age, rounded)
           T == {i \in 0..Len(es) : m[i] = IF ends /\ i >= p THEN e ELSE start}
<1>0. /\ m[0] = start /\ Len(es) \in Nat
      /\ \A i \in 1..Len(es) : m[i] = RenderEntry(m[i - 1], i, rounded)
  BY RenderedAt
<1>1. start.slots = es /\ start.size = Len(es) /\ start.crashed = crashed
  BY DEF Unchanged
<1>2. ASSUME ends, NEW i \in 1..Len(es), i > p
      PROVE  e.slots[i].age = Shown
  <2>1. ~(current_entry_index >= start.size)
    BY <1>0, <1>1, <1>2
  <2>2. e.slots = [j \in DOMAIN es |-> IF j > current_entry_index /\ j < Len(es)
                                     THEN es[j + 1] ELSE es[j]]
    BY <1>1, <2>1 DEF EraseShown, Unchanged
  <2>3. DOMAIN es = 1..Len(es)
    BY LenProperties
  <2>4. CASE i < Len(es)
    <3>1. i + 1 \in 1..Len(es) /\ i + 1 # p
      BY <1>0, <1>2, <2>4
    <3>2. e.slots[i] = es[i + 1]
      BY <1>0, <1>2, <2>2, <2>3, <2>4
    <3> QED
      BY <3>1, <3>2
  <2>5. CASE ~(i < Len(es))
    <3>1. e.slots[i] = es[i] /\ i # p
      BY <1>0, <1>2, <2>2, <2>3, <2>5
    <3> QED
      BY <3>1
  <2> QED
    BY <2>4, <2>5
<1> HIDE DEF m, e
<1>3. 0 \in T
  BY <1>0
<1>4. ASSUME NEW i \in 1..Len(es), i - 1 \in T
      PROVE  i \in T
  <2>0. /\ m[i - 1] = IF ends /\ i - 1 >= p THEN e ELSE start
        /\ m[i] = RenderEntry(m[i - 1], i, rounded)
    BY <1>0, <1>4
  <2>1. CASE i = p
    <3>1. m[i - 1] = start
      BY <1>0, <2>0, <2>1
    <3>2. m[i] = RenderEntry(start, p, rounded)
      BY <2>0, <2>1, <3>1
    <3>3. RenderEntry(start, p, rounded) = IF ends THEN e ELSE start
      BY <1>1, <2>1 DEF RenderEntry, e
    <3>4. ends /\ i >= p <=> ends
      BY <2>1
    <3> HIDE DEF ends, start
    <3> QED
      BY <3>2, <3>3, <3>4
  <2>2. CASE i # p /\ ~(ends /\ i >= p)
    <3>1. m[i - 1] = start
      BY <1>0, <2>0, <2>2
    <3>2. es[i].age = Shown
      BY <2>2
    <3>3. RenderEntry(start, i, rounded) = start
      BY <1>1, <3>2 DEF RenderEntry
    <3> HIDE DEF ends, start
    <3> QED
      BY <2>0, <2>2, <3>1, <3>3
  <2>3. CASE i # p /\ ends /\ i >= p
    <3>1. m[i - 1] = e /\ i > p
      BY <1>0, <2>0, <2>3
    <3>2. e.slots[i].age = Shown
      BY <1>2, <2>3, <3>1
    <3>3. RenderEntry(e, i, rounded) = e
      BY <3>2 DEF RenderEntry
    <3> HIDE DEF ends, start
    <3> QED
      BY <2>0, <2>3, <3>1, <3>3
  <2> QED
    BY <2>1, <2>2, <2>3
<1>5. T = 0..Len(es)
  <2> HIDE DEF T
  <2>1. T \in SUBSET (0..Len(es))
    BY DEF T
  <2> QED
    BY <1>0, <1>3, <1>4, <2>1, UpTo
<1>6. m[Len(es)] = IF ends /\ Len(es) >= p THEN e ELSE start
  BY <1>0, <1>5
<1>7. ends => Len(es) >= p
  BY <1>0
<1>8. RenderMenu(es, rounded) = IF ends THEN e ELSE start
  <2> HIDE DEF ends, start, e
  <2> QED
    BY <1>6, <1>7 DEF RenderMenu, m
<1> QED
  BY <1>8 DEF e

\* What is left of an array is the menu again.
LEMMA UsedSlots ==
  ASSUME NEW m, NEW length \in Nat, ParallelSlots(m, length), NEW ticks \in Nat
  PROVE  LET es == Aged(SubSeq(m.slots, 1, m.size), ticks)
         IN  /\ es \in Seq(Entries) /\ Len(es) = m.size /\ m.size \in Nat
             /\ \A i \in 1..m.size : /\ m.slots[i] \in Entries
                                     /\ es[i].uuid = m.slots[i].uuid
                                     /\ es[i].age = Older(m.slots[i].age, ticks)
<1> DEFINE used == SubSeq(m.slots, 1, m.size)
<1>1. /\ m.slots \in Seq(Entries) /\ m.size \in 0..Len(m.slots) /\ Len(m.slots) = length
      /\ \A i \in 1..m.size : m.slots[i] \in Entries
  BY DEF ParallelSlots
<1>2. /\ used \in Seq(Entries) /\ Len(used) = m.size
      /\ \A i \in 1..m.size : used[i] = m.slots[i]
  <2>1. /\ used \in Seq(Entries)
        /\ Len(used) = IF 1 <= m.size THEN m.size - 1 + 1 ELSE 0
        /\ \A i \in 1..(m.size - 1 + 1) : used[i] = m.slots[1 + i - 1]
    BY <1>1, SubSeqProperties
  <2> QED
    BY <1>1, <2>1
<1> HIDE DEF used
<1>3. /\ Aged(used, ticks) \in Seq(Entries) /\ Len(Aged(used, ticks)) = Len(used)
      /\ \A i \in 1..Len(used) : /\ Aged(used, ticks)[i].uuid = used[i].uuid
                                 /\ Aged(used, ticks)[i].age = Older(used[i].age, ticks)
  BY <1>2, AgedIs
<1> QED
  BY <1>1, <1>2, <1>3 DEF used

LEMMA SameInterval ==
  ASSUME NEW a \in Nat, NEW b \in Nat, 1..a = 1..b
  PROVE  a = b
<1>1. a >= 1 => a \in 1..b
  OBVIOUS
<1>2. b >= 1 => b \in 1..a
  OBVIOUS
<1> QED
  BY <1>1, <1>2

\* Parallel, index by index
LEMMA ParallelIs ==
  ASSUME NEW es \in Seq(Entries), NEW bs \in Seq(Uuids), NEW keys
  PROVE  (/\ bs = [i \in DOMAIN es |-> es[i].uuid]
          /\ IsInjective(bs) /\ ToSet(bs) \subseteq keys)
         <=> /\ Len(bs) = Len(es)
             /\ \A i \in 1..Len(es) : es[i].uuid = bs[i] /\ bs[i] \in keys
             /\ \A i, j \in 1..Len(es) : bs[i] = bs[j] => i = j
<1>1. /\ Len(es) \in Nat /\ Len(bs) \in Nat
      /\ DOMAIN es = 1..Len(es) /\ DOMAIN bs = 1..Len(bs)
  BY LenProperties
<1>2. ASSUME bs = [i \in DOMAIN es |-> es[i].uuid]
      PROVE  Len(bs) = Len(es)
  <2>1. 1..Len(bs) = 1..Len(es)
    <3>1. DOMAIN bs = DOMAIN es
      BY <1>2
    <3> QED
      BY <1>1, <3>1
  <2> QED
    BY <1>1, <2>1, SameInterval
<1>3. ASSUME Len(bs) = Len(es), \A i \in 1..Len(es) : es[i].uuid = bs[i]
      PROVE  bs = [i \in DOMAIN es |-> es[i].uuid]
  <2>1. bs \in [1..Len(es) -> Uuids]
    BY <1>3, LenProperties
  <2> QED
    BY <1>1, <1>3, <2>1
<1> QED
  BY <1>1, <1>2, <1>3 DEF IsInjective, ToSet

-----------------------------------------------------------------------------
(* Every step on the menu keeps MenuInv.                                   *)

LEMMA MenuTypes ==
  ASSUME SubmenuTypeOK
  PROVE  /\ entries \in Seq(Entries) /\ binds \in Seq(Uuids) /\ Len(entries) \in Nat
         /\ current_entry_index \in Nat /\ future_entry_index \in Nat
         /\ current_entry_index < SizeT /\ future_entry_index < SizeT /\ SizeT \in Nat
         /\ time_clicked \in 0..Over /\ time_clicked \in Shown..Over /\ time_clicked # Shown
         /\ chosen \subseteq Uuids /\ lost \subseteq Uuids /\ pool \subseteq Uuids
         /\ DOMAIN entries = 1..Len(entries)
         /\ \A i \in 1..Len(entries) :
              /\ entries[i] \in Entries /\ entries[i].uuid \in Uuids
              /\ entries[i].age \in Shown..Over
              /\ i \notin Hiding(entries) => entries[i].age = Shown
              /\ i \in Hiding(entries) => entries[i].age \in 0..Over
         /\ Hiding(entries) \subseteq 1..Len(entries)
<1>1. /\ entries \in Seq(Entries) /\ binds \in Seq(Uuids)
      /\ chosen \subseteq Uuids /\ lost \subseteq Uuids /\ pool \subseteq Uuids
      /\ time_clicked \in 0..Over
  BY DEF SubmenuTypeOK, Entries
<1>2. /\ current_entry_index \in Nat /\ future_entry_index \in Nat
      /\ current_entry_index < SizeT /\ future_entry_index < SizeT /\ SizeT \in Nat
  BY SubmenuAssumption DEF SubmenuTypeOK
<1>3. time_clicked \in Shown..Over /\ time_clicked # Shown
  BY <1>1, Fades
<1>4. DOMAIN entries = 1..Len(entries) /\ Len(entries) \in Nat
  BY <1>1, LenProperties
<1>5. ASSUME NEW i \in 1..Len(entries)
      PROVE  /\ entries[i] \in Entries /\ entries[i].uuid \in Uuids
             /\ entries[i].age \in Shown..Over
             /\ i \notin Hiding(entries) => entries[i].age = Shown
             /\ i \in Hiding(entries) => entries[i].age \in 0..Over
  <2>1. entries[i] \in Entries
    BY <1>1, ElementOfSeq
  <2>2. entries[i].uuid \in Uuids /\ entries[i].age \in Shown..Over
    BY <2>1 DEF Entries
  <2>3. i \in Hiding(entries) <=> entries[i].age # Shown
    BY <1>4 DEF Hiding
  <2> QED
    BY <2>1, <2>2, <2>3, Fades
<1> QED
  BY <1>1, <1>2, <1>3, <1>4, <1>5 DEF Hiding

LEMMA ParallelLengths ==
  ASSUME SubmenuTypeOK, Parallel
  PROVE  /\ Len(binds) = Len(entries)
         /\ \A i \in 1..Len(entries) : entries[i].uuid = binds[i] /\ binds[i] \in pool
         /\ \A i, j \in 1..Len(entries) : binds[i] = binds[j] => i = j
  BY MenuTypes, ParallelIs DEF Parallel

\* There are no more entries than uuids, and their indices have the width SizeT.
LEMMA FewEntries ==
  ASSUME SubmenuTypeOK, Parallel
  PROVE  /\ Cardinality(Uuids) \in Nat /\ Len(entries) <= Cardinality(Uuids)
         /\ Len(entries) \in 0..(SizeT - 1)
<1>1. IsFiniteSet(Uuids) /\ Cardinality(Uuids) \in Nat /\ SizeT \in Nat
      /\ SizeT > Cardinality(Uuids) + 2
  BY SubmenuAssumption, FS_CardinalityType
<1>2. Len(entries) \in Nat /\ Len(binds) = Len(entries) /\ binds \in Seq(Uuids)
  BY MenuTypes, ParallelLengths
<1>3. binds \in Injection(1..Len(entries), Uuids)
  <2>1. binds \in [1..Len(entries) -> Uuids]
    BY <1>2, LenProperties
  <2> QED
    BY <2>1 DEF Injection, Parallel
<1>4. Cardinality(1..Len(entries)) <= Cardinality(Uuids)
  BY <1>1, <1>3, FS_Injection
<1>5. Cardinality(1..Len(entries)) = Len(entries)
  <2>1. 1 \in Int /\ Len(entries) \in Int
    BY <1>2
  <2>2. Cardinality(1..Len(entries)) = IF 1 > Len(entries) THEN 0 ELSE Len(entries) - 1 + 1
    BY <2>1, FS_Interval
  <2> QED
    BY <1>2, <2>2
<1> QED
  BY <1>1, <1>2, <1>4, <1>5

\* Time without a frame of the binder
LEMMA UnrenderedKeeps ==
  ASSUME NEW ticks \in Nat, SubmenuTypeOK, MenuInv, Unrendered(ticks)
  PROVE  SubmenuTypeOK' /\ MenuInv'
<1>0. /\ entries' = Aged(entries, ticks) /\ time_clicked' = Older(time_clicked, ticks)
      /\ UNCHANGED <<current_entry_index, future_entry_index, binds, pool, crashed, chosen,
                     lost, wanted, seen, hasty, raced>>
  BY DEF Unrendered, history
<1>1. /\ entries' \in Seq(Entries) /\ Len(entries') = Len(entries)
      /\ \A i \in 1..Len(entries) :
           /\ entries'[i].uuid = entries[i].uuid
           /\ entries'[i].age = Older(entries[i].age, ticks)
      /\ Hiding(entries') = Hiding(entries)
  <2>1. entries \in Seq(Entries)
    BY MenuTypes
  <2>2. /\ Aged(entries, ticks) \in Seq(Entries) /\ Len(Aged(entries, ticks)) = Len(entries)
        /\ \A i \in 1..Len(entries) :
             /\ Aged(entries, ticks)[i].uuid = entries[i].uuid
             /\ Aged(entries, ticks)[i].age = Older(entries[i].age, ticks)
        /\ Hiding(Aged(entries, ticks)) = Hiding(entries)
    BY <2>1, AgedIs
  <2> QED
    BY <1>0, <2>2, Zenon
<1>2. time_clicked' \in 0..Over
  <2>1. time_clicked \in Shown..Over /\ time_clicked # Shown
    BY MenuTypes
  <2>2. Older(time_clicked, ticks) \in Shown..Over /\ Older(time_clicked, ticks) # Shown
    BY <2>1, OlderIs
  <2> QED
    BY <1>0, <2>2, Fades
<1>3. SubmenuTypeOK'
  BY <1>0, <1>1, <1>2 DEF SubmenuTypeOK, Entries
<1>4. Parallel'
  <2>1. /\ Len(binds) = Len(entries')
        /\ \A i \in 1..Len(entries') : entries'[i].uuid = binds[i] /\ binds[i] \in pool
        /\ \A i, j \in 1..Len(entries') : binds[i] = binds[j] => i = j
    BY <1>1, ParallelLengths DEF MenuInv
  <2>2. /\ binds = [i \in DOMAIN entries' |-> entries'[i].uuid]
        /\ IsInjective(binds) /\ ToSet(binds) \subseteq pool
    BY <1>1, <2>1, MenuTypes, ParallelIs
  <2> QED
    BY <1>0, <2>2 DEF Parallel
<1>5. ASSUME ~raced'
      PROVE  Unraced'
  <2>1. Unraced
    BY <1>0, <1>5 DEF MenuInv
  <2>2. ASSUME NEW i \in Hiding(entries')
        PROVE  /\ i = current_entry_index + 1 /\ entries'[i].age >= time_clicked'
               /\ entries'[i].uuid \in chosen
    <3>1. i \in Hiding(entries) /\ i \in 1..Len(entries) /\ entries[i].age \in 0..Over
      BY <1>1, <2>2, MenuTypes
    <3>2. entries[i].age >= time_clicked
      BY <2>1, <3>1 DEF Unraced
    <3>3. Older(entries[i].age, ticks) >= Older(time_clicked, ticks)
      BY <3>1, <3>2, MenuTypes, OlderMonotonic
    <3> QED
      BY <1>0, <1>1, <2>1, <3>1, <3>3 DEF Unraced
  <2> QED
    BY <1>0, <2>1, <2>2 DEF Unraced
<1>6. WantedIsNext'
  <2> SUFFICES ASSUME ~hasty, wanted # NoUuid
               PROVE  /\ Hiding(entries') = {} /\ future_entry_index + 1 \in DOMAIN entries'
                      /\ entries'[future_entry_index + 1].uuid = wanted
    BY <1>0 DEF WantedIsNext, InRange
  <2>1. /\ Hiding(entries) = {} /\ future_entry_index + 1 \in 1..Len(entries)
        /\ entries[future_entry_index + 1].uuid = wanted
    BY MenuTypes DEF MenuInv, WantedIsNext, InRange
  <2> QED
    BY <1>1, <2>1, LenProperties
<1> QED
  BY <1>0, <1>3, <1>4, <1>5, <1>6 DEF MenuInv

\* A frame of the binder
LEMMA RenderSubmenuKeeps ==
  ASSUME NEW before \in Nat, NEW between \in Nat, NEW rounded \in BOOLEAN,
         SubmenuTypeOK, MenuInv, ~crashed, RenderSubmenu(before, between, rounded)
  PROVE  SubmenuTypeOK' /\ MenuInv'
<1> DEFINE es == Aged(entries, before)
           m == RenderMenu(es, rounded)
           age == Older(time_clicked, before + between)
           p == current_entry_index + 1
           ends == p \in 1..Len(es) /\ es[p].age # Shown /\ Faded(es[p].age, rounded)
<1>1. /\ entries' = Aged(SubSeq(m.slots, 1, m.size), between)
      /\ binds' = m.binds /\ lost' = m.lost /\ crashed' = m.crashed /\ time_clicked' = age
      /\ current_entry_index' = IF Counts(age) THEN future_entry_index
                                ELSE current_entry_index
      /\ seen' = (seen \/ Counts(age))
      /\ raced' = (raced \/ (/\ Hiding(entries') # {} /\ age >= FadeIn
                            /\ ~Faded(Older(time_clicked, before), rounded)))
      /\ UNCHANGED <<future_entry_index, pool, chosen, wanted, hasty>>
  BY DEF RenderSubmenu
<1>2. /\ es \in Seq(Entries) /\ Len(es) = Len(entries) /\ Len(es) \in Nat
      /\ \A i \in 1..Len(entries) :
           es[i].uuid = entries[i].uuid /\ es[i].age = Older(entries[i].age, before)
      /\ Hiding(es) = Hiding(entries) /\ DOMAIN es = 1..Len(entries)
  <2>1. entries \in Seq(Entries)
    BY MenuTypes
  <2>2. /\ es \in Seq(Entries) /\ Len(es) = Len(entries) /\ Len(entries) \in Nat
        /\ \A i \in 1..Len(entries) :
             es[i].uuid = entries[i].uuid /\ es[i].age = Older(entries[i].age, before)
        /\ Hiding(es) = Hiding(entries)
    BY <2>1, AgedIs
  <2> HIDE DEF es
  <2>3. DOMAIN es = 1..Len(es)
    BY <2>2, LenProperties
  <2> QED
    BY <2>2, <2>3
<1>3. /\ age \in 0..Over /\ Older(time_clicked, before) \in 0..Over
      /\ age = Older(Older(time_clicked, before), between)
      /\ before + between \in Nat
  <2>1. time_clicked \in Shown..Over /\ time_clicked # Shown /\ before + between \in Nat
    BY MenuTypes
  <2>2. /\ age \in Shown..Over /\ age # Shown
        /\ Older(time_clicked, before) \in Shown..Over /\ Older(time_clicked, before) # Shown
    BY <2>1, OlderIs
  <2>3. age = Older(Older(time_clicked, before), between)
    BY <2>1, OlderTwice
  <2>4. age \in 0..Over /\ Older(time_clicked, before) \in 0..Over
    <3> HIDE DEF age
    <3> QED
      BY <2>2, Fades
  <2> QED
    BY <2>1, <2>3, <2>4
<1> HIDE DEF es, age
<1>4. ParallelSlots(Unchanged(es), Len(es))
  <2>1. /\ binds \in Seq(Uuids) /\ lost \subseteq Uuids /\ crashed \in BOOLEAN
        /\ Len(binds) = Len(es)
    BY <1>2, MenuTypes, ParallelLengths DEF MenuInv, SubmenuTypeOK
  <2>2. /\ \A i \in 1..Len(es) : es[i].uuid = binds[i] /\ binds[i] \in pool
        /\ \A i, j \in 1..Len(es) : binds[i] = binds[j] => i = j
    BY <1>2, ParallelLengths DEF MenuInv
  <2> QED
    BY <1>2, <2>1, <2>2 DEF ParallelSlots, Unchanged
<1>5. ParallelSlots(m, Len(es))
  BY <1>2, <1>4, MenuTypes, RenderKeepsParallel
<1> HIDE DEF m
<1>6. /\ entries' \in Seq(Entries) /\ Len(entries') = m.size /\ m.size \in Nat
      /\ \A i \in 1..m.size : /\ m.slots[i] \in Entries
                              /\ entries'[i].uuid = m.slots[i].uuid
                              /\ entries'[i].age = Older(m.slots[i].age, between)
  BY <1>1, <1>2, <1>5, UsedSlots
<1>7. SubmenuTypeOK'
  <2>1. /\ binds' \in Seq(Uuids) /\ lost' \subseteq Uuids /\ crashed' \in BOOLEAN
    BY <1>1, <1>5 DEF ParallelSlots
  <2>2. seen' \in BOOLEAN /\ raced' \in BOOLEAN
    BY <1>1 DEF Counts, Faded, SubmenuTypeOK
  <2>3. current_entry_index' \in 0..(SizeT - 1)
    BY <1>1 DEF SubmenuTypeOK
  <2> QED
    BY <1>1, <1>3, <1>6, <2>1, <2>2, <2>3 DEF SubmenuTypeOK, Entries
<1>8. Parallel'
  <2>1. /\ Len(m.binds) = m.size /\ m.binds \in Seq(Uuids)
        /\ \A i \in 1..m.size : m.slots[i].uuid = m.binds[i] /\ m.binds[i] \in pool
        /\ \A i, j \in 1..m.size : m.binds[i] = m.binds[j] => i = j
    BY <1>5 DEF ParallelSlots
  <2>2. /\ Len(m.binds) = Len(entries')
        /\ \A i \in 1..Len(entries') : entries'[i].uuid = m.binds[i] /\ m.binds[i] \in pool
        /\ \A i, j \in 1..Len(entries') : m.binds[i] = m.binds[j] => i = j
    BY <1>6, <2>1
  <2>3. /\ m.binds = [i \in DOMAIN entries' |-> entries'[i].uuid]
        /\ IsInjective(m.binds) /\ ToSet(m.binds) \subseteq pool
    BY <1>6, <2>1, <2>2, ParallelIs
  <2> QED
    BY <1>1, <2>3 DEF Parallel
\* Of entries among which only the one shown is hiding, it alone may go.
<1>9. ASSUME \A i \in Hiding(entries) : i = p
      PROVE  m = IF ends THEN EraseShown(Unchanged(es)) ELSE Unchanged(es)
  <2>1. \A i \in 1..Len(es) : es[i].age # Shown => i = p
    BY <1>2, <1>9 DEF Hiding
  <2>2. current_entry_index \in Nat
    BY MenuTypes
  <2> QED
    BY <1>2, <2>1, <2>2, RenderDestroysShown DEF m
<1>10. ASSUME m = Unchanged(es)
       PROVE  /\ Len(entries') = Len(entries) /\ Hiding(entries') = Hiding(entries)
              /\ lost' = lost /\ ~crashed'
              /\ \A i \in 1..Len(entries) :
                   /\ entries'[i].uuid = entries[i].uuid
                   /\ entries'[i].age = Older(entries[i].age, before + between)
  <2>1. m.slots = es /\ m.size = Len(entries) /\ m.lost = lost /\ m.crashed = crashed
    BY <1>2, <1>10 DEF Unchanged
  <2>2. ASSUME NEW i \in 1..Len(entries)
        PROVE  /\ entries'[i].uuid = entries[i].uuid
               /\ entries'[i].age = Older(entries[i].age, before + between)
               /\ entries'[i].age # Shown <=> entries[i].age # Shown
    <3>1. entries[i].age \in Shown..Over
      BY MenuTypes
    <3>2. entries'[i].age = Older(Older(entries[i].age, before), between)
      BY <1>2, <1>6, <2>1
    <3>3. entries'[i].age = Older(entries[i].age, before + between)
      BY <3>1, <3>2, OlderTwice
    <3> QED
      BY <1>2, <1>3, <1>6, <2>1, <3>1, <3>3, OlderIs
  <2>3. DOMAIN entries' = 1..Len(entries) /\ DOMAIN entries = 1..Len(entries)
    BY <1>6, <2>1, MenuTypes, LenProperties
  <2>4. Hiding(entries') = Hiding(entries)
    BY <2>2, <2>3 DEF Hiding
  <2> QED
    BY <1>1, <1>6, <2>1, <2>2, <2>4
<1>11. ASSUME ~raced'
       PROVE  Unraced'
  <2>1. ~raced /\ Unraced /\ \A i \in Hiding(entries) : i = p
    BY <1>1, <1>11 DEF MenuInv, Unraced
  <2>2. CASE ends
    <3> DEFINE e == EraseShown(Unchanged(es))
    <3>1. m = e
      BY <1>9, <2>1, <2>2
    <3>2. /\ p \in 1..Len(entries) /\ p \in Hiding(entries) /\ Len(entries) \in Nat
          /\ ~(current_entry_index >= Len(es))
      BY <1>2, <2>2, MenuTypes DEF Hiding
    <3>3. entries[p].uuid = binds[p] /\ binds[p] \in chosen
      BY <2>1, <3>2, ParallelLengths DEF MenuInv, Unraced
    <3>4. /\ e.slots = [i \in 1..Len(entries) |->
                         IF i > current_entry_index /\ i < Len(entries)
                         THEN es[i + 1] ELSE es[i]]
          /\ e.size = Len(entries) - 1 /\ e.crashed = crashed
          /\ e.lost = lost \cup ({binds[p]} \ chosen)
      BY <1>2, <3>2 DEF EraseShown, Unchanged
    <3>5. lost' = {} /\ ~crashed'
      BY <1>1, <2>1, <3>1, <3>3, <3>4 DEF Unraced
    <3>6. Hiding(entries') = {}
      <4> SUFFICES ASSUME NEW i \in Hiding(entries')
                   PROVE  FALSE
        OBVIOUS
      <4>1. i \in 1..(Len(entries) - 1) /\ entries'[i].age # Shown
        BY <1>6, <3>1, <3>4, LenProperties DEF Hiding
      <4>2. entries'[i].age = Older(m.slots[i].age, between)
        BY <1>6, <3>1, <3>4, <4>1
      <4> DEFINE k == IF i > current_entry_index THEN i + 1 ELSE i
      <4>3. k \in 1..Len(entries) /\ k # p /\ m.slots[i] = es[k]
        BY <3>1, <3>2, <3>4, <4>1, MenuTypes
      <4>4. es[k].age = Shown
        BY <1>2, <2>1, <4>3 DEF Hiding
      <4>5. m.slots[i].age = Shown
        BY <4>3, <4>4
      <4> QED
        BY <4>1, <4>2, <4>5, OlderIs, Fades DEF Older
    <3> QED
      BY <3>5, <3>6 DEF Unraced
  <2>3. CASE ~ends
    <3>1. m = Unchanged(es)
      BY <1>9, <2>1, <2>3
    <3>2. /\ Hiding(entries') = Hiding(entries) /\ lost' = lost /\ ~crashed'
          /\ \A i \in 1..Len(entries) :
               /\ entries'[i].uuid = entries[i].uuid
               /\ entries'[i].age = Older(entries[i].age, before + between)
      BY <1>10, <3>1
    <3>3. ASSUME NEW i \in Hiding(entries')
          PROVE  /\ i = current_entry_index' + 1 /\ entries'[i].age >= time_clicked'
                 /\ entries'[i].uuid \in chosen'
      <4>1. /\ i \in Hiding(entries) /\ i \in 1..Len(entries) /\ i = p
            /\ entries[i].age \in 0..Over /\ entries[i].age >= time_clicked
            /\ entries[i].uuid \in chosen /\ time_clicked \in 0..Over
        BY <2>1, <3>2, <3>3, MenuTypes DEF Unraced
      <4>2. /\ Older(entries[i].age, before + between) >= age
            /\ Older(entries[i].age, before) >= Older(time_clicked, before)
        BY <1>3, <4>1, OlderMonotonic DEF age
      <4>3. es[i].age = Older(entries[i].age, before) /\ es[i].age # Shown
            /\ ~Faded(es[i].age, rounded) /\ es[i].age \in 0..Over
        <5>1. es[i].age = Older(entries[i].age, before)
          BY <1>2, <4>1
        <5>2. entries[i].age \in Shown..Over /\ entries[i].age # Shown
          BY <4>1, Fades
        <5>3. es[i].age \in Shown..Over /\ es[i].age # Shown
          BY <5>1, <5>2, OlderIs
        <5>4. ~Faded(es[i].age, rounded)
          BY <1>2, <2>3, <4>1, <5>3
        <5> QED
          BY <5>1, <5>3, <5>4, Fades
      <4>4. ~Faded(Older(time_clicked, before), rounded)
        BY <1>3, <4>2, <4>3, FadedMonotonic
      <4>5. ~(age >= FadeIn)
        BY <1>1, <1>11, <3>3, <4>4
      <4>6. current_entry_index' = current_entry_index
        BY <1>1, <4>5 DEF Counts
      <4> QED
        BY <1>1, <3>2, <4>1, <4>2, <4>6
    <3> QED
      BY <2>1, <3>2, <3>3 DEF Unraced
  <2> QED
    BY <2>2, <2>3
<1>12. WantedIsNext'
  <2> SUFFICES ASSUME ~hasty, wanted # NoUuid
               PROVE  /\ Hiding(entries') = {} /\ future_entry_index + 1 \in DOMAIN entries'
                      /\ entries'[future_entry_index + 1].uuid = wanted
    BY <1>1 DEF WantedIsNext, InRange
  <2>1. /\ Hiding(entries) = {} /\ future_entry_index + 1 \in 1..Len(entries)
        /\ entries[future_entry_index + 1].uuid = wanted
    BY MenuTypes DEF MenuInv, WantedIsNext, InRange
  <2>2. ~ends
    BY <1>2, <2>1 DEF Hiding
  <2>3. m = Unchanged(es)
    BY <1>9, <2>1, <2>2
  <2> QED
    BY <1>6, <1>10, <2>1, <2>3, LenProperties
<1>13. seen' => current_entry_index' = future_entry_index'
  BY <1>1 DEF MenuInv
<1> QED
  BY <1>7, <1>8, <1>11, <1>12, <1>13 DEF MenuInv

-----------------------------------------------------------------------------
(* The user's buttons                                                      *)

\* The button of an entry
LEMMA ClickEntryKeeps ==
  ASSUME NEW index \in 0..(SizeT - 1), SubmenuTypeOK, MenuInv, ClickEntry(index)
  PROVE  SubmenuTypeOK' /\ MenuInv'
<1>1. /\ index + 1 \in DOMAIN entries /\ time_clicked' = 0
      /\ future_entry_index' = index /\ wanted' = entries[index + 1].uuid
      /\ seen' = FALSE /\ hasty' = (Hiding(entries) # {})
      /\ UNCHANGED <<entries, current_entry_index, binds, pool, crashed, chosen, lost, raced>>
  BY DEF ClickEntry, Clicked, InRange
<1>2. SubmenuTypeOK'
  <2>1. wanted' \in Uuids /\ time_clicked' \in 0..Over
    BY <1>1, MenuTypes, Fades
  <2> QED
    BY <1>1, <2>1 DEF SubmenuTypeOK
<1>3. Parallel'
  BY <1>1 DEF MenuInv, Parallel
<1>4. ASSUME ~raced'
      PROVE  Unraced'
  <2>1. Unraced
    BY <1>1, <1>4 DEF MenuInv
  <2>2. \A i \in Hiding(entries) : entries[i].age >= 0
    BY MenuTypes, Fades
  <2> QED
    BY <1>1, <2>1, <2>2 DEF Unraced, Hiding
<1>5. WantedIsNext'
  BY <1>1 DEF WantedIsNext, InRange, Hiding
<1> QED
  BY <1>1, <1>2, <1>3, <1>4, <1>5 DEF MenuInv

\* A name not given yet is one of a bind.
LEMMA NewUuid ==
  ASSUME pool \subseteq Uuids, Uuids # pool
  PROVE  Min(Uuids \ pool) \in Uuids \ pool
<1>1. Uuids \ pool \subseteq Nat /\ Uuids \ pool # {}
  <2>1. Uuids = 1..Cardinality(Uuids) /\ Cardinality(Uuids) \in Nat
    BY MainWindowAssumption, SubmenuAssumption, FS_CardinalityType
  <2>2. Uuids \subseteq Nat
    BY <2>1
  <2> QED
    BY <2>2
<1>2. \E n \in Uuids \ pool : \A m \in Uuids \ pool : n <= m
  BY <1>1, Least
<1> QED
  BY <1>2 DEF Min

\* The button that adds a bind
LEMMA AddBindKeeps ==
  ASSUME NEW uuid \in Uuids, SubmenuTypeOK, MenuInv, AddBind(uuid)
  PROVE  SubmenuTypeOK' /\ MenuInv'
<1> DEFINE n == Len(entries)
<1>1. /\ uuid \notin pool /\ pool' = pool \cup {uuid} /\ binds' = Append(binds, uuid)
      /\ entries' = Append(entries, Entry(uuid))
      /\ time_clicked' = IF entries = <<>> THEN FadeIn ELSE 0
      /\ future_entry_index' = n /\ wanted' = uuid
      /\ seen' = FALSE /\ hasty' = (Hiding(entries) # {})
      /\ UNCHANGED <<current_entry_index, crashed, chosen, lost, raced>>
  BY DEF AddBind, Adds, Clicked, AtEnd
<1>2. /\ entries \in Seq(Entries) /\ binds \in Seq(Uuids) /\ n \in Nat /\ Len(binds) = n
      /\ \A i \in 1..n : entries[i].uuid = binds[i] /\ binds[i] \in pool
      /\ \A i, j \in 1..n : binds[i] = binds[j] => i = j
      /\ DOMAIN entries = 1..n /\ n \in 0..(SizeT - 1)
  BY MenuTypes, ParallelLengths, FewEntries DEF MenuInv
<1>3. Entry(uuid) \in Entries /\ Entry(uuid).uuid = uuid /\ Entry(uuid).age = Shown
  <2>1. Shown \in Shown..Over
    BY Fades
  <2> QED
    BY <2>1 DEF Entry, Entries
<1>4. /\ entries' \in Seq(Entries) /\ Len(entries') = n + 1
      /\ \A i \in 1..n : entries'[i] = entries[i]
      /\ entries'[n + 1] = Entry(uuid)
  BY <1>1, <1>2, <1>3, AppendProperties
<1>5. /\ binds' \in Seq(Uuids) /\ Len(binds') = n + 1
      /\ \A i \in 1..n : binds'[i] = binds[i]
      /\ binds'[n + 1] = uuid
  BY <1>1, <1>2, AppendProperties
<1>6. DOMAIN entries' = 1..(n + 1)
  BY <1>4, LenProperties
<1> HIDE DEF n
<1>7. Hiding(entries') = Hiding(entries)
  <2>1. \A i \in 1..(n + 1) : i \in 1..n \/ i = n + 1
    BY <1>2
  <2>2. 1..n \subseteq 1..(n + 1)
    BY <1>2
  <2>3. n + 1 \notin Hiding(entries')
    BY <1>3, <1>4 DEF Hiding
  <2> QED
    BY <1>2, <1>4, <1>6, <2>1, <2>2, <2>3 DEF Hiding
<1>8. SubmenuTypeOK'
  <2>1. time_clicked' \in 0..Over
    BY <1>1, Fades
  <2>2. pool' \subseteq Uuids /\ future_entry_index' \in 0..(SizeT - 1)
    BY <1>1, <1>2, MenuTypes
  <2> QED
    BY <1>1, <1>4, <1>5, <2>1, <2>2 DEF SubmenuTypeOK, Entries
<1>9. Parallel'
  <2>1. \A i \in 1..(n + 1) : entries'[i].uuid = binds'[i] /\ binds'[i] \in pool'
    <3> TAKE i \in 1..(n + 1)
    <3>1. CASE i \in 1..n
      BY <1>1, <1>2, <1>4, <1>5, <3>1
    <3>2. CASE i = n + 1
      BY <1>1, <1>3, <1>4, <1>5, <3>2
    <3> QED
      BY <1>2, <3>1, <3>2
  <2>2. \A i, j \in 1..(n + 1) : binds'[i] = binds'[j] => i = j
    <3>1. \A i \in 1..n : binds'[i] # uuid /\ binds'[i] = binds[i]
      BY <1>1, <1>2, <1>5
    <3>2. \A i \in 1..(n + 1) : i \in 1..n \/ i = n + 1
      BY <1>2
    <3> QED
      BY <1>2, <1>5, <3>1, <3>2
  <2>3. /\ binds' = [i \in DOMAIN entries' |-> entries'[i].uuid]
        /\ IsInjective(binds') /\ ToSet(binds') \subseteq pool'
    <3>1. /\ Len(binds') = Len(entries')
          /\ \A i \in 1..Len(entries') : entries'[i].uuid = binds'[i] /\ binds'[i] \in pool'
          /\ \A i, j \in 1..Len(entries') : binds'[i] = binds'[j] => i = j
      BY <1>4, <1>5, <2>1, <2>2
    <3>2. entries' \in Seq(Entries) /\ binds' \in Seq(Uuids)
      BY <1>4, <1>5
    <3> QED
      BY <3>1, <3>2, ParallelIs
  <2> QED
    BY <2>3 DEF Parallel
<1>10. ASSUME ~raced'
       PROVE  Unraced'
  <2>1. Unraced
    BY <1>1, <1>10 DEF MenuInv
  <2>2. ASSUME NEW i \in Hiding(entries')
        PROVE  /\ i = current_entry_index' + 1 /\ entries'[i].age >= time_clicked'
               /\ entries'[i].uuid \in chosen'
    <3>1. i \in Hiding(entries) /\ i \in 1..n /\ entries[i].age \in 0..Over
      BY <1>7, <2>2, MenuTypes DEF n
    <3>2. entries # <<>>
      BY <1>2, <3>1, EmptySeq DEF n
    <3>3. time_clicked' = 0
      BY <1>1, <3>2
    <3>4. entries'[i] = entries[i] /\ UNCHANGED <<current_entry_index, chosen>>
      BY <1>1, <1>4, <3>1
    <3>5. i = current_entry_index + 1 /\ entries[i].uuid \in chosen
      BY <2>1, <3>1 DEF Unraced
    <3>6. entries[i].age >= 0
      BY <3>1, Fades
    <3> QED
      BY <3>3, <3>4, <3>5, <3>6
  <2> QED
    BY <1>1, <2>1, <2>2 DEF Unraced
<1>11. WantedIsNext'
  <2> SUFFICES ASSUME ~hasty'
               PROVE  /\ Hiding(entries') = {} /\ n + 1 \in DOMAIN entries'
                      /\ entries'[n + 1].uuid = uuid
    BY <1>1 DEF WantedIsNext, InRange, n
  <2>1. Hiding(entries') = {}
    BY <1>1, <1>7
  <2>2. n + 1 \in DOMAIN entries'
    BY <1>2, <1>6
  <2>3. entries'[n + 1].uuid = uuid
    BY <1>3, <1>4
  <2> QED
    BY <2>1, <2>2, <2>3
<1> QED
  BY <1>1, <1>8, <1>9, <1>10, <1>11 DEF MenuInv

LEMMA MaxMinIs ==
  ASSUME NEW a \in Nat, NEW b \in Nat
  PROVE  Max({0, Min({a, b})}) = IF a <= b THEN a ELSE b
<1>1. Min({a, b}) = IF a <= b THEN a ELSE b
  BY DEF Min
<1>2. \A n \in Nat : Max({0, n}) = n
  BY DEF Max
<1> QED
  BY <1>1, <1>2

\* The index that is shown next has the width of an index.
LEMMA NextAvailableType ==
  ASSUME NEW size \in Nat, current_entry_index \in Nat
  PROVE  NextAvailable(size) \in 0..(SizeT - 1)
<1>1. SizeT \in Nat /\ SizeT > 0
  BY SubmenuAssumption, FS_CardinalityType
<1>2. \A n \in Int : n % SizeT \in 0..(SizeT - 1)
  BY <1>1
<1>3. /\ Wraps(current_entry_index - 1) \in 0..(SizeT - 1)
      /\ Wraps(size - 2) \in 0..(SizeT - 1)
  BY <1>2 DEF Wraps
<1> QED
  BY <1>1, <1>3, MaxMinIs DEF NextAvailable

\* The button that deletes the bind shown
LEMMA DeleteEntryKeeps ==
  ASSUME SubmenuTypeOK, MenuInv, DeleteEntry
  PROVE  SubmenuTypeOK' /\ MenuInv'
<1> DEFINE p == current_entry_index + 1
<1>1. /\ p \in DOMAIN entries /\ entries' = [entries EXCEPT ![p].age = 0]
      /\ time_clicked' = 0 /\ chosen' = chosen \cup {binds[p]}
      /\ future_entry_index' = NextAvailable(Len(entries)) /\ wanted' = NoUuid
      /\ seen' = FALSE /\ hasty' = (Hiding(entries) # {})
      /\ UNCHANGED <<current_entry_index, binds, pool, crashed, lost, raced>>
  BY DEF DeleteEntry, Hides, Clicked, InRange
<1>2. /\ entries \in Seq(Entries) /\ Len(entries) \in Nat /\ binds \in Seq(Uuids)
      /\ Len(binds) = Len(entries) /\ DOMAIN entries = 1..Len(entries)
      /\ \A i \in 1..Len(entries) :
           entries[i] \in Entries /\ entries[i].uuid = binds[i] /\ binds[i] \in Uuids
  BY MenuTypes, ParallelLengths DEF MenuInv
<1>3. p \in 1..Len(entries)
  BY <1>1, <1>2
<1>4. /\ entries' \in Seq(Entries) /\ Len(entries') = Len(entries)
      /\ \A i \in 1..Len(entries) : /\ entries'[i].uuid = entries[i].uuid
                                    /\ i # p => entries'[i] = entries[i]
      /\ entries'[p].age = 0
  <2>1. [entries[p] EXCEPT !.age = 0] = [uuid |-> entries[p].uuid, age |-> 0]
        /\ [uuid |-> entries[p].uuid, age |-> 0] \in Entries
    BY <1>2, <1>3, Fades DEF Entries
  <2> DEFINE es == [i \in 1..Len(entries) |->
                     IF i = p THEN [uuid |-> entries[p].uuid, age |-> 0] ELSE entries[i]]
  <2>2. entries' = es
    BY <1>1, <1>2, <1>3, <2>1
  <2>3. es \in [1..Len(entries) -> Entries]
    BY <1>2, <2>1
  <2>4. es \in Seq(Entries) /\ Len(es) = Len(entries)
    BY <1>2, <2>3, FunctionIsSeq
  <2>5. /\ \A i \in 1..Len(entries) : es[i].uuid = entries[i].uuid /\ (i # p => es[i] = entries[i])
        /\ es[p].age = 0
    BY <1>3
  <2> HIDE DEF es
  <2> QED
    BY <2>2, <2>4, <2>5
<1>5. DOMAIN entries' = 1..Len(entries)
  BY <1>4, LenProperties
<1> HIDE DEF p
<1>6. SubmenuTypeOK'
  <2>1. time_clicked' \in 0..Over /\ chosen' \subseteq Uuids
    BY <1>1, <1>2, <1>3, MenuTypes, Fades
  <2>2. future_entry_index' \in 0..(SizeT - 1)
    BY <1>1, <1>2, MenuTypes, NextAvailableType
  <2> QED
    BY <1>1, <1>4, <2>1, <2>2 DEF SubmenuTypeOK, Entries
<1>7. Parallel'
  <2>1. /\ Len(binds) = Len(entries')
        /\ \A i \in 1..Len(entries') : entries'[i].uuid = binds[i] /\ binds[i] \in pool
        /\ \A i, j \in 1..Len(entries') : binds[i] = binds[j] => i = j
    BY <1>4, ParallelLengths DEF MenuInv
  <2>2. /\ binds = [i \in DOMAIN entries' |-> entries'[i].uuid]
        /\ IsInjective(binds) /\ ToSet(binds) \subseteq pool
    BY <1>2, <1>4, <2>1, ParallelIs
  <2> QED
    BY <1>1, <2>2 DEF Parallel
<1>8. ASSUME ~raced'
      PROVE  Unraced'
  <2>1. Unraced
    BY <1>1, <1>8 DEF MenuInv
  <2>2. ASSUME NEW i \in Hiding(entries')
        PROVE  /\ i = current_entry_index' + 1 /\ entries'[i].age >= time_clicked'
               /\ entries'[i].uuid \in chosen'
    <3>1. i \in 1..Len(entries) /\ entries'[i].age # Shown
      BY <1>5, <2>2 DEF Hiding
    <3>2. i = p
      <4> SUFFICES ASSUME i # p
                   PROVE  FALSE
        OBVIOUS
      <4>1. i \in Hiding(entries)
        BY <1>2, <1>4, <3>1 DEF Hiding
      <4> QED
        BY <2>1, <4>1 DEF Unraced, p
    <3> QED
      BY <1>1, <1>2, <1>4, <3>1, <3>2 DEF p
  <2> QED
    BY <1>1, <2>1, <2>2 DEF Unraced
<1>9. WantedIsNext'
  BY <1>1 DEF WantedIsNext
<1> QED
  BY <1>1, <1>6, <1>7, <1>8, <1>9 DEF MenuInv

LEMMA SubmenuInitInv ==
  ASSUME NEW size \in 0..Cardinality(Uuids), SubmenuInit([i \in 1..size |-> i])
  PROVE  SubmenuTypeOK /\ MenuInv
<1> DEFINE bs == [i \in 1..size |-> i]
           es == [i \in 1..size |-> Entry(i)]
<1>1. /\ Cardinality(Uuids) \in Nat /\ SizeT \in Nat /\ SizeT > 0
      /\ Uuids = 1..Cardinality(Uuids)
  BY MainWindowAssumption, SubmenuAssumption, FS_CardinalityType
<1>2. size \in Nat /\ \A i \in 1..size : i \in Uuids
  BY <1>1
<1>3. bs \in Seq(Uuids) /\ Len(bs) = size /\ DOMAIN bs = 1..size
  BY <1>2, FunctionIsSeq
<1>4. es \in Seq(Entries) /\ Len(es) = size
      /\ \A i \in 1..size : es[i].uuid = i /\ es[i].age = Shown
  <2>1. Shown \in Shown..Over
    BY Fades
  <2>2. es \in [1..size -> Entries] /\ \A i \in 1..size : es[i].uuid = i /\ es[i].age = Shown
    BY <1>2, <2>1 DEF Entry, Entries
  <2>3. es \in Seq(Entries) /\ Len(es) = size
    BY <1>2, <2>2, FunctionIsSeq
  <2> QED
    BY <2>2, <2>3
<1>5. /\ binds = bs /\ entries = es /\ pool = ToSet(bs)
      /\ current_entry_index = 0 /\ future_entry_index = 0 /\ time_clicked = Over
      /\ crashed = FALSE /\ chosen = {} /\ lost = {} /\ wanted = NoUuid
      /\ seen = FALSE /\ hasty = FALSE /\ raced = FALSE
  BY DEF SubmenuInit
<1>6. pool \subseteq Uuids /\ \A i \in 1..size : bs[i] = i /\ bs[i] \in pool
  BY <1>2, <1>5 DEF ToSet
<1> HIDE DEF bs, es
<1>7. SubmenuTypeOK
  <2>1. 0 \in 0..(SizeT - 1) /\ Over \in 0..Over
    BY <1>1, Fades
  <2>2. entries \in Seq([uuid : Uuids, age : Shown..Over]) /\ binds \in Seq(Uuids)
    BY <1>3, <1>4, <1>5 DEF Entries
  <2> QED
    BY <1>5, <1>6, <2>1, <2>2 DEF SubmenuTypeOK
<1>8. Parallel
  <2>1. /\ Len(bs) = Len(es)
        /\ \A i \in 1..Len(es) : es[i].uuid = bs[i] /\ bs[i] \in pool
        /\ \A i, j \in 1..Len(es) : bs[i] = bs[j] => i = j
    BY <1>3, <1>4, <1>6
  <2>2. /\ bs = [i \in DOMAIN es |-> es[i].uuid]
        /\ IsInjective(bs) /\ ToSet(bs) \subseteq pool
    BY <1>3, <1>4, <2>1, ParallelIs
  <2> QED
    BY <1>5, <2>2 DEF Parallel
<1>9. Unraced
  BY <1>4, <1>5, LenProperties DEF Unraced, Hiding
<1> QED
  BY <1>5, <1>7, <1>8, <1>9 DEF MenuInv, WantedIsNext

-----------------------------------------------------------------------------
(* The window                                                              *)

IInv ==
  SubmenuTypeOK /\ MenuInv /\ SwitchersTypeOK /\ SwitchersInv /\ opened \in BOOLEAN

LEMMA SubmenuStutters ==
  ASSUME SubmenuTypeOK, MenuInv, UNCHANGED submenu
  PROVE  SubmenuTypeOK' /\ MenuInv'
<1>1. UNCHANGED <<entries, current_entry_index, future_entry_index, time_clicked, binds, pool,
                  crashed, chosen, lost, wanted, seen, hasty, raced>>
  BY DEF submenu, menu, history
<1>2. SubmenuTypeOK'
  BY <1>1 DEF SubmenuTypeOK
<1>3. Parallel' /\ (Unraced' <=> Unraced) /\ WantedIsNext'
  BY <1>1 DEF MenuInv, Parallel, Unraced, WantedIsNext, Hiding, InRange
<1> QED
  BY <1>1, <1>2, <1>3 DEF MenuInv

LEMMA SwitchersStutter ==
  ASSUME SwitchersTypeOK, SwitchersInv, UNCHANGED switchers
  PROVE  SwitchersTypeOK' /\ SwitchersInv'
  BY DEF switchers, SwitchersTypeOK, SwitchersInv, InOrder, Switching

LEMMA FrameKeeps ==
  ASSUME NEW before \in Delays, NEW between \in {0, 1}, NEW rounded \in BOOLEAN,
         IInv, Frame(before, between, rounded)
  PROVE  IInv'
<1>1. before \in Nat /\ between \in Nat /\ before + between \in Nat
  <2>1. before \in Nat /\ between \in Nat
    BY MainWindowAssumption
  <2> QED
    BY <2>1
<1>2. SubmenuTypeOK' /\ MenuInv'
  <2>1. CASE active_frame = BinderFrame
    BY <1>1, <2>1, RenderSubmenuKeeps DEF Frame, IInv
  <2>2. CASE active_frame # BinderFrame
    BY <1>1, <2>2, UnrenderedKeeps DEF Frame, IInv
  <2> QED
    BY <2>1, <2>2
<1>3. SwitchersTypeOK' /\ SwitchersInv'
  <2>1. CASE crashed'
    BY <2>1, SwitchersStutter DEF Frame, IInv
  <2>2. CASE ~crashed'
    BY <1>1, <2>2, RenderSwitchersKeeps DEF Frame, IInv
  <2> QED
    BY <2>1, <2>2
<1> QED
  BY <1>2, <1>3 DEF Frame, IInv

LEMMA UseMenuKeeps == IInv /\ UseMenu => IInv'
<1> SUFFICES ASSUME IInv, UseMenu
             PROVE  IInv'
  OBVIOUS
<1>1. SubmenuTypeOK' /\ MenuInv'
  <2>1. ASSUME NEW index \in 0..(Cardinality(Uuids) - 1), ClickEntry(index)
        PROVE  SubmenuTypeOK' /\ MenuInv'
    <3>1. index \in 0..(SizeT - 1)
      BY SubmenuAssumption, FS_CardinalityType
    <3> QED
      BY <2>1, <3>1, ClickEntryKeeps DEF IInv
  <2>2. CASE Uuids # pool /\ AddBind(Min(Uuids \ pool))
    <3>1. Min(Uuids \ pool) \in Uuids
      BY <2>2, NewUuid DEF IInv, SubmenuTypeOK
    <3> QED
      BY <2>2, <3>1, AddBindKeeps DEF IInv
  <2>3. CASE DeleteEntry
    BY <2>3, DeleteEntryKeeps DEF IInv
  <2> QED
    BY <2>1, <2>2, <2>3 DEF UseMenu
<1>2. SwitchersTypeOK' /\ SwitchersInv'
  BY SwitchersStutter DEF UseMenu, IInv
<1> QED
  BY <1>1, <1>2 DEF UseMenu, IInv

LEMMA InitInv == Init => IInv
<1> SUFFICES ASSUME Init
             PROVE  IInv
  OBVIOUS
<1>1. SubmenuTypeOK /\ MenuInv
  BY SubmenuInitInv DEF Init
<1> QED
  BY <1>1, SwitchersInitInv DEF Init, IInv

LEMMA StepInv == IInv /\ [Next]_vars => IInv'
<1> SUFFICES ASSUME IInv, [Next]_vars
             PROVE  IInv'
  OBVIOUS
<1>1. ASSUME NEW before \in Delays, NEW between \in {0, 1}, NEW rounded \in BOOLEAN,
             Frame(before, between, rounded)
      PROVE  IInv'
  BY <1>1, FrameKeeps
<1>2. CASE Open
  BY <1>2, SubmenuStutters, SwitchersStutter DEF Open, IInv
<1>3. CASE Close
  BY <1>3, SubmenuStutters, SwitchersStutter DEF Close, IInv
<1>4. ASSUME NEW ticks \in Delays \ {0}, Wait(ticks)
      PROVE  IInv'
  <2>1. ticks \in Nat
    BY MainWindowAssumption
  <2> QED
    BY <1>4, <2>1, UnrenderedKeeps, UnrenderedSwitchersKeeps DEF Wait, IInv
<1>5. CASE UseMenu
  BY <1>5, UseMenuKeeps
<1>6. CASE UseSwitchers
  BY <1>6, SubmenuStutters, ClickSwitcherKeeps DEF UseSwitchers, IInv
<1>7. CASE UNCHANGED vars
  BY <1>7, SubmenuStutters, SwitchersStutter DEF vars, IInv
<1> QED
  BY <1>1, <1>2, <1>3, <1>4, <1>5, <1>6, <1>7 DEF Next

\* IInv holds in every state of the window, whatever the user presses and however
\* far apart its frames are.
THEOREM Invariance == Spec => []IInv
  BY InitInv, StepInv, PTL DEF Spec

\* Indices keep their width, the clocks of the fades their range, and the entries
\* are of uuids of binds: what render_menu and handle_frame_switching work on.
THEOREM TypeCorrect == Spec => []TypeOK
<1>1. IInv => TypeOK
  BY DEF IInv, TypeOK
<1> QED
  BY <1>1, Invariance, PTL

\* The binds of the configuration, the entries of the menu and the hotkeys stay
\* parallel through add_callback, remove_current_entry_animated and
\* on_entry_destroyed, also when a frame destroys several entries, or another than
\* the one that was hiding.
THEOREM BindsParallel == Spec => []Parallel
<1>1. IInv => Parallel
  BY DEF IInv, MenuInv
<1> QED
  BY <1>1, Invariance, PTL

\* Until an entry outlives its fade (which it may, as current_entry_index moves
\* before the entry is erased), a frame destroys only what the user chose to delete
\* and never erases past the end.
THEOREM DeletesOnlyChosen == Spec => []DeletesUnraced
<1>1. IInv => DeletesUnraced
  BY DEF IInv, MenuInv, Unraced, DeletesUnraced
<1> QED
  BY <1>1, Invariance, PTL

\* Once a frame came while a click counted, the menu shows the entry that was
\* clicked or added last, whatever was deleted before.
THEOREM WantedShown == Spec => []ShowsWanted
<1>1. IInv => ShowsWanted
  BY DEF IInv, MenuInv, WantedIsNext, ShowsWanted
<1> QED
  BY <1>1, Invariance, PTL

\* When no button is switching, the frame last asked for is shown in full, unless
\* the switch was disturbed, whichever buttons were pressed during other switches.
THEOREM FramesSwitched == Spec => []SwitchesFrames
<1>1. IInv => SwitchesFrames
  BY InvSwitchesFrames DEF IInv
<1> QED
  BY <1>1, Invariance, PTL
=============================================================================

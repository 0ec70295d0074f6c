--------------------------- MODULE HotkeysProofs ---------------------------
(***************************************************************************)
(* What a press of keys may call, and whose the keyboard is, proved for    *)
(* any pool of hotkeys, with any binds, and any keys.                      *)
(***************************************************************************)
EXTENDS Hotkeys, TLAPS

\* A flag says that its key is down, or that nobody was told of its release.
FlagsAreHeld ==
  \A h \in Hotkeys :
    /\ first_down[h] /\ bind[h][1] # 0 => bind[h][1] \in held \cup unseen
    /\ second_down[h] /\ bind[h][2] # 0 => bind[h][2] \in held \cup unseen

\* A hotkey that was called keeps both flags until a key of it is released, or
\* its bind changes: nothing else clears them.
FiredAreActive == \A h \in fired : Active(h)

IInv == TypeOK /\ FlagsAreHeld /\ FiredAreActive /\ HeldWhenCalled /\ CapturedByOwner

-----------------------------------------------------------------------------
(* Binds                                                                   *)

LEMMA BindParts ==
  ASSUME NEW b \in Binds
  PROVE  /\ b[1] \in {0} \cup Keys /\ b[2] \in {0} \cup Keys
         /\ b = <<b[1], b[2]>> /\ (b[1] = b[2] => b[1] = 0)
  BY DEF Binds

LEMMA PairIsBind ==
  ASSUME NEW i \in {0} \cup Keys, NEW j \in {0} \cup Keys, i = j => i = 0
  PROVE  <<i, j>> \in Binds
  BY DEF Binds

LEMMA NoKeysIsBind == NoKeys \in Binds
  BY PairIsBind DEF NoKeys

\* write_current_keys never holds a key twice.
LEMMA WrittenIsBind ==
  ASSUME NEW b \in Binds, NEW k \in Keys
  PROVE  WithKey(b, k) \in Binds /\ WithoutKey(b, k) \in Binds
<1>1. /\ b[1] \in {0} \cup Keys /\ b[2] \in {0} \cup Keys /\ k # 0
      /\ (b[1] = b[2] => b[1] = 0)
  BY BindParts, HotkeysAssumption
<1>2. WithKey(b, k) \in Binds
  <2>1. CASE b[1] = 0 /\ k # b[2]
    BY <1>1, <2>1, PairIsBind DEF WithKey
  <2>2. CASE ~(b[1] = 0 /\ k # b[2]) /\ b[2] = 0 /\ k # b[1]
    BY <1>1, <2>2, PairIsBind DEF WithKey
  <2>3. CASE ~(b[1] = 0 /\ k # b[2]) /\ ~(b[2] = 0 /\ k # b[1])
    BY <2>3 DEF WithKey
  <2> QED
    BY <2>1, <2>2, <2>3
<1>3. WithoutKey(b, k) \in Binds
  <2> DEFINE i == IF b[1] = k THEN 0 ELSE b[1]
             j == IF b[2] = k THEN 0 ELSE b[2]
  <2>1. i \in {0} \cup Keys /\ j \in {0} \cup Keys /\ (i = j => i = 0)
    BY <1>1
  <2>2. WithoutKey(b, k) = <<i, j>>
    BY DEF WithoutKey
  <2> HIDE DEF i, j
  <2> QED
    BY <2>1, <2>2, PairIsBind
<1> QED
  BY <1>2, <1>3

LEMMA KeysOfBind ==
  ASSUME NEW b \in Binds, NEW S, b[1] # 0 => b[1] \in S, b[2] # 0 => b[2] \in S
  PROVE  KeysOf(b) \subseteq S
  BY DEF KeysOf

-----------------------------------------------------------------------------
(* Key messages                                                            *)

\* The hotkeys that a key calls: their keys are down, and they were not active.
LEMMA CalledHotkeys ==
  ASSUME IInv, NEW k \in Keys, NEW usable \in SUBSET Hotkeys,
         NEW h \in CalledBy(k, usable)
  PROVE  /\ h \in Hotkeys /\ ~Active(h)
         /\ bind[h][1] # 0 => bind[h][1] \in held \cup {k} \cup unseen
         /\ bind[h][2] # 0 => bind[h][2] \in held \cup {k} \cup unseen
<1>1. PICK i \in 1..Len(Pool) : h = Pool[i] /\ Stops(Pool[i], k, usable) /\ ~Active(Pool[i])
  BY DEF CalledBy, StopsAt
<1>2. h \in Hotkeys
  BY <1>1, HotkeysAssumption
<1>3. bind[h] \in Binds /\ FlagsAreHeld /\ Completes(h, k)
  BY <1>1, <1>2 DEF IInv, TypeOK, Stops
<1>4. CASE bind[h] \in {<<k, 0>>, <<0, k>>}
  BY <1>1, <1>2, <1>4
<1>5. CASE k = bind[h][2] /\ first_down[h] /\ ~second_down[h]
  BY <1>1, <1>2, <1>3, <1>5 DEF FlagsAreHeld
<1>6. CASE k = bind[h][1] /\ second_down[h] /\ ~first_down[h]
  BY <1>1, <1>2, <1>3, <1>6 DEF FlagsAreHeld
<1> QED
  BY <1>3, <1>4, <1>5, <1>6 DEF Completes

LEMMA KeyDownKeeps ==
  ASSUME IInv, NEW k \in Keys, NEW usable \in SUBSET Hotkeys, KeyDown(k, usable),
         held' = held \cup {k}, UNCHANGED <<bind, unseen>>
  PROVE  /\ first_down' \in [Hotkeys -> BOOLEAN] /\ second_down' \in [Hotkeys -> BOOLEAN]
         /\ fired' \subseteq Hotkeys /\ called' \in Hotkeys \cup {None}
         /\ FlagsAreHeld' /\ FiredAreActive' /\ HeldWhenCalled'
         /\ called' # None => called' \notin fired
<1>1. /\ first_down \in [Hotkeys -> BOOLEAN] /\ second_down \in [Hotkeys -> BOOLEAN]
      /\ fired \subseteq Hotkeys /\ bind \in [Hotkeys -> Binds]
      /\ FlagsAreHeld /\ FiredAreActive
  BY DEF IInv, TypeOK
<1>2. /\ first_down' \in [Hotkeys -> BOOLEAN] /\ second_down' \in [Hotkeys -> BOOLEAN]
  <2>1. first_down' \in [Hotkeys -> BOOLEAN]
    BY DEF KeyDown
  <2>2. second_down' \in [Hotkeys -> BOOLEAN]
    BY DEF KeyDown
  <2> QED
    BY <2>1, <2>2
<1>3. fired' \subseteq Hotkeys /\ called' \in Hotkeys \cup {None}
  BY <1>1, CalledHotkeys DEF KeyDown
<1>4. FlagsAreHeld'
  <2> SUFFICES ASSUME NEW h \in Hotkeys
               PROVE  /\ first_down'[h] /\ bind[h][1] # 0
                           => bind[h][1] \in held \cup {k} \cup unseen
                      /\ second_down'[h] /\ bind[h][2] # 0
                           => bind[h][2] \in held \cup {k} \cup unseen
    BY DEF FlagsAreHeld
  <2>1. first_down'[h] => first_down[h] \/ h \in CalledBy(k, usable) \/ k = bind[h][1]
    BY DEF KeyDown
  <2>2. second_down'[h] => second_down[h] \/ h \in CalledBy(k, usable) \/ k = bind[h][2]
    BY DEF KeyDown
  <2> QED
    BY <1>1, <2>1, <2>2, CalledHotkeys DEF FlagsAreHeld
<1>5. FiredAreActive'
  <2> SUFFICES ASSUME NEW h \in fired' PROVE first_down'[h] /\ second_down'[h]
    BY DEF FiredAreActive, Active
  <2>1. h \in Hotkeys /\ (Active(h) \/ h \in CalledBy(k, usable))
    BY <1>1, <1>3 DEF KeyDown, FiredAreActive
  <2> QED
    BY <2>1 DEF KeyDown, Active
<1>6. HeldWhenCalled'
  <2> SUFFICES ASSUME called' # None
               PROVE  KeysOf(bind[called']) \subseteq held \cup {k} \cup unseen
    BY DEF HeldWhenCalled
  <2>1. called' \in CalledBy(k, usable) /\ bind[called'] \in Binds
    BY <1>1, CalledHotkeys DEF KeyDown
  <2> QED
    BY <2>1, CalledHotkeys, KeysOfBind
<1>7. called' # None => called' \notin fired
  BY <1>1, CalledHotkeys DEF KeyDown, FiredAreActive
<1> QED
  BY <1>2, <1>3, <1>4, <1>5, <1>6, <1>7

LEMMA KeyUpKeeps ==
  ASSUME IInv, NEW k \in Keys, KeyUp(k), held' = held \ {k}, UNCHANGED bind
  PROVE  /\ first_down' \in [Hotkeys -> BOOLEAN] /\ second_down' \in [Hotkeys -> BOOLEAN]
         /\ fired' \subseteq Hotkeys /\ called' = None /\ unseen' \subseteq Keys
         /\ FlagsAreHeld' /\ FiredAreActive'
<1>1. /\ first_down \in [Hotkeys -> BOOLEAN] /\ second_down \in [Hotkeys -> BOOLEAN]
      /\ fired \subseteq Hotkeys /\ unseen \subseteq Keys /\ FlagsAreHeld /\ FiredAreActive
      /\ k # 0
  BY HotkeysAssumption DEF IInv, TypeOK
<1>2. /\ first_down' = [h \in Hotkeys |-> first_down[h] /\ bind[h][1] # k]
      /\ second_down' = [h \in Hotkeys |-> second_down[h] /\ bind[h][2] # k]
      /\ fired' = {h \in fired : k \notin KeysOf(bind[h])}
      /\ unseen' = unseen \ {k} /\ called' = None
  BY DEF KeyUp
<1>3. FlagsAreHeld'
  BY <1>1, <1>2 DEF FlagsAreHeld
<1>4. FiredAreActive'
  <2> SUFFICES ASSUME NEW h \in fired' PROVE first_down'[h] /\ second_down'[h]
    BY DEF FiredAreActive, Active
  <2>1. h \in Hotkeys /\ first_down[h] /\ second_down[h] /\ k \notin KeysOf(bind[h])
    BY <1>1, <1>2 DEF FiredAreActive, Active
  <2> QED
    BY <1>1, <1>2, <2>1 DEF KeysOf
<1>5. first_down' \in [Hotkeys -> BOOLEAN] /\ second_down' \in [Hotkeys -> BOOLEAN]
  BY <1>2
<1> QED
  BY <1>1, <1>2, <1>3, <1>4, <1>5

\* Nobody is told of the message.
LEMMA UntoldKeeps ==
  ASSUME IInv, UNCHANGED <<bind, flags, fired>>, called' = None,
         held \cup unseen \subseteq held' \cup unseen'
  PROVE  FlagsAreHeld' /\ FiredAreActive' /\ HeldWhenCalled'
  BY DEF IInv, FlagsAreHeld, FiredAreActive, Active, HeldWhenCalled, flags

LEMMA KeyGoesDownStep ==
  ASSUME IInv, NEW k \in Keys, NEW arrives \in BOOLEAN, NEW usable \in SUBSET Hotkeys,
         KeyGoesDown(k, arrives, usable)
  PROVE  IInv' /\ (called' # None => called' \notin fired)
<1>1. /\ held' = held \cup {k} /\ UNCHANGED <<bind, new_bind, changing>>
      /\ UNCHANGED <<changing_any_hotkey, unseen>>
  BY DEF KeyGoesDown, buttons
<1>2. current_keys' \in Binds
  BY WrittenIsBind DEF KeyGoesDown, IInv, TypeOK
<1>3. CapturedByOwner'
  BY <1>1 DEF CapturedByOwner, IInv
<1>4. CASE arrives /\ ~changing_any_hotkey
  <2>1. KeyDown(k, usable)
    BY <1>4 DEF KeyGoesDown
  <2>2. TypeOK'
    BY <1>1, <1>2, <2>1, KeyDownKeeps DEF IInv, TypeOK
  <2> QED
    BY <1>1, <1>3, <2>1, <2>2, KeyDownKeeps DEF IInv
<1>5. CASE ~(arrives /\ ~changing_any_hotkey)
  <2>1. called' = None /\ UNCHANGED <<flags, fired>>
    BY <1>5 DEF KeyGoesDown
  <2>2. FlagsAreHeld' /\ FiredAreActive' /\ HeldWhenCalled'
    BY <1>1, <2>1, UntoldKeeps
  <2>3. TypeOK'
    BY <1>1, <1>2, <2>1 DEF IInv, TypeOK, flags
  <2> QED
    BY <1>3, <2>1, <2>2, <2>3 DEF IInv
<1> QED
  BY <1>4, <1>5

LEMMA KeyGoesUpStep ==
  ASSUME IInv, NEW k \in Keys, NEW arrives \in BOOLEAN, KeyGoesUp(k, arrives)
  PROVE  IInv' /\ called' = None
<1>1. /\ held' = held \ {k} /\ UNCHANGED <<bind, new_bind, changing>>
      /\ UNCHANGED changing_any_hotkey
  BY DEF KeyGoesUp, buttons
<1>2. current_keys' \in Binds
  BY WrittenIsBind DEF KeyGoesUp, IInv, TypeOK
<1>3. CapturedByOwner'
  BY <1>1 DEF CapturedByOwner, IInv
<1>4. CASE arrives /\ ~changing_any_hotkey
  <2>1. KeyUp(k)
    BY <1>4 DEF KeyGoesUp
  <2>2. TypeOK'
    BY <1>1, <1>2, <2>1, KeyUpKeeps DEF IInv, TypeOK
  <2>3. HeldWhenCalled'
    BY <1>1, <2>1, KeyUpKeeps DEF HeldWhenCalled
  <2> QED
    BY <1>1, <1>3, <2>1, <2>2, <2>3, KeyUpKeeps DEF IInv
<1>5. CASE ~(arrives /\ ~changing_any_hotkey)
  <2>1. called' = None /\ UNCHANGED <<flags, fired>> /\ unseen' = unseen \cup {k}
    BY <1>5 DEF KeyGoesUp
  <2>2. FlagsAreHeld' /\ FiredAreActive' /\ HeldWhenCalled'
    BY <1>1, <2>1, UntoldKeeps
  <2>3. TypeOK'
    BY <1>1, <1>2, <2>1 DEF IInv, TypeOK, flags
  <2> QED
    BY <1>3, <2>1, <2>2, <2>3 DEF IInv
<1> QED
  BY <1>4, <1>5

LEMMA EscapeStep == ASSUME IInv, Escape PROVE IInv' /\ called' = None
<1>1. /\ called' = None /\ changing_any_hotkey' = FALSE
      /\ UNCHANGED <<held, current_keys, bind, new_bind, changing, flags, unseen, fired>>
  BY DEF Escape, buttons
<1>2. FlagsAreHeld' /\ FiredAreActive' /\ HeldWhenCalled'
  BY <1>1, UntoldKeeps
<1> QED
  BY <1>1, <1>2 DEF IInv, TypeOK, CapturedByOwner, flags

-----------------------------------------------------------------------------
(* The buttons                                                             *)

Buttons ==
  [bind : Binds, new_bind : Binds, changing : BOOLEAN, any : BOOLEAN, fresh : BOOLEAN]

\* What a frame of h's button leaves: the keyboard is captured by h or as it
\* was, and only a fresh bind differs from the old one.
LEMMA DrawnButton ==
  ASSUME IInv, NEW h \in Hotkeys
  PROVE  LET drawn == Rendered(Button(h)) IN
         /\ drawn \in Buttons
         /\ drawn.any => changing_any_hotkey /\ drawn.changing = changing[h]
         /\ ~drawn.fresh => drawn.bind = bind[h]
<1>1. /\ bind[h] \in Binds /\ new_bind[h] \in Binds /\ changing[h] \in BOOLEAN
      /\ changing_any_hotkey \in BOOLEAN /\ current_keys \in Binds /\ NoKeys \in Binds
  BY NoKeysIsBind DEF IInv, TypeOK
<1> DEFINE b == Button(h)
<1>2. /\ b.bind = bind[h] /\ b.new_bind = new_bind[h] /\ b.changing = changing[h]
      /\ b.any = changing_any_hotkey /\ b.fresh = FALSE
      /\ b = [bind |-> bind[h], new_bind |-> new_bind[h], changing |-> changing[h],
              any |-> changing_any_hotkey, fresh |-> FALSE]
  BY DEF Button
<1>6. b \in Buttons
  BY <1>1, <1>2 DEF Buttons
<1>3. CASE ~changing[h]
  <2>1. Rendered(b) = b
    BY <1>2, <1>3 DEF Rendered
  <2> QED
    BY <1>2, <1>3, <1>6, <2>1
<1>4. CASE changing[h] /\ ~changing_any_hotkey
  <2>1. Rendered(b) = [b EXCEPT !.changing = FALSE]
    BY <1>2, <1>4 DEF Rendered
  <2> QED
    BY <1>1, <1>2, <1>4, <2>1 DEF Buttons, Button
<1>5. CASE changing[h] /\ changing_any_hotkey
  <2>1. Rendered(b) = Changed(b)
    BY <1>2, <1>5 DEF Rendered
  <2>2. \/ Changed(b) = [bind |-> new_bind[h], new_bind |-> NoKeys, changing |-> FALSE,
                         any |-> FALSE, fresh |-> TRUE]
        \/ Changed(b) = [b EXCEPT !.any = FALSE]
        \/ Changed(b) = [b EXCEPT !.new_bind = current_keys]
        \/ Changed(b) = b
    BY <1>2 DEF Changed
  <2>3. CASE Changed(b) = [bind |-> new_bind[h], new_bind |-> NoKeys, changing |-> FALSE,
                           any |-> FALSE, fresh |-> TRUE]
    BY <1>1, <2>1, <2>3 DEF Buttons
  <2>4. CASE Changed(b) = [b EXCEPT !.any = FALSE]
    BY <1>1, <1>2, <2>1, <2>4 DEF Buttons, Button
  <2>5. CASE Changed(b) = [b EXCEPT !.new_bind = current_keys]
    BY <1>1, <1>2, <1>5, <2>1, <2>5 DEF Buttons, Button
  <2>6. CASE Changed(b) = b
    BY <1>2, <1>5, <1>6, <2>1, <2>6
  <2> QED
    BY <2>2, <2>3, <2>4, <2>5, <2>6
<1> QED
  BY <1>1, <1>3, <1>4, <1>5

LEMMA ClickedButton ==
  ASSUME NEW button \in Buttons
  PROVE  LET clicked == Clicked(button) IN
         /\ clicked \in Buttons /\ clicked.bind = button.bind
         /\ clicked.fresh = button.fresh /\ clicked.new_bind = button.new_bind
         /\ ~button.any => clicked.any /\ clicked.changing
         /\ button.any => clicked = button
  BY DEF Clicked, Buttons

LEMMA RenderStep ==
  ASSUME IInv, NEW h \in Hotkeys, NEW clicked \in BOOLEAN, Render(h, clicked)
  PROVE  IInv' /\ called' = None
<1> DEFINE drawn == Rendered(Button(h))
           button == IF clicked THEN Clicked(drawn) ELSE drawn
<1>1. /\ drawn \in Buttons
      /\ drawn.any => changing_any_hotkey /\ drawn.changing = changing[h]
      /\ ~drawn.fresh => drawn.bind = bind[h]
  BY DrawnButton
<1>2. /\ button \in Buttons
      /\ button.any =>
           button.changing \/ (changing_any_hotkey /\ button.changing = changing[h])
      /\ ~button.fresh => button.bind = bind[h]
  <2> HIDE DEF drawn
  <2>1. CASE clicked
    <3>1. /\ button = Clicked(drawn) /\ Clicked(drawn) \in Buttons
          /\ Clicked(drawn).bind = drawn.bind /\ Clicked(drawn).fresh = drawn.fresh
          /\ ~drawn.any => Clicked(drawn).changing
          /\ drawn.any => Clicked(drawn) = drawn
      BY <1>1, <2>1, ClickedButton
    <3> QED
      BY <1>1, <3>1
  <2>2. CASE ~clicked
    BY <1>1, <2>2
  <2> QED
    BY <2>1, <2>2
<1>3. /\ bind' = [bind EXCEPT ![h] = button.bind]
      /\ new_bind' = [new_bind EXCEPT ![h] = button.new_bind]
      /\ changing' = [changing EXCEPT ![h] = button.changing]
      /\ changing_any_hotkey' = button.any
      /\ first_down' = [first_down EXCEPT ![h] = first_down[h] /\ ~button.fresh]
      /\ second_down' = [second_down EXCEPT ![h] = second_down[h] /\ ~button.fresh]
      /\ fired' = IF button.fresh THEN fired \ {h} ELSE fired
      /\ called' = None
      /\ UNCHANGED <<held, current_keys, unseen>>
  BY DEF Render
<1> HIDE DEF button
<1>4. TypeOK /\ FlagsAreHeld /\ FiredAreActive /\ CapturedByOwner
  BY DEF IInv
<1>5. button.bind \in Binds /\ button.new_bind \in Binds /\ button.changing \in BOOLEAN
      /\ button.any \in BOOLEAN /\ button.fresh \in BOOLEAN
  BY <1>2 DEF Buttons
<1>6. TypeOK'
  <2>1. bind' \in [Hotkeys -> Binds] /\ new_bind' \in [Hotkeys -> Binds]
    BY <1>3, <1>4, <1>5 DEF TypeOK
  <2>2. changing' \in [Hotkeys -> BOOLEAN] /\ changing_any_hotkey' \in BOOLEAN
    BY <1>3, <1>4, <1>5 DEF TypeOK
  <2>3. first_down' \in [Hotkeys -> BOOLEAN] /\ second_down' \in [Hotkeys -> BOOLEAN]
    BY <1>3, <1>4 DEF TypeOK
  <2>4. fired' \subseteq Hotkeys /\ called' \in Hotkeys \cup {None}
    BY <1>3, <1>4 DEF TypeOK
  <2> QED
    BY <1>3, <1>4, <2>1, <2>2, <2>3, <2>4 DEF TypeOK
<1>7. \A g \in Hotkeys :
        /\ first_down'[g] => first_down[g] /\ bind'[g] = bind[g]
        /\ second_down'[g] => second_down[g] /\ bind'[g] = bind[g]
  <2> SUFFICES ASSUME NEW g \in Hotkeys
               PROVE  /\ first_down'[g] => first_down[g] /\ bind'[g] = bind[g]
                      /\ second_down'[g] => second_down[g] /\ bind'[g] = bind[g]
    OBVIOUS
  <2>1. CASE g = h
    BY <1>2, <1>3, <1>4, <2>1 DEF TypeOK
  <2>2. CASE g # h
    BY <1>3, <1>4, <2>2 DEF TypeOK
  <2> QED
    BY <2>1, <2>2
<1>8. FlagsAreHeld'
  <2> SUFFICES ASSUME NEW g \in Hotkeys
               PROVE  /\ first_down'[g] /\ bind'[g][1] # 0
                           => bind'[g][1] \in held \cup unseen
                      /\ second_down'[g] /\ bind'[g][2] # 0
                           => bind'[g][2] \in held \cup unseen
    BY <1>3 DEF FlagsAreHeld
  <2>1. /\ first_down[g] /\ bind[g][1] # 0 => bind[g][1] \in held \cup unseen
        /\ second_down[g] /\ bind[g][2] # 0 => bind[g][2] \in held \cup unseen
    BY <1>4 DEF FlagsAreHeld
  <2> QED
    BY <1>7, <2>1
<1>9. FiredAreActive'
  <2> SUFFICES ASSUME NEW g \in fired' PROVE first_down'[g] /\ second_down'[g]
    BY DEF FiredAreActive, Active
  <2>1. g \in Hotkeys /\ first_down[g] /\ second_down[g] /\ (g = h => ~button.fresh)
    BY <1>3, <1>4 DEF FiredAreActive, Active, TypeOK
  <2>2. CASE g = h
    BY <1>3, <1>4, <2>1, <2>2 DEF TypeOK
  <2>3. CASE g # h
    BY <1>3, <1>4, <2>1, <2>3 DEF TypeOK
  <2> QED
    BY <2>2, <2>3
<1>10. CapturedByOwner'
  <2> SUFFICES ASSUME button.any PROVE \E g \in Hotkeys : changing'[g]
    BY <1>3 DEF CapturedByOwner
  <2>1. CASE button.changing
    BY <1>3, <1>4, <2>1 DEF TypeOK
  <2>2. CASE changing_any_hotkey /\ button.changing = changing[h]
    <3>1. PICK g \in Hotkeys : changing[g]
      BY <1>4, <2>2 DEF CapturedByOwner
    <3>2. changing'[g]
      BY <1>3, <1>4, <2>2, <3>1 DEF TypeOK
    <3> QED
      BY <3>2
  <2> QED
    BY <1>2, <2>1, <2>2
<1>11. HeldWhenCalled'
  BY <1>3 DEF HeldWhenCalled
<1> QED
  BY <1>3, <1>6, <1>8, <1>9, <1>10, <1>11 DEF IInv

LEMMA ClearStep ==
  ASSUME IInv, NEW h \in Hotkeys, Clear(h) PROVE IInv' /\ called' = None
<1>1. /\ bind' = [bind EXCEPT ![h] = NoKeys]
      /\ first_down' = [first_down EXCEPT ![h] = FALSE]
      /\ second_down' = [second_down EXCEPT ![h] = FALSE]
      /\ fired' = fired \ {h} /\ called' = None
      /\ UNCHANGED <<held, current_keys, changing_any_hotkey, new_bind, changing, unseen>>
  BY DEF Clear
<1>2. TypeOK /\ FlagsAreHeld /\ FiredAreActive /\ CapturedByOwner
  BY DEF IInv
<1>3. TypeOK'
  BY <1>1, <1>2, NoKeysIsBind DEF TypeOK
<1>4. FlagsAreHeld'
  BY <1>1, <1>2 DEF FlagsAreHeld, TypeOK
<1>5. FiredAreActive'
  BY <1>1, <1>2 DEF FiredAreActive, Active, TypeOK
<1>6. HeldWhenCalled' /\ CapturedByOwner'
  BY <1>1, <1>2 DEF HeldWhenCalled, CapturedByOwner
<1> QED
  BY <1>1, <1>3, <1>4, <1>5, <1>6 DEF IInv

-----------------------------------------------------------------------------
(* The theorems                                                            *)

LEMMA InitIInv == Init => IInv
<1> SUFFICES ASSUME Init PROVE IInv
  OBVIOUS
<1>1. TypeOK
  BY NoKeysIsBind, HotkeysAssumption DEF Init, TypeOK
<1>2. /\ \A h \in Hotkeys : first_down[h] = FALSE /\ second_down[h] = FALSE
      /\ fired = {} /\ called = None /\ changing_any_hotkey = FALSE
  BY DEF Init
<1> QED
  BY <1>1, <1>2
     DEF IInv, FlagsAreHeld, FiredAreActive, HeldWhenCalled, CapturedByOwner

\* A step keeps the invariant and calls no hotkey that was called since its keys
\* went down.
LEMMA Steps == ASSUME IInv, Next PROVE IInv' /\ (called' # None => called' \notin fired)
<1>1. CASE \E k \in Keys, arrives \in BOOLEAN, usable \in SUBSET Hotkeys :
              KeyGoesDown(k, arrives, usable)
  BY <1>1, KeyGoesDownStep
<1>2. CASE \E k \in Keys, arrives \in BOOLEAN : KeyGoesUp(k, arrives)
  BY <1>2, KeyGoesUpStep
<1>3. CASE Escape
  BY <1>3, EscapeStep
<1>4. CASE \E h \in Hotkeys, clicked \in BOOLEAN : Render(h, clicked)
  BY <1>4, RenderStep
<1>5. CASE \E h \in Hotkeys : Clear(h)
  BY <1>5, ClearStep
<1> QED
  BY <1>1, <1>2, <1>3, <1>4, <1>5, HotkeysAssumption DEF Next

LEMMA Stutters == ASSUME IInv, UNCHANGED vars PROVE IInv'
  BY DEF vars, buttons, flags, IInv, TypeOK, FlagsAreHeld, FiredAreActive, Active,
     HeldWhenCalled, CapturedByOwner

THEOREM Inductive == IInv /\ [Next]_vars => IInv'
  BY Steps, Stutters

\* The binds, the keys of a new one and the flags of every hotkey keep their
\* types: no bind holds a key twice.
THEOREM TypeCorrect == Spec => []TypeOK
<1>1. IInv => TypeOK
  BY DEF IInv
<1> QED
  BY <1>1, InitIInv, Inductive, PTL DEF Spec

\* A hotkey is called with its keys down, whatever other hotkeys learn of the
\* same keys, and whatever became of its bind, or with a release nobody was
\* told of.
THEOREM CalledWithKeys == Spec => []HeldWhenCalled
<1>1. IInv => HeldWhenCalled
  BY DEF IInv
<1> QED
  BY <1>1, InitIInv, Inductive, PTL DEF Spec

\* One press of its keys calls a hotkey once, in any pool.
THEOREM OneCallAPress == Spec => CalledOnce
<1>1. IInv /\ [Next]_vars => [called' # None => called' \notin fired]_vars
  BY Steps
<1> QED
  BY <1>1, InitIInv, Inductive, PTL DEF Spec, CalledOnce

\* The keyboard is captured only with a hotkey that is being changed, so that a
\* frame of its button, or Escape, gives it back.
THEOREM KeyboardHasOwner == Spec => []CapturedByOwner
<1>1. IInv => CapturedByOwner
  BY DEF IInv
<1> QED
  BY <1>1, InitIInv, Inductive, PTL DEF Spec
=============================================================================

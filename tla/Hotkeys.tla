------------------------------ MODULE Hotkeys ------------------------------
(***************************************************************************)
(* The hotkeys: gui::hotkey_handler, which turns key messages of the       *)
(* window into callbacks, and gui::hotkey::render, which lets the user     *)
(* press the keys of a new bind.  Messages and frames come one at a time.  *)
(*                                                                         *)
(* A bind is the pair of its keys, 0 where there is none; its modifiers    *)
(* and conditions are an input of each message: they hold or do not.       *)
(***************************************************************************)
EXTENDS Naturals, Sequences, SequencesExt, FiniteSets

CONSTANTS
  Pool,               \* hotkey_handler::pool, in its order
  Keys,               \* virtual keys, as positive numbers, without VK_ESCAPE
  DefaultBind,        \* the bind of each hotkey at the start
  Changeable          \* bound: the hotkeys whose button the user clicks

Binds == {b \in ({0} \cup Keys) \X ({0} \cup Keys) : b[1] = b[2] => b[1] = 0}
Hotkeys == ToSet(Pool)
None == "none"

ASSUME HotkeysAssumption ==
  /\ Pool \in Seq(Hotkeys)
  /\ Keys \subseteq Nat \ {0} /\ None \notin Hotkeys /\ Changeable \subseteq Hotkeys
  /\ DefaultBind \in [Hotkeys -> Binds]

VARIABLES
  held,               \* the keys that are physically down
  current_keys,
  changing_any_hotkey,
  bind, new_bind, changing,
  first_down, second_down,    \* internal_first_key_down, ..second_key_down
  unseen,             \* history: keys whose last release no hotkey was told of
  fired,              \* history: hotkeys called since a key of theirs was
                      \* released, or since their bind changed
  called              \* history: the hotkey the last message called

flags == <<first_down, second_down>>
buttons == <<bind, new_bind, changing>>
vars == <<held, current_keys, changing_any_hotkey, buttons, flags, unseen, fired, called>>

TypeOK ==
  /\ held \subseteq Keys /\ unseen \subseteq Keys
  /\ current_keys \in Binds
  /\ changing_any_hotkey \in BOOLEAN
  /\ bind \in [Hotkeys -> Binds] /\ new_bind \in [Hotkeys -> Binds]
  /\ changing \in [Hotkeys -> BOOLEAN]
  /\ first_down \in [Hotkeys -> BOOLEAN] /\ second_down \in [Hotkeys -> BOOLEAN]
  /\ fired \subseteq Hotkeys /\ called \in Hotkeys \cup {None}

NoKeys == <<0, 0>>

Init ==
  /\ held = {} /\ unseen = {} /\ current_keys = NoKeys
  /\ changing_any_hotkey = FALSE
  /\ bind = DefaultBind
  /\ new_bind = [h \in Hotkeys |-> NoKeys]
  /\ changing = [h \in Hotkeys |-> FALSE]
  /\ first_down = [h \in Hotkeys |-> FALSE]
  /\ second_down = [h \in Hotkeys |-> FALSE]
  /\ fired = {} /\ called = None

KeysOf(b) == {b[1], b[2]} \ {0}

-----------------------------------------------------------------------------
(* write_current_keys                                                      *)

WithKey(b, k) ==
  IF b[1] = 0 /\ k # b[2] THEN <<k, b[2]>>
  ELSE IF b[2] = 0 /\ k # b[1] THEN <<b[1], k>> ELSE b

WithoutKey(b, k) == <<IF b[1] = k THEN 0 ELSE b[1], IF b[2] = k THEN 0 ELSE b[2]>>

-----------------------------------------------------------------------------
(* hotkey_handler::on_event, of a key that goes down or repeats while no   *)
(* bind is changed.  `usable` are the hotkeys whose modifiers are down and *)
(* whose conditions hold.                                                  *)

NeverActive(h) == FALSE                                          \* mutant

Active(h) == first_down[h] /\ second_down[h]

\* The message completes h's bind: it is the only key, or the other is down.
Completes(h, k) ==
  \/ bind[h] \in {<<k, 0>>, <<0, k>>}
  \/ k = bind[h][2] /\ first_down[h] /\ ~second_down[h]
  \/ k = bind[h][1] /\ second_down[h] /\ ~first_down[h]

\* The loop returns at the first usable hotkey that is active or completed.
Stops(h, k, usable) ==
  bind[h] # NoKeys /\ h \in usable /\ (Active(h) \/ Completes(h, k))

StopsAt(k, usable) ==
  {i \in 1..Len(Pool) : /\ Stops(Pool[i], k, usable)
                        /\ \A j \in 1..(i - 1) : ~Stops(Pool[j], k, usable)}

\* Hotkeys before the one that stops the loop only learn of the key.
Passed(k, usable) ==
  {Pool[i] : i \in {i \in 1..Len(Pool) : \A j \in 1..i : ~Stops(Pool[j], k, usable)}}

CalledBy(k, usable) ==
  {Pool[i] : i \in {i \in StopsAt(k, usable) : ~Active(Pool[i])}}

KeyDown(k, usable) ==
  /\ \/ CalledBy(k, usable) = {} /\ called' = None
     \/ called' \in CalledBy(k, usable)
  /\ fired' = fired \cup CalledBy(k, usable)
  /\ first_down' = [h \in Hotkeys |->
       \/ first_down[h] \/ h \in CalledBy(k, usable)
       \/ h \in Passed(k, usable) /\ k = bind[h][1]]
  /\ second_down' = [h \in Hotkeys |->
       \/ second_down[h] \/ h \in CalledBy(k, usable)
       \/ h \in Passed(k, usable) /\ k = bind[h][2]]

\* ... and of a key that goes up: every hotkey is told.
KeyUpOfFirst(k) ==                                               \* mutant
  LET told == {Pool[i] : i \in {i \in 1..Len(Pool) :
                 \A j \in 1..(i - 1) : k \notin KeysOf(bind[Pool[j]])}}
  IN  /\ called' = None
      /\ fired' = {h \in fired : k \notin KeysOf(bind[h])}
      /\ first_down' = [h \in Hotkeys |->
                          first_down[h] /\ ~(h \in told /\ bind[h][1] = k)]
      /\ second_down' = [h \in Hotkeys |->
                           second_down[h] /\ ~(h \in told /\ bind[h][2] = k)]
      /\ unseen' = unseen \ {k}

KeyUp(k) ==
  /\ called' = None
  /\ fired' = {h \in fired : k \notin KeysOf(bind[h])}
  /\ first_down' = [h \in Hotkeys |-> first_down[h] /\ bind[h][1] # k]
  /\ second_down' = [h \in Hotkeys |-> second_down[h] /\ bind[h][2] # k]
  /\ unseen' = unseen \ {k}

-----------------------------------------------------------------------------
(* The messages of a key.  `arrives`: the window has the keyboard, and for *)
(* a key that goes down, no input of ImGui wants the text.                 *)

KeyGoesDown(k, arrives, usable) ==
  /\ held' = held \cup {k}
  /\ current_keys' = IF arrives THEN WithKey(current_keys, k) ELSE current_keys
  /\ IF arrives /\ ~changing_any_hotkey THEN KeyDown(k, usable)
     ELSE called' = None /\ UNCHANGED <<flags, fired>>
  /\ UNCHANGED <<changing_any_hotkey, buttons, unseen>>

KeyGoesUp(k, arrives) ==
  /\ k \in held /\ held' = held \ {k}
  /\ current_keys' = IF arrives THEN WithoutKey(current_keys, k) ELSE current_keys
  /\ IF arrives /\ ~changing_any_hotkey THEN KeyUp(k)
     ELSE called' = None /\ unseen' = unseen \cup {k} /\ UNCHANGED <<flags, fired>>
  /\ UNCHANGED <<changing_any_hotkey, buttons>>

\* Escape ends the change of a bind; at any other time it is no key of ours.
Escape ==
  /\ changing_any_hotkey /\ changing_any_hotkey' = FALSE
  /\ called' = None
  /\ UNCHANGED <<held, current_keys, buttons, flags, unseen, fired>>

-----------------------------------------------------------------------------
(* hotkey::render: a frame of one hotkey's button.  The settings draw most  *)
(* of the pool, the binder one hotkey, and often none is drawn.            *)

\* What render works on: members of the hotkey, changing_any_hotkey, and
\* whether its bind is a new one.
Button(h) == [bind |-> bind[h], new_bind |-> new_bind[h], changing |-> changing[h],
              any |-> changing_any_hotkey, fresh |-> FALSE]

\* join: the first key outweighs the second.
Above(a, b) == a[1] > b[1] \/ (a[1] = b[1] /\ a[2] > b[2])

\* is_bind_defined
Defined(b) == b # NoKeys /\ \E h \in Hotkeys : bind[h] = b

\* A frame of a bind that is changed: keys that nobody has are remembered,
\* and taken as soon as one of them is let go.
Changed(button) ==
  IF Above(button.new_bind, current_keys)
  THEN [bind |-> button.new_bind, new_bind |-> NoKeys, changing |-> FALSE,
        any |-> FALSE, fresh |-> TRUE]
  ELSE IF current_keys = button.bind /\ button.bind # NoKeys
  THEN [button EXCEPT !.any = FALSE]
  ELSE IF current_keys # NoKeys /\ ~Defined(current_keys)
  THEN [button EXCEPT !.new_bind = current_keys]
  ELSE button

RenderedForgets(button) ==                                       \* mutant
  IF ~button.changing THEN button
  ELSE [Changed(button) EXCEPT !.changing = FALSE]

Rendered(button) ==
  IF ~button.changing THEN button
  ELSE IF button.any THEN Changed(button)
  ELSE [button EXCEPT !.changing = FALSE]

Clicked(button) ==
  IF button.any THEN button ELSE [button EXCEPT !.any = TRUE, !.changing = TRUE]

Render(h, clicked) ==
  LET drawn == Rendered(Button(h))
      button == IF clicked THEN Clicked(drawn) ELSE drawn
  IN  /\ bind' = [bind EXCEPT ![h] = button.bind]
      /\ new_bind' = [new_bind EXCEPT ![h] = button.new_bind]
      /\ changing' = [changing EXCEPT ![h] = button.changing]
      /\ changing_any_hotkey' = button.any
      /\ first_down' = [first_down EXCEPT ![h] = @ /\ ~button.fresh]
      /\ second_down' = [second_down EXCEPT ![h] = @ /\ ~button.fresh]
      /\ fired' = IF button.fresh THEN fired \ {h} ELSE fired
      /\ called' = None
      /\ UNCHANGED <<held, current_keys, unseen>>

\* hint_renderer: the button that clears a bind.
Clear(h) ==
  /\ h \in Changeable /\ ~changing_any_hotkey
  /\ bind' = [bind EXCEPT ![h] = NoKeys]
  /\ first_down' = [first_down EXCEPT ![h] = FALSE]
  /\ second_down' = [second_down EXCEPT ![h] = FALSE]
  /\ fired' = fired \ {h} /\ called' = None
  /\ UNCHANGED <<held, current_keys, changing_any_hotkey, new_bind, changing, unseen>>

-----------------------------------------------------------------------------
Next ==
  \/ \E k \in Keys, arrives \in BOOLEAN :
       \/ \E usable \in SUBSET Hotkeys : KeyGoesDown(k, arrives, usable)
       \/ KeyGoesUp(k, arrives)
  \/ Escape
  \/ \E h \in Hotkeys : Render(h, FALSE)
  \/ \E h \in Changeable : Render(h, TRUE) \/ Clear(h)

Spec == Init /\ [][Next]_vars

-----------------------------------------------------------------------------
\* A hotkey is called only while its keys are down, unless a release of one of
\* them never reached the hotkeys.
HeldWhenCalled ==
  called # None => KeysOf(bind[called]) \subseteq held \cup unseen

\* One press, one call: keys that repeat, modifiers and conditions that come and
\* go, and other hotkeys do not make a hotkey call twice.
CalledOnce == [][called' # None => called' \notin fired]_vars

\* The keyboard is captured only while the button that will give it back knows.
CapturedByOwner == changing_any_hotkey => \E h \in Hotkeys : changing[h]
=============================================================================

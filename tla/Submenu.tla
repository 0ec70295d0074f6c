------------------------------ MODULE Submenu -------------------------------
(***************************************************************************)
(* The menu of the binder's frame: a list of entries of which one is shown *)
(* (widgets::submenu), kept in step with the array of binds in the         *)
(* configuration and with the pool of hotkeys (frames::binder).            *)
(*                                                                         *)
(* Time is counted in ticks, a point in time by how long ago it was.  A    *)
(* frame reads the clock twice: when it draws the menu, and when it draws  *)
(* the entry.  Indices are those of the code, from 0, and of width SizeT.  *)
(***************************************************************************)
EXTENDS Integers, SequencesExt

CONSTANTS
  Uuids,            \* of binds
  NoUuid,
  FadeIn, FadeOut,  \* fade_in_duration and fade_out_duration, in ticks
  SizeT             \* the number of values of std::size_t

ASSUME SubmenuAssumption ==
  /\ FadeIn \in Nat \ {0} /\ FadeOut \in Nat \ {0} /\ NoUuid \notin Uuids
  /\ IsFiniteSet(Uuids) /\ SizeT \in Nat /\ SizeT > Cardinality(Uuids) + 2

VARIABLES
  entries,            \* [uuid, age]: for how long it is hiding, or Shown
  current_entry_index, future_entry_index,
  time_clicked,
  binds,              \* uuids in the array "binds"
  pool,               \* uuids of the hotkeys
  crashed,            \* an exception has left render
  chosen, lost,       \* history: binds whose Delete was pressed; those that went without
  wanted,             \* history: the entry last clicked or added
  seen, hasty, raced  \* history: of that click a frame came while it counted; it
                      \* came while an entry went; an entry outlived its fade

menu == <<entries, current_entry_index, future_entry_index, time_clicked>>
history == <<chosen, lost, wanted, seen, hasty, raced>>
submenu == <<menu, binds, pool, crashed, history>>

Shown == -1
Over == FadeIn + FadeOut + 1
Older(age, ticks) == IF age = Shown THEN Shown ELSE Min({age + ticks, Over})
Aged(es, ticks) == [i \in DOMAIN es |-> [es[i] EXCEPT !.age = Older(@, ticks)]]
Hiding(es) == {i \in DOMAIN es : es[i].age # Shown}
Entry(uuid) == [uuid |-> uuid, age |-> Shown]
InRange(index) == index + 1 \in DOMAIN entries

SubmenuTypeOK ==
  /\ entries \in Seq([uuid : Uuids, age : Shown..Over])
  /\ current_entry_index \in 0..(SizeT - 1) /\ future_entry_index \in 0..(SizeT - 1)
  /\ time_clicked \in 0..Over
  /\ binds \in Seq(Uuids) /\ pool \subseteq Uuids /\ crashed \in BOOLEAN
  /\ chosen \subseteq Uuids /\ lost \subseteq Uuids /\ wanted \in Uuids \cup {NoUuid}
  /\ seen \in BOOLEAN /\ hasty \in BOOLEAN /\ raced \in BOOLEAN

\* The constructor of the frame, over the binds of the configuration
SubmenuInit(bs) ==
  /\ binds = bs /\ entries = [i \in DOMAIN bs |-> Entry(bs[i])] /\ pool = ToSet(bs)
  /\ current_entry_index = 0 /\ future_entry_index = 0 /\ time_clicked = Over
  /\ crashed = FALSE /\ chosen = {} /\ lost = {} /\ wanted = NoUuid
  /\ seen = FALSE /\ hasty = FALSE /\ raced = FALSE

-----------------------------------------------------------------------------
(* The user's buttons                                                      *)

Clicked(index, uuid) ==
  /\ future_entry_index' = index
  /\ wanted' = uuid /\ seen' = FALSE /\ hasty' = (Hiding(entries) # {})
  /\ UNCHANGED <<current_entry_index, crashed, lost, raced>>

\* The button of an entry, in render_entry
ClickEntry(index) ==
  /\ InRange(index) /\ index # future_entry_index
  /\ Clicked(index, entries[index + 1].uuid) /\ time_clicked' = 0
  /\ UNCHANGED <<entries, binds, pool, chosen>>

AddsFirst(uuid) ==                                                \* mutant
  /\ pool' = pool \cup {uuid} /\ binds' = <<uuid>> \o binds
  /\ entries' = Append(entries, Entry(uuid))

\* binder::add_callback: the hotkey, the bind, the entry
Adds(uuid) ==
  /\ pool' = pool \cup {uuid} /\ binds' = Append(binds, uuid)
  /\ entries' = Append(entries, Entry(uuid))

PastEnd == Len(entries) + 1                                       \* mutant
AtEnd == Len(entries)

AddBind(uuid) ==
  /\ uuid \notin pool /\ Adds(uuid)
  /\ Clicked(AtEnd, uuid)
  /\ time_clicked' = IF entries = <<>> THEN FadeIn ELSE 0
  /\ UNCHANGED chosen

Wraps(n) == n % SizeT
NextAvailable(size) == Max({0, Min({Wraps(current_entry_index - 1), Wraps(size - 2)})})

\* The button of the frame: remove_current_entry_animated
Hides(clicked) ==
  /\ InRange(current_entry_index)
  /\ entries' = [entries EXCEPT ![current_entry_index + 1].age = 0]
  /\ Clicked(NextAvailable(Len(entries)), NoUuid) /\ time_clicked' = clicked
  /\ chosen' = chosen \cup {binds[current_entry_index + 1]}
  /\ UNCHANGED <<binds, pool>>

HidesUnfaded == Hides(FadeIn)                                     \* mutant
DeleteEntry == Hides(0)

-----------------------------------------------------------------------------
(* A frame                                                                 *)

\* bring_to a full fade in floating point may leave a remainder.
Faded(age, rounded) == age > FadeIn \/ (age = FadeIn /\ ~rounded)

\* entries.erase and on_entry_destroyed.  The loop that draws the entries goes on
\* over the array as long as it was, so what the erasure leaves behind the last
\* entry is still drawn: `slots` is that array, of which `size` is in use.
EraseShown(m) ==
  IF current_entry_index >= m.size THEN [m EXCEPT !.crashed = TRUE]
  ELSE [m EXCEPT
    !.slots = [i \in DOMAIN @ |->
                 IF i > current_entry_index /\ i < m.size THEN @[i + 1] ELSE @[i]],
    !.size = @ - 1,
    !.binds = RemoveAt(@, current_entry_index + 1),
    !.lost = @ \cup ({m.binds[current_entry_index + 1]} \ chosen)]

\* render_entry
RenderEntry(m, i, rounded) ==
  IF ~m.crashed /\ m.slots[i].age # Shown /\ Faded(m.slots[i].age, rounded)
  THEN EraseShown(m) ELSE m

Unchanged(es) ==
  [slots |-> es, size |-> Len(es), binds |-> binds, lost |-> lost, crashed |-> crashed]

\* render_menu: what there is after the first i entries
Rendered(es, rounded) ==
  LET m[i \in 0..Len(es)] ==
        IF i = 0 THEN Unchanged(es) ELSE RenderEntry(m[i - 1], i, rounded)
  IN m

RenderMenu(es, rounded) == Rendered(es, rounded)[Len(es)]

Counts(age) == age >= FadeIn /\ age < Over

\* `before` ticks pass until the frame draws the menu, `between` until it draws the
\* entry (render_current_frame).
RenderSubmenu(before, between, rounded) ==
  LET m == RenderMenu(Aged(entries, before), rounded)
      age == Older(time_clicked, before + between)
  IN /\ entries' = Aged(SubSeq(m.slots, 1, m.size), between)
     /\ binds' = m.binds /\ lost' = m.lost /\ crashed' = m.crashed
     /\ time_clicked' = age
     /\ current_entry_index' =
          IF Counts(age) THEN future_entry_index ELSE current_entry_index
     /\ seen' = (seen \/ Counts(age))
     /\ raced' = (raced \/ (/\ Hiding(entries') # {} /\ age >= FadeIn
                           /\ ~Faded(Older(time_clicked, before), rounded)))
     /\ UNCHANGED <<future_entry_index, pool, chosen, wanted, hasty>>

\* Time without a frame of the binder
Unrendered(ticks) ==
  /\ entries' = Aged(entries, ticks) /\ time_clicked' = Older(time_clicked, ticks)
  /\ UNCHANGED <<current_entry_index, future_entry_index, binds, pool, crashed, history>>

-----------------------------------------------------------------------------
\* The array of the configuration, the menu and the hotkeys stay parallel, whatever
\* goes when: the frame edits the text of the entry it shows, and every bind has
\* a hotkey to call it.
Parallel ==
  /\ binds = [i \in DOMAIN entries |-> entries[i].uuid]
  /\ IsInjective(binds) /\ ToSet(binds) \subseteq pool

\* What is destroyed is what the user chose to delete, in remove_current_entry_animated
\* ("Remove currently selected entry", submenu.h).
DeletesChosen == lost = {}

\* ... unless an entry outlived its fade: only then another is destroyed for it, or
\* none is there to destroy.
DeletesUnraced == ~raced => lost = {} /\ ~crashed

\* From a frame that comes while the click counts, the menu shows what was clicked
\* or added last, and every other entry can be clicked, unless that click was hasty.
ShowsWanted ==
  seen /\ ~hasty /\ wanted # NoUuid =>
    /\ InRange(current_entry_index) /\ entries[current_entry_index + 1].uuid = wanted
    /\ future_entry_index = current_entry_index
=============================================================================

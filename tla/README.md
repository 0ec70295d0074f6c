# TLA+ models of GAdmin

GAdmin is a plugin for the SA:MP client of a role-play server, used by that
server's administrators. It has no protocol of its own with the server: it
reads the chat messages, dialogs, RPCs and packets that the server sends to the
game, hides some of them, answers them in the administrator's place, and sends
chat commands. Nearly everything that can go wrong lies in the order of those
messages, in what the administrator does in between, in the animations and
delays that separate a decision from its effect, and in the files that survive
a crash of the game.

Nearly all callbacks run on the game thread, one at a time: window messages, the
frame (`render`), the main loop (`loader.cpp:73`, the hooked game loop), and the
hooked RPC and packet handlers. The interleaving is that of callbacks with each
other, with messages in flight and with the clock, which a callback may read more
than once. Each model has one action per callback, with everything the callback
does. The server's RPCs are reliable and ordered: FIFO channels. The threads of
their own are the loader's and the one that downloads fonts; both are in `Lifecycle`.

## Inventory

The paths are under `src/src/plugin/` unless another is given.

| Component | State | Operations and messages | What makes it correct | Modules |
|---|---|---|---|---|
| Report window `gui/windows/report.cpp` | `active`, `closing`, `reset`, `window_alpha`, `dialog_active`, `dialog_id`, `searching_reports`, `current_report_type`, `current_report`, `current_response` | buttons, popup, ESC, two hotkeys, frames; two dialogs; three kinds of chat message | flags consistent; no read of an empty optional; the window's report is the server's; searching and forgetting end | `Report` |
| `server::user` `server/user.cpp` | `on_alogin`, `can_send_command`, `last_time_authorized` | authorization and logout messages, choice of a character, packets 32/36/37, main loop sends `/adm` | the status is the server's | `ALogin` |
| `server::admins` `server/admins.cpp` | `list` | the online dialog, chat lines of those who come and go, `server_quit`, `set_player_name`, `on_alogout` | the list is who is on `/alogin` | `ALogin` |
| `auto_alogout` `misc/features/auto_alogout.cpp` | `seconds_inactive`, `sent_warning_notification`, `game_focused` | focus messages, main loop | who stays away leaves `/alogin` | `ALogin` |
| Event handler `samp/network/event_handler.cpp` | `paused`, `time_left_from_pause`, hooks | every RPC and packet; nothing is dispatched for 500 ms after the game's menu closes | nothing is lost unnoticed | `ALogin` and `Chat` (the gate) |
| Command requester `gui/windows/command_requester.cpp` | `last_command`, `current_request`, `command_to_send` with their times | outgoing commands, refusals, requests and acceptances in the chat, hotkey, frames | only refused commands are requested, taken requests are withdrawn, accepted commands are run | `CommandRequester` |
| Spectator `server/spectator.cpp` | `active`, `id`, `previous_id`, `player`, stage, `checking_statistics`, `keys_down`, counts of shots, timers | menus, `spectating_player` and `_vehicle`, dialogs, 3D texts, synchronization packets, main loop | the player shown is the one spectated, and so is everything shown of him; no dialog of the user is swallowed | `Spectator` |
| Airbreak, clickwarp `cheats/*.cpp` | `cheat_active`, locks; `selecting_place_to_warp`, `teleport_information` | hotkey, mouse, main loop, frames, `on_alogin_new_state` | what was locked is unlocked; nothing acts off `/alogin` | `Cheats` |
| Wallhack, tracers `cheats/*.cpp` | name-tag settings of SA:MP; list of bullets | hotkeys, settings, packets, frames | the server's settings come back; the list is bounded | `Visuals` |
| GUI core `gui/gui.cpp` | `cursor_active`, `cursor_state_intercepted` | hooked `set_cursor_mode`, hotkey, windows | a cursor that was asked for is there, another is not | `Cursor` |
| Hotkeys `gui/hotkey.cpp` | pool, current keys, key-down flags, the bind being changed | key messages, frames of the settings | a press calls once, with its keys down; the keyboard is given back | `Hotkeys` |
| Main window `gui/windows/main/` | `active`, `closing`, `active_frame`, its alpha | hotkey, `/gadmin`, Escape, frames, buttons of the frames | the frame asked for is shown | `Cursor`, `Switchers`, `MainWindow` |
| Menu of binds and notes `main/widgets/submenu.cpp`, `main/frames/binder.cpp`, `notes.cpp` | `entries`, current and future index, `time_clicked`; the array in the configuration | click, add, delete, frames | menu and array stay parallel; only what was chosen is deleted; what was clicked is shown | `Submenu` |
| Binder `server/binder.cpp` | `messages`, `select_parameters` | hotkey, command, main loop | a call sends its own text | `Binder` |
| Configuration `configuration.cpp` | JSON tree, file, `last_time_saved` | read at start, saved every 5 min and at exit | survives a crash | `Storage`, `Lifecycle` |
| Statistics `misc/features/statistics.cpp` | entries per day, type and hour | counts; read at start, written by the destructor | what is read is the truth | `Storage`, `Lifecycle` |
| Updater, release note `src/src/loader/loader.cpp`, `src/src/common/network.cpp`, `gui/windows/release_information.cpp` | files | download, rename or copy, note, load | only what was downloaded to its end replaces the plugin; a note tells of an update that took place | `Downloads`, `Lifecycle` |
| Fonts `gui/fonts.cpp` | `missing_fonts`, files | a thread downloads what is missing | no frame without fonts | `Downloads`, `Lifecycle` |
| Dispatch and entry `plugin.cpp`, `plugin.h` | the globals | construction, destruction, order of the handlers, the frame and the main loop | - | the order is used by `ALogin`, `Cheats` and `Lifecycle` |
| Chat reassembly `samp/events/server_message.cpp` | a storage per listener | lines that wrap | every text is told once and whole | `Chat`, `Telling` |
| Notifications, information windows, other frames, widgets | what is selected, a queue of pictures | frames | drawing; each click writes one JSON value | - |
| Automatic login, chat features, other features | one flag at most | one message each | - | - |
| Game, SA:MP, memory wrappers, vendored RakNet | - | calls at fixed addresses | - | - |

How they interact: the server's messages reach `admins` before `user`, and both
before the windows. `user::set_alogin_state` calls the cheats, the features
and `admins::on_alogout`, and is called by `user`, by `admins` (the dialog,
and the removal of the user himself) and by `auto_alogout`. The windows, the
cheats and the spectator read `user::is_on_alogin()`. What the plugin sends passes its own hooks
(`on_dialog_response`, `on_send_command`) like what the administrator sends: a
line of a bind may be the command of another. The main window and clickwarp ask
for the cursor that SA:MP's own windows take. The binder's frame keeps one list in the
configuration, one in its menu and one in the pool of hotkeys. Everything reads the
configuration.

The behaviours that are hard to test, each with its line and the property that
watches it, are the `hazards` of `PROJECT.json`.

## Modules

Names are those of the code; an action is named for its handler. Variables marked
`history` in a module are read by no guard: they remember what a property needs, or
name the circumstances that a property exempts, which are listed below under
"Exemptions".

### `Report`

The window, the administrator and the server, for one administrator.

- The actions named `Show...` and `Message...` are the branches of
  `on_show_dialog` and `on_server_message`; a dialog's page stands for its
  texts. `Frame` is `render`: `window_alpha` is 0 or 1 because the code only
  asks whether it is 0. `Escape`, `SwitchWindow`, `TryAcceptLastReport`,
  `Click...`, `ChooseBlockTime` are what the administrator can do, guarded by what the
  drawn window accepts.
- A response the plugin sends also passes `on_dialog_response`
  (`TypeAfterResponse`): while the type is awaited it is taken for one.
- A read of a disengaged optional is recorded in `undefined`; the value read is
  any option.
- The server is external: page by page what the handlers expect of it. It drops
  responses to a dialog that is not the open one. The reporter may disconnect, another administrator may
  take a listed report.
- Constants choose the variant: `HasTypes` (junior administrators are first asked
  for the kind of report), `Manual` (SA:MP's own dialogs are used too), `Relogin`,
  `Patient` (the administrator waits for answers). `hasty` remembers that he has not.
- Left out: notifications, buttons that only write to the chat or into the answer, the keyboard
  focus, the cursor, and switching the window off in the settings while a
  report is open.

Known behaviour the model has and no property forbids: the closing animation draws a
`current_report` that the reporter's disconnection has emptied (`report.cpp:129`); a search
that is on when `/alogin` ends stays on for ever, and the hotkey does nothing
(`:394`). The other cases are those of a hasty administrator, who acts before the server's answer
is there, as he can: the closing animation ends before a slow answer comes. If he reopens the
window while the answer is in flight, `close_report` sets `reset` (`:439`) on a window that
is not closing, and it can no longer be closed, opened or answered. If he reopens
it and clicks a second option, the second page of options arrives when the first exchange has
spent `current_response`, and `*current_response` is read empty (`:210`); the report
can also be registered again after he returned it, and the window then shows a report that the server does
not have him working on.

### `ALogin`

Is the user on `/alogin`, and who else is.

- `OnAuthorized`, `OnUserLeft`: `user`; `OnAdminCame`, `OnAdminGone`, `OnMenu`,
  `OnOnlineDialog`: `admins`; `MainLoop`: `user::main_loop`, then
  `auto_alogout::main_loop`, in the order of one turn of the game loop.
- Time is abstract: `recent` is the 800 ms of `SERVER_COMMAND_DELAY_MS`, `second` says that a
  second has passed since the last count, `gated` is the 500 ms after the menu.
  `seconds_inactive` saturates one past both limits, where no comparison differs.
- `missed` is a history variable: a message passed while `gated`. Such messages
  are lost for the plugin; the properties about agreement exclude it
  explicitly, the others do not.
- The server asks `/adm` with the menu or directly with the list, as both occur.
- Left out: names and levels; each message is whole (`Chat` models the wrapping).

### `CommandRequester`

Several administrators who all run the plugin, and the server between them.

- `Send` is every outgoing command: `on_send_command` remembers it, and only
  commands of the table can be requested later. `OnRefused`, `OnRequest`,
  `OnTaken` are the branches of `on_server_message`; `Render` sends the delayed
  command and drops the expired request; `ApproveRequest` is the hotkey.
- A request is its sender and command. The text that withdraws it tells the
  type and the sender, so `Withdrawn` compares those.
- The 800 ms and 5 s are nondeterministic (`due`, `expired`).
- Left out: the syntax of parameters (`connected` is what else
  `try_parse_request` checks), lines wrapped by the chat.
- The level of the table is not a second condition: `CanUse` stands for both the
  table's and the server's.

Known: a refusal of something typed during the 800 ms after an acceptance
overwrites the accepted command (`command_requester.cpp:137`, `:262`), which
was announced and is then run by nobody; `Patient` excludes it. A request expires only
in `render`.

### `Spectator`

The session of `server::spectator`, with the server that answers its menu.

- RPCs are ordered; synchronization packets are not ordered with them and
  show a player as he is when they arrive (`OnSynchronization`, `OnBulletSynchronization`).
- `MainLoop` fetches the object of the player again when he is not streamed in, and
  chooses "reload" once a second until he is (`Reloads`). `TimerElapses` is the second
  after which the plugin chooses "statistics" itself and keeps the dialog from the user.
- The server is external (`Server...`): it shows the menu, says whom the user
  spectates, and answers options for the player it then has him spectate.
- 0 is the first value of `previous_id` and an ID like any other (`FirstId`): the runs watch
  the players 0 and 1, and the assumption on the players says only that they are natural numbers.
- `remove_3d_text` is dispatched to the handler of `create_3d_text` (`:431`), which reads an
  attached player that is not in the message: the stage is cleared or stays (`OnRemove3dText`).
- Left out: what is parsed from texts (health, weapons and so on), the joystick,
  the switch that hides the interface, and the use of a freed `remote_player` after a
  disconnection.

Known: player 0 is not assigned if he is the first to be spectated (`:186`): his ID is
the initial value of `previous_id`; the stage of death of one player is shown for the
next (`:404`), since the removal of his text is not told to `on_remove_3d_text`; the
client's object of the previous player is kept as long as he is streamed in (`:395`,
`:491`), and his armor, weapon and vehicle are shown for the new one; a session that
ends with the plugin's request for statistics in flight lets the next session swallow
a dialog (`cut`).

### `Hotkeys`

`hotkey_handler::on_event` for key messages, `hotkey::render` for the bind that is
changed, and its reset button.

- A bind is the pair of its keys; whether modifiers and conditions hold is an
  input of each message (`usable`). `KeyDown` is the loop over the pool, which stops
  at the first hotkey that is called or already down; `KeyUp` tells all of them.
- A message may not arrive (`arrives`): the window has no focus, or ImGui wants the text.
- `Render` is a frame of one hotkey's button. The settings draw most of the pool, the
  binder one hotkey of its own, and often none is drawn; hotkeys share
  `changing_any_hotkey`. Messages between two buttons of one frame are allowed, which
  the code does not do: the model has more behaviours.

Known: a new bind loses its condition; key-down flags left by a
message that did not arrive stop the loop for hotkeys behind; `new_bind` is not
reset when a change is cancelled, so two hotkeys can come to share a bind.

### `Cursor`, `Visuals`, `Cheats`

`Cheats` composes the other two: airbreak and clickwarp move the user, need the cursor,
and end with the `/alogin` that also switches the wallhack.

- `Cursor`: `EnableCursor`, `DisableCursor`, the hooked `SetCursorMode` through which a
  window of SA:MP takes the cursor and returns it, the main window, which asks for it while it
  appears. `window_alpha` is hidden, full or between.
- `Visuals`: `Update` is what `enable` and `disable` write into SA:MP's settings of the
  name tags, for each of two renderers; the list of tracers is its length.
- `Cheats`: `ToggleAirbreak`, `MainLoop`, `EndAirbreak` with what each locks;
  the mouse buttons and `RenderClickwarp`; `Frame` in the order of `on_frame`;
  `SetAloginState` as `user::set_alogin_state` calls them.
- Left out: coordinates, the search for what is under the cursor, drawing, the
  switches of the configuration that make a hotkey do nothing.

Known: airbreak cannot be switched off while spectating or with its `use` off; the
end of `/alogin` ends a selection and leaves the cursor on; the mark of an
interception survives and makes the cursor appear later; switching the renderer under
a wallhack that is on leaves `behind_wall` off; a limit lowered below the number of
tracers is never met again (`size == limit`); the full list drops the newest.
`on_alogin_new_state` enables the wallhack without asking `use`.

### `Storage`, `Downloads`, `Lifecycle`

What is on the disk, from one start of the game to the next.

- `Storage`: the configuration is a function, written in two steps (`Truncate`, the
  bytes), read with `merge_patch` over the embedded values. The statistics file is a sequence of
  tokens; a crash leaves any prefix. `Written` and `Read` are the loops of `statistics_t` as
  recursive functions: of the first n types and dates (`WrittenEntries`, `WrittenDates`), of the first
  n tokens (`Readings`).
- `Downloads`: a download is out of reach, or truncates its target, and then counts as done
  whatever came (`Downloaded`): the file; what came before a failed read, which passes for the end of the
  file (`network.cpp:29`); or the page of an HTTP error, whose status nobody reads (`:48`). The update goes
  to a temporary file, which is renamed: in one step (`Moved`), or, if the folder of temporary files is on
  another volume, by a copy that a crash may cut (`BeginCopy`, `Copied`). The constant variable
  `one_volume` says which. The fonts' thread has a queue.
- `Lifecycle`: phases of the loader's thread, from the question to the note (`AcceptUpdate`,
  `DownloadEnds`, `Rename`, `EndCopy`, `Noted`; `Failed` is the false of `update_plugin`), the
  construction (`LoadPlugin`, `CreateConfiguration`, `LoadFails`), the session, the exit in the order in
  which the globals die (`Leave`, `StatisticsWritten`, `Left`), and `Crash` anywhere. A file that is no
  library is not found by `Start` (a page) or not loaded by `LoadFails` (whatever is not whole).

Known: with a cut `main.mpk` the plugin does not start until somebody deletes the file
(`DeleteConfiguration`), although `configuration.cpp:61` logs that the default is written
(`from_msgpack` throws before); a page, or a part of the update, replaces the plugin and is noted as a
successful update, and then nothing is loaded until somebody puts a plugin there; a
cut font is never downloaded again; a cut release note makes its window throw at each
start; a crash between the renaming and the note leaves no note; a cut in
the middle of an entry of the statistics drops the last date.

### `Chat`, `Telling`

`Chat` is `set_continuous_text_callback`: five cases by whether the storage is empty
and whether the line starts or ends with dots. A line is which part of which text it is (`Line`).
The server sends the lines of a text in their order (`Post`, `GoOn`), and those of other texts before,
after and between them; a text, wrapped or not, may end in dots of its own, which the handler cannot tell from those of
the wrapping. `Lose` is every way in which a line passes a listener by. What the handler keeps and tells is
a record: the lines of which it is made, and whether dots are left at its ends.

`Telling` is the abstract promise: of the texts posted, numbered in their order, some wait, some were told, and some are
spoiled; a message may spoil texts and end at most two, which are told in order. `Chat` implements it under the
mapping `Told` (the numbers of the texts the callback got, without the remains of spoiled ones: the recursive
function `Heard`) and `Waiting` (the set of texts neither told nor spoiled). `Spoils` says which texts a
message spoils, by what is kept when it comes: with the first line of another text, what is kept unless only dots of its own
kept it (`Complete`), and this text if it is wrapped, for its first line is told alone; with a later line
that does not continue what is kept (`Continues`), both. `Lose` spoils the text of the line.

Left out: the colour, which is that of the last line; dots at the start of a text. Known: a text whose
own end is dots is told only with the next line, in that line's colour, and without these dots if it was wrapped; a wrapped
text behind it is told in pieces, although nothing was lost, as is one between whose lines the line of another comes.

### `Submenu`, `Switchers`, `Binder`, `MainWindow`

The main window with its buttons, of which one frame is the binder's, and the binds.

- `Submenu`: the menu with its two indices, the array of the configuration and the
  pool of hotkeys. A tick is 75 ms: the 150 ms of the fade are 2 of them, the 300 ms
  after are 4. `RenderSubmenu` reads the clock where the code does: in
  `render_menu`, whose loop over the entries is the recursive function `Rendered`, and again in
  `render_current_frame`. `rounded` is the remainder that the floating-point
  `bring_to` may leave at exactly 150 ms. Indices wrap at `SizeT`, as `std::size_t` does.
- `EraseShown` is the erasure within the loop that draws the entries (a range-for whose end was
  taken before): the element behind the last is still drawn. A click on it in that one frame is left out.
- `Switchers`: each button has its clock; `Handle` is `handle_frame_switching`, and `Handled` the
  loop over the buttons in the order of the frames.
  `opaque` is `active_frame_alpha == 255`, without which no button can be pressed. Two
  clicks of a user do not come within the same frame.
- `Binder`: a text is a sequence of lines, each to the server or to another bind, of
  words and `SELECT` variables. `SendMessage`, `OnSendCommand` and `Evaluate` call each other
  as the code does through its own hook; `MessagesFrom` is the loop of `main_loop` over a list that
  grows while it is walked.
- `MainWindow`: the menu and the buttons together, and which of it is drawn; `Binder` extends it with the
  calls. The closing of the window (half a second's
  animation) is the interval until `Close`.
- Left out: editing a text, the variables other than `SELECT`, `^` (the input window).
  A text that calls its own bind never returns: `BinderAssumption` excludes it.

Known: `render_entry` destroys the entry of the current index, whichever was hiding
(finding `main_window_deletes`); with a single entry the index is then out of range and
an exception leaves `render` (`crashed`); a click or a new bind within 150 ms of a deletion shows
another entry; a deleted bind's hotkey stays in the pool; if no frame comes in the
last third of a fade (a pause of the game, or the window closed just then) no frame can be chosen until
the next start; when one frame comes so late that it ends the switches of two buttons at once, the one that is
last in the order of the frames, not the one clicked last, is shown (`disturbed`); a call within the only line of another finds its own words behind the other's;
`is_command_defined` (`samp/core/input.cpp:44`) compares with the whole buffer of a name and is
never true, so commands of the client in a bind go to the server.

### Exemptions

| Variable | Circumstance |
|---|---|
| `Report!hasty` | the administrator acted before the server's answer was there, or left dialogs of another time unanswered |
| `ALogin!missed` | a message passed in the 500 ms after the menu |
| `Spectator!cut` | a session ended with a request of the plugin in flight |
| `Spectator!id = Unassigned` | nobody was assigned yet: the spectated player has ID 0 (`RightPlayer` names it, `OwnStatistics` has nobody to be about) |
| `Spectator!slipped` | a player changed vehicles before the plugin saw his last change, or with a message about another player on its way |
| `Hotkeys!unseen` | a release of a key was not delivered |
| `Cursor!stale` | the cursor was asked for, or put away, while SA:MP had it |
| `Visuals!mixed`, `lowered` | the renderer, or the limit, was changed under the state it governs |
| `Cheats!left` | the user changed vehicles under airbreak |
| `Downloads!spoiled` | the download of a font ended with something else than the font, or not at all |
| `Chat!spoiled` | a line of the text was lost, or the line of another came between its lines, or it is wrapped and began while another text was waited for |
| `Submenu!raced`, `hasty`, `seen` | an entry outlived its fade; a click while an entry goes; no frame while the click counted |
| `Switchers!disturbed` | no frame for the length of a fade, or one frame that ends two switches |
| `Binder!within` | a call within the sending of another's only line |

Each is a behaviour of the code that breaks the property; it is named so that the property
says what holds in all other cases.

## Properties

Each is stated at its definition. In short:

| Property | Says |
|---|---|
| `Report!FlagsOfActiveWindow` | `closing` and `reset` are set only on a window that is on the screen |
| `Report!OpenWindowHasReport` | a window open to stay shows a report |
| `Report!ResponseAtHand` | `*current_response` is never read empty, unless `hasty` |
| `Report!AgreesWithServer` | when all is handled, the window's report is the server's, unless `hasty` |
| `Report!ForgottenWhenClosed`, `ResetEnds`, `SearchEnds` | a report to be forgotten is forgotten, a search ends, unless `hasty` |
| `ALogin!OnlyOnServersAlogin` | the plugin is on `/alogin` only if the server has the user there |
| `ALogin!NobodyMissing`, `OnlyOnline` | the list has everybody; it has nobody else (violated) |
| `ALogin!ListedAtMostTwice` | how far the list can be wrong |
| `ALogin!AwayLeaves`, `LoginNoticed` | who stays away leaves; who logs in is noticed |
| `CommandRequester!AsksOnlyRefused` | only what was refused is requested |
| `CommandRequester!TakenIsWithdrawn` | what somebody took is on offer nowhere |
| `CommandRequester!AnnouncedIsKept` | what is announced is run |
| `Spectator!RightPlayer` | when all is handled, the player shown is the one the server shows |
| `Spectator!OwnKeysAndShots`, `OwnStatistics` | keys, shots and statistics are those of the player shown |
| `Spectator!DialogsShown` | each dialog the user asked for is shown to him |
| `Spectator!CameraFollows` | the camera follows a player in and out of a vehicle |
| `Hotkeys!HeldWhenCalled`, `CalledOnce` | a call needs the keys down, and one press makes one call |
| `Hotkeys!CapturedByOwner` | the keyboard is captured only by a button that gives it back |
| `Cursor!CursorKept`, `CursorAsked` | a cursor that was asked for is there; another is not |
| `Cheats!GivesBack`, `OnlyOnAlogin` | locks end with airbreak, airbreak and selection with `/alogin` |
| `Visuals!TagsRestored`, `TracersLimited` | the server's tags come back; the list is bounded |
| `Lifecycle!SettingsKept` | a session starts with what was last saved whole |
| `Lifecycle!StatisticsKept` | what the statistics' file tells is true, wherever it was cut |
| `Lifecycle!RenderHasFonts` | no frame with a font that is still downloaded |
| `Lifecycle!UpdateInOrder` | only a download that has ended replaces the plugin, only a copy between volumes leaves half of it, and a release is noted only after that |
| `Chat!TellsAll`, `TellsWhole` | every text that is not spoiled is told, or waits for the next line; the reassembly implements `Telling` |
| `Submenu!Parallel` | configuration, menu and hotkeys stay parallel |
| `Submenu!DeletesUnraced`, `DeletesChosen` | what is destroyed was chosen, unless an entry outlived its fade; without the exemption (violated) |
| `Submenu!ShowsWanted` | the menu comes to show what was clicked or added |
| `Switchers!SwitchesFrames` | the window comes to show the frame last asked for, in full |
| `Binder!SendsOwnText` | a call sends each line of its text once, in order, with its own words |

## Runs and bounds

| Run | Bounds | Distinct states |
|---|---|---|
| `report_interleavings` | 1 report, types asked, dialogs by hand, 2 messages in flight | 3,379,154 |
| `report_patient` | 1 report, a patient administrator who leaves and returns, 2 messages | 859,839 |
| `alogin` | 1 other administrator, limits 1 and 2 s, 2 messages | 319,384 |
| `alogin_list` | the same; finding: a stale entry of the list | - |
| `requester` | 3 administrators of 3 levels, a command of type answer and one of type reason, patient, 2 messages | 3,498,273 |
| `spectator` | players 0 and 1 and the user, 1 of them drives, 2 messages | 4,889,339 |
| `hotkeys` | 2 hotkeys, a pair of keys and one of these keys, 1 that is changed | 89,947 |
| `cheats` | 2 vehicles, limits 1 and 2, at most 4 tracers | 88,348 |
| `lifecycle` | 2 settings (1 new in this version) of 2 values, 2 types of statistics, 2 hours of a day, 2 fonts | 184,277 |
| `chat` | 3 texts of at most 3 lines, 2 messages in flight when one is sent | 1,085,057 |
| `main_window` | 3 binds, 3 frames, 75 or 225 ms between frames, 3 calls | 1,185,976 |
| `main_window_deletes` | the same; finding: a bind deleted for another | - |

Why they are enough. The report window holds one report, so a second report matters
only as "another one pending": the same model value can be reported again after
it is handled or its reporter has left. `MaxInFlight` bounds only new
activity: a reaction replaces the message it answers, so two lets an
administrator's press cross an answer and a chat message, which is what every
interleaving of the hazards needs. One other administrator reaches every
branch of the list's handlers, duplicates included, since each handler looks at
one identifier; the proof removes the bound for `ListedAtMostTwice`. Three
administrators are the least for a request, an acceptance and a rival; two
commands of different types let requests replace one another. Two players are a
previous and a next one; the properties that a third could break are proved for any number.
Two hotkeys that share a key are the least for one to hide another; a third would stand
behind both as the second stands behind the first. Two vehicles are one that is left and one that
is entered. Three texts of up to three lines are a text whose line is lost or cut short, one whose
line comes between, and a sound one before, between or behind them; the proof removes the bound. Three binds are the first, the last and one between, the cases of
`get_next_available_entry_index`; 75 and 225 ms put frames before, at and after each
border of the animations, and jump over the menu's fade. The buttons' fades have a scale of
their own (3 and 4 ticks, with the same frames): with shorter ones no undisturbed frame ends two
switches, which is what the proof of `SwitchesFrames` had found missing.

Where parts of a composition share little, the MC module lets one run use only one
part at a time, and says which in a variable of its own: `drawing` in `MCCheats` (what
draws and what moves share only `on_alogin`), `about` in `MCLifecycle` (configuration,
statistics and downloads share only the phases) and in `MCMainWindow` (the menu, the
buttons of the frames, the calls of the binds). `MCMainWindow` extends `Binder`, which
composes all three. The proofs of `CheatsProofs`,
`LifecycleProofs` and `MainWindowProofs` are about the unrestricted `Spec`.

Deadlock is not checked where the model may rest with nothing in flight and nothing
to do (`Report`, `ALogin`, `CommandRequester`, `Chat`), and in the main window, where an
exception ends the game. It is checked in the others.

`Patient` is an assumption on the human, not on the program: `ResetEnds`,
`SearchEnds`, `AsksOnlyRefused` and `AnnouncedIsKept` hold only under it, and `ResponseAtHand`,
`AgreesWithServer` and `ForgottenWhenClosed` are about an administrator who has not been `hasty`,
which is the same; what happens without it is described with the modules. (Two messages in flight
are too few for a second click to meet the first's answer; the proof of `ResponseAtHand` showed that
patience is needed, three messages show why.) (`SearchEnds` fails without it when the end of
the closing animation forgets a report accepted during the animation: the server then answers
`/reports` with the report's page, which leaves the search on. `AsksOnlyRefused` fails
when a refusal still in flight is charged to the next command typed.)

Fairness. `Report`: frames keep coming and the animation's time passes, RPCs
are delivered, the server answers. `ALogin`: the game thread keeps delivering
(to the handlers or past them), the main loop runs and seconds pass, the delays
end, the server answers. All are weak: each stays enabled until it happens.
Nothing is assumed of administrators and players. The liveness properties need
it: without frames a closing window never closes. The other modules state safety only:
what must come about there is stated of quiet states (`Quiet`, an empty channel, a fade that
is over).

Types. Every module with state has a type invariant. Those of `Report`, `ALogin`,
`CommandRequester`, `Spectator`, `Hotkeys`, `Cheats` (with `Cursor`, `Visuals`), `Lifecycle`
(with `Storage` and `Downloads`), `MainWindow` (with `Submenu`, `Switchers`) and
`Chat` (as `ChatTypeOK` in `ChatProofs`) are proved.

## Proofs

Checked by TLAPS for every value of the constants that satisfies the
assumptions of the modules (the `ASSUME`s named `...Assumption`).

`ReportProofs`: `IInv == TypeOK /\ FlagsOfActiveWindow /\ OpenWindowHasReport` is
inductive. `OpenWindowHasReport` needs the flags, since `close_report` forgets
at once only when the window is not active, and needs the type of the channel, since the
information page that opens the window must name a report. The proof splits
`TypeOK` into window, dialogs, channels and server, and has one lemma for each
part with a step for every action. Results: `TypeCorrect`, `FlagsCorrect`,
`OpenWindowCorrect`. The other three properties rest on the chain of dialogs (`PatientInv`):
while nobody was hasty, at most one link of an exchange (a command, a dialog, a response that leads
on) travels in the two channels together (`OneLink`), although the responses that only close a dialog
may travel beside it; and a page that reads the response, or what leads to one,
travels only with a response at hand and the window closing or closed (`ResponseChain`). The
exception is a press, by hand, of a page that was shown while off `/alogin`: the server has no such page
open (`Away`). What a step does to the channels has one of six shapes (`NextShapes`), and
the invariants are shown for each. `HeldInv` relates the report shown to the one
held and to what the channels tell of it; it needs the administrator to stay on `/alogin`, so it
is shown for steps from there to there, and the theorem has `[]on_alogin` as a hypothesis.
Results: `ResponseIsAtHand`, `ForgottenAtTheEnd`, `PluginAgreesWithServer`.

`ALoginProofs`: `ListedAtMostTwice` is not inductive: a dialog doubles what
the list holds. The strengthening is `ListedOnceOffAlogin`: off `/alogin` only the
messages of those who come reach the list, and they check for duplicates; the dialog appends
a list without duplicates and puts the plugin on `/alogin`, where a second dialog is
ignored; leaving empties the list. The lemmas on `SetToSeq`, `RemoveAt`,
`Append` and concatenation say how often an element occurs.
`StatusInv` is about every place in the channel to the client: if the plugin is on `/alogin`
there, by its present state or by the dialog just before, and nothing behind it ends
that, then the server has the user on `/alogin`, and each administrator who is online is in the list
at that place, or in a dialog or announced by a message behind it, and not taken off it later. At the end of
the channel these are the two properties. Results:
`TypeCorrect`, `ListedTwice`, `ListedOnce`, `StatusIsServers`, `EverybodyIsListed`.

`ChatProofs`, first half, the reassembly: `ChatInv` relates, for each text, the lines on the way
(`OnTheWay`), those kept and those told. The lines in flight of a text are the last ones sent, in order
(`ChannelInOrder`), and first lines are in the order of their texts (`FirstsInOrder`); of an unspoiled text each line
sent is told, kept or on its way (`NoneLost`, `Came`); what is kept is the first lines of one unspoiled text, or all of it is
spoiled (`KeptIsSound`); what was told is one whole text of which nothing is kept or on its way, or all of it is spoiled
(`ToldIsSound`). A received line has one of four outcomes: it extends what is kept or begins it, ends it, ends it
and a text of its own, or all it touches is spoiled; `Spoils` decides which, and each conjunct is shown for each outcome, and for
`Post`, `GoOn` and `Lose`. `Heard` is a recursive function over
what was told; that it is defined, and what a longer history adds to it, are shown by a least counterexample
among the lengths, without the library's induction rules. From it, each outcome is a step of `Telling` or a
stutter. Results: `TellsAllPosted`, and the refinement `TellsWholeTexts` (`ChatSpec => TellsWhole`).
The proof made the promise sharper: a message ends at most two texts, in one step.

`ChatProofs`, second half, the command requester, which hears its texts by the same callback: the types need no patience. `AsksOnlyRefused` and
`AnnouncedIsKept` do; their invariant `Served` says how little of a patient
administrator is on its way. What the server may refuse is the last thing sent and is what
`last_command` remembers, so the next refusal, of which there is one at most, is
of that command; and while a command waits for its delay nothing is on its way that could be
refused, so no refusal overwrites it. The lemmas say this of one administrator
and one kind of step; `Undisturbed` covers all the steps that concern others.
Results: `TypeCorrect`, `RequestsAreRefusals`, `AnnouncementsAreKept`, for any number
of administrators, any table and levels, and any number of messages in flight.
`TakenIsWithdrawn` needs no patience: a taken request is on offer, or on its way to be,
only with a message behind it that withdraws it (`TakenRequestsAreWithdrawn`).

`SpectatorProofs`: the types, in four parts, and from them `OwnKeysAndShots`: a packet
counts only for `id`, and whatever changes `id` empties what was counted. The other
results relate the plugin to the server through the two channels, so they rest on lemmas about
channels: which message comes last, which is behind which, which number occurs. What
a step does to the channels has one of a few shapes (`StepShapes`), and each of three
invariants is shown for each shape. `PlayerInv`: in a session the last message about a
player is about the spectated one, and once none is left the plugin shows him or has
requested statistics, whose dialog tells it; the menu is shown, or on its way to be.
`StatisticsInv`: while the statistics are not those of the player shown, the plugin waits
for its timer or keeps dialogs and one is on its way (or the option that brings one); and the
dialogs it owes the user are never more than those still to come. `CameraInv`: a
camera left behind has the plugin's option on its way, or a change the plugin will see
with no message about another player before it. The proof of the
last found a case that two messages in flight do not show: a message about
another player travels while the spectated one changes vehicles; `slipped` names it.
Results: `TypeCorrect`, `KeysAndShotsAreOwn`, `PlayerShownIsRight`,
`StatisticsAreOwn`, `DialogsAreShown`, `CameraIsMoved`, for any players, ID 0 included, and any number
of messages.

`HotkeysProofs`: the flags of a hotkey say that its keys are down, or that nobody was told
of their release (`FlagsAreHeld`), and a hotkey that was called keeps both
flags until a key of it is released or its bind changes (`FiredAreActive`), so the same press
does not call it again. Results: `TypeCorrect`, `CalledWithKeys`, `OneCallAPress`,
`KeyboardHasOwner`, for any pool and binds.

`CheatsProofs`: each part has its own strengthening over the few variables it is
about. `CursorInv`: a cursor that is wanted and absent is marked as intercepted while SA:MP
has a mode, so the mode's end returns it. `LockInv`: under airbreak only what is moved now is
locked, but for what was left. `TagsInv`: what the tags look like for each state of the
wallhack, unless `mixed`. Results: `CursorIsKept`, `CursorIsAsked`, `AirbreakGivesBack`,
`CheatsOnlyOnAlogin`, `TagsAreRestored`, `TracersAreLimited`.

`LifecycleProofs`: `SettingsInv` follows memory, file, last save and intention
through the phases; `FontsInv` says that a cut font is spoiled or in the thread's
hands, and that frames begin with an empty queue. `UpdaterInv`: what is renamed or copied
is a download that has ended, although a crash may leave a part of one in the temporary folder, and
a note is begun only once the plugin is not the old one. `StatisticsInv` follows the entries in memory, what the
file tells and what was counted. It needs to know what reading a prefix of a written file gives, for any entries and any
length of the file (`ReadBack`): after n tokens the reader is at a place in the file (a date begun, an entry
or a count read, some values of it), and what it has is the dates before that place and of the date itself
the entries before it. The next token moves it on (`EntryRead`, `DateRead`, `FileGoesOn`); this is shown by an induction over
the values of an entry, the types of a date and the dates of a file, each a set of numbers with no least one missing (`UpTo`). Hence a file cut anywhere
is read as a part of what was written, and a whole one in full. That the recursive functions are
defined is shown in the same way. Results: `SettingsAreKept`,
`StatisticsAreKept`, `RenderWaitsForFonts`, `UpdatesAreInOrder`.

`MainWindowProofs`: `IInv` has one half for the menu and one for the buttons. `MenuInv`: the three lists are
parallel; while no entry outlived its fade, at most the entry of the current index is hiding, for at least as long as
the last click is ago, and it was chosen (`Unraced`); the entry last clicked or added is at
`future_entry_index` unless an entry was going (`WantedIsNext`). A frame's loop over an array that shrinks under it
(`Rendered`) is followed by set induction over its steps: no step after the erasure finds another entry whose fade is
over, and the lists lose the same place. `SwitchersInv`: while undisturbed, the button last asked for is the
youngest of those that are switching, and it is the one that decides what is shown (`InOrder`); the loop over the buttons
(`Handled`) is followed in the same way. Two invariants turned out too
weak or false: `SwitchesFrames` fails when one frame ends two switches, which `disturbed` now names
and the bounds now reach; `ShowsWanted` is now stated from the first frame that comes while the click counts.
Results: `TypeCorrect`, `BindsParallel`, `DeletesOnlyChosen`, `WantedShown`, `FramesSwitched`, for any number
of binds and frames, any fades and delays between frames.

Only model-checked: liveness (`ResetEnds`, `SearchEnds`, `AwayLeaves`, `LoginNoticed`), which is
out of the prover's reach under fairness; and `SendsOwnText`, because a bind's text is evaluated by
mutually recursive operators over data of unbounded depth (`Binder`).

## Plan

Done: the modules above with their runs and proofs.

Left:

1. A clock in `CommandRequester`, for the five seconds of a request.

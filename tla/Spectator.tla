----------------------------- MODULE Spectator -----------------------------
(***************************************************************************)
(* Whom the user spectates and what the plugin shows of him:               *)
(* server::spectator.  RPCs of the server arrive in the order sent;        *)
(* synchronization packets travel apart from them and carry the state of   *)
(* a player at their arrival.  The plugin answers with options of the      *)
(* server's menu.                                                          *)
(*                                                                         *)
(* The server is external: it shows its menu before it says whom the user  *)
(* spectates, and answers an option for the player it then has him         *)
(* spectate.  A player stands for his ID; no ID passes to another player   *)
(* during the model.                                                       *)
(***************************************************************************)
EXTENDS Integers, Sequences, FiniteSets

CONSTANTS
  Players,            \* IDs of the players that can be spectated
  Me,                 \* samp::user::get_id()
  Unassigned,         \* SERVER_MAX_PLAYERS + 1, the first value of id
  Drivers,            \* bound: the players that use vehicles
  MaxInFlight         \* bound: the user acts, players change and delays of
                      \* a second end only while fewer messages travel

ASSUME SpectatorAssumption ==
  /\ IsFiniteSet(Players) /\ Players \subseteq Nat /\ Me \in Nat \ Players
  /\ Unassigned \in Nat \ (Players \cup {Me})
  /\ Drivers \subseteq Players /\ MaxInFlight \in Nat

Nobody == -1          \* of the server's spectated player
NoObject == -1        \* of `player`
FirstId == 0          \* the first value of previous_id, and an ID like any other

VARIABLES
  active, id, previous_id,
  player,             \* whose object of the SA:MP client `player` is
  camera_switch_state,
  stage,              \* whose text made information.stage 1 or 2; Nobody when 0
  timer,              \* time_before_check_statistics
  checking_statistics,
  reloaded,           \* last_reload is less than a second ago
  statistics_of,      \* history: whose dialog `information` was read from
  made_of,            \* history: whose packets keys_down and the counts of
                      \* shots were made of
  cut,                \* history: a session ended under a request of the plugin
  owed,               \* history: the user's own requests for statistics the
                      \* server has answered and no dialog was shown for,
                      \* counted until `cut`
  to_server, to_client,
  sp, camera,         \* server: who is spectated, and on what the camera is
  slipped,            \* history: the player spectated changed while the
                      \* plugin had not seen his last change or was about to
                      \* forget it, and the camera has not moved since
  mode                \* server: the players, on foot or in a vehicle

session == <<active, id, previous_id, player>>
shown == <<camera_switch_state, stage, statistics_of, made_of>>
requests == <<timer, checking_statistics, reloaded, cut>>
server == <<sp, camera, slipped>>
vars == <<session, shown, requests, owed, mode, to_server, to_client, server>>

-----------------------------------------------------------------------------
Options == {"next", "reload", "statistics", "automatic", "exit"}
Modes == {"player", "vehicle"}
Ids == Players \cup {Me, Unassigned}

\* "automatic" is the option "statistics" chosen by the plugin: the server does
\* not tell them apart, `owed` does.
ToServer ==
  [what : Options \cup {"own_statistics"}, of : {Nobody}]
    \cup [what : {"/sp"}, of : Players]

ToClient ==
  [what : {"show_menu", "hide_menu"}, of : {Nobody}]
    \cup [what : {"spectating_player", "spectating_vehicle"}, of : Players]
    \cup [what : {"dialog"}, of : Players \cup {Me}]

TypeOK ==
  /\ active \in BOOLEAN /\ id \in Ids /\ previous_id \in {FirstId} \cup Players
  /\ player \in {NoObject} \cup Players
  /\ camera_switch_state \in {"none"} \cup Modes
  /\ stage \in {Nobody} \cup Players
  /\ timer \in {"off", "running", "elapsed"}
  /\ checking_statistics \in BOOLEAN /\ reloaded \in BOOLEAN /\ cut \in BOOLEAN
  /\ statistics_of \in {Nobody} \cup Players
  /\ made_of \subseteq Players
  /\ owed \in Nat
  /\ to_server \in Seq(ToServer) /\ to_client \in Seq(ToClient)
  /\ sp \in {Nobody} \cup Players /\ camera \in Modes /\ slipped \in BOOLEAN
  /\ mode \in [Players -> Modes]

Init ==
  /\ active = FALSE /\ id = Unassigned /\ previous_id = FirstId
  /\ player = NoObject
  /\ camera_switch_state = "none" /\ stage = Nobody
  /\ timer = "off" /\ checking_statistics = FALSE /\ reloaded = FALSE
  /\ cut = FALSE /\ owed = 0
  /\ statistics_of = Nobody /\ made_of = {}
  /\ to_server = <<>> /\ to_client = <<>>
  /\ sp = Nobody /\ camera = "player" /\ slipped = FALSE
  /\ mode = [p \in Players |-> "player"]
-----------------------------------------------------------------------------
(* Helpers of the handlers.                                                *)

Option(o) == [what |-> o, of |-> Nobody]

Send(o) == to_server' = Append(to_server, Option(o))

Received(n) ==
  /\ to_client # <<>> /\ Head(to_client).what = n
  /\ to_client' = Tail(to_client)

Of == Head(to_client).of

\* assign, of an ID that is not previous_id: the object is taken if its ped is
\* there, the old one is kept otherwise.
AssignKeepsKeys(p) ==                                            \* mutant
  /\ id' = p /\ previous_id' = p
  /\ player' \in {p, player}
  /\ camera_switch_state' = "none"
  /\ UNCHANGED <<made_of>>

Assign(p) ==
  /\ id' = p /\ previous_id' = p
  /\ player' \in {p, player}
  /\ camera_switch_state' = "none"
  /\ made_of' = {}

KeepAssigned ==
  UNCHANGED <<id, previous_id, player, camera_switch_state, made_of>>

-----------------------------------------------------------------------------
(* on_event: the RPCs.                                                     *)

OnShowMenu ==
  /\ Received("show_menu")
  /\ active' = TRUE
  /\ UNCHANGED <<id, previous_id, player, shown, requests, owed, mode, to_server, server>>

OnHideMenu ==
  /\ Received("hide_menu")
  /\ active' = FALSE /\ timer' = "off"
  /\ cut' = (cut \/ timer # "off" \/ checking_statistics)
  /\ UNCHANGED <<id, previous_id, player, shown, checking_statistics, reloaded,
                 owed, mode, to_server, server>>

\* on_spectating_player
OnSpectatingPlayerAsksNothing ==                                 \* mutant
  /\ Received("spectating_player")
  /\ IF active /\ previous_id # Of THEN Assign(Of) ELSE KeepAssigned
  /\ UNCHANGED <<active, stage, statistics_of, timer, checking_statistics,
                 reloaded, cut, owed, mode, to_server, server>>

OnSpectatingPlayer ==
  /\ Received("spectating_player")
  /\ IF active /\ previous_id # Of
     THEN Assign(Of) /\ timer' = "running"
     ELSE KeepAssigned /\ UNCHANGED timer
  /\ UNCHANGED <<active, stage, statistics_of, checking_statistics,
                 reloaded, cut, owed, mode, to_server, server>>

OnSpectatingVehicleAsksNothing ==                                \* mutant
  /\ Received("spectating_vehicle")
  /\ UNCHANGED <<session, shown, requests, owed, mode, to_server, server>>

\* on_spectating_vehicle: whose vehicle only the statistics will tell.
OnSpectatingVehicle ==
  /\ Received("spectating_vehicle")
  /\ timer' = IF active THEN "running" ELSE timer
  /\ UNCHANGED <<session, shown, checking_statistics, reloaded, cut, owed, mode,
                 to_server, server>>

\* on_show_dialog: a dialog that is shown pays what the user asked for.
Shows == owed' = IF owed > 0 THEN owed - 1 ELSE 0

\* The plugin's own dialog is answered and kept from the user.
NeverKept == UNCHANGED checking_statistics                       \* mutant

Kept == checking_statistics' = FALSE

OnDialog ==
  /\ Received("dialog")
  /\ IF ~active \/ Of = Me
     THEN /\ KeepAssigned
          /\ IF Of = Me THEN UNCHANGED owed ELSE Shows
          /\ UNCHANGED <<statistics_of, checking_statistics>>
     ELSE /\ IF previous_id # Of THEN Assign(Of) ELSE KeepAssigned
          /\ statistics_of' = Of
          /\ Kept
          /\ IF checking_statistics THEN UNCHANGED owed ELSE Shows
  /\ UNCHANGED <<active, stage, timer, reloaded, cut, mode, to_server,
                 server>>

\* on_show_3d_text: one of the two patterns of a stage, or another text.  Texts
\* are told apart from the messages above: their order does not matter here.
OnShow3dText(p, is_stage) ==
  /\ stage' = IF active /\ p = id THEN IF is_stage THEN p ELSE Nobody ELSE stage
  /\ UNCHANGED <<session, camera_switch_state, statistics_of, made_of, requests,
                 owed, mode, to_server, to_client, server>>

\* remove_3d_text goes to on_show_3d_text too, as a create_3d_text of which
\* only the text's ID is there: the attached player is an indeterminate value.
OnRemove3dText ==
  /\ stage' \in IF active THEN {stage, Nobody} ELSE {stage}
  /\ UNCHANGED <<session, camera_switch_state, statistics_of, made_of, requests,
                 owed, mode, to_server, to_client, server>>

-----------------------------------------------------------------------------
(* on_event: the packets, in a session or not.  A passenger counts as in a *)
(* vehicle.                                                                *)

SwitchedIntoVehicle(p) ==                                        \* mutant
  mode[p] = "vehicle" /\ camera_switch_state = "player"

Switched(p) == camera_switch_state \in Modes \ {mode[p]}

OnSynchronization(p) ==
  /\ p = id
  /\ camera_switch_state' = mode[p]
  /\ IF Switched(p) THEN Send("reload") ELSE UNCHANGED to_server
  /\ made_of' = made_of \cup {p}
  /\ UNCHANGED <<session, stage, statistics_of, requests, owed, mode, to_client,
                 server>>

OnBulletSynchronization(p) ==
  /\ p = id
  /\ made_of' = made_of \cup {p}
  /\ UNCHANGED <<session, camera_switch_state, stage, statistics_of, requests,
                 owed, mode, to_server, to_client, server>>

-----------------------------------------------------------------------------
(* main_loop, on /alogin: off it a session has no turns.  `here`: the       *)
(* players whose peds exist at this turn; `inputs`: is_inputs_active().    *)

\* The object is fetched again when it, or its ped, is not there.
Fetched(here) == IF player \notin here /\ id \in Players THEN id ELSE player

Reloads(here, inputs) == Fetched(here) \notin here /\ ~inputs /\ ~reloaded

MainLoop(here, inputs) ==
  /\ active
  /\ timer' = IF timer = "elapsed" THEN "off" ELSE timer
  /\ checking_statistics' = (checking_statistics \/ timer = "elapsed")
  /\ player' = Fetched(here)
  /\ reloaded' = (reloaded \/ Reloads(here, inputs))
  /\ to_server' = to_server
       \o (IF timer = "elapsed" THEN <<Option("automatic")>> ELSE <<>>)
       \o (IF Reloads(here, inputs) THEN <<Option("reload")>> ELSE <<>>)
  /\ UNCHANGED <<active, id, previous_id, shown, cut, owed, mode, to_client, server>>

Room == Len(to_server) + Len(to_client) < MaxInFlight

TimerElapses ==
  /\ timer = "running" /\ timer' = "elapsed"
  /\ UNCHANGED <<session, shown, checking_statistics, reloaded, cut, owed, mode,
                 to_server, to_client, server>>

ReloadDelayPasses ==
  /\ reloaded /\ Room /\ reloaded' = FALSE
  /\ UNCHANGED <<session, shown, timer, checking_statistics, cut, owed, mode,
                 to_server, to_client, server>>

-----------------------------------------------------------------------------
(* The user: /sp, the hotkeys and the actions window.                      *)

\* is_active
IsActive == active /\ player # NoObject

Chooses(o) ==
  /\ o \in Options \ {"automatic"} /\ IsActive /\ Room
  /\ Send(o)
  /\ UNCHANGED <<session, shown, requests, owed, mode, to_client, server>>

TypesSp(p) ==
  /\ p \in Players \ {sp} /\ Room
  /\ to_server' = Append(to_server, [what |-> "/sp", of |-> p])
  /\ UNCHANGED <<session, shown, requests, owed, mode, to_client, server>>

TypesOwnStatistics ==
  /\ Room /\ Send("own_statistics")
  /\ UNCHANGED <<session, shown, requests, owed, mode, to_client, server>>

-----------------------------------------------------------------------------
(* The server (external).                                                  *)

client == <<session, shown, requests>>

Said == Head(to_server).what

Tell(n, p) == [what |-> n, of |-> p]

\* The camera moves to the player, or to the vehicle he is in.
Spectate(before, p) ==
  /\ sp' = p /\ camera' = mode[p] /\ slipped' = FALSE
  /\ to_client' = to_client \o before \o
       <<Tell(IF mode[p] = "player" THEN "spectating_player" ELSE "spectating_vehicle", p)>>
  /\ UNCHANGED owed

ServerSp ==
  /\ Said = "/sp"
  /\ Spectate(IF sp = Nobody THEN <<Tell("show_menu", Nobody)>> ELSE <<>>,
              Head(to_server).of)

ServerNext ==
  /\ Said = "next" /\ sp # Nobody
  /\ \E q \in Players \ {sp} : Spectate(<<>>, q)

ServerReload == Said = "reload" /\ sp # Nobody /\ Spectate(<<>>, sp)

ServerStatistics ==
  /\ Said \in {"statistics", "automatic"} /\ sp # Nobody
  /\ to_client' = Append(to_client, Tell("dialog", sp))
  /\ owed' = IF Said = "statistics" /\ ~cut THEN owed + 1 ELSE owed
  /\ UNCHANGED server

ServerOwnStatistics ==
  /\ Said = "own_statistics"
  /\ to_client' = Append(to_client, Tell("dialog", Me))
  /\ UNCHANGED <<server, owed>>

EndSession ==
  /\ sp' = Nobody
  /\ to_client' = Append(to_client, Tell("hide_menu", Nobody))
  /\ UNCHANGED <<camera, slipped, owed>>

ServerExit == Said = "exit" /\ sp # Nobody /\ EndSession

ServerIgnores ==
  /\ Said \in Options /\ sp = Nobody
  /\ cut' = (cut \/ Said = "automatic")
  /\ UNCHANGED <<to_client, server, owed>>

ServerStep ==
  /\ to_server # <<>> /\ to_server' = Tail(to_server)
  /\ \/ ServerIgnores
     \/ /\ ServerSp \/ ServerNext \/ ServerReload \/ ServerStatistics
           \/ ServerOwnStatistics \/ ServerExit
        /\ UNCHANGED cut
  /\ UNCHANGED <<session, shown, timer, checking_statistics, reloaded, mode>>

ServerEnds ==
  /\ sp # Nobody /\ Room /\ EndSession
  /\ UNCHANGED <<client, mode, to_server>>

-----------------------------------------------------------------------------
(* The players and the game.                                               *)

\* A message on its way makes the plugin assign another player, and forget how
\* it saw this one.
Reassigns ==
  \E i \in DOMAIN to_client : /\ to_client[i].what \in {"spectating_player", "dialog"}
                              /\ to_client[i].of \in Players \ {id}

Seen(p) == id = p /\ camera_switch_state = mode[p] /\ ~Reassigns

PlayerSwitches(p) ==
  /\ p \in Drivers /\ Room
  /\ mode' = [mode EXCEPT ![p] = IF @ = "player" THEN "vehicle" ELSE "player"]
  /\ slipped' = (slipped \/ (p = sp /\ ~Seen(p)))
  /\ UNCHANGED <<client, owed, to_server, to_client,
                 sp, camera>>

-----------------------------------------------------------------------------
ClientStep ==
  \/ OnShowMenu \/ OnHideMenu \/ OnSpectatingPlayer \/ OnSpectatingVehicle
  \/ OnDialog

Synchronizes == \E p \in Players : OnSynchronization(p)

Next ==
  \/ ClientStep \/ ServerStep \/ ServerEnds \/ Synchronizes
  \/ \E here \in SUBSET Players, inputs \in BOOLEAN : MainLoop(here, inputs)
  \/ TimerElapses \/ ReloadDelayPasses \/ TypesOwnStatistics \/ OnRemove3dText
  \/ \E o \in Options : Chooses(o)
  \/ \E p \in Players :
       \/ TypesSp(p) \/ OnBulletSynchronization(p) \/ PlayerSwitches(p)
       \/ (\E is_stage \in BOOLEAN : OnShow3dText(p, is_stage))

Spec == Init /\ [][Next]_vars

-----------------------------------------------------------------------------
\* Everything sent has been handled, and no request waits to be sent.
Quiet == to_server = <<>> /\ to_client = <<>> /\ timer = "off"

\* The name and ID shown are those of the player the server has the user
\* spectate, on foot or in a vehicle; unless he has the ID that previous_id has
\* from the start and is the first of all.
RightPlayer ==
  Quiet /\ active /\ sp # Nobody => id = sp \/ (sp = FirstId /\ id = Unassigned)

\* The keys and shots shown were made by the player shown, and nobody else.
OwnKeysAndShots == made_of \subseteq {id}

\* The faction, money and warnings shown are those of the player shown, if any
\* is, unless a session ended under a request of the plugin.
OwnStatistics ==
  Quiet /\ active /\ ~cut /\ id # Unassigned => statistics_of = id

\* A dialog the user asked for is shown to him, whatever the plugin asked for
\* meanwhile and kept.
DialogsShown == Quiet /\ ~cut => owed = 0

\* The camera is where the plugin saw the player get in or out, if it saw
\* each of his changes and was not told of another player between two.
CameraFollows ==
  Quiet /\ active /\ sp # Nobody /\ ~slipped /\ camera_switch_state = mode[sp]
  => camera = mode[sp]
=============================================================================

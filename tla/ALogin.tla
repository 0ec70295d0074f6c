------------------------------- MODULE ALogin -------------------------------
(***************************************************************************)
(* Is the user on /alogin, and which administrators are: server::user,     *)
(* server::admins and misc::features::auto_alogout, behind the gate of     *)
(* samp::event_handler.  They are told only by the server's chat messages, *)
(* dialogs, RPCs and packets, which arrive in the order sent; they ask     *)
(* with chat commands.  Callbacks and the main loop run one at a time on   *)
(* the game thread.                                                        *)
(*                                                                         *)
(* The server is external: it is what the handlers expect of it.  An       *)
(* administrator stands for his ID; names and levels are not modelled.     *)
(***************************************************************************)
EXTENDS Naturals, Sequences, SequencesExt, FiniteSets

CONSTANTS
  Others,             \* the other administrators
  Me,                 \* samp::user::get_id()
  UntilWarning,       \* seconds_until_warning of the configuration
  UntilAlogout,       \* seconds_until_alogout
  MaxInFlight         \* bound: the user acts, and the server speaks first,
                      \* only while fewer messages travel

ASSUME ALoginAssumption ==
  /\ Me \notin Others /\ IsFiniteSet(Others)
  /\ UntilWarning \in Nat /\ UntilAlogout \in Nat /\ MaxInFlight \in Nat

Admins == Others \cup {Me}

\* Bound: past both times seconds_inactive is compared with nothing.
MaxSeconds == 1 + (IF UntilWarning > UntilAlogout THEN UntilWarning ELSE UntilAlogout)

VARIABLES
  on_alogin, can_send_command,
  recent,             \* last_time_authorized is less than 800 ms ago
  list,               \* admins::list
  gated,              \* event_handler: the menu closed less than 500 ms ago
  missed,             \* history: a message has passed the handlers by
  inactive,           \* the game is not focused, or its menu is open
  seconds_inactive, sent_warning_notification,
  to_server, to_client,
  online,             \* server: the administrators on /alogin
  page                \* server: the dialog open for the user, or "none"

user == <<on_alogin, can_send_command, recent>>
gate == <<gated, missed>>
afk == <<inactive, seconds_inactive, sent_warning_notification>>
server == <<online, page>>
vars == <<user, list, gate, afk, to_server, to_client, server>>

-----------------------------------------------------------------------------
Commands == {"/alogin", "/adm", "/alogout", "menu_first"}

\* on_server_message's two texts for the user, and his changes of character
Notices == {"authorized", "alogout_message", "character_dialog", "disconnected"}

\* What the server tells of one administrator
OfAdmin == {"came", "left", "quit", "renamed"}

Notice(n) == [what |-> n, of |-> {}]
About(n, a) == [what |-> n, of |-> {a}]
OnlineDialog == [what |-> "online_dialog", of |-> online]

ToClient ==
  [what : Notices \cup {"menu"}, of : {{}}]
    \cup [what : OfAdmin, of : {{a} : a \in Admins}]
    \cup [what : {"online_dialog"}, of : SUBSET Admins]

ClientTypeOK ==
  /\ on_alogin \in BOOLEAN /\ can_send_command \in BOOLEAN /\ recent \in BOOLEAN
  /\ gated \in BOOLEAN /\ missed \in BOOLEAN
  /\ inactive \in BOOLEAN /\ sent_warning_notification \in BOOLEAN
  /\ seconds_inactive \in 0..MaxSeconds

ChannelTypeOK == to_server \in Seq(Commands) /\ to_client \in Seq(ToClient)

ServerTypeOK == online \subseteq Admins /\ page \in {"none", "menu"}

TypeOK == ClientTypeOK /\ list \in Seq(Admins) /\ ChannelTypeOK /\ ServerTypeOK

Init ==
  /\ on_alogin = FALSE /\ can_send_command = FALSE /\ recent = FALSE
  /\ list = <<>>
  /\ gated = FALSE /\ missed = FALSE
  /\ inactive = FALSE /\ seconds_inactive = 0
  /\ sent_warning_notification = FALSE
  /\ to_server = <<>> /\ to_client = <<>>
  /\ online \in SUBSET Others
  /\ page = "none"

-----------------------------------------------------------------------------
(* Helpers of the handlers.                                                *)

Send(c) == to_server' = Append(to_server, c)

\* can_process_event, then the event's callback
Received(n) ==
  /\ ~gated
  /\ to_client # <<>> /\ Head(to_client).what = n
  /\ to_client' = Tail(to_client)
  /\ UNCHANGED gate

\* set_alogin_state(false); admins::on_alogout forgets the list.
LeaveAloginKeepsList ==                                          \* mutant
  on_alogin' = FALSE /\ UNCHANGED list

LeaveAlogin == on_alogin' = FALSE /\ list' = <<>>

\* remove_disconnected_admin, of another administrator: the first entry goes.
WithoutFirst(a) ==
  LET first == {i \in 1..Len(list) :
                  list[i] = a /\ \A j \in 1..(i - 1) : list[j] # a}
  IN  IF first = {} THEN list ELSE RemoveAt(list, CHOOSE i \in first : TRUE)

\* update_admins: one entry per line of the dialog, whatever the list holds.
WithOnlineIfEmpty(admins) ==                                     \* mutant
  IF list = <<>> THEN SetToSeq(admins) ELSE list

WithOnline(admins) == list \o SetToSeq(admins)

-----------------------------------------------------------------------------
(* server::user                                                            *)

\* on_server_message: an authorization that is not too close to the last one.
OnAuthorized ==
  /\ Received("authorized")
  /\ \/ /\ ~on_alogin /\ ~recent
        /\ recent' = TRUE /\ can_send_command' = TRUE
     \/ /\ on_alogin \/ recent
        /\ UNCHANGED <<recent, can_send_command>>
  /\ UNCHANGED <<on_alogin, list, afk, to_server, server>>

\* The alogout message, the choice of a character, and packets 32, 36 and 37
EndsAloginButCharacter == {"alogout_message", "disconnected"}    \* mutant

EndsAlogin == {"alogout_message", "character_dialog", "disconnected"}

OnUserLeft(n) ==
  /\ n # "authorized" /\ Received(n)
  /\ IF on_alogin /\ n \in EndsAlogin THEN LeaveAlogin ELSE UNCHANGED <<on_alogin, list>>
  /\ UNCHANGED <<can_send_command, recent, afk, to_server, server>>

-----------------------------------------------------------------------------
(* server::admins                                                          *)

\* on_continuous_text_callback: authorization_pattern
OnAdminCame ==
  /\ Received("came")
  /\ \E a \in Head(to_client).of :
       list' = IF a \in ToSet(list) THEN list ELSE Append(list, a)
  /\ UNCHANGED <<user, afk, to_server, server>>

\* disconnect_pattern, server_quit and set_player_name
OnAdminGone(n) ==
  /\ n \in {"left", "quit", "renamed"}
  /\ Received(n)
  /\ \E a \in Head(to_client).of :
       IF a = Me THEN LeaveAlogin
       ELSE list' = WithoutFirst(a) /\ UNCHANGED on_alogin
  /\ UNCHANGED <<can_send_command, recent, afk, to_server, server>>

\* on_show_dialog: on /alogin the dialogs are the user's own.
OnMenu ==
  /\ Received("menu")
  /\ IF on_alogin THEN UNCHANGED to_server ELSE Send("menu_first")
  /\ UNCHANGED <<user, list, afk, server>>

OnOnlineDialog ==
  /\ Received("online_dialog")
  /\ IF on_alogin THEN UNCHANGED <<on_alogin, list>>
     ELSE on_alogin' = TRUE /\ list' = WithOnline(Head(to_client).of)
  /\ UNCHANGED <<can_send_command, recent, afk, to_server, server>>

-----------------------------------------------------------------------------
(* main_loop: server::user's, then auto_alogout's. `second` says that      *)
(* time_updated is a second old.                                           *)

UserLoopSendsOnAlogin ==                                         \* mutant
  IF can_send_command /\ on_alogin THEN <<"/adm">> ELSE <<>>

UserLoopSends == IF can_send_command THEN <<"/adm">> ELSE <<>>

Elapsed(second) ==
  IF second /\ seconds_inactive < MaxSeconds THEN seconds_inactive + 1
  ELSE seconds_inactive

\* auto_alogout's decision once the seconds are counted
WarnsAt(s) == s = UntilWarning /\ ~sent_warning_notification

LeavesUnwarned(s) == s = UntilAlogout /\ ~sent_warning_notification  \* mutant

LeavesAt(s) == s = UntilAlogout

MainLoop(second) ==
  /\ can_send_command' = FALSE
  /\ IF ~on_alogin \/ ~inactive
     THEN /\ seconds_inactive' = 0
          /\ sent_warning_notification' =
               (sent_warning_notification /\ seconds_inactive = 0)
          /\ to_server' = to_server \o UserLoopSends
          /\ UNCHANGED <<on_alogin, list>>
     ELSE /\ seconds_inactive' = Elapsed(second)
          /\ IF WarnsAt(Elapsed(second))
             THEN /\ sent_warning_notification' = TRUE
                  /\ to_server' = to_server \o UserLoopSends
                  /\ UNCHANGED <<on_alogin, list>>
             ELSE /\ UNCHANGED sent_warning_notification
                  /\ IF LeavesAt(Elapsed(second))
                     THEN /\ LeaveAlogin
                          /\ to_server' = to_server \o UserLoopSends \o <<"/alogout">>
                     ELSE /\ to_server' = to_server \o UserLoopSends
                          /\ UNCHANGED <<on_alogin, list>>
  /\ UNCHANGED <<recent, gate, inactive, to_client, server>>

\* SERVER_COMMAND_DELAY_MS pass.
DelayPasses ==
  /\ recent /\ recent' = FALSE
  /\ UNCHANGED <<on_alogin, can_send_command, list, gate, afk, to_server,
                 to_client, server>>

-----------------------------------------------------------------------------
(* samp::event_handler: for 500 ms after the game's menu closes the hooks  *)
(* hand everything to SA:MP and call no callback.                          *)

MessagePasses ==
  /\ gated /\ to_client # <<>>
  /\ to_client' = Tail(to_client)
  /\ missed' = TRUE
  /\ UNCHANGED <<user, list, gated, afk, to_server, server>>

GateOpens ==
  /\ gated /\ gated' = FALSE
  /\ UNCHANGED <<user, list, missed, afk, to_server, to_client, server>>

-----------------------------------------------------------------------------
(* The user.                                                               *)

Room == Len(to_server) + Len(to_client) < MaxInFlight

\* Typing takes frames of a focused game, and the main loop runs in each.
Types(c) ==
  /\ c \in Commands /\ Room
  /\ ~inactive /\ seconds_inactive = 0
  /\ c = "menu_first" => page = "menu"
  /\ Send(c)
  /\ UNCHANGED <<user, list, gate, afk, to_client, server>>

\* WM_KILLFOCUS and WM_SETFOCUS, and the game's menu, whose closing starts
\* the 500 ms
ChangesFocus ==
  /\ inactive' = ~inactive
  /\ gated' \in IF inactive THEN {gated, TRUE} ELSE {gated}
  /\ UNCHANGED <<user, list, missed, seconds_inactive, sent_warning_notification,
                 to_server, to_client, server>>

-----------------------------------------------------------------------------
(* The server (external).                                                  *)

client == <<user, list, gate, afk>>

Tell(msg) == to_client' = Append(to_client, msg)

ServerAlogin ==
  /\ Head(to_server) = "/alogin"
  /\ Tell(Notice("authorized"))
  /\ online' = online \cup {Me}
  /\ UNCHANGED page

ServerAlogout ==
  /\ Head(to_server) = "/alogout"
  /\ IF Me \in online THEN Tell(Notice("alogout_message")) ELSE UNCHANGED to_client
  /\ online' = online \ {Me}
  /\ UNCHANGED page

ServerAdm ==
  /\ Head(to_server) = "/adm"
  /\ \/ Me \notin online /\ UNCHANGED <<to_client, page>>
     \/ Me \in online /\ Tell(Notice("menu")) /\ page' = "menu"
     \/ Me \in online /\ Tell(OnlineDialog) /\ UNCHANGED page
  /\ UNCHANGED online

ServerMenu ==
  /\ Head(to_server) = "menu_first"
  /\ IF page = "menu" /\ Me \in online THEN Tell(OnlineDialog) ELSE UNCHANGED to_client
  /\ page' = "none"
  /\ UNCHANGED online

ServerStep ==
  /\ to_server # <<>> /\ to_server' = Tail(to_server)
  /\ ServerAlogin \/ ServerAlogout \/ ServerAdm \/ ServerMenu
  /\ UNCHANGED client

\* The chat of administrators reaches the user only on the server's /alogin.
AdminComes(a) ==
  /\ a \in Others \ online /\ Room
  /\ online' = online \cup {a}
  /\ IF Me \in online THEN Tell(About("came", a)) ELSE UNCHANGED to_client
  /\ UNCHANGED <<client, to_server, page>>

AdminLeaves(a) ==
  /\ a \in Others \cap online /\ Room
  /\ online' = online \ {a}
  /\ IF Me \in online THEN Tell(About("left", a)) ELSE UNCHANGED to_client
  /\ UNCHANGED <<client, to_server, page>>

\* Every player hears of a player who quits or is renamed.
AdminGone(n, a) ==
  /\ n \in {"quit", "renamed"} /\ a \in online /\ Room
  /\ a = Me => n = "renamed"
  /\ online' = online \ {a}
  /\ Tell(About(n, a))
  /\ UNCHANGED <<client, to_server, page>>

\* The user's own character ends, or his connection does.
UserGone(n) ==
  /\ n \in {"character_dialog", "disconnected"} /\ Room
  /\ online' = online \ {Me} /\ page' = "none"
  /\ to_server' = IF n = "disconnected" THEN <<>> ELSE to_server
  /\ Tell(Notice(n))
  /\ UNCHANGED client

-----------------------------------------------------------------------------
ClientStep ==
  \/ OnAuthorized \/ OnAdminCame \/ OnMenu \/ OnOnlineDialog
  \/ \E n \in Notices : OnUserLeft(n)
  \/ \E n \in OfAdmin : OnAdminGone(n)

Next ==
  \/ ClientStep \/ ServerStep
  \/ \E second \in BOOLEAN : MainLoop(second)
  \/ DelayPasses \/ MessagePasses \/ GateOpens \/ ChangesFocus
  \/ \E c \in Commands : Types(c)
  \/ \E a \in Admins : AdminComes(a) \/ AdminLeaves(a)
  \/ \E a \in Admins, n \in OfAdmin : AdminGone(n, a)
  \/ \E n \in Notices : UserGone(n)

Spec == Init /\ [][Next]_vars

\* The game thread keeps delivering RPCs, to the handlers or past them, running
\* the main loop and seeing seconds pass; the server answers.
Fairness ==
  /\ WF_vars(ClientStep \/ MessagePasses)
  /\ WF_vars(ServerStep)
  /\ WF_vars(MainLoop(TRUE))
  /\ WF_vars(DelayPasses)
  /\ WF_vars(GateOpens)

FairSpec == Spec /\ Fairness

-----------------------------------------------------------------------------
\* Everything sent has been handled, and nothing passed the gate unhandled.
Quiet == to_server = <<>> /\ to_client = <<>> /\ ~can_send_command /\ ~missed

\* The plugin is on /alogin only if the server has the user there.
OnlyOnServersAlogin == Quiet /\ on_alogin => Me \in online

\* ... and then no administrator is missing from the list, however the
\* messages of those who come and go interleave with the dialog's list.
NobodyMissing == Quiet /\ on_alogin => online \subseteq ToSet(list)

\* ... and nobody else is in it (admins.h: "Current connected (and logged-in)
\* administrators' on the server").
OnlyOnline == Quiet /\ on_alogin => ToSet(list) \subseteq online

\* Whatever the messages that come before, between and after the dialogs, and
\* whichever of them pass the gate, no administrator is listed three times.
ListedAtMostTwice ==
  \A i, j, k \in 1..Len(list) :
    i < j /\ j < k /\ list[i] = list[j] => list[j] # list[k]

\* An authorization that comes SERVER_COMMAND_DELAY_MS after the last one
\* that counted puts the plugin on /alogin, if the user stays there: through
\* the main loop, /adm, the menu and the dialog. (One that comes sooner is
\* never noticed: last_time_authorized discards it.)
AuthorizedNow ==
  /\ to_client # <<>> /\ Head(to_client) = Notice("authorized")
  /\ ~on_alogin /\ ~recent

LoginNoticed ==
  (AuthorizedNow /\ Me \in online) ~> (on_alogin \/ Me \notin online \/ missed)

\* A user who stays away from the game does not stay on /alogin: the seconds
\* are compared for equality, and a dialog that was still on its way when they
\* matched may put the plugin back on /alogin past them.
AwayLeaves == <>[]inactive => []<>(~on_alogin \/ missed)
=============================================================================

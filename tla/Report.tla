------------------------------- MODULE Report -------------------------------
(***************************************************************************)
(* The report window (src/plugin/gui/windows/report.cpp) and the server's  *)
(* report dialogs it drives.  The plugin hides those dialogs and answers   *)
(* them itself: what the administrator does in the window becomes, one or  *)
(* two server round trips later, a chain of dialog responses.  Callbacks   *)
(* (incoming RPCs, window messages, frames) run one at a time on the game  *)
(* thread, so each is one action; the messages between the client and the  *)
(* server are two FIFO channels (RELIABLE_ORDERED RPCs).                   *)
(*                                                                         *)
(* The server is external: it is what the handlers expect of it.           *)
(***************************************************************************)
EXTENDS Naturals, Sequences, FiniteSets

CONSTANTS
  Reports,      \* the reports players may send
  NoReport,     \* std::nullopt, for current_report and for the server
  HasTypes,     \* does /reports first ask for the kind of report?
  Manual,       \* does the administrator also use the dialogs by hand?
  Relogin,      \* does the administrator leave /alogin and come back?
  Patient,      \* does the administrator act only when the server has
                \* answered and the report it closed is forgotten?
  MaxInFlight   \* bound: the user acts, and the server speaks first, only
                \* while fewer messages travel (a reaction replaces one)

ASSUME ReportAssumption ==
  /\ NoReport \notin Reports
  /\ {HasTypes, Manual, Relogin, Patient} \subseteq BOOLEAN
  /\ MaxInFlight \in Nat

VARIABLES
  active, closing, reset,   \* the window's flags
  window_alpha,             \* 0, or 1 for every visible value: the animation
  dialog_active, dialog_id, \* the last "report processing" dialog
  searching_reports,        \* the last report is being accepted
  current_report_type,
  current_report,
  current_response,         \* the chosen dialog_option, or "none"
  answer_input,             \* is the answer's text non-empty?
  popup,                    \* is the block-time popup open?
  shown,                    \* the report dialog SA:MP itself displays
  on_alogin,                \* server::user::is_on_alogin()
  undefined,                \* reads of a disengaged std::optional so far
  hasty,                    \* history: he acted before the answer was there
  to_server, to_client,     \* messages in flight
  held, pending,            \* server: this administrator's report, the free
  page, chosen              \* server: the open dialog, the report it is for

window == <<active, closing, reset, window_alpha, popup, answer_input>>
dialogs == <<dialog_active, dialog_id, searching_reports, current_report_type,
             current_response, shown>>
server == <<held, pending, page, chosen>>
vars == <<window, dialogs, current_report, on_alogin, undefined, hasty,
          to_server, to_client, server>>

-----------------------------------------------------------------------------
Pages == {"types", "list", "confirm", "info", "options", "input", "block"}

\* enum class dialog_option
DialogOptions == {"spectate", "answer", "remove", "block",
                  "return_to_administration", "set_map_point"}

\* enum class report_type; "other" is a value outside the enumeration, which
\* the unchecked cast of a list item produces.
ReportTypes == {"question", "complaint", "waiting", "none", "other"}

Texts == {"new_report", "no_active_reports", "processing_finished"}

Command == [dialog |-> "command", button |-> "none", item |-> "none"]
Response(dialog, button, item) ==
  [dialog |-> dialog, button |-> button, item |-> item]
Dialog(p, r) == [what |-> p, of |-> r]
Message(t) == [what |-> t, of |-> NoReport]

ToServer == [dialog : Pages \cup {"command", "none"},
             button : {"left", "right", "none"},
             item   : DialogOptions \cup {"none"}]
ToClient == [what : (Pages \ {"info"}) \cup Texts, of : Reports \cup {NoReport}]
            \cup [what : {"info"}, of : Reports]

WindowTypeOK ==
  /\ active \in BOOLEAN /\ closing \in BOOLEAN /\ reset \in BOOLEAN
  /\ window_alpha \in 0..1
  /\ answer_input \in BOOLEAN /\ popup \in BOOLEAN

DialogTypeOK ==
  /\ dialog_active \in BOOLEAN
  /\ dialog_id \in Pages \cup {"none"}
  /\ searching_reports \in BOOLEAN
  /\ current_report_type \in ReportTypes
  /\ current_report \in Reports \cup {NoReport}
  /\ current_response \in DialogOptions \cup {"none"}
  /\ shown \in Pages \cup {"none"}
  /\ on_alogin \in BOOLEAN
  /\ undefined \subseteq {"current_report", "current_response"}

ChannelTypeOK ==
  /\ to_server \in Seq(ToServer)
  /\ to_client \in Seq(ToClient)

ServerTypeOK ==
  /\ held \in Reports \cup {NoReport}
  /\ pending \subseteq Reports
  /\ page \in Pages \cup {"none"}
  /\ chosen \in Reports \cup {NoReport}

TypeOK ==
  WindowTypeOK /\ DialogTypeOK /\ ChannelTypeOK /\ ServerTypeOK /\ hasty \in BOOLEAN

Init ==
  /\ active = FALSE /\ closing = FALSE /\ reset = FALSE
  /\ window_alpha = 0
  /\ dialog_active = FALSE /\ dialog_id = "none"
  /\ searching_reports = FALSE
  /\ current_report_type = "none"
  /\ current_report = NoReport
  /\ current_response = "none"
  /\ answer_input = FALSE /\ popup = FALSE
  /\ shown = "none"
  /\ on_alogin = TRUE
  /\ undefined = {} /\ hasty = FALSE
  /\ to_server = <<>> /\ to_client = <<>>
  /\ held = NoReport /\ pending = {}
  /\ page = "none" /\ chosen = NoReport

-----------------------------------------------------------------------------
(* Helpers of the handlers. Each fixes the primed variables it names.      *)

Send(msg) == to_server' = Append(to_server, msg)

\* on_dialog_response: every response leaves through the hooked outgoing RPC,
\* the plugin's own included, and while the type is awaited it becomes it.
TypeAfterResponse(item_type) ==
  IF current_report_type = "waiting" THEN item_type ELSE current_report_type

\* open_window
OpenWindow == IF reset THEN UNCHANGED active ELSE active' = TRUE

\* close_window, the window's part
CloseWindow == IF reset THEN UNCHANGED closing ELSE closing' = TRUE

\* The report is forgotten, at once or when the closing animation ends.
ForgetKeepsReset ==                                              \* mutant
  /\ current_report_type' = "none"
  /\ current_report' = NoReport
  /\ answer_input' = FALSE
  /\ UNCHANGED reset

ForgetKeepsReport ==                                             \* mutant
  /\ current_report_type' = "none"
  /\ answer_input' = FALSE
  /\ reset' = FALSE
  /\ UNCHANGED current_report

Forget ==
  /\ current_report_type' = "none"
  /\ current_report' = NoReport
  /\ answer_input' = FALSE
  /\ reset' = FALSE

\* close_report: at once when the window is not on screen.
CloseReportAtOnce(type) ==                                       \* mutant
  dialog_active' = FALSE /\ current_response' = "none" /\ Forget

CloseReportAtAnimation(type) ==                                  \* mutant
  /\ dialog_active' = FALSE
  /\ current_response' = "none"
  /\ reset' = TRUE
  /\ current_report_type' = type
  /\ UNCHANGED <<current_report, answer_input>>

CloseReport(type) ==
  /\ dialog_active' = FALSE
  /\ current_response' = "none"
  /\ \/ /\ active
        /\ reset' = TRUE
        /\ current_report_type' = type
        /\ UNCHANGED <<current_report, answer_input>>
     \/ ~active /\ Forget

-----------------------------------------------------------------------------
(* What the administrator does.                                            *)

Room == Len(to_server) + Len(to_client) < MaxInFlight

\* No command or response is on its way, and no dialog that answers one.
Answered ==
  to_server = <<>> /\ \A i \in DOMAIN to_client : to_client[i].what \in Texts

Calm == Answered /\ ~reset

MayAct == Room /\ (Patient => Calm)

\* He acted too early if the answer was still on its way, or if he left
\* dialogs of another time unanswered on the screen.
Remember(calm) == hasty' = (hasty \/ ~calm)

\* close_window as called from ESC, from the hotkey and from the server's
\* message: an open dialog is answered with the right button.
CloseWindowChoosesOption ==                                      \* mutant
  /\ CloseWindow
  /\ IF ~reset /\ dialog_active
     THEN /\ Send(Response(dialog_id, "left", "none"))
          /\ current_report_type' = TypeAfterResponse("other")
     ELSE UNCHANGED <<to_server, current_report_type>>

CloseWindowWithDialog ==
  /\ CloseWindow
  /\ IF ~reset /\ dialog_active
     THEN /\ Send(Response(dialog_id, "right", "none"))
          /\ current_report_type' = TypeAfterResponse("other")
     ELSE UNCHANGED <<to_server, current_report_type>>

\* on_event(WM_KEYUP, VK_ESCAPE)
Escape ==
  /\ active /\ MayAct
  /\ CloseWindowWithDialog
  /\ UNCHANGED <<active, reset, window_alpha, popup, answer_input, dialog_active,
                 dialog_id, searching_reports, current_response, shown,
                 current_report, on_alogin, undefined, to_client, server>>

\* switch_window: closes an open window, opens a closed one with /reports.
SwitchWindow ==
  /\ on_alogin /\ current_report # NoReport /\ MayAct
  /\ IF active
     THEN CloseWindowWithDialog /\ UNCHANGED active
     ELSE /\ OpenWindow
          /\ Send(Command)
          /\ UNCHANGED <<closing, current_report_type>>
  /\ UNCHANGED <<reset, window_alpha, popup, answer_input, dialog_active,
                 dialog_id, searching_reports, current_response, shown,
                 current_report, on_alogin, undefined, to_client, server>>

\* try_accept_last_report: the hotkey, or the notification's button.
TryAcceptLastReport ==
  /\ ~searching_reports /\ on_alogin /\ MayAct
  /\ current_report_type # "waiting"
  /\ current_report_type' =
       IF current_report_type = "none" THEN "complaint" ELSE current_report_type
  /\ IF current_report # NoReport
     THEN UNCHANGED <<searching_reports, to_server>>
     ELSE searching_reports' = TRUE /\ Send(Command)
  /\ UNCHANGED <<window, dialog_active, dialog_id, current_response, shown,
                 current_report, on_alogin, undefined, to_client, server>>

\* The buttons of the window react only while it is drawn and visible; a
\* modal popup takes the clicks.
Clickable == active /\ window_alpha > 0 /\ ~popup /\ MayAct

\* close_dialog with the response just chosen
CloseDialogLeavesWindow(option) ==                               \* mutant
  /\ current_response' = option
  /\ Send(Response(dialog_id, "left", "none"))
  /\ current_report_type' = TypeAfterResponse("other")
  /\ dialog_active' = FALSE
  /\ UNCHANGED <<active, closing, reset, window_alpha, answer_input, dialog_id,
                 searching_reports, shown, current_report, on_alogin,
                 undefined, to_client, server>>

CloseDialog(option) ==
  /\ current_response' = option
  /\ Send(Response(dialog_id, "left", "none"))
  /\ current_report_type' = TypeAfterResponse("other")
  /\ dialog_active' = FALSE
  /\ CloseWindow
  /\ UNCHANGED <<active, reset, window_alpha, answer_input, dialog_id,
                 searching_reports, shown, current_report, on_alogin,
                 undefined, to_client, server>>

\* send_response and send_input_response
ClickOption(option) ==
  /\ Clickable /\ ~reset
  /\ option # "block"
  /\ option \in {"answer", "remove"} => answer_input
  /\ CloseDialog(option)
  /\ UNCHANGED popup

\* block_action_button, then a block time: the popup does not look at reset.
ClickBlock ==
  /\ Clickable /\ ~reset /\ answer_input
  /\ popup' = TRUE
  /\ UNCHANGED <<active, closing, reset, window_alpha, answer_input, dialogs,
                 current_report, on_alogin, undefined, to_server, to_client, server>>

ChooseBlockTime ==
  /\ popup /\ active /\ window_alpha > 0 /\ MayAct
  /\ popup' = FALSE
  /\ CloseDialog("block")

DismissPopup ==
  /\ popup /\ active /\ window_alpha > 0
  /\ popup' = FALSE
  /\ UNCHANGED <<active, closing, reset, window_alpha, answer_input, dialogs,
                 current_report, on_alogin, undefined, to_server, to_client, server>>

\* The answer field and the insert buttons
TypeAnswer ==
  /\ active /\ window_alpha > 0 /\ ~popup
  /\ answer_input' \in BOOLEAN \ {answer_input}
  /\ UNCHANGED <<active, closing, reset, window_alpha, popup, dialogs,
                 current_report, on_alogin, undefined, to_server, to_client, server>>

-----------------------------------------------------------------------------
(* render: one frame brings window_alpha towards its target, ends the      *)
(* closing animation, and draws the report.                                *)

Target == IF closing THEN 0 ELSE 1
Towards(a) == IF closing THEN a <= window_alpha ELSE a >= window_alpha

\* Drawing reads *current_report.
Draw == undefined' = IF current_report = NoReport
                     THEN undefined \cup {"current_report"} ELSE undefined

Frame(alpha) ==
  /\ active /\ Towards(alpha)
  /\ window_alpha' = alpha
  /\ IF alpha = 0 /\ closing
     THEN /\ active' = FALSE /\ closing' = FALSE /\ popup' = FALSE
          /\ IF reset
             THEN Forget /\ UNCHANGED undefined
             ELSE /\ Draw
                  /\ UNCHANGED <<current_report_type, current_report, answer_input, reset>>
     ELSE /\ Draw
          /\ UNCHANGED <<active, closing, popup, reset, answer_input,
                         current_report_type, current_report>>
  /\ UNCHANGED <<dialog_active, dialog_id, searching_reports, current_response,
                 shown, on_alogin, hasty, to_server, to_client, server>>

-----------------------------------------------------------------------------
(* Incoming RPCs.                                                          *)

Receive(w) ==
  /\ to_client # <<>> /\ Head(to_client).what = w
  /\ to_client' = Tail(to_client)

\* on_show_dialog's own assignment: a new dialog ends the wait for a type.
TypeOnDialog == IF current_report_type = "waiting" THEN "none" ELSE current_report_type

\* Outside of /alogin SA:MP displays the dialog and the plugin ignores it.
ShowDialogIgnored(p) ==
  /\ Receive(p) /\ ~on_alogin
  /\ shown' = p
  /\ UNCHANGED <<window, dialog_active, dialog_id, searching_reports,
                 current_report_type, current_response, current_report,
                 on_alogin, undefined, to_server, server>>

\* try_handle_active_reports_dialog
ShowConfirm ==
  /\ Receive("confirm") /\ on_alogin
  /\ current_report_type' = TypeOnDialog
  /\ IF searching_reports
     THEN /\ Send(Response("confirm", "right", "none"))
          /\ searching_reports' = FALSE
          /\ UNCHANGED shown
     ELSE /\ shown' = "confirm"
          /\ UNCHANGED <<to_server, searching_reports>>
  /\ UNCHANGED <<window, dialog_active, dialog_id, current_response,
                 current_report, on_alogin, undefined, server>>

ShowTypes ==
  /\ Receive("types") /\ on_alogin
  /\ IF /\ TypeOnDialog \in {"question", "complaint"}
        /\ searching_reports \/ current_report # NoReport
     THEN /\ Send(Response("types", "right", "none"))
          /\ UNCHANGED <<current_report_type, shown>>
     ELSE /\ current_report_type' = "waiting"
          /\ shown' = "types"
          /\ UNCHANGED to_server
  /\ UNCHANGED <<window, dialog_active, dialog_id, searching_reports,
                 current_response, current_report, on_alogin, undefined, server>>

ShowList ==
  /\ Receive("list") /\ on_alogin
  /\ current_report_type' = TypeOnDialog
  /\ IF searching_reports
     THEN Send(Response("list", "right", "none")) /\ UNCHANGED shown
     ELSE shown' = "list" /\ UNCHANGED to_server
  /\ UNCHANGED <<window, dialog_active, dialog_id, searching_reports,
                 current_response, current_report, on_alogin, undefined, server>>

\* try_handle_active_report_dialog: the report's information is registered
\* when no report is, and the window opens.
ShowInfo ==
  /\ Receive("info") /\ on_alogin
  /\ dialog_active' = TRUE /\ dialog_id' = "info"
  /\ IF current_report = NoReport
     THEN /\ current_report' = Head(to_client).of
          /\ current_report_type' =
               IF TypeOnDialog = "none" THEN "complaint" ELSE TypeOnDialog
          /\ OpenWindow
     ELSE /\ current_report_type' = TypeOnDialog
          /\ UNCHANGED <<current_report, active>>
  /\ UNCHANGED <<closing, reset, window_alpha, popup, answer_input,
                 searching_reports, current_response, shown, on_alogin,
                 undefined, to_server, server>>

\* The three pages that read *current_response.  Disengaged, the option read
\* is whatever the storage holds.
ReadResponse(option) ==
  IF current_response = "none"
  THEN option \in DialogOptions /\ undefined' = undefined \cup {"current_response"}
  ELSE option = current_response /\ UNCHANGED undefined

ShowOptions(option) ==
  /\ Receive("options") /\ on_alogin
  /\ dialog_id' = "options"
  /\ ReadResponse(option)
  /\ Send(Response("options", "right", option))
  /\ IF option = "return_to_administration"
     THEN CloseReport(TypeOnDialog)
     ELSE /\ dialog_active' = TRUE
          /\ current_report_type' = TypeOnDialog
          /\ UNCHANGED <<reset, current_response, current_report, answer_input>>
  /\ UNCHANGED <<active, closing, window_alpha, popup, searching_reports, shown,
                 on_alogin, server>>

ShowInputOrBlock(p, option) ==
  /\ p \in {"input", "block"}
  /\ Receive(p) /\ on_alogin
  /\ dialog_id' = p
  /\ ReadResponse(option)
  /\ Send(Response(p, "right", option))
  /\ CloseReport(TypeOnDialog)
  /\ UNCHANGED <<active, closing, window_alpha, popup, searching_reports, shown,
                 on_alogin, server>>

\* on_server_message: "Обработка репорта завершена."
MessageFinished ==
  /\ Receive("processing_finished")
  /\ current_report' = NoReport
  /\ current_report_type' = "none"
  /\ IF active
     THEN /\ CloseWindow
          /\ IF ~reset /\ dialog_active
             THEN Send(Response(dialog_id, "right", "none")) ELSE UNCHANGED to_server
     ELSE UNCHANGED <<closing, to_server>>
  /\ UNCHANGED <<active, reset, window_alpha, popup, answer_input, dialog_active,
                 dialog_id, searching_reports, current_response, shown,
                 on_alogin, undefined, server>>

\* try_handle_report_searching: a new report fixes the type of the next search.
MessageNewReport(type) ==
  /\ Receive("new_report")
  /\ type \in {"question", "complaint"}
  /\ current_report_type' =
       IF ~searching_reports /\ current_report = NoReport THEN type ELSE current_report_type
  /\ UNCHANGED <<window, dialog_active, dialog_id, searching_reports, shown,
                 current_response, current_report, on_alogin, undefined,
                 to_server, server>>

\* try_handle_report_searching: the search found nothing.
MessageNoReportsIgnored ==                                       \* mutant
  /\ Receive("no_active_reports")
  /\ current_report_type' = IF searching_reports THEN "none" ELSE current_report_type
  /\ UNCHANGED <<window, dialog_active, dialog_id, searching_reports, shown,
                 current_response, current_report, on_alogin, undefined,
                 to_server, server>>

MessageNoReports ==
  /\ Receive("no_active_reports")
  /\ searching_reports' = FALSE
  /\ current_report_type' = IF searching_reports THEN "none" ELSE current_report_type
  /\ UNCHANGED <<window, dialog_active, dialog_id, shown, current_response,
                 current_report, on_alogin, undefined, to_server, server>>

-----------------------------------------------------------------------------
(* The administrator by hand: /reports in the chat, and SA:MP's dialogs.   *)

TypeCommand ==
  /\ Manual /\ on_alogin /\ MayAct
  /\ Send(Command)
  /\ UNCHANGED <<window, dialogs, current_report, on_alogin, undefined,
                 to_client, server>>

AnswerShown(button, item_type) ==
  /\ shown # "none" /\ MayAct
  /\ item_type \in {"question", "complaint", "other"}
  /\ Send(Response(shown, button, "none"))
  /\ current_report_type' = TypeAfterResponse(item_type)
  /\ shown' = "none"
  /\ UNCHANGED <<window, dialog_active, dialog_id, searching_reports,
                 current_response, current_report, on_alogin, undefined,
                 to_client, server>>

\* Leaving /alogin: nothing of the window is reset; the server takes the
\* report back. Coming back restores only the flag; a patient administrator
\* has answered the dialogs shown meanwhile.
Alogout ==
  /\ Relogin /\ on_alogin
  /\ on_alogin' = FALSE
  /\ pending' = pending \cup ({held} \ {NoReport})
  /\ held' = NoReport
  /\ page' = "none"
  /\ UNCHANGED <<window, dialogs, current_report, undefined, to_server,
                 to_client, chosen>>

Alogin ==
  /\ ~on_alogin /\ (Patient => shown = "none")
  /\ on_alogin' = TRUE
  /\ UNCHANGED <<window, dialogs, current_report, undefined, to_server,
                 to_client, server>>

-----------------------------------------------------------------------------
(* The server (external).  A response to a dialog that is not the open one *)
(* is dropped.                                                             *)

client == <<window, dialogs, current_report, on_alogin, undefined, hasty>>

Tell(msg) == to_client' = Append(to_client, msg)

\* Once the kind is known: the report held, the list, or nothing.
ServerReports ==
  \/ /\ held # NoReport
     /\ page' = "info" /\ Tell(Dialog("info", held))
  \/ /\ held = NoReport /\ pending # {}
     /\ page' = "list" /\ Tell(Dialog("list", NoReport))
  \/ /\ held = NoReport /\ pending = {}
     /\ page' = "none" /\ Tell(Message("no_active_reports"))

ServerPick ==
  \/ \E r \in pending :
       /\ chosen' = r /\ page' = "confirm" /\ Tell(Dialog("confirm", r))
       /\ UNCHANGED <<held, pending>>
  \/ /\ pending = {}
     /\ page' = "none" /\ Tell(Message("no_active_reports"))
     /\ UNCHANGED <<held, pending, chosen>>

ServerAccept ==
  IF chosen \in pending
  THEN /\ held' = chosen /\ pending' = pending \ {chosen}
       /\ page' = "info" /\ Tell(Dialog("info", chosen))
       /\ UNCHANGED chosen
  ELSE /\ page' = "none" /\ Tell(Message("no_active_reports"))
       /\ UNCHANGED <<held, pending, chosen>>

ServerOption(option) ==
  CASE option \in {"answer", "remove"} ->
         page' = "input" /\ Tell(Dialog("input", held)) /\ UNCHANGED <<held, pending, chosen>>
    [] option = "block" ->
         page' = "block" /\ Tell(Dialog("block", held)) /\ UNCHANGED <<held, pending, chosen>>
    [] option = "return_to_administration" ->
         /\ held' = NoReport /\ pending' = pending \cup ({held} \ {NoReport})
         /\ page' = "none" /\ UNCHANGED <<to_client, chosen>>
    [] OTHER ->
         page' = "none" /\ UNCHANGED <<to_client, held, pending, chosen>>

ServerHandles(msg) ==
  \/ /\ msg = Command /\ on_alogin
     /\ IF HasTypes
        THEN page' = "types" /\ Tell(Dialog("types", NoReport))
        ELSE ServerReports
     /\ UNCHANGED <<held, pending, chosen>>
  \/ /\ msg.dialog = page /\ msg.button = "right" /\ page = "types"
     /\ ServerReports
     /\ UNCHANGED <<held, pending, chosen>>
  \/ /\ msg.dialog = page /\ msg.button = "right" /\ page = "list" /\ ServerPick
  \/ /\ msg.dialog = page /\ msg.button = "right" /\ page = "confirm" /\ ServerAccept
  \/ /\ msg.dialog = page /\ msg.button = "left" /\ page = "info"
     /\ page' = "options" /\ Tell(Dialog("options", held))
     /\ UNCHANGED <<held, pending, chosen>>
  \/ /\ msg.dialog = page /\ msg.button = "right" /\ page = "options"
     /\ ServerOption(msg.item)
  \/ /\ msg.dialog = page /\ msg.button = "right" /\ page \in {"input", "block"}
     /\ held' = NoReport /\ page' = "none"
     /\ UNCHANGED <<to_client, pending, chosen>>
  \/ /\ msg.dialog = page
     /\ \/ msg.button = "left" /\ page # "info"
        \/ msg.button = "right" /\ page = "info"
     /\ page' = "none"
     /\ UNCHANGED <<to_client, held, pending, chosen>>
  \/ /\ msg.dialog # page /\ (msg = Command => ~on_alogin)
     /\ UNCHANGED <<to_client, server>>

ServerStep ==
  /\ to_server # <<>>
  /\ to_server' = Tail(to_server)
  /\ ServerHandles(Head(to_server))
  /\ UNCHANGED client

PlayerReports(r) ==
  /\ r \notin pending \cup {held} /\ Room
  /\ pending' = pending \cup {r}
  /\ Tell(Message("new_report"))
  /\ UNCHANGED <<client, to_server, held, page, chosen>>

OtherAdministratorTakes(r) ==
  /\ r \in pending
  /\ pending' = pending \ {r}
  /\ UNCHANGED <<client, to_server, to_client, held, page, chosen>>

ReporterQuits ==
  /\ held # NoReport /\ Room
  /\ held' = NoReport /\ page' = "none"
  /\ Tell(Message("processing_finished"))
  /\ UNCHANGED <<client, to_server, pending, chosen>>

-----------------------------------------------------------------------------
ClientStep ==
  /\ UNCHANGED hasty
  /\ \/ \E p \in Pages : ShowDialogIgnored(p)
     \/ ShowConfirm \/ ShowTypes \/ ShowList \/ ShowInfo
     \/ \E option \in DialogOptions : ShowOptions(option)
     \/ \E p \in Pages, option \in DialogOptions : ShowInputOrBlock(p, option)
     \/ MessageFinished \/ MessageNoReports
     \/ \E type \in ReportTypes : MessageNewReport(type)

\* What the server hears of, and what happens on the screen only.
Act ==
  \/ Escape \/ SwitchWindow \/ TryAcceptLastReport
  \/ \E option \in DialogOptions : ClickOption(option)
  \/ ChooseBlockTime \/ TypeCommand
  \/ \E button \in {"left", "right"}, type \in ReportTypes : AnswerShown(button, type)

UserStep ==
  \/ Act /\ Remember(Calm)
  \/ Alogin /\ Remember(shown = "none")
  \/ (ClickBlock \/ DismissPopup \/ TypeAnswer \/ Alogout) /\ UNCHANGED hasty

Next ==
  \/ ClientStep \/ UserStep \/ ServerStep
  \/ \E alpha \in 0..1 : Frame(alpha)
  \/ \E r \in Reports : PlayerReports(r) \/ OtherAdministratorTakes(r)
  \/ ReporterQuits

Spec == Init /\ [][Next]_vars

\* Frames never stop and an animation lasts 500 ms; RPCs are delivered; the
\* server answers.  Nothing is assumed of the administrator or of the players.
Fairness ==
  /\ WF_vars(Frame(Target))
  /\ WF_vars(ClientStep)
  /\ WF_vars(ServerStep)

FairSpec == Spec /\ Fairness

-----------------------------------------------------------------------------
(* Properties.                                                             *)

\* A closing window, and one whose report is to be forgotten, is a window on
\* the screen: close_window and close_report decide on the flag that
\* open_window and render change in between.
FlagsOfActiveWindow == closing \/ reset => active

\* A window that is open to stay shows a report. Server messages clear
\* current_report, the info page sets it, the hotkey opens the window without
\* waiting for the page, and the end of an animation clears it again.
OpenWindowHasReport == active /\ ~closing /\ ~reset => current_report # NoReport

\* The pages on which the plugin reads *current_response come only after an
\* administrator who waits for the answers chose a response: no other press,
\* no dialog answered by hand, and no stay away from /alogin brings them up
\* with the response already spent.
ResponseAtHand == ~hasty => "current_response" \notin undefined

\* When everything sent to and by an administrator who waits for the answers
\* has been handled, the report of the window is the one the server has him
\* working on, however the closing animation, a new /reports, a disconnected
\* reporter and another administrator interleaved.  Leaving /alogin resets
\* nothing of the window, so that it says this only of one who stays.
AgreesWithServer ==
  ~hasty /\ to_server = <<>> /\ to_client = <<>> /\ ~reset /\ current_report # NoReport
    => held = current_report

\* A window whose report is to be forgotten is closing, if the administrator
\* waits for the answers: only the end of that animation forgets the report,
\* and while reset is set neither close_window nor open_window does anything.
ForgottenWhenClosed == ~hasty => (reset => closing)

\* The report closed by a response is eventually forgotten (report.cpp:424
\* logs "closing the report...", and :434 and :474 "... done!").
ResetEnds == reset ~> ~reset

\* While the administrator stays on /alogin, a search for the last report ends:
\* by a report accepted, or by the server's message that there is none.
SearchEnds == []on_alogin => (searching_reports ~> ~searching_reports)
=============================================================================

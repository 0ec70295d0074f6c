---------------------------- MODULE ReportProofs ----------------------------
(***************************************************************************)
(* The flags of the report window, the report it shows and the responses   *)
(* it gives, proved for every set of reports, every variant of the server  *)
(* and of the administrator of Report.tla, and any number of messages in   *)
(* flight.                                                                 *)
(***************************************************************************)
EXTENDS Report, TLAPS

\* The invariant is inductive as a whole.  OpenWindowHasReport needs
\* FlagsOfActiveWindow, because close_report forgets the report at once only
\* when the window is not on screen, and it needs TypeOK, which says of the
\* messages on their way that the information page names a report.
IInv == TypeOK /\ FlagsOfActiveWindow /\ OpenWindowHasReport

\* The plugin starts with neither a window nor a report.
LEMMA InitIInv == Init => IInv
<1> SUFFICES ASSUME Init PROVE IInv
  OBVIOUS
<1>1. WindowTypeOK
  <2>1. 0 \in 0..1
    OBVIOUS
  <2> QED
    BY <2>1 DEF Init, WindowTypeOK
<1>2. DialogTypeOK
  BY DEF Init, DialogTypeOK, Pages, ReportTypes, DialogOptions
<1>3. ChannelTypeOK
  BY DEF Init, ChannelTypeOK
<1>4. ServerTypeOK
  BY DEF Init, ServerTypeOK
<1>5. FlagsOfActiveWindow /\ OpenWindowHasReport
  BY DEF Init, FlagsOfActiveWindow, OpenWindowHasReport
<1> QED
  BY <1>1, <1>2, <1>3, <1>4, <1>5 DEF IInv, TypeOK, Init

-----------------------------------------------------------------------------
(* What is sent is well typed, and so is what is received.                 *)

\* samp::dialog::send_response
LEMMA ResponseType ==
  ASSUME NEW d \in Pages \cup {"none"}, NEW b \in {"left", "right"},
         NEW i \in DialogOptions \cup {"none"}
  PROVE  Response(d, b, i) \in ToServer
  BY DEF Response, ToServer

\* samp::input::send_command
LEMMA CommandType == Command \in ToServer
  BY DEF Command, ToServer

\* A dialog may name a report; the information page must.
LEMMA DialogType ==
  ASSUME NEW p \in Pages, NEW r \in Reports \cup {NoReport},
         p = "info" => r \in Reports
  PROVE  Dialog(p, r) \in ToClient
  BY DEF Dialog, ToClient, Pages

\* The server's chat messages
LEMMA MessageType == ASSUME NEW t \in Texts PROVE Message(t) \in ToClient
  BY DEF Message, ToClient, Texts

\* Sending keeps the channel to the server well typed.
LEMMA SendType ==
  ASSUME ChannelTypeOK, NEW m \in ToServer, Send(m)
  PROVE  to_server' \in Seq(ToServer)
  BY DEF Send, ChannelTypeOK

\* So does an answer of the server, in the other direction.
LEMMA TellType ==
  ASSUME ChannelTypeOK, NEW m \in ToClient, Tell(m)
  PROVE  to_client' \in Seq(ToClient)
  BY DEF Tell, ChannelTypeOK

\* Receiving leaves a well typed channel behind.
LEMMA ReceiveType ==
  ASSUME ChannelTypeOK, NEW w, Receive(w)
  PROVE  to_client' \in Seq(ToClient) /\ Head(to_client) \in ToClient
  BY DEF Receive, ChannelTypeOK

\* The information page that arrives names a report.
LEMMA InfoNamesReport ==
  ASSUME IInv, Receive("info")
  PROVE  Head(to_client).of \in Reports
<1>1. Head(to_client) \in ToClient /\ Head(to_client).what = "info"
  BY ReceiveType DEF IInv, TypeOK, Receive
<1> QED
  BY <1>1 DEF ToClient, Texts

\* The server takes one message at a time.
LEMMA ServedType ==
  ASSUME IInv, ServerStep
  PROVE  to_server' \in Seq(ToServer) /\ Head(to_server) \in ToServer
  BY DEF ServerStep, IInv, TypeOK, ChannelTypeOK

\* Whatever it makes of the message, it answers with well typed dialogs.
LEMMA ServerHandlesTypes ==
  ASSUME IInv, ServerStep
  PROVE  to_client' \in Seq(ToClient) /\ ServerTypeOK'
<1> USE DEF IInv, TypeOK, ServerTypeOK
<1> DEFINE msg == Head(to_server)
<1>0. to_client \in Seq(ToClient)
  BY DEF ChannelTypeOK
<1>1. ServerHandles(msg)
  BY DEF ServerStep
<1>2. ASSUME ServerReports, UNCHANGED <<held, pending, chosen>>
      PROVE  to_client' \in Seq(ToClient) /\ ServerTypeOK'
  <2>1. CASE held # NoReport /\ page' = "info" /\ Tell(Dialog("info", held))
    BY <1>2, <2>1, TellType, DialogType DEF Pages
  <2>2. CASE page' = "list" /\ Tell(Dialog("list", NoReport))
    BY <1>2, <2>2, TellType, DialogType DEF Pages
  <2>3. CASE page' = "none" /\ Tell(Message("no_active_reports"))
    BY <1>2, <2>3, TellType, MessageType DEF Texts
  <2> QED
    BY <1>2, <2>1, <2>2, <2>3 DEF ServerReports
<1>3. ASSUME ServerPick
      PROVE  to_client' \in Seq(ToClient) /\ ServerTypeOK'
  <2>1. ASSUME NEW r \in pending, chosen' = r, page' = "confirm",
               Tell(Dialog("confirm", r)), UNCHANGED <<held, pending>>
        PROVE  to_client' \in Seq(ToClient) /\ ServerTypeOK'
    BY <2>1, TellType, DialogType DEF Pages
  <2>2. ASSUME page' = "none", Tell(Message("no_active_reports")),
               UNCHANGED <<held, pending, chosen>>
        PROVE  to_client' \in Seq(ToClient) /\ ServerTypeOK'
    BY <2>2, TellType, MessageType DEF Texts
  <2> QED
    BY <1>3, <2>1, <2>2 DEF ServerPick
<1>4. ASSUME ServerAccept
      PROVE  to_client' \in Seq(ToClient) /\ ServerTypeOK'
  <2>1. CASE chosen \in pending
    BY <1>4, <2>1, TellType, DialogType DEF ServerAccept, Pages
  <2>2. CASE chosen \notin pending
    BY <1>4, <2>2, TellType, MessageType DEF ServerAccept, Texts
  <2> QED
    BY <2>1, <2>2
<1>5. ASSUME NEW option, ServerOption(option)
      PROVE  to_client' \in Seq(ToClient) /\ ServerTypeOK'
  <2>1. CASE option \in {"answer", "remove"}
    BY <1>5, <2>1, TellType, DialogType DEF ServerOption, Pages
  <2>2. CASE option = "block"
    BY <1>5, <2>2, TellType, DialogType DEF ServerOption, Pages
  <2>3. CASE option \notin {"answer", "remove", "block"}
    BY <1>0, <1>5, <2>3 DEF ServerOption
  <2> QED
    BY <2>1, <2>2, <2>3
<1>6. CASE page' = "types" /\ Tell(Dialog("types", NoReport))
           /\ UNCHANGED <<held, pending, chosen>>
  BY <1>6, TellType, DialogType DEF Pages
<1>7. CASE page' = "options" /\ Tell(Dialog("options", held))
           /\ UNCHANGED <<held, pending, chosen>>
  BY <1>7, TellType, DialogType DEF Pages
<1>8. CASE held' = NoReport /\ page' = "none"
           /\ UNCHANGED <<to_client, pending, chosen>>
  BY <1>0, <1>8
<1>9. CASE page' = "none" /\ UNCHANGED <<to_client, held, pending, chosen>>
  BY <1>0, <1>9
<1>10. CASE UNCHANGED <<to_client, server>>
  BY <1>0, <1>10 DEF server
<1> QED
  BY <1>1, <1>2, <1>3, <1>4, <1>5, <1>6, <1>7, <1>8, <1>9, <1>10
     DEF ServerHandles

-----------------------------------------------------------------------------
(* The steps.                                                              *)

\* Every step keeps the flags of the window consistent, with each other and
\* with current_report.
LEMMA WindowStep ==
  ASSUME IInv, [Next]_vars
  PROVE  WindowTypeOK' /\ FlagsOfActiveWindow' /\ OpenWindowHasReport'
<1> USE DEF IInv, TypeOK, WindowTypeOK, FlagsOfActiveWindow, OpenWindowHasReport
<1>1. CASE Escape
  BY <1>1 DEF Escape, CloseWindowWithDialog, CloseWindow
<1>2. CASE SwitchWindow
  BY <1>2 DEF SwitchWindow, CloseWindowWithDialog, CloseWindow, OpenWindow
<1>3. CASE TryAcceptLastReport
  BY <1>3 DEF TryAcceptLastReport, window
<1>4. ASSUME NEW option \in DialogOptions, ClickOption(option)
      PROVE  WindowTypeOK' /\ FlagsOfActiveWindow' /\ OpenWindowHasReport'
  BY <1>4 DEF ClickOption, Clickable, CloseDialog, CloseWindow
<1>5. CASE ClickBlock
  BY <1>5 DEF ClickBlock, Clickable, dialogs
<1>6. CASE ChooseBlockTime
  BY <1>6 DEF ChooseBlockTime, CloseDialog, CloseWindow
<1>7. CASE DismissPopup
  BY <1>7 DEF DismissPopup
<1>8. CASE TypeAnswer
  BY <1>8 DEF TypeAnswer
<1>9. ASSUME NEW alpha \in 0..1, Frame(alpha)
      PROVE  WindowTypeOK' /\ FlagsOfActiveWindow' /\ OpenWindowHasReport'
  BY <1>9 DEF Frame, Towards, Forget
<1>10. ASSUME NEW p \in Pages, ShowDialogIgnored(p)
      PROVE  WindowTypeOK' /\ FlagsOfActiveWindow' /\ OpenWindowHasReport'
  BY <1>10 DEF ShowDialogIgnored, window
<1>11. CASE ShowConfirm
  BY <1>11 DEF ShowConfirm, window
<1>12. CASE ShowTypes
  BY <1>12 DEF ShowTypes, window
<1>13. CASE ShowList
  BY <1>13 DEF ShowList, window
<1>14. CASE ShowInfo
  BY <1>14, InfoNamesReport, ReportAssumption DEF ShowInfo, OpenWindow
<1>15. ASSUME NEW option \in DialogOptions, ShowOptions(option)
      PROVE  WindowTypeOK' /\ FlagsOfActiveWindow' /\ OpenWindowHasReport'
  BY <1>15 DEF ShowOptions, CloseReport, Forget
<1>16. ASSUME NEW p \in Pages, NEW option \in DialogOptions, ShowInputOrBlock(p, option)
      PROVE  WindowTypeOK' /\ FlagsOfActiveWindow' /\ OpenWindowHasReport'
  BY <1>16 DEF ShowInputOrBlock, CloseReport, Forget
<1>17. CASE MessageFinished
  BY <1>17 DEF MessageFinished, CloseWindow
<1>18. CASE MessageNoReports
  BY <1>18 DEF MessageNoReports, window
<1>19. ASSUME NEW type \in ReportTypes, MessageNewReport(type)
      PROVE  WindowTypeOK' /\ FlagsOfActiveWindow' /\ OpenWindowHasReport'
  BY <1>19 DEF MessageNewReport, window
<1>20. CASE TypeCommand
  BY <1>20 DEF TypeCommand, window
<1>21. ASSUME NEW button \in {"left", "right"}, NEW type \in ReportTypes, AnswerShown(button, type)
      PROVE  WindowTypeOK' /\ FlagsOfActiveWindow' /\ OpenWindowHasReport'
  BY <1>21 DEF AnswerShown, window
<1>22. CASE Alogout
  BY <1>22 DEF Alogout, window
<1>23. CASE Alogin
  BY <1>23 DEF Alogin, window
<1>24. CASE ServerStep
  BY <1>24 DEF ServerStep, client, window
<1>25. ASSUME NEW r \in Reports, PlayerReports(r)
      PROVE  WindowTypeOK' /\ FlagsOfActiveWindow' /\ OpenWindowHasReport'
  BY <1>25 DEF PlayerReports, client, window
<1>26. ASSUME NEW r \in Reports, OtherAdministratorTakes(r)
      PROVE  WindowTypeOK' /\ FlagsOfActiveWindow' /\ OpenWindowHasReport'
  BY <1>26 DEF OtherAdministratorTakes, client, window
<1>27. CASE ReporterQuits
  BY <1>27 DEF ReporterQuits, client, window
<1>28. CASE UNCHANGED vars
  BY <1>28 DEF vars, window, dialogs, server
<1> QED
  BY <1>1, <1>2, <1>3, <1>4, <1>5, <1>6, <1>7, <1>8, <1>9, <1>10, <1>11,
     <1>12, <1>13, <1>14, <1>15, <1>16, <1>17, <1>18, <1>19, <1>20, <1>21,
     <1>22, <1>23, <1>24, <1>25, <1>26, <1>27, <1>28 DEF Next, ClientStep,
     UserStep, Act

\* Every step keeps what the window knows of the dialogs well typed.
LEMMA DialogStep ==
  ASSUME IInv, [Next]_vars
  PROVE  DialogTypeOK'
<1> USE DEF IInv, TypeOK, DialogTypeOK, ReportTypes
<1>1. CASE Escape
  BY <1>1 DEF Escape, CloseWindowWithDialog, TypeAfterResponse
<1>2. CASE SwitchWindow
  BY <1>2 DEF SwitchWindow, CloseWindowWithDialog, TypeAfterResponse
<1>3. CASE TryAcceptLastReport
  BY <1>3 DEF TryAcceptLastReport
<1>4. ASSUME NEW option \in DialogOptions, ClickOption(option)
      PROVE  DialogTypeOK'
  BY <1>4 DEF ClickOption, CloseDialog, TypeAfterResponse
<1>5. CASE ClickBlock
  BY <1>5 DEF ClickBlock, dialogs
<1>6. CASE ChooseBlockTime
  BY <1>6 DEF ChooseBlockTime, CloseDialog, TypeAfterResponse, DialogOptions
<1>7. CASE DismissPopup
  BY <1>7 DEF DismissPopup, dialogs
<1>8. CASE TypeAnswer
  BY <1>8 DEF TypeAnswer, dialogs
<1>9. ASSUME NEW alpha \in 0..1, Frame(alpha)
      PROVE  DialogTypeOK'
  BY <1>9 DEF Frame, Draw, Forget
<1>10. ASSUME NEW p \in Pages, ShowDialogIgnored(p)
      PROVE  DialogTypeOK'
  BY <1>10 DEF ShowDialogIgnored
<1>11. CASE ShowConfirm
  BY <1>11 DEF ShowConfirm, TypeOnDialog, Pages
<1>12. CASE ShowTypes
  BY <1>12 DEF ShowTypes, Pages
<1>13. CASE ShowList
  BY <1>13 DEF ShowList, TypeOnDialog, Pages
<1>14. CASE ShowInfo
  BY <1>14, InfoNamesReport DEF ShowInfo, TypeOnDialog, Pages
<1>15. ASSUME NEW option \in DialogOptions, ShowOptions(option)
      PROVE  DialogTypeOK'
  BY <1>15 DEF ShowOptions, TypeOnDialog, Pages, ReadResponse, CloseReport,
     Forget
<1>16. ASSUME NEW p \in Pages, NEW option \in DialogOptions, ShowInputOrBlock(p, option)
      PROVE  DialogTypeOK'
  BY <1>16 DEF ShowInputOrBlock, TypeOnDialog, ReadResponse, CloseReport,
     Forget
<1>17. CASE MessageFinished
  BY <1>17 DEF MessageFinished
<1>18. CASE MessageNoReports
  BY <1>18 DEF MessageNoReports
<1>19. ASSUME NEW type \in ReportTypes, MessageNewReport(type)
      PROVE  DialogTypeOK'
  BY <1>19 DEF MessageNewReport
<1>20. CASE TypeCommand
  BY <1>20 DEF TypeCommand, dialogs
<1>21. ASSUME NEW button \in {"left", "right"}, NEW type \in ReportTypes, AnswerShown(button, type)
      PROVE  DialogTypeOK'
  BY <1>21 DEF AnswerShown, TypeAfterResponse
<1>22. CASE Alogout
  BY <1>22 DEF Alogout, dialogs
<1>23. CASE Alogin
  BY <1>23 DEF Alogin, dialogs
<1>24. CASE ServerStep
  BY <1>24 DEF ServerStep, client, dialogs
<1>25. ASSUME NEW r \in Reports, PlayerReports(r)
      PROVE  DialogTypeOK'
  BY <1>25 DEF PlayerReports, client, dialogs
<1>26. ASSUME NEW r \in Reports, OtherAdministratorTakes(r)
      PROVE  DialogTypeOK'
  BY <1>26 DEF OtherAdministratorTakes, client, dialogs
<1>27. CASE ReporterQuits
  BY <1>27 DEF ReporterQuits, client, dialogs
<1>28. CASE UNCHANGED vars
  BY <1>28 DEF vars, window, dialogs, server
<1> QED
  BY <1>1, <1>2, <1>3, <1>4, <1>5, <1>6, <1>7, <1>8, <1>9, <1>10, <1>11,
     <1>12, <1>13, <1>14, <1>15, <1>16, <1>17, <1>18, <1>19, <1>20, <1>21,
     <1>22, <1>23, <1>24, <1>25, <1>26, <1>27, <1>28 DEF Next, ClientStep,
     UserStep, Act

\* Only commands, responses, dialogs and messages travel.
LEMMA ChannelStep ==
  ASSUME IInv, [Next]_vars
  PROVE  ChannelTypeOK'
<1> USE DEF IInv, TypeOK, ChannelTypeOK
<1>1. CASE Escape
  BY <1>1, SendType, ResponseType DEF Escape, CloseWindowWithDialog,
     DialogTypeOK
<1>2. CASE SwitchWindow
  BY <1>2, SendType, ResponseType, CommandType DEF SwitchWindow,
     CloseWindowWithDialog, DialogTypeOK
<1>3. CASE TryAcceptLastReport
  BY <1>3, SendType, CommandType DEF TryAcceptLastReport
<1>4. ASSUME NEW option \in DialogOptions, ClickOption(option)
      PROVE  ChannelTypeOK'
  BY <1>4, SendType, ResponseType DEF ClickOption, CloseDialog, DialogTypeOK
<1>5. CASE ClickBlock
  BY <1>5 DEF ClickBlock
<1>6. CASE ChooseBlockTime
  BY <1>6, SendType, ResponseType DEF ChooseBlockTime, CloseDialog,
     DialogTypeOK
<1>7. CASE DismissPopup
  BY <1>7 DEF DismissPopup
<1>8. CASE TypeAnswer
  BY <1>8 DEF TypeAnswer
<1>9. ASSUME NEW alpha \in 0..1, Frame(alpha)
      PROVE  ChannelTypeOK'
  BY <1>9 DEF Frame
<1>10. ASSUME NEW p \in Pages, ShowDialogIgnored(p)
      PROVE  ChannelTypeOK'
  BY <1>10, ReceiveType DEF ShowDialogIgnored
<1>11. CASE ShowConfirm
  BY <1>11, SendType, ResponseType, ReceiveType DEF ShowConfirm, Pages
<1>12. CASE ShowTypes
  BY <1>12, SendType, ResponseType, ReceiveType DEF ShowTypes, Pages
<1>13. CASE ShowList
  BY <1>13, SendType, ResponseType, ReceiveType DEF ShowList, Pages
<1>14. CASE ShowInfo
  BY <1>14, ReceiveType DEF ShowInfo
<1>15. ASSUME NEW option \in DialogOptions, ShowOptions(option)
      PROVE  ChannelTypeOK'
  BY <1>15, SendType, ResponseType, ReceiveType DEF ShowOptions, Pages
<1>16. ASSUME NEW p \in Pages, NEW option \in DialogOptions, ShowInputOrBlock(p, option)
      PROVE  ChannelTypeOK'
  BY <1>16, SendType, ResponseType, ReceiveType DEF ShowInputOrBlock
<1>17. CASE MessageFinished
  BY <1>17, SendType, ResponseType, ReceiveType DEF MessageFinished,
     DialogTypeOK
<1>18. CASE MessageNoReports
  BY <1>18, ReceiveType DEF MessageNoReports
<1>19. ASSUME NEW type \in ReportTypes, MessageNewReport(type)
      PROVE  ChannelTypeOK'
  BY <1>19, ReceiveType DEF MessageNewReport
<1>20. CASE TypeCommand
  BY <1>20, SendType, CommandType DEF TypeCommand
<1>21. ASSUME NEW button \in {"left", "right"}, NEW type \in ReportTypes, AnswerShown(button, type)
      PROVE  ChannelTypeOK'
  BY <1>21, SendType, ResponseType DEF AnswerShown, DialogTypeOK
<1>22. CASE Alogout
  BY <1>22 DEF Alogout
<1>23. CASE Alogin
  BY <1>23 DEF Alogin
<1>24. CASE ServerStep
  BY <1>24, ServerHandlesTypes, ServedType DEF ServerStep
<1>25. ASSUME NEW r \in Reports, PlayerReports(r)
      PROVE  ChannelTypeOK'
  BY <1>25, TellType, MessageType DEF PlayerReports, Texts
<1>26. ASSUME NEW r \in Reports, OtherAdministratorTakes(r)
      PROVE  ChannelTypeOK'
  BY <1>26 DEF OtherAdministratorTakes
<1>27. CASE ReporterQuits
  BY <1>27, TellType, MessageType DEF ReporterQuits, Texts
<1>28. CASE UNCHANGED vars
  BY <1>28 DEF vars, window, dialogs, server
<1> QED
  BY <1>1, <1>2, <1>3, <1>4, <1>5, <1>6, <1>7, <1>8, <1>9, <1>10, <1>11,
     <1>12, <1>13, <1>14, <1>15, <1>16, <1>17, <1>18, <1>19, <1>20, <1>21,
     <1>22, <1>23, <1>24, <1>25, <1>26, <1>27, <1>28 DEF Next, ClientStep,
     UserStep, Act

\* The server's own state is well typed.
LEMMA ServerTypes ==
  ASSUME IInv, [Next]_vars
  PROVE  ServerTypeOK'
<1> USE DEF IInv, TypeOK, ServerTypeOK
<1>1. CASE Escape
  BY <1>1 DEF Escape, server
<1>2. CASE SwitchWindow
  BY <1>2 DEF SwitchWindow, server
<1>3. CASE TryAcceptLastReport
  BY <1>3 DEF TryAcceptLastReport, server
<1>4. ASSUME NEW option \in DialogOptions, ClickOption(option)
      PROVE  ServerTypeOK'
  BY <1>4 DEF ClickOption, CloseDialog, server
<1>5. CASE ClickBlock
  BY <1>5 DEF ClickBlock, server
<1>6. CASE ChooseBlockTime
  BY <1>6 DEF ChooseBlockTime, CloseDialog, server
<1>7. CASE DismissPopup
  BY <1>7 DEF DismissPopup, server
<1>8. CASE TypeAnswer
  BY <1>8 DEF TypeAnswer, server
<1>9. ASSUME NEW alpha \in 0..1, Frame(alpha)
      PROVE  ServerTypeOK'
  BY <1>9 DEF Frame, server
<1>10. ASSUME NEW p \in Pages, ShowDialogIgnored(p)
      PROVE  ServerTypeOK'
  BY <1>10 DEF ShowDialogIgnored, server
<1>11. CASE ShowConfirm
  BY <1>11 DEF ShowConfirm, server
<1>12. CASE ShowTypes
  BY <1>12 DEF ShowTypes, server
<1>13. CASE ShowList
  BY <1>13 DEF ShowList, server
<1>14. CASE ShowInfo
  BY <1>14 DEF ShowInfo, server
<1>15. ASSUME NEW option \in DialogOptions, ShowOptions(option)
      PROVE  ServerTypeOK'
  BY <1>15 DEF ShowOptions, server
<1>16. ASSUME NEW p \in Pages, NEW option \in DialogOptions, ShowInputOrBlock(p, option)
      PROVE  ServerTypeOK'
  BY <1>16 DEF ShowInputOrBlock, server
<1>17. CASE MessageFinished
  BY <1>17 DEF MessageFinished, server
<1>18. CASE MessageNoReports
  BY <1>18 DEF MessageNoReports, server
<1>19. ASSUME NEW type \in ReportTypes, MessageNewReport(type)
      PROVE  ServerTypeOK'
  BY <1>19 DEF MessageNewReport, server
<1>20. CASE TypeCommand
  BY <1>20 DEF TypeCommand, server
<1>21. ASSUME NEW button \in {"left", "right"}, NEW type \in ReportTypes, AnswerShown(button, type)
      PROVE  ServerTypeOK'
  BY <1>21 DEF AnswerShown, server
<1>22. CASE Alogout
  BY <1>22 DEF Alogout
<1>23. CASE Alogin
  BY <1>23 DEF Alogin, server
<1>24. CASE ServerStep
  BY <1>24, ServerHandlesTypes DEF ServerStep
<1>25. ASSUME NEW r \in Reports, PlayerReports(r)
      PROVE  ServerTypeOK'
  BY <1>25 DEF PlayerReports
<1>26. ASSUME NEW r \in Reports, OtherAdministratorTakes(r)
      PROVE  ServerTypeOK'
  BY <1>26 DEF OtherAdministratorTakes
<1>27. CASE ReporterQuits
  BY <1>27 DEF ReporterQuits
<1>28. CASE UNCHANGED vars
  BY <1>28 DEF vars, window, dialogs, server
<1> QED
  BY <1>1, <1>2, <1>3, <1>4, <1>5, <1>6, <1>7, <1>8, <1>9, <1>10, <1>11,
     <1>12, <1>13, <1>14, <1>15, <1>16, <1>17, <1>18, <1>19, <1>20, <1>21,
     <1>22, <1>23, <1>24, <1>25, <1>26, <1>27, <1>28 DEF Next, ClientStep,
     UserStep, Act

-----------------------------------------------------------------------------
(* The theorems.                                                           *)

\* What is remembered of the administrator is a truth value.
LEMMA HastyStep ==
  ASSUME hasty \in BOOLEAN, [Next]_vars
  PROVE  hasty' \in BOOLEAN
<1>1. CASE ClientStep
  BY <1>1 DEF ClientStep
<1>2. CASE UserStep
  <2>1. ASSUME NEW calm, Remember(calm) PROVE hasty' \in BOOLEAN
    BY <2>1 DEF Remember
  <2> QED
    BY <1>2, <2>1 DEF UserStep
<1>3. CASE ServerStep
  BY <1>3 DEF ServerStep, client
<1>4. ASSUME NEW alpha, Frame(alpha) PROVE hasty' \in BOOLEAN
  BY <1>4 DEF Frame
<1>5. ASSUME NEW r, PlayerReports(r) \/ OtherAdministratorTakes(r)
      PROVE  hasty' \in BOOLEAN
  BY <1>5 DEF PlayerReports, OtherAdministratorTakes, client
<1>6. CASE ReporterQuits
  BY <1>6 DEF ReporterQuits, client
<1>7. CASE UNCHANGED vars
  BY <1>7 DEF vars
<1> QED
  BY <1>1, <1>2, <1>3, <1>4, <1>5, <1>6, <1>7 DEF Next

\* The invariant is inductive.
LEMMA NextIInv == IInv /\ [Next]_vars => IInv'
  BY WindowStep, DialogStep, ChannelStep, ServerTypes, HastyStep DEF IInv, TypeOK

\* It holds in every reachable state.
THEOREM Inductive == Spec => []IInv
<1>1. Init => IInv
  BY InitIInv
<1>2. IInv /\ [Next]_vars => IInv'
  BY NextIInv
<1> QED
  BY <1>1, <1>2, PTL DEF Spec

\* Type correctness of the window, the channels and the server.
THEOREM TypeCorrect == Spec => []TypeOK
<1>1. IInv => TypeOK
  BY DEF IInv
<1> QED
  BY <1>1, Inductive, PTL

\* Only a window on the screen closes or forgets its report.
THEOREM FlagsCorrect == Spec => []FlagsOfActiveWindow
<1>1. IInv => FlagsOfActiveWindow
  BY DEF IInv
<1> QED
  BY <1>1, Inductive, PTL

\* A window that is open to stay has a report to show.
THEOREM OpenWindowCorrect == Spec => []OpenWindowHasReport
<1>1. IInv => OpenWindowHasReport
  BY DEF IInv
<1> QED
  BY <1>1, Inductive, PTL

-----------------------------------------------------------------------------
(* The chain of dialogs.  An administrator who waits for the answers has   *)
(* one exchange with the server under way at a time: a command, dialog or  *)
(* response of it, its link, is the only one that travels.  The responses  *)
(* by which the window only closes a dialog lead to nothing and do not     *)
(* count.                                                                  *)

\* Pages that a press of the window brings up, and that the plugin answers.
OwnPages == {"info", "options", "input", "block"}

\* on_server_message, ESC and the hotkey close only dialogs that the plugin has.
DialogId ==
  /\ dialog_id \in OwnPages \cup {"none"}
  /\ dialog_active => dialog_id \in {"info", "options"}

\* Off /alogin the server has no dialog open, and only there does SA:MP itself
\* show the plugin's pages.
Away ==
  /\ ~on_alogin => page = "none"
  /\ shown \in OwnPages => ~on_alogin

DialogsInv == DialogId /\ (~hasty => Away)

Presses(m) == m.dialog = "info" /\ m.button = "left"

LinkToServer(m) ==
  \/ m.dialog \in {"command", "types", "list", "confirm"}
  \/ Presses(m)
  \/ m.item # "none"

LinkToClient(m) == m.what \notin Texts

\* The pages that read *current_response, and the option that leads to the next.
Reads(m) == m.what \in {"options", "input", "block"}

LeadsOn(m) ==
  /\ m.dialog = "options" /\ m.button = "right"
  /\ m.item \notin {"none", "return_to_administration"}

\* The responses that make the server take the report back.
Releases(m) ==
  /\ m.button = "right"
  /\ m.dialog \in {"input", "block"} \/ m.item = "return_to_administration"

\* Somewhere in a channel
SomeLink(s)    == \E i \in 1..Len(s) : LinkToServer(s[i])
SomeDialog(t)  == \E i \in 1..Len(t) : LinkToClient(t[i])
SomeReading(t) == \E i \in 1..Len(t) : Reads(t[i])
SomeLeading(s) == \E i \in 1..Len(s) : LeadsOn(s[i])
SomeRelease(s) == \E i \in 1..Len(s) : Releases(s[i])
SomeByHand(s)  == \E i \in 1..Len(s) : Releases(s[i]) /\ s[i].item = "none"
SomePress(s)   == \E i \in 1..Len(s) : Presses(s[i])
LaterPress(s)  == \E i \in 1..Len(s) : i > 1 /\ Presses(s[i])
SomeFinish(t)  == \E i \in 1..Len(t) : t[i].what = "processing_finished"

OneLink(s, t) ==
  /\ \A i, j \in 1..Len(s) : LinkToServer(s[i]) /\ LinkToServer(s[j]) => i = j
  /\ \A i, j \in 1..Len(t) : LinkToClient(t[i]) /\ LinkToClient(t[j]) => i = j
  /\ ~(SomeLink(s) /\ SomeDialog(t))

\* The information page names the report held, unless its end is told behind it.
InfoHolds(t, r) ==
  \A i \in 1..Len(t) : t[i].what = "info" =>
     t[i].of = r \/ (\E j \in 1..Len(t) : j > i /\ t[j].what = "processing_finished")

-----------------------------------------------------------------------------
(* What appending and removing messages does to these.                     *)

LEMMA AppendAt ==
  ASSUME NEW S, NEW s \in Seq(S), NEW m \in S
  PROVE  /\ Append(s, m) \in Seq(S)
         /\ Len(s) \in Nat /\ Len(Append(s, m)) = Len(s) + 1
         /\ \A i \in 1..Len(s) : Append(s, m)[i] = s[i]
         /\ Append(s, m)[Len(s) + 1] = m
         /\ \A i \in 1..(Len(s) + 1) : i \in 1..Len(s) \/ i = Len(s) + 1
  OBVIOUS

LEMMA TailAt ==
  ASSUME NEW S, NEW s \in Seq(S), s # <<>>
  PROVE  /\ Tail(s) \in Seq(S) /\ Head(s) \in S
         /\ Len(s) \in Nat \ {0} /\ Len(Tail(s)) = Len(s) - 1
         /\ Head(s) = s[1]
         /\ \A i \in 1..Len(Tail(s)) : Tail(s)[i] = s[i + 1] /\ i + 1 \in 1..Len(s)
  OBVIOUS

\* A response or a command is sent.
LEMMA SentIsLast ==
  ASSUME NEW s \in Seq(ToServer), NEW m \in ToServer
  PROVE  /\ SomeLink(Append(s, m)) => SomeLink(s) \/ LinkToServer(m)
         /\ SomeLeading(Append(s, m)) => SomeLeading(s) \/ LeadsOn(m)
         /\ SomeRelease(Append(s, m)) => SomeRelease(s) \/ Releases(m)
         /\ SomeByHand(Append(s, m)) => SomeByHand(s) \/ (Releases(m) /\ m.item = "none")
         /\ SomePress(Append(s, m)) => SomePress(s) \/ Presses(m)
         /\ LaterPress(Append(s, m)) => LaterPress(s) \/ (s # <<>> /\ Presses(m))
<1> DEFINE a == Append(s, m)
<1>1. /\ Len(s) \in Nat /\ Len(a) = Len(s) + 1
      /\ \A i \in 1..Len(s) : a[i] = s[i]
      /\ a[Len(s) + 1] = m
      /\ \A i \in 1..Len(a) : i \in 1..Len(s) \/ i = Len(s) + 1
  BY AppendAt
<1>2. Len(s) + 1 > 1 => s # <<>>
  OBVIOUS
<1> HIDE DEF a
<1>3. SomeLink(a) => SomeLink(s) \/ LinkToServer(m)
  BY <1>1 DEF SomeLink
<1>4. SomeLeading(a) => SomeLeading(s) \/ LeadsOn(m)
  BY <1>1 DEF SomeLeading
<1>5. SomeRelease(a) => SomeRelease(s) \/ Releases(m)
  BY <1>1 DEF SomeRelease
<1>8. SomeByHand(a) => SomeByHand(s) \/ (Releases(m) /\ m.item = "none")
  BY <1>1 DEF SomeByHand
<1>6. SomePress(a) => SomePress(s) \/ Presses(m)
  BY <1>1 DEF SomePress
<1>7. LaterPress(a) => LaterPress(s) \/ (s # <<>> /\ Presses(m))
  BY <1>1, <1>2 DEF LaterPress
<1> QED
  BY <1>3, <1>4, <1>5, <1>6, <1>7, <1>8 DEF a

\* The server takes the first message.
LEMMA ServedIsFirst ==
  ASSUME NEW s \in Seq(ToServer), s # <<>>
  PROVE  /\ SomeLink(Tail(s)) => SomeLink(s)
         /\ SomeLeading(Tail(s)) => SomeLeading(s)
         /\ SomeRelease(Tail(s)) => SomeRelease(s)
         /\ SomeByHand(Tail(s)) => SomeByHand(s)
         /\ SomePress(Tail(s)) => LaterPress(s)
         /\ LinkToServer(Head(s)) => SomeLink(s)
         /\ LeadsOn(Head(s)) => SomeLeading(s)
         /\ Releases(Head(s)) => SomeRelease(s)
         /\ Releases(Head(s)) /\ Head(s).item = "none" => SomeByHand(s)
         /\ Presses(Head(s)) => SomePress(s)
<1> DEFINE a == Tail(s)
<1>1. /\ Len(s) \in Nat \ {0} /\ Len(a) = Len(s) - 1
      /\ Head(s) = s[1]
      /\ \A i \in 1..Len(a) : a[i] = s[i + 1] /\ i + 1 \in 1..Len(s)
  BY TailAt
<1>2. 1 \in 1..Len(s) /\ (\A i \in 1..Len(a) : i + 1 > 1)
  BY <1>1
<1> HIDE DEF a
<1>3. SomeLink(a) => SomeLink(s)
  BY <1>1 DEF SomeLink
<1>4. SomeLeading(a) => SomeLeading(s)
  BY <1>1 DEF SomeLeading
<1>5. SomeRelease(a) => SomeRelease(s)
  BY <1>1 DEF SomeRelease
<1>8. SomeByHand(a) => SomeByHand(s)
  BY <1>1 DEF SomeByHand
<1>6. SomePress(a) => LaterPress(s)
  BY <1>1, <1>2 DEF SomePress, LaterPress
<1>7. /\ LinkToServer(Head(s)) => SomeLink(s)
      /\ LeadsOn(Head(s)) => SomeLeading(s)
      /\ Releases(Head(s)) => SomeRelease(s)
      /\ Releases(Head(s)) /\ Head(s).item = "none" => SomeByHand(s)
      /\ Presses(Head(s)) => SomePress(s)
  BY <1>1, <1>2 DEF SomeLink, SomeLeading, SomeRelease, SomeByHand, SomePress
<1> QED
  BY <1>3, <1>4, <1>5, <1>6, <1>7, <1>8 DEF a

\* The server tells something.
LEMMA ToldIsLast ==
  ASSUME NEW t \in Seq(ToClient), NEW d \in ToClient, NEW r
  PROVE  /\ SomeDialog(Append(t, d)) => SomeDialog(t) \/ LinkToClient(d)
         /\ SomeReading(Append(t, d)) => SomeReading(t) \/ Reads(d)
         /\ SomeFinish(t) \/ d.what = "processing_finished" => SomeFinish(Append(t, d))
         /\ InfoHolds(t, r) /\ (d.what = "info" => d.of = r) => InfoHolds(Append(t, d), r)
         /\ d.what = "processing_finished" => InfoHolds(Append(t, d), r)
<1> DEFINE a == Append(t, d)
<1>1. /\ Len(t) \in Nat /\ Len(a) = Len(t) + 1
      /\ \A i \in 1..Len(t) : a[i] = t[i]
      /\ a[Len(t) + 1] = d
      /\ \A i \in 1..Len(a) : i \in 1..Len(t) \/ i = Len(t) + 1
  BY AppendAt
<1>2. 1..Len(t) \subseteq 1..Len(a) /\ Len(t) + 1 \in 1..Len(a)
  BY <1>1
<1>3. \A i \in 1..Len(t) : Len(t) + 1 > i
  BY <1>1
<1> HIDE DEF a
<1>4. SomeDialog(a) => SomeDialog(t) \/ LinkToClient(d)
  BY <1>1 DEF SomeDialog
<1>5. SomeReading(a) => SomeReading(t) \/ Reads(d)
  BY <1>1 DEF SomeReading
<1>6. SomeFinish(t) \/ d.what = "processing_finished" => SomeFinish(a)
  BY <1>1, <1>2 DEF SomeFinish
<1>7. ASSUME InfoHolds(t, r), d.what = "info" => d.of = r
      PROVE  InfoHolds(a, r)
  BY <1>1, <1>2, <1>7 DEF InfoHolds
<1>8. ASSUME d.what = "processing_finished"
      PROVE  InfoHolds(a, r)
  BY <1>1, <1>2, <1>3, <1>8 DEF InfoHolds
<1> QED
  BY <1>4, <1>5, <1>6, <1>7, <1>8 DEF a

\* The client receives the first of what was told.
LEMMA ReceivedIsFirst ==
  ASSUME NEW t \in Seq(ToClient), t # <<>>, NEW r
  PROVE  /\ SomeDialog(Tail(t)) => SomeDialog(t)
         /\ SomeReading(Tail(t)) => SomeReading(t)
         /\ LinkToClient(Head(t)) => SomeDialog(t)
         /\ Reads(Head(t)) => SomeReading(t)
         /\ SomeFinish(t) => SomeFinish(Tail(t)) \/ Head(t).what = "processing_finished"
         /\ InfoHolds(t, r) => InfoHolds(Tail(t), r)
         /\ InfoHolds(t, r) /\ Head(t).what = "info" => Head(t).of = r \/ SomeFinish(Tail(t))
<1> DEFINE a == Tail(t)
<1>1. /\ Len(t) \in Nat \ {0} /\ Len(a) = Len(t) - 1
      /\ Head(t) = t[1]
      /\ \A i \in 1..Len(a) : a[i] = t[i + 1] /\ i + 1 \in 1..Len(t)
  BY TailAt
<1>2. 1 \in 1..Len(t)
  BY <1>1
<1>3. \A j \in 1..Len(t) : j > 1 => j - 1 \in 1..Len(a) /\ a[j - 1] = t[j]
  BY <1>1
<1>4. \A j \in 1..Len(t) : j = 1 \/ j > 1
  BY <1>1
<1>5. \A i \in 1..Len(a), j \in 1..Len(t) : j > i + 1 => j > 1 /\ j - 1 > i
  BY <1>1
<1> HIDE DEF a
<1>6. SomeDialog(a) => SomeDialog(t)
  BY <1>1 DEF SomeDialog
<1>7. SomeReading(a) => SomeReading(t)
  BY <1>1 DEF SomeReading
<1>8. (LinkToClient(Head(t)) => SomeDialog(t)) /\ (Reads(Head(t)) => SomeReading(t))
  BY <1>1, <1>2 DEF SomeDialog, SomeReading
<1>9. SomeFinish(t) => SomeFinish(a) \/ Head(t).what = "processing_finished"
  BY <1>1, <1>3, <1>4 DEF SomeFinish
<1>10. ASSUME InfoHolds(t, r) PROVE InfoHolds(a, r)
  <2>1. SUFFICES ASSUME NEW i \in 1..Len(a), a[i].what = "info", a[i].of # r
                 PROVE  \E j \in 1..Len(a) : j > i /\ a[j].what = "processing_finished"
    BY DEF InfoHolds
  <2>2. PICK j \in 1..Len(t) : j > i + 1 /\ t[j].what = "processing_finished"
    BY <1>1, <1>10, <2>1 DEF InfoHolds
  <2>3. j > 1 /\ j - 1 > i
    BY <1>5, <2>2
  <2> QED
    BY <1>3, <2>2, <2>3
<1>11. ASSUME InfoHolds(t, r), Head(t).what = "info"
       PROVE  Head(t).of = r \/ SomeFinish(a)
  BY <1>1, <1>2, <1>3, <1>11 DEF InfoHolds, SomeFinish
<1> QED
  BY <1>6, <1>7, <1>8, <1>9, <1>10, <1>11 DEF a

\* Where no dialog travels nothing reads the response or names a report.
LEMMA NoDialog ==
  ASSUME NEW t \in Seq(ToClient), ~SomeDialog(t), NEW r
  PROVE  ~SomeReading(t) /\ InfoHolds(t, r)
  BY DEF SomeDialog, SomeReading, InfoHolds, LinkToClient, Reads, Texts

\* Where no link travels nothing leads on and nothing presses.
LEMMA NoLink ==
  ASSUME NEW s \in Seq(ToServer), ~SomeLink(s)
  PROVE  /\ ~SomeLeading(s) /\ ~SomePress(s) /\ ~LaterPress(s)
         /\ SomeRelease(s) => SomeByHand(s)
  BY DEF SomeLink, SomeLeading, SomePress, LaterPress, SomeRelease, SomeByHand,
     LinkToServer, LeadsOn

-----------------------------------------------------------------------------
(* One link stays one link.                                                *)

LEMMA OneLinkSent ==
  ASSUME NEW s \in Seq(ToServer), NEW t \in Seq(ToClient), NEW m \in ToServer,
         OneLink(s, t), LinkToServer(m) => ~SomeLink(s) /\ ~SomeDialog(t)
  PROVE  OneLink(Append(s, m), t)
<1> DEFINE a == Append(s, m)
<1>1. /\ Len(s) \in Nat /\ Len(a) = Len(s) + 1
      /\ \A i \in 1..Len(s) : a[i] = s[i]
      /\ a[Len(s) + 1] = m
      /\ \A i \in 1..Len(a) : i \in 1..Len(s) \/ i = Len(s) + 1
  BY AppendAt
<1>2. SomeLink(a) => SomeLink(s) \/ LinkToServer(m)
  BY SentIsLast
<1> HIDE DEF a
<1>3. \A i, j \in 1..Len(a) : LinkToServer(a[i]) /\ LinkToServer(a[j]) => i = j
  BY <1>1 DEF OneLink, SomeLink
<1> QED
  BY <1>2, <1>3 DEF OneLink, a

LEMMA OneLinkTold ==
  ASSUME NEW s \in Seq(ToServer), NEW t \in Seq(ToClient), NEW d \in ToClient,
         OneLink(s, t), LinkToClient(d) => ~SomeLink(s) /\ ~SomeDialog(t)
  PROVE  OneLink(s, Append(t, d))
<1> DEFINE a == Append(t, d)
<1>1. /\ Len(t) \in Nat /\ Len(a) = Len(t) + 1
      /\ \A i \in 1..Len(t) : a[i] = t[i]
      /\ a[Len(t) + 1] = d
      /\ \A i \in 1..Len(a) : i \in 1..Len(t) \/ i = Len(t) + 1
  BY AppendAt
<1>2. SomeDialog(a) => SomeDialog(t) \/ LinkToClient(d)
  BY ToldIsLast
<1> HIDE DEF a
<1>3. \A i, j \in 1..Len(a) : LinkToClient(a[i]) /\ LinkToClient(a[j]) => i = j
  BY <1>1 DEF OneLink, SomeDialog
<1> QED
  BY <1>2, <1>3 DEF OneLink, a

\* If the first message was the link, no other is left.
LEMMA OneLinkServed ==
  ASSUME NEW s \in Seq(ToServer), NEW t \in Seq(ToClient), s # <<>>, OneLink(s, t)
  PROVE  /\ OneLink(Tail(s), t)
         /\ LinkToServer(Head(s)) => ~SomeLink(Tail(s)) /\ ~SomeDialog(t)
<1> DEFINE a == Tail(s)
<1>1. /\ Len(s) \in Nat \ {0} /\ Len(a) = Len(s) - 1
      /\ Head(s) = s[1]
      /\ \A i \in 1..Len(a) : a[i] = s[i + 1] /\ i + 1 \in 1..Len(s)
  BY TailAt
<1>2. (SomeLink(a) => SomeLink(s)) /\ (LinkToServer(Head(s)) => SomeLink(s))
  BY ServedIsFirst
<1>3. 1 \in 1..Len(s) /\ (\A i \in 1..Len(a) : i + 1 # 1)
  BY <1>1
<1>4. \A i, j \in 1..Len(a) : i + 1 = j + 1 => i = j
  BY <1>1
<1> HIDE DEF a
<1>5. \A i, j \in 1..Len(a) : LinkToServer(a[i]) /\ LinkToServer(a[j]) => i = j
  BY <1>1, <1>4 DEF OneLink
<1>6. LinkToServer(Head(s)) => ~SomeLink(a)
  BY <1>1, <1>3 DEF OneLink, SomeLink
<1> QED
  BY <1>2, <1>5, <1>6 DEF OneLink, a

LEMMA OneLinkReceived ==
  ASSUME NEW s \in Seq(ToServer), NEW t \in Seq(ToClient), t # <<>>, OneLink(s, t)
  PROVE  /\ OneLink(s, Tail(t))
         /\ LinkToClient(Head(t)) => ~SomeLink(s) /\ ~SomeDialog(Tail(t))
<1> DEFINE a == Tail(t)
<1>1. /\ Len(t) \in Nat \ {0} /\ Len(a) = Len(t) - 1
      /\ Head(t) = t[1]
      /\ \A i \in 1..Len(a) : a[i] = t[i + 1] /\ i + 1 \in 1..Len(t)
  BY TailAt
<1>2. (SomeDialog(a) => SomeDialog(t)) /\ (LinkToClient(Head(t)) => SomeDialog(t))
  BY ReceivedIsFirst
<1>3. 1 \in 1..Len(t) /\ (\A i \in 1..Len(a) : i + 1 # 1)
  BY <1>1
<1>4. \A i, j \in 1..Len(a) : i + 1 = j + 1 => i = j
  BY <1>1
<1> HIDE DEF a
<1>5. \A i, j \in 1..Len(a) : LinkToClient(a[i]) /\ LinkToClient(a[j]) => i = j
  BY <1>1, <1>4 DEF OneLink
<1>6. LinkToClient(Head(t)) => ~SomeDialog(a)
  BY <1>1, <1>3 DEF OneLink, SomeDialog
<1> QED
  BY <1>2, <1>5, <1>6 DEF OneLink, a

-----------------------------------------------------------------------------
(* What a step does to the chain.                                          *)

\* What the window does between, and the steps that concern neither channel.
\* A frame ends the closing animation and forgets the report.
Rests ==
  /\ UNCHANGED <<to_server, to_client, current_response>>
  /\ "current_response" \in undefined' => "current_response" \in undefined
  /\ (page' = page /\ held' = held) \/ (page' = "none" /\ ~on_alogin')
  /\ active' => active /\ (closing => closing')
  /\ reset' => reset /\ (closing => closing')
  /\ \/ reset' = reset /\ current_report' = current_report
     \/ reset /\ current_report' = NoReport

\* The administrator, who has been answered, sends something.
Sends(m) ==
  /\ Calm /\ Send(m)
  /\ UNCHANGED <<to_client, page, held, reset, current_report, undefined>>
  /\ m.item = "none"
  /\ Releases(m) => ~on_alogin
  /\ Presses(m) => (current_response' # "none" /\ closing') \/ page # "info"

\* A chat message of the server may close the window, and its dialog with it.
Closes(m) ==
  /\ Send(m)
  /\ m.item = "none" /\ m.button = "right" /\ m.dialog \in {"info", "options"}

ReceivesText ==
  /\ to_client # <<>> /\ Head(to_client).what \in Texts
  /\ to_client' = Tail(to_client)
  /\ to_server' = to_server \/ (\E m \in ToServer : Closes(m))
  /\ UNCHANGED <<current_response, page, held, reset, undefined, active>>
  /\ closing => closing'
  /\ \/ current_report' = current_report /\ Head(to_client).what # "processing_finished"
     \/ current_report' = NoReport

\* A dialog is shown, or answered by the plugin.
Answers(m) ==
  /\ Send(m)
  /\ ~Presses(m)
  /\ LeadsOn(m) => current_response' # "none" /\ (active' => closing')
  /\ Releases(m) => m.item # "none" /\ (reset' \/ current_report' = NoReport)

ReceivesDialog ==
  /\ to_client # <<>> /\ LinkToClient(Head(to_client))
  /\ to_client' = Tail(to_client)
  /\ to_server' = to_server \/ (\E m \in ToServer : Answers(m))
  /\ UNCHANGED <<page, held>>
  /\ "current_response" \in undefined' => "current_response" \in undefined
  /\ reset' => closing'
  /\ \/ reset' = reset /\ current_report' = current_report
     \/ reset' \/ current_report' = NoReport
     \/ /\ Head(to_client).what = "info" /\ reset' = reset
        /\ current_report' = Head(to_client).of

\* The server handles a message, and answers a link with at most one dialog.
AnswersTo(m, d) ==
  /\ Tell(d)
  /\ LinkToClient(d) => LinkToServer(m)
  /\ Reads(d) => LeadsOn(m) \/ (Presses(m) /\ page = "info")
  /\ d.what = "info" => d.of = held'

Serves ==
  /\ to_server # <<>> /\ to_server' = Tail(to_server)
  /\ UNCHANGED client
  /\ to_client' = to_client \/ (\E d \in ToClient : AnswersTo(Head(to_server), d))
  /\ page' \in {"list", "confirm"} =>
       held' = NoReport \/ (page \in {"list", "confirm"} /\ held' = held)
  /\ \/ held' = held
     \/ Releases(Head(to_server))
     \/ page \in {"list", "confirm"} /\ LinkToServer(Head(to_server))

\* The server speaks first.
TellsText(d) ==
  /\ Tell(d) /\ ~LinkToClient(d)
  /\ UNCHANGED <<client, to_server>>
  /\ \/ page' = page /\ held' = held
     \/ page' = "none" /\ d.what = "processing_finished"

Shapes ==
  \/ Rests
  \/ \E m \in ToServer : Sends(m)
  \/ ReceivesText \/ ReceivesDialog
  \/ Serves
  \/ \E d \in ToClient : TellsText(d)

-----------------------------------------------------------------------------
(* The chain and what it promises.                                         *)

Responding == current_response # "none" /\ (active => closing)

\* A page that reads the response, or a message that leads to one, travels only
\* with a response at hand and the window closing.  The one exception is a press
\* of a page left over from before, which the server drops.
ResponseChain ==
  /\ SomeReading(to_client) \/ SomeLeading(to_server) \/ LaterPress(to_server) => Responding
  /\ SomePress(to_server) => Responding \/ page # "info"

ChainInv ==
  /\ OneLink(to_server, to_client)
  /\ ResponseChain
  /\ reset => closing
  /\ "current_response" \notin undefined

LEMMA ChainRests == ASSUME IInv, ChainInv, Rests PROVE ChainInv'
<1>1. Responding => Responding'
  BY DEF Rests, Responding
<1> QED
  BY <1>1 DEF Rests, ChainInv, ResponseChain

LEMMA ChainSends ==
  ASSUME IInv, ChainInv, NEW m \in ToServer, Sends(m)
  PROVE  ChainInv'
<1>1. to_server \in Seq(ToServer) /\ to_client \in Seq(ToClient)
  BY DEF IInv, TypeOK, ChannelTypeOK
<1>2. /\ to_server = <<>> /\ ~SomeLink(to_server) /\ ~SomePress(to_server)
      /\ ~SomeLeading(to_server) /\ ~LaterPress(to_server)
  <2>1. to_server = <<>>
    BY DEF Sends, Calm, Answered
  <2>2. 1..Len(to_server) = {}
    BY <2>1
  <2>3. ~SomeLink(to_server)
    BY <2>2 DEF SomeLink
  <2> QED
    BY <1>1, <2>1, <2>3, NoLink
<1>3. ~SomeDialog(to_client) /\ ~SomeReading(to_client)
  BY <1>1, NoDialog DEF Sends, Calm, Answered, SomeDialog, LinkToClient
<1>4. to_server' = Append(to_server, m)
  BY DEF Sends, Send
<1>5. OneLink(to_server', to_client')
  BY <1>1, <1>2, <1>3, <1>4, OneLinkSent DEF ChainInv, Sends
<1>6. ~LeadsOn(m)
  BY DEF Sends, LeadsOn
<1>7. /\ ~SomeLeading(to_server') /\ ~LaterPress(to_server')
      /\ SomePress(to_server') => Presses(m)
  BY <1>1, <1>2, <1>4, <1>6, SentIsLast
<1> QED
  BY <1>3, <1>5, <1>7 DEF ChainInv, ResponseChain, Responding, Sends, Calm

LEMMA ChainReceivesText ==
  ASSUME IInv, ChainInv, ReceivesText PROVE ChainInv'
<1>1. to_server \in Seq(ToServer) /\ to_client \in Seq(ToClient)
  BY DEF IInv, TypeOK, ChannelTypeOK
<1>2. OneLink(to_server, to_client') /\ (SomeReading(to_client') => SomeReading(to_client))
      /\ to_client' \in Seq(ToClient)
  BY <1>1, OneLinkReceived, ReceivedIsFirst, TailAt DEF ReceivesText, ChainInv
<1>3. /\ OneLink(to_server', to_client')
      /\ SomeLeading(to_server') => SomeLeading(to_server)
      /\ SomePress(to_server') => SomePress(to_server)
      /\ LaterPress(to_server') => LaterPress(to_server)
  <2>1. CASE to_server' = to_server
    BY <1>2, <2>1
  <2>2. ASSUME NEW m \in ToServer, Closes(m)
        PROVE  <1>3!1 /\ <1>3!2 /\ <1>3!3 /\ <1>3!4
    <3>1. to_server' = Append(to_server, m)
      BY <2>2 DEF Closes, Send
    <3>2. ~LinkToServer(m) /\ ~LeadsOn(m) /\ ~Presses(m)
      BY <2>2 DEF Closes, LinkToServer, LeadsOn, Presses
    <3> QED
      BY <1>1, <1>2, <3>1, <3>2, OneLinkSent, SentIsLast
  <2> QED
    BY <2>1, <2>2 DEF ReceivesText
<1>4. Responding => Responding'
  BY DEF ReceivesText, Responding
<1> QED
  BY <1>2, <1>3, <1>4 DEF ChainInv, ResponseChain, ReceivesText

LEMMA ChainReceivesDialog ==
  ASSUME IInv, ChainInv, ReceivesDialog PROVE ChainInv'
<1>1. to_server \in Seq(ToServer) /\ to_client \in Seq(ToClient)
  BY DEF IInv, TypeOK, ChannelTypeOK
<1>2. /\ to_client' \in Seq(ToClient) /\ OneLink(to_server, to_client')
      /\ ~SomeLink(to_server) /\ ~SomeDialog(to_client')
  BY <1>1, OneLinkReceived, TailAt DEF ReceivesDialog, ChainInv
<1>3. /\ ~SomeReading(to_client') /\ ~SomeLeading(to_server)
      /\ ~SomePress(to_server) /\ ~LaterPress(to_server)
  BY <1>1, <1>2, NoDialog, NoLink
<1>4. /\ OneLink(to_server', to_client')
      /\ SomeLeading(to_server') => Responding'
      /\ ~SomePress(to_server') /\ ~LaterPress(to_server')
  <2>1. CASE to_server' = to_server
    BY <1>2, <1>3, <2>1
  <2>2. ASSUME NEW m \in ToServer, Answers(m)
        PROVE  <1>4!1 /\ <1>4!2 /\ <1>4!3
    <3>1. to_server' = Append(to_server, m)
      BY <2>2 DEF Answers, Send
    <3>2. ~Presses(m) /\ (LeadsOn(m) => Responding')
      BY <2>2 DEF Answers, Responding
    <3> QED
      BY <1>1, <1>2, <1>3, <3>1, <3>2, OneLinkSent, SentIsLast
  <2> QED
    BY <2>1, <2>2 DEF ReceivesDialog
<1> QED
  BY <1>3, <1>4 DEF ChainInv, ResponseChain, ReceivesDialog

LEMMA ChainServes == ASSUME IInv, ChainInv, Serves PROVE ChainInv'
<1>1. to_server \in Seq(ToServer) /\ to_client \in Seq(ToClient) /\ to_server # <<>>
  BY DEF IInv, TypeOK, ChannelTypeOK, Serves
<1>2. /\ to_server' \in Seq(ToServer) /\ OneLink(to_server', to_client)
      /\ LinkToServer(Head(to_server)) => ~SomeLink(to_server') /\ ~SomeDialog(to_client)
  BY <1>1, OneLinkServed, TailAt DEF Serves, ChainInv
<1>3. /\ SomeLeading(to_server') => SomeLeading(to_server)
      /\ SomePress(to_server') => LaterPress(to_server)
      /\ LeadsOn(Head(to_server)) => SomeLeading(to_server)
      /\ Presses(Head(to_server)) => SomePress(to_server)
  BY <1>1, ServedIsFirst DEF Serves
<1>4. LaterPress(to_server') => SomePress(to_server')
  BY DEF LaterPress, SomePress
<1>5. OneLink(to_server', to_client') /\ (SomeReading(to_client') => Responding)
  <2>1. CASE to_client' = to_client
    BY <1>2, <2>1 DEF ChainInv, ResponseChain
  <2>2. ASSUME NEW d \in ToClient, AnswersTo(Head(to_server), d)
        PROVE  <1>5!1 /\ <1>5!2
    <3>1. to_client' = Append(to_client, d)
      BY <2>2 DEF AnswersTo, Tell
    <3>2. Reads(d) => Responding
      BY <1>3, <2>2 DEF AnswersTo, ChainInv, ResponseChain
    <3>3. LinkToClient(d) => ~SomeLink(to_server') /\ ~SomeDialog(to_client)
      BY <1>2, <2>2 DEF AnswersTo
    <3>4. OneLink(to_server', to_client')
      BY <1>1, <1>2, <3>1, <3>3, OneLinkTold
    <3>5. SomeReading(to_client') => SomeReading(to_client) \/ Reads(d)
      BY <1>1, <3>1, ToldIsLast
    <3> QED
      BY <3>2, <3>4, <3>5 DEF ChainInv, ResponseChain
  <2> QED
    BY <2>1, <2>2 DEF Serves
<1>6. UNCHANGED <<Responding, reset, closing, undefined>>
  BY DEF Serves, client, window, dialogs, Responding
<1> QED
  BY <1>3, <1>4, <1>5, <1>6 DEF ChainInv, ResponseChain

LEMMA ChainTells ==
  ASSUME IInv, ChainInv, NEW d \in ToClient, TellsText(d) PROVE ChainInv'
<1>1. to_server \in Seq(ToServer) /\ to_client \in Seq(ToClient)
  BY DEF IInv, TypeOK, ChannelTypeOK
<1>2. to_client' = Append(to_client, d) /\ to_server' = to_server
  BY DEF TellsText, Tell
<1>3. ~LinkToClient(d) /\ ~Reads(d)
  BY DEF TellsText, LinkToClient, Reads, Texts
<1>4. OneLink(to_server', to_client')
  BY <1>1, <1>2, <1>3, OneLinkTold DEF ChainInv
<1>5. SomeReading(to_client') => SomeReading(to_client)
  BY <1>1, <1>2, <1>3, ToldIsLast
<1>6. UNCHANGED <<Responding, reset, closing, undefined>>
  BY DEF TellsText, client, window, dialogs, Responding
<1>7. page' = page \/ page' = "none"
  BY DEF TellsText
<1> QED
  BY <1>2, <1>4, <1>5, <1>6, <1>7 DEF ChainInv, ResponseChain

-----------------------------------------------------------------------------
(* Every step is one of these.                                             *)

\* Who was hasty once stays so.
LEMMA HastyKept ==
  ASSUME IInv, [Next]_vars
  PROVE  ~hasty' => ~hasty
<1>1. CASE ClientStep
  BY <1>1 DEF ClientStep
<1>2. CASE UserStep
  BY <1>2 DEF UserStep, Remember
<1>3. CASE ServerStep
  BY <1>3 DEF ServerStep, client
<1>4. ASSUME NEW alpha, Frame(alpha) PROVE hasty' = hasty
  BY <1>4 DEF Frame
<1>5. ASSUME NEW r, PlayerReports(r) \/ OtherAdministratorTakes(r)
      PROVE  hasty' = hasty
  BY <1>5 DEF PlayerReports, OtherAdministratorTakes, client
<1>6. CASE ReporterQuits
  BY <1>6 DEF ReporterQuits, client
<1>7. CASE UNCHANGED vars
  BY <1>7 DEF vars
<1> QED
  BY <1>1, <1>2, <1>3, <1>4, <1>5, <1>6, <1>7 DEF Next

\* Off /alogin the server opens no dialog.
LEMMA ServerOffAlogin ==
  ASSUME ServerStep, ~on_alogin, page = "none"
  PROVE  page' = "none"
<1> DEFINE msg == Head(to_server)
<1>1. ServerHandles(msg)
  BY DEF ServerStep
<1> QED
  BY <1>1 DEF ServerHandles, server

\* The pages that the plugin has and those that SA:MP shows, step by step.
LEMMA DialogsStep ==
  ASSUME IInv, DialogsInv, [Next]_vars
  PROVE  DialogsInv'
<1> USE DEF DialogsInv, DialogId, Away, OwnPages
<1>0. ~hasty' => ~hasty
  BY HastyKept
<1>1. CASE Escape
  BY <1>0, <1>1 DEF Escape, CloseWindowWithDialog, server
<1>2. CASE SwitchWindow
  BY <1>0, <1>2 DEF SwitchWindow, server
<1>3. CASE TryAcceptLastReport
  BY <1>0, <1>3 DEF TryAcceptLastReport, server
<1>4. ASSUME NEW option \in DialogOptions, ClickOption(option)
      PROVE  DialogsInv'
  BY <1>0, <1>4 DEF ClickOption, CloseDialog, server
<1>5. CASE ClickBlock
  BY <1>0, <1>5 DEF ClickBlock, dialogs, server
<1>6. CASE ChooseBlockTime
  BY <1>0, <1>6 DEF ChooseBlockTime, CloseDialog, server
<1>7. CASE DismissPopup
  BY <1>0, <1>7 DEF DismissPopup, dialogs, server
<1>8. CASE TypeAnswer
  BY <1>0, <1>8 DEF TypeAnswer, dialogs, server
<1>9. ASSUME NEW alpha \in 0..1, Frame(alpha)
      PROVE  DialogsInv'
  BY <1>0, <1>9 DEF Frame, server
<1>10. ASSUME NEW p \in Pages, ShowDialogIgnored(p)
      PROVE  DialogsInv'
  BY <1>0, <1>10 DEF ShowDialogIgnored, server
<1>11. CASE ShowConfirm
  BY <1>0, <1>11 DEF ShowConfirm, server
<1>12. CASE ShowTypes
  BY <1>0, <1>12 DEF ShowTypes, server
<1>13. CASE ShowList
  BY <1>0, <1>13 DEF ShowList, server
<1>14. CASE ShowInfo
  BY <1>0, <1>14 DEF ShowInfo, server
<1>15. ASSUME NEW option \in DialogOptions, ShowOptions(option)
      PROVE  DialogsInv'
  BY <1>0, <1>15 DEF ShowOptions, CloseReport, server
<1>16. ASSUME NEW p \in Pages, NEW option \in DialogOptions, ShowInputOrBlock(p, option)
      PROVE  DialogsInv'
  BY <1>0, <1>16 DEF ShowInputOrBlock, CloseReport, server
<1>17. CASE MessageFinished
  BY <1>0, <1>17 DEF MessageFinished, server
<1>18. CASE MessageNoReports
  BY <1>0, <1>18 DEF MessageNoReports, server
<1>19. ASSUME NEW type \in ReportTypes, MessageNewReport(type)
      PROVE  DialogsInv'
  BY <1>0, <1>19 DEF MessageNewReport, server
<1>20. CASE TypeCommand
  BY <1>0, <1>20 DEF TypeCommand, dialogs, server
<1>21. ASSUME NEW button \in {"left", "right"}, NEW type \in ReportTypes, AnswerShown(button, type)
      PROVE  DialogsInv'
  BY <1>0, <1>21 DEF AnswerShown, server
<1>22. CASE Alogout /\ hasty' = hasty
  BY <1>0, <1>22 DEF Alogout, dialogs
<1>23. CASE Alogin /\ Remember(shown = "none")
  BY <1>0, <1>23 DEF Alogin, dialogs, Remember, server
<1>24. CASE ServerStep
  BY <1>0, <1>24, ServerOffAlogin DEF ServerStep, client, dialogs
<1>25. ASSUME NEW r \in Reports, PlayerReports(r)
      PROVE  DialogsInv'
  BY <1>0, <1>25 DEF PlayerReports, client, dialogs
<1>26. ASSUME NEW r \in Reports, OtherAdministratorTakes(r)
      PROVE  DialogsInv'
  BY <1>0, <1>26 DEF OtherAdministratorTakes, client, dialogs
<1>27. CASE ReporterQuits
  BY <1>0, <1>27 DEF ReporterQuits, client, dialogs
<1>28. CASE UNCHANGED vars
  BY <1>0, <1>28 DEF vars, window, dialogs, server
<1> QED
  BY <1>1, <1>2, <1>3, <1>4, <1>5, <1>6, <1>7, <1>8, <1>9, <1>10, <1>11,
     <1>12, <1>13, <1>14, <1>15, <1>16, <1>17, <1>18, <1>19, <1>20, <1>21,
     <1>22, <1>23, <1>24, <1>25, <1>26, <1>27, <1>28 DEF Next, ClientStep,
     UserStep, Act

\* The server handles a message.
LEMMA ServesShape == ASSUME IInv, ServerStep PROVE Serves
<1> DEFINE msg == Head(to_server)
           Told == \E d \in ToClient : AnswersTo(msg, d)
           Lists == page' \in {"list", "confirm"} =>
                      held' = NoReport \/ (page \in {"list", "confirm"} /\ held' = held)
           Holds == \/ held' = held
                    \/ Releases(msg)
                    \/ page \in {"list", "confirm"} /\ LinkToServer(msg)
<1>1. /\ to_server # <<>> /\ to_server' = Tail(to_server)
      /\ ServerHandles(msg) /\ UNCHANGED client
  BY DEF ServerStep
<1>2. held \in Reports \cup {NoReport} /\ pending \subseteq Reports
  BY DEF IInv, TypeOK, ServerTypeOK
<1>3. ASSUME ServerReports, UNCHANGED <<held, pending, chosen>>, LinkToServer(msg)
      PROVE  Told /\ Lists /\ Holds
  <2>1. CASE held # NoReport /\ page' = "info" /\ Tell(Dialog("info", held))
    <3>1. Dialog("info", held) \in ToClient
      BY <1>2, <2>1, DialogType DEF Pages
    <3>2. AnswersTo(msg, Dialog("info", held))
      BY <1>3, <2>1 DEF AnswersTo, Dialog, Reads
    <3> QED
      BY <1>3, <2>1, <3>1, <3>2
  <2>2. CASE held = NoReport /\ page' = "list" /\ Tell(Dialog("list", NoReport))
    <3>1. Dialog("list", NoReport) \in ToClient
      BY DialogType DEF Pages
    <3>2. AnswersTo(msg, Dialog("list", NoReport))
      BY <1>3, <2>2 DEF AnswersTo, Dialog, Reads
    <3> QED
      BY <1>3, <2>2, <3>1, <3>2
  <2>3. CASE page' = "none" /\ Tell(Message("no_active_reports"))
    <3>1. Message("no_active_reports") \in ToClient
      BY MessageType DEF Texts
    <3>2. AnswersTo(msg, Message("no_active_reports"))
      BY <2>3 DEF AnswersTo, Message, Reads, LinkToClient, Texts
    <3> QED
      BY <1>3, <2>3, <3>1, <3>2
  <2> QED
    BY <1>3, <2>1, <2>2, <2>3 DEF ServerReports
<1>4. ASSUME ServerPick, page = "list", LinkToServer(msg)
      PROVE  Told /\ Lists /\ Holds
  <2>1. ASSUME NEW r \in pending, page' = "confirm", Tell(Dialog("confirm", r)),
               UNCHANGED <<held, pending>>
        PROVE  Told /\ Lists /\ Holds
    <3>1. Dialog("confirm", r) \in ToClient
      BY <1>2, DialogType DEF Pages
    <3>2. AnswersTo(msg, Dialog("confirm", r))
      BY <1>4, <2>1 DEF AnswersTo, Dialog, Reads
    <3> QED
      BY <1>4, <2>1, <3>1, <3>2
  <2>2. ASSUME page' = "none", Tell(Message("no_active_reports")),
               UNCHANGED <<held, pending, chosen>>
        PROVE  Told /\ Lists /\ Holds
    <3>1. Message("no_active_reports") \in ToClient
      BY MessageType DEF Texts
    <3>2. AnswersTo(msg, Message("no_active_reports"))
      BY <2>2 DEF AnswersTo, Message, Reads, LinkToClient, Texts
    <3> QED
      BY <2>2, <3>1, <3>2
  <2> QED
    BY <1>4, <2>1, <2>2 DEF ServerPick
<1>5. ASSUME ServerAccept, page = "confirm", LinkToServer(msg)
      PROVE  Told /\ Lists /\ Holds
  <2>1. CASE chosen \in pending
    <3>1. Dialog("info", chosen) \in ToClient
      BY <1>2, <2>1, DialogType DEF Pages
    <3>2. AnswersTo(msg, Dialog("info", chosen)) /\ page' = "info"
      BY <1>5, <2>1 DEF ServerAccept, AnswersTo, Dialog, Reads
    <3> QED
      BY <1>5, <3>1, <3>2
  <2>2. CASE chosen \notin pending
    <3>1. Message("no_active_reports") \in ToClient
      BY MessageType DEF Texts
    <3>2. AnswersTo(msg, Message("no_active_reports")) /\ page' = "none" /\ held' = held
      BY <1>5, <2>2 DEF ServerAccept, AnswersTo, Message, Reads, LinkToClient, Texts
    <3> QED
      BY <3>1, <3>2
  <2> QED
    BY <2>1, <2>2
<1>6. ASSUME msg.dialog = "options", msg.button = "right", ServerOption(msg.item)
      PROVE  (to_client' = to_client \/ Told) /\ Lists /\ Holds
  <2>1. ASSUME NEW p \in {"input", "block"}, msg.item \in {"answer", "remove", "block"},
               page' = p, Tell(Dialog(p, held)), held' = held
        PROVE  Told /\ Lists /\ Holds
    <3>1. Dialog(p, held) \in ToClient
      BY <1>2, DialogType DEF Pages
    <3>2. LeadsOn(msg) /\ LinkToServer(msg)
      BY <1>6, <2>1 DEF LeadsOn, LinkToServer
    <3>3. AnswersTo(msg, Dialog(p, held))
      BY <2>1, <3>2 DEF AnswersTo, Dialog
    <3> QED
      BY <2>1, <3>1, <3>3
  <2>2. CASE msg.item \in {"answer", "remove"}
    BY <1>6, <2>1, <2>2 DEF ServerOption
  <2>3. CASE msg.item = "block"
    BY <1>6, <2>1, <2>3 DEF ServerOption
  <2>4. CASE msg.item = "return_to_administration"
    BY <1>6, <2>4 DEF ServerOption, Releases
  <2>5. CASE msg.item \notin {"answer", "remove", "block", "return_to_administration"}
    BY <1>6, <2>5 DEF ServerOption
  <2> QED
    BY <2>2, <2>3, <2>4, <2>5
<1>7. (to_client' = to_client \/ Told) /\ Lists /\ Holds
  <2>1. CASE msg = Command /\ UNCHANGED <<held, pending, chosen>>
             /\ page' = "types" /\ Tell(Dialog("types", NoReport))
    <3>1. Dialog("types", NoReport) \in ToClient
      BY DialogType DEF Pages
    <3>2. AnswersTo(msg, Dialog("types", NoReport))
      BY <2>1 DEF AnswersTo, Dialog, Reads, LinkToServer, Command
    <3> QED
      BY <2>1, <3>1, <3>2
  <2>2. CASE msg = Command /\ UNCHANGED <<held, pending, chosen>> /\ ServerReports
    BY <1>3, <2>2 DEF LinkToServer, Command
  <2>3. CASE msg.dialog = page /\ page = "types" /\ ServerReports
             /\ UNCHANGED <<held, pending, chosen>>
    BY <1>3, <2>3 DEF LinkToServer
  <2>4. CASE msg.dialog = page /\ page = "list" /\ ServerPick
    BY <1>4, <2>4 DEF LinkToServer
  <2>5. CASE msg.dialog = page /\ page = "confirm" /\ ServerAccept
    BY <1>5, <2>5 DEF LinkToServer
  <2>6. CASE msg.dialog = page /\ msg.button = "left" /\ page = "info"
             /\ page' = "options" /\ Tell(Dialog("options", held)) /\ held' = held
    <3>1. Dialog("options", held) \in ToClient
      BY <1>2, DialogType DEF Pages
    <3>2. Presses(msg) /\ LinkToServer(msg)
      BY <2>6 DEF Presses, LinkToServer
    <3>3. AnswersTo(msg, Dialog("options", held))
      BY <2>6, <3>2 DEF AnswersTo, Dialog
    <3> QED
      BY <2>6, <3>1, <3>3
  <2>7. CASE msg.dialog = page /\ msg.button = "right" /\ page = "options"
             /\ ServerOption(msg.item)
    BY <1>6, <2>7
  <2>8. CASE msg.dialog = page /\ msg.button = "right" /\ page \in {"input", "block"}
             /\ held' = NoReport /\ page' = "none" /\ UNCHANGED to_client
    BY <2>8 DEF Releases
  <2>9. CASE page' = "none" /\ UNCHANGED <<to_client, held>>
    BY <2>9
  <2>10. CASE UNCHANGED <<to_client, page, held>>
    BY <2>10
  <2> QED
    BY <1>1, <2>1, <2>2, <2>3, <2>4, <2>5, <2>6, <2>7, <2>8, <2>9, <2>10
       DEF ServerHandles, server
<1> QED
  BY <1>1, <1>7 DEF Serves

\* What the client receives.
LEMMA ClientShapes ==
  ASSUME IInv, DialogsInv, ChainInv, ~hasty, ClientStep
  PROVE  Shapes
<1> DEFINE h == Head(to_client)
<1>0. to_client \in Seq(ToClient) /\ dialog_id \in Pages \cup {"none"}
      /\ (reset => closing)
      /\ (dialog_active => dialog_id \in {"info", "options"})
  BY DEF IInv, TypeOK, ChannelTypeOK, DialogTypeOK, ChainInv, DialogsInv, DialogId
<1>1. ASSUME NEW p \in Pages, Receive(p)
      PROVE  to_client # <<>> /\ LinkToClient(h) /\ to_client' = Tail(to_client) /\ h.what = p
  BY <1>1 DEF Receive, LinkToClient, Pages, Texts
<1>2. ASSUME NEW t \in Texts, Receive(t)
      PROVE  to_client # <<>> /\ h.what = t /\ to_client' = Tail(to_client)
  BY <1>2 DEF Receive
<1>3. ASSUME NEW p \in {"options", "input", "block"}, Receive(p)
      PROVE  Responding
  <2>1. SomeReading(to_client)
    BY <1>0, <1>3, ReceivedIsFirst DEF Receive, Reads
  <2> QED
    BY <2>1 DEF ChainInv, ResponseChain
\* A page of the server's own, which the plugin closes or leaves to SA:MP.
<1>4. ASSUME NEW p \in Pages, Receive(p),
             UNCHANGED <<page, held, undefined, reset, closing, current_report>>,
             \/ to_server' = to_server
             \/ p \in {"types", "list", "confirm"} /\ Send(Response(p, "right", "none"))
      PROVE  Shapes
  <2>1. CASE to_server' = to_server
    BY <1>0, <1>1, <1>4, <2>1 DEF Shapes, ReceivesDialog
  <2>2. CASE p \in {"types", "list", "confirm"} /\ Send(Response(p, "right", "none"))
    <3>1. Response(p, "right", "none") \in ToServer
      BY ResponseType
    <3>2. Answers(Response(p, "right", "none"))
      BY <2>2 DEF Answers, Response, Presses, LeadsOn, Releases
    <3> QED
      BY <1>0, <1>1, <1>4, <3>1, <3>2 DEF Shapes, ReceivesDialog
  <2> QED
    BY <1>4, <2>1, <2>2
<1>5. ASSUME NEW p \in Pages, ShowDialogIgnored(p) PROVE Shapes
  BY <1>4, <1>5 DEF ShowDialogIgnored, window, server
<1>6. CASE ShowConfirm
  BY <1>4, <1>6 DEF ShowConfirm, window, server, Pages
<1>7. CASE ShowTypes
  BY <1>4, <1>7 DEF ShowTypes, window, server, Pages
<1>8. CASE ShowList
  BY <1>4, <1>8 DEF ShowList, window, server, Pages
<1>9. CASE ShowInfo
  <2>1. to_client # <<>> /\ LinkToClient(h) /\ to_client' = Tail(to_client) /\ h.what = "info"
    BY <1>1, <1>9 DEF ShowInfo, Pages
  <2> QED
    BY <1>0, <1>9, <2>1 DEF ShowInfo, server, Shapes, ReceivesDialog
<1>10. ASSUME NEW option \in DialogOptions, ShowOptions(option) PROVE Shapes
  <2> DEFINE m == Response("options", "right", option)
  <2>1. to_client # <<>> /\ LinkToClient(h) /\ to_client' = Tail(to_client)
    BY <1>1, <1>10 DEF ShowOptions, Pages
  <2>2. Responding
    BY <1>3, <1>10 DEF ShowOptions
  <2>3. option = current_response /\ undefined' = undefined
    BY <1>10, <2>2 DEF ShowOptions, ReadResponse, Responding
  <2>4. m \in ToServer
    BY ResponseType DEF Pages
  <2>5. UNCHANGED <<page, held, active, closing>> /\ Send(m)
    BY <1>10 DEF ShowOptions, server
  <2>6. CASE option = "return_to_administration"
    <3>1. reset' \/ current_report' = NoReport
      BY <1>10, <2>6 DEF ShowOptions, CloseReport, Forget
    <3>2. reset' => closing'
      BY <1>10, <2>2, <2>5, <2>6 DEF ShowOptions, CloseReport, Forget, Responding
    <3>3. Answers(m)
      BY <2>5, <2>6, <3>1 DEF Answers, Response, Presses, LeadsOn, Releases
    <3> QED
      BY <2>1, <2>3, <2>4, <2>5, <3>1, <3>2, <3>3 DEF Shapes, ReceivesDialog
  <2>7. CASE option # "return_to_administration"
    <3>1. UNCHANGED <<reset, current_response, current_report>>
      BY <1>10, <2>7 DEF ShowOptions
    <3>2. current_response' # "none" /\ (active' => closing')
      BY <2>2, <2>5, <3>1 DEF Responding
    <3>3. Answers(m)
      BY <2>5, <2>7, <3>2 DEF Answers, Response, Presses, LeadsOn, Releases
    <3> QED
      BY <1>0, <2>1, <2>3, <2>4, <2>5, <3>1, <3>3 DEF Shapes, ReceivesDialog
  <2> QED
    BY <2>6, <2>7
<1>11. ASSUME NEW p \in Pages, NEW option \in DialogOptions, ShowInputOrBlock(p, option)
       PROVE  Shapes
  <2> DEFINE m == Response(p, "right", option)
  <2>0. p \in {"input", "block"}
    BY <1>11 DEF ShowInputOrBlock
  <2>1. to_client # <<>> /\ LinkToClient(h) /\ to_client' = Tail(to_client)
    BY <1>1, <1>11 DEF ShowInputOrBlock
  <2>2. Responding
    BY <1>3, <1>11, <2>0 DEF ShowInputOrBlock
  <2>3. undefined' = undefined
    BY <1>11, <2>2 DEF ShowInputOrBlock, ReadResponse, Responding
  <2>4. m \in ToServer /\ option # "none"
    BY ResponseType DEF DialogOptions
  <2>5. UNCHANGED <<page, held, active, closing>> /\ Send(m)
    BY <1>11 DEF ShowInputOrBlock, server
  <2>6. reset' \/ current_report' = NoReport
    BY <1>11 DEF ShowInputOrBlock, CloseReport, Forget
  <2>7. reset' => closing'
    BY <1>11, <2>2, <2>5 DEF ShowInputOrBlock, CloseReport, Forget, Responding
  <2>8. Answers(m)
    BY <2>0, <2>4, <2>5, <2>6 DEF Answers, Response, Presses, LeadsOn, Releases
  <2> QED
    BY <2>1, <2>3, <2>4, <2>5, <2>6, <2>7, <2>8 DEF Shapes, ReceivesDialog
<1>12. CASE MessageFinished
  <2>1. to_client # <<>> /\ h.what = "processing_finished" /\ to_client' = Tail(to_client)
    BY <1>2, <1>12 DEF MessageFinished, Texts
  <2>2. /\ UNCHANGED <<current_response, page, held, reset, undefined, active>>
        /\ current_report' = NoReport /\ (closing => closing')
    BY <1>12 DEF MessageFinished, CloseWindow, server
  <2>3. to_server' = to_server \/ (\E m \in ToServer : Closes(m))
    <3> DEFINE m == Response(dialog_id, "right", "none")
    <3>1. m \in ToServer
      BY <1>0, ResponseType
    <3>2. to_server' = to_server \/ (dialog_active /\ Send(m))
      BY <1>12 DEF MessageFinished
    <3>3. dialog_active /\ Send(m) => Closes(m)
      BY <1>0 DEF Closes, Response
    <3> QED
      BY <3>1, <3>2, <3>3
  <2> QED
    BY <2>1, <2>2, <2>3 DEF Shapes, ReceivesText, Texts
<1>13. CASE MessageNoReports
  <2>1. to_client # <<>> /\ h.what = "no_active_reports" /\ to_client' = Tail(to_client)
    BY <1>2, <1>13 DEF MessageNoReports, Texts
  <2> QED
    BY <1>13, <2>1 DEF MessageNoReports, Shapes, ReceivesText, Texts, window, server
<1>14. ASSUME NEW type \in ReportTypes, MessageNewReport(type) PROVE Shapes
  <2>1. to_client # <<>> /\ h.what = "new_report" /\ to_client' = Tail(to_client)
    BY <1>2, <1>14 DEF MessageNewReport, Texts
  <2> QED
    BY <1>14, <2>1 DEF MessageNewReport, Shapes, ReceivesText, Texts, window, server
<1> QED
  BY <1>5, <1>6, <1>7, <1>8, <1>9, <1>10, <1>11, <1>12, <1>13, <1>14 DEF ClientStep

\* Whatever an administrator who waits for the answers does, and whatever else
\* happens, is one of the shapes.
LEMMA NextShapes ==
  ASSUME IInv, DialogsInv, ChainInv, ~hasty, ~hasty', [Next]_vars
  PROVE  Shapes
<1>0. /\ dialog_id \in Pages \cup {"none"} /\ shown \in Pages \cup {"none"}
      /\ dialog_id \notin {"input", "block"} \/ ~dialog_active
      /\ dialog_active => dialog_id \in {"info", "options"}
      /\ ~on_alogin => page = "none"
      /\ shown \in OwnPages => ~on_alogin
      /\ reset => closing
  BY DEF IInv, TypeOK, DialogTypeOK, DialogsInv, DialogId, Away, ChainInv
<1>1. ASSUME NEW calm, Remember(calm) PROVE calm
  BY <1>1 DEF Remember
<1>2. Send(Command) /\ Calm /\ UNCHANGED <<to_client, page, held, reset, current_report, undefined>>
        => Sends(Command)
  BY DEF Sends, Command, Releases, Presses
<1>3. ASSUME Calm, CloseWindowWithDialog,
             UNCHANGED <<active, reset, current_response, current_report,
                         undefined, to_client, page, held>>
      PROVE  Shapes
  <2>1. CASE ~reset /\ dialog_active
    <3> DEFINE m == Response(dialog_id, "right", "none")
    <3>1. m \in ToServer
      BY <1>0, ResponseType
    <3>2. Sends(m)
      BY <1>0, <1>3, <2>1 DEF CloseWindowWithDialog, Sends, Response, Releases, Presses
    <3> QED
      BY <3>1, <3>2 DEF Shapes
  <2>2. CASE ~(~reset /\ dialog_active)
    <3>1. UNCHANGED to_server /\ (closing => closing')
      BY <1>3, <2>2 DEF CloseWindowWithDialog, CloseWindow
    <3> QED
      BY <1>3, <3>1 DEF Shapes, Rests
  <2> QED
    BY <2>1, <2>2
<1>4. ASSUME Calm, NEW option \in DialogOptions, CloseDialog(option)
      PROVE  Shapes
  <2> DEFINE m == Response(dialog_id, "left", "none")
  <2>1. m \in ToServer
    BY <1>0, ResponseType
  <2>2. current_response' # "none" /\ closing'
    BY <1>4 DEF CloseDialog, CloseWindow, Calm, DialogOptions
  <2>3. Sends(m)
    BY <1>4, <2>2 DEF CloseDialog, Sends, Response, Releases, Presses, server
  <2> QED
    BY <2>1, <2>3 DEF Shapes
<1>5. ASSUME Act, Calm PROVE Shapes
  <2>1. CASE Escape
    BY <1>3, <1>5, <2>1 DEF Escape, server
  <2>2. CASE SwitchWindow /\ active
    BY <1>3, <1>5, <2>2 DEF SwitchWindow, server
  <2>3. CASE SwitchWindow /\ ~active
    <3>1. Sends(Command)
      BY <1>2, <1>5, <2>3 DEF SwitchWindow, server
    <3> QED
      BY <3>1, CommandType DEF Shapes
  <2>4. CASE TryAcceptLastReport
    <3>1. CASE current_report # NoReport
      BY <2>4, <3>1 DEF TryAcceptLastReport, Shapes, Rests, window, server
    <3>2. CASE current_report = NoReport
      <4>1. Sends(Command)
        BY <1>2, <1>5, <2>4, <3>2 DEF TryAcceptLastReport, window, server
      <4> QED
        BY <4>1, CommandType DEF Shapes
    <3> QED
      BY <3>1, <3>2
  <2>5. ASSUME NEW option \in DialogOptions, ClickOption(option) PROVE Shapes
    BY <1>4, <1>5, <2>5 DEF ClickOption
  <2>6. CASE ChooseBlockTime
    BY <1>4, <1>5, <2>6 DEF ChooseBlockTime, DialogOptions
  <2>7. CASE TypeCommand
    <3>1. Sends(Command)
      BY <1>2, <1>5, <2>7 DEF TypeCommand, window, server
    <3> QED
      BY <3>1, CommandType DEF Shapes
  <2>8. ASSUME NEW button \in {"left", "right"}, NEW type \in ReportTypes,
               AnswerShown(button, type)
        PROVE  Shapes
    <3> DEFINE m == Response(shown, button, "none")
    <3>1. m \in ToServer
      BY <1>0, ResponseType
    <3>2. Send(m) /\ UNCHANGED <<to_client, page, held, reset, current_report, undefined>>
      BY <2>8 DEF AnswerShown, window, server
    <3>3. m.dialog \in OwnPages => ~on_alogin /\ page = "none"
      BY <1>0 DEF Response
    <3>4. m.item = "none" /\ (Releases(m) => ~on_alogin) /\ (Presses(m) => page # "info")
      BY <3>3 DEF Response, Releases, Presses, OwnPages
    <3>5. Sends(m)
      BY <1>5, <3>2, <3>4 DEF Sends
    <3> QED
      BY <3>1, <3>5 DEF Shapes
  <2> QED
    BY <1>5, <2>1, <2>2, <2>3, <2>4, <2>5, <2>6, <2>7, <2>8 DEF Act
<1>6. CASE UserStep
  <2>1. CASE Act /\ Remember(Calm)
    BY <1>1, <1>5, <2>1
  <2>2. CASE Alogin
    BY <2>2 DEF Alogin, Shapes, Rests, window, dialogs, server
  <2>3. CASE Alogout
    BY <2>3 DEF Alogout, Shapes, Rests, window, dialogs
  <2>4. CASE ClickBlock
    BY <2>4 DEF ClickBlock, Shapes, Rests, dialogs, server
  <2>5. CASE DismissPopup
    BY <2>5 DEF DismissPopup, Shapes, Rests, dialogs, server
  <2>6. CASE TypeAnswer
    BY <2>6 DEF TypeAnswer, Shapes, Rests, dialogs, server
  <2> QED
    BY <1>6, <2>1, <2>2, <2>3, <2>4, <2>5, <2>6 DEF UserStep
<1>7. ASSUME NEW alpha \in 0..1, Frame(alpha) PROVE Shapes
  <2>1. UNCHANGED <<to_server, to_client, current_response, page, held>> /\ active
    BY <1>7 DEF Frame, server
  <2>2. Draw => ("current_response" \in undefined' => "current_response" \in undefined)
    BY DEF Draw
  <2>3. CASE alpha = 0 /\ closing /\ reset
    <3>1. ~active' /\ ~reset' /\ current_report' = NoReport /\ undefined' = undefined
      BY <1>7, <2>3 DEF Frame, Forget
    <3> QED
      BY <2>1, <2>3, <3>1 DEF Shapes, Rests
  <2>4. CASE alpha = 0 /\ closing /\ ~reset
    <3>1. ~active' /\ UNCHANGED <<reset, current_report>> /\ Draw
      BY <1>7, <2>4 DEF Frame
    <3> QED
      BY <2>1, <2>2, <2>4, <3>1 DEF Shapes, Rests
  <2>5. CASE ~(alpha = 0 /\ closing)
    <3>1. UNCHANGED <<active, closing, reset, current_report>> /\ Draw
      BY <1>7, <2>5 DEF Frame
    <3> QED
      BY <2>1, <2>2, <3>1 DEF Shapes, Rests
  <2> QED
    BY <2>3, <2>4, <2>5
<1>8. CASE ServerStep
  BY <1>8, ServesShape DEF Shapes
<1>9. ASSUME NEW r \in Reports, PlayerReports(r) PROVE Shapes
  <2>1. Message("new_report") \in ToClient
    BY MessageType DEF Texts
  <2>2. TellsText(Message("new_report"))
    BY <1>9 DEF PlayerReports, TellsText, Message, LinkToClient, Texts
  <2> QED
    BY <2>1, <2>2 DEF Shapes
<1>10. ASSUME NEW r \in Reports, OtherAdministratorTakes(r) PROVE Shapes
  BY <1>10 DEF OtherAdministratorTakes, Shapes, Rests, client, window, dialogs
<1>11. CASE ReporterQuits
  <2>1. Message("processing_finished") \in ToClient
    BY MessageType DEF Texts
  <2>2. TellsText(Message("processing_finished"))
    BY <1>11 DEF ReporterQuits, TellsText, Message, LinkToClient, Texts
  <2> QED
    BY <2>1, <2>2 DEF Shapes
<1>12. CASE UNCHANGED vars
  BY <1>12 DEF vars, window, dialogs, server, Shapes, Rests
<1>13. CASE ClientStep
  BY <1>13, ClientShapes
<1> QED
  BY <1>6, <1>7, <1>8, <1>9, <1>10, <1>11, <1>12, <1>13 DEF Next

-----------------------------------------------------------------------------
(* The report of the window and the report held, while the administrator   *)
(* stays on /alogin.                                                       *)

\* current_report is the report held, unless it is to be forgotten or its end is
\* told; the information page on its way names it; what makes the server take it
\* back leaves the plugin only with current_report forgotten or to be forgotten;
\* and the server picks another only when it holds none.
HeldInv ==
  /\ page \in {"list", "confirm"} => held = NoReport
  /\ current_report # NoReport /\ ~reset => held = current_report \/ SomeFinish(to_client)
  /\ InfoHolds(to_client, held)
  /\ SomeRelease(to_server) => reset \/ current_report = NoReport
  /\ ~SomeByHand(to_server)

LEMMA HeldRests ==
  ASSUME IInv, HeldInv, Rests, on_alogin' PROVE HeldInv'
  BY DEF Rests, HeldInv

LEMMA HeldSends ==
  ASSUME IInv, HeldInv, on_alogin, NEW m \in ToServer, Sends(m) PROVE HeldInv'
<1>1. to_server \in Seq(ToServer) /\ to_server' = Append(to_server, m) /\ ~Releases(m)
  BY DEF IInv, TypeOK, ChannelTypeOK, Sends, Send
<1>2. /\ SomeRelease(to_server') => SomeRelease(to_server)
      /\ SomeByHand(to_server') => SomeByHand(to_server)
  BY <1>1, SentIsLast
<1> QED
  BY <1>2 DEF Sends, HeldInv

LEMMA HeldReceivesText ==
  ASSUME IInv, HeldInv, ReceivesText PROVE HeldInv'
<1>1. to_server \in Seq(ToServer) /\ to_client \in Seq(ToClient)
  BY DEF IInv, TypeOK, ChannelTypeOK
<1>2. /\ SomeRelease(to_server') => SomeRelease(to_server)
      /\ SomeByHand(to_server') => SomeByHand(to_server)
  <2>1. CASE to_server' = to_server
    BY <2>1
  <2>2. ASSUME NEW m \in ToServer, Closes(m)
        PROVE  <1>2!1 /\ <1>2!2
    <3>1. to_server' = Append(to_server, m) /\ ~Releases(m)
      BY <2>2 DEF Closes, Send, Releases
    <3> QED
      BY <1>1, <3>1, SentIsLast
  <2> QED
    BY <2>1, <2>2 DEF ReceivesText
<1>3. InfoHolds(to_client, held) => InfoHolds(to_client', held)
  BY <1>1, ReceivedIsFirst DEF ReceivesText
<1>4. SomeFinish(to_client) =>
        SomeFinish(to_client') \/ Head(to_client).what = "processing_finished"
  BY <1>1, ReceivedIsFirst DEF ReceivesText
<1> QED
  BY <1>2, <1>3, <1>4 DEF ReceivesText, HeldInv

LEMMA HeldReceivesDialog ==
  ASSUME IInv, ChainInv, HeldInv, ReceivesDialog PROVE HeldInv'
<1>1. to_server \in Seq(ToServer) /\ to_client \in Seq(ToClient)
  BY DEF IInv, TypeOK, ChannelTypeOK
<1>2. ~SomeLink(to_server)
  BY <1>1, OneLinkReceived DEF ReceivesDialog, ChainInv
<1>3. ~SomeRelease(to_server)
  BY <1>1, <1>2, NoLink DEF HeldInv
<1>4. /\ SomeRelease(to_server') => reset' \/ current_report' = NoReport
      /\ ~SomeByHand(to_server')
  <2>1. CASE to_server' = to_server
    BY <1>3, <2>1 DEF HeldInv
  <2>2. ASSUME NEW m \in ToServer, Answers(m)
        PROVE  <1>4!1 /\ <1>4!2
    <3>1. to_server' = Append(to_server, m)
      BY <2>2 DEF Answers, Send
    <3>2. /\ SomeRelease(to_server') => Releases(m)
          /\ SomeByHand(to_server') => Releases(m) /\ m.item = "none"
      BY <1>1, <1>3, <3>1, SentIsLast DEF HeldInv
    <3> QED
      BY <2>2, <3>2 DEF Answers
  <2> QED
    BY <2>1, <2>2 DEF ReceivesDialog
<1>5. Head(to_client).what # "processing_finished"
  BY DEF ReceivesDialog, LinkToClient, Texts
<1>6. /\ InfoHolds(to_client', held)
      /\ Head(to_client).what = "info" => Head(to_client).of = held \/ SomeFinish(to_client')
      /\ SomeFinish(to_client) => SomeFinish(to_client')
  BY <1>1, <1>5, ReceivedIsFirst DEF ReceivesDialog, HeldInv
<1> QED
  BY <1>4, <1>6 DEF ReceivesDialog, HeldInv

LEMMA HeldServes ==
  ASSUME IInv, ChainInv, HeldInv, Serves PROVE HeldInv'
<1> DEFINE msg == Head(to_server)
<1>1. /\ to_server \in Seq(ToServer) /\ to_client \in Seq(ToClient) /\ to_server # <<>>
      /\ UNCHANGED <<reset, current_report>>
  BY DEF IInv, TypeOK, ChannelTypeOK, Serves, client, window
<1>2. /\ SomeRelease(to_server') => SomeRelease(to_server)
      /\ SomeByHand(to_server') => SomeByHand(to_server)
      /\ Releases(msg) => SomeRelease(to_server)
      /\ ~(Releases(msg) /\ msg.item = "none")
  BY <1>1, ServedIsFirst DEF Serves, HeldInv
<1>3. LinkToServer(msg) => ~SomeDialog(to_client)
  BY <1>1, OneLinkServed DEF ChainInv
<1>4. Releases(msg) => LinkToServer(msg)
  BY <1>2 DEF LinkToServer
<1>5. /\ page' \in {"list", "confirm"} => held' = NoReport
      /\ current_report' # NoReport /\ ~reset' => held' = current_report' \/ SomeFinish(to_client)
  BY <1>1, <1>2 DEF Serves, HeldInv
<1>6. InfoHolds(to_client, held')
  <2>1. CASE held' = held
    BY <2>1 DEF HeldInv
  <2>2. CASE LinkToServer(msg)
    BY <1>1, <1>3, <2>2, NoDialog
  <2> QED
    BY <1>4, <2>1, <2>2 DEF Serves
<1>7. InfoHolds(to_client', held') /\ (SomeFinish(to_client) => SomeFinish(to_client'))
  <2>1. CASE to_client' = to_client
    BY <1>6, <2>1
  <2>2. ASSUME NEW d \in ToClient, AnswersTo(msg, d)
        PROVE  <1>7!1 /\ <1>7!2
    <3>1. to_client' = Append(to_client, d) /\ (d.what = "info" => d.of = held')
      BY <2>2 DEF AnswersTo, Tell
    <3> QED
      BY <1>1, <1>6, <3>1, ToldIsLast
  <2> QED
    BY <2>1, <2>2 DEF Serves
<1> QED
  BY <1>1, <1>2, <1>5, <1>7 DEF HeldInv

LEMMA HeldTells ==
  ASSUME IInv, HeldInv, NEW d \in ToClient, TellsText(d) PROVE HeldInv'
<1>1. to_client \in Seq(ToClient) /\ to_client' = Append(to_client, d)
  BY DEF IInv, TypeOK, ChannelTypeOK, TellsText, Tell
<1>2. UNCHANGED <<to_server, reset, current_report>>
  BY DEF TellsText, client, window
<1>3. d.what # "info"
  BY DEF TellsText, LinkToClient, Texts
<1>4. SomeFinish(to_client) \/ d.what = "processing_finished" => SomeFinish(to_client')
  BY <1>1, ToldIsLast
<1>5. CASE page' = page /\ held' = held
  <2>1. InfoHolds(to_client', held')
    BY <1>1, <1>3, <1>5, ToldIsLast DEF HeldInv
  <2> QED
    BY <1>2, <1>4, <1>5, <2>1 DEF HeldInv
<1>6. CASE page' = "none" /\ d.what = "processing_finished"
  <2>1. InfoHolds(to_client', held')
    BY <1>1, <1>6, ToldIsLast
  <2> QED
    BY <1>2, <1>4, <1>6, <2>1 DEF HeldInv
<1> QED
  BY <1>5, <1>6 DEF TellsText

-----------------------------------------------------------------------------
(* The theorems about the chain.                                           *)

\* The invariant of an administrator who waits for the answers.
PatientInv == DialogsInv /\ (~hasty => ChainInv)

LEMMA InitPatient == Init => PatientInv /\ HeldInv
<1> SUFFICES ASSUME Init PROVE PatientInv /\ HeldInv
  OBVIOUS
<1>1. 1..Len(to_server) = {} /\ 1..Len(to_client) = {}
  BY DEF Init
<1>2. DialogsInv
  BY DEF Init, DialogsInv, DialogId, Away, OwnPages
<1>3. ChainInv
  BY <1>1 DEF Init, ChainInv, ResponseChain, OneLink, SomeReading, SomeLeading,
     SomePress, LaterPress, SomeLink
<1>4. HeldInv
  BY <1>1 DEF Init, HeldInv, InfoHolds, SomeRelease, SomeByHand
<1> QED
  BY <1>2, <1>3, <1>4 DEF PatientInv

LEMMA NextPatient == IInv /\ PatientInv /\ [Next]_vars => PatientInv'
<1> SUFFICES ASSUME IInv, PatientInv, [Next]_vars PROVE PatientInv'
  OBVIOUS
<1>1. DialogsInv'
  BY DialogsStep DEF PatientInv
<1>2. ASSUME ~hasty' PROVE ChainInv'
  <2>1. ~hasty /\ ChainInv
    BY <1>2, HastyKept DEF PatientInv
  <2>2. Shapes
    BY <1>2, <2>1, NextShapes DEF PatientInv
  <2> QED
    BY <2>1, <2>2, ChainRests, ChainSends, ChainReceivesText, ChainReceivesDialog,
       ChainServes, ChainTells DEF Shapes
<1> QED
  BY <1>1, <1>2 DEF PatientInv

LEMMA NextHeld ==
  ASSUME IInv, PatientInv, ~hasty => HeldInv, on_alogin, on_alogin', [Next]_vars
  PROVE  ~hasty' => HeldInv'
<1> SUFFICES ASSUME ~hasty' PROVE HeldInv'
  OBVIOUS
<1>1. ~hasty /\ ChainInv /\ HeldInv
  BY HastyKept DEF PatientInv
<1>2. Shapes
  BY <1>1, NextShapes DEF PatientInv
<1> QED
  BY <1>1, <1>2, HeldRests, HeldSends, HeldReceivesText, HeldReceivesDialog,
     HeldServes, HeldTells DEF Shapes

\* It holds in every reachable state.
THEOREM PatientInductive == Spec => []PatientInv
<1>1. Init => PatientInv
  BY InitPatient
<1>2. IInv /\ PatientInv /\ [Next]_vars => PatientInv'
  BY NextPatient
<1> QED
  BY <1>1, <1>2, Inductive, PTL DEF Spec

\* Nothing reads a response that is spent, however long the administrator works
\* and wherever he answers dialogs by hand, as long as he waits for the answers.
THEOREM ResponseIsAtHand == Spec => []ResponseAtHand
<1>1. PatientInv => ResponseAtHand
  BY DEF PatientInv, ChainInv, ResponseAtHand
<1> QED
  BY <1>1, PatientInductive, PTL

\* Whatever is to be forgotten is about to be.
THEOREM ForgottenAtTheEnd == Spec => []ForgottenWhenClosed
<1>1. PatientInv => ForgottenWhenClosed
  BY DEF PatientInv, ChainInv, ForgottenWhenClosed
<1> QED
  BY <1>1, PatientInductive, PTL

\* Plugin and server agree on the report whenever nothing is on its way, as long
\* as the administrator waits for the answers and stays on /alogin.
THEOREM PluginAgreesWithServer == Spec => ([]on_alogin => []AgreesWithServer)
<1> DEFINE Held == ~hasty => HeldInv
<1>1. Init => Held
  BY InitPatient
<1>2. IInv /\ PatientInv /\ Held /\ on_alogin /\ on_alogin' /\ [Next]_vars => Held'
  BY NextHeld
<1>3. Held => AgreesWithServer
  <2> SUFFICES ASSUME HeldInv, to_client = <<>> PROVE ~SomeFinish(to_client)
    BY DEF HeldInv, AgreesWithServer
  <2>1. 1..Len(to_client) = {}
    OBVIOUS
  <2> QED
    BY <2>1 DEF SomeFinish
<1> QED
  BY <1>1, <1>2, <1>3, Inductive, PatientInductive, PTL DEF Spec

=============================================================================

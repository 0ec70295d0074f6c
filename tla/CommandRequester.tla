-------------------------- MODULE CommandRequester --------------------------
(***************************************************************************)
(* Administrators who request commands of one another in their chat        *)
(* (src/plugin/gui/windows/command_requester.cpp).  A command the server   *)
(* refuses is put to the chat; the plugins of the others offer it for five *)
(* seconds, and whoever accepts announces it in the chat and runs it.      *)
(* Every administrator runs the plugin, on /alogin; the server relays over *)
(* two FIFO channels each.                                                 *)
(*                                                                         *)
(* A command stands for its text with all arguments; only the commands of  *)
(* the plugin's table are members of Commands.  The server is external.    *)
(***************************************************************************)
EXTENDS Naturals, Sequences, SequencesExt, FiniteSetsExt

CONSTANTS
  Admins, Commands,
  None,          \* an empty string, or std::nullopt
  TypeOf,        \* command_t::type of each command
  CanUse,        \* the commands each administrator's level allows
  CheckLevel,    \* check_level_for_approve of the configuration
  Patient,       \* do administrators act only when their last commands are
                 \* done?
  MaxInFlight    \* bound: administrators act only while fewer messages travel

Types == {"answer", "reason", "none"}

Requests == [sender : Admins, command : Commands]

\* What leaves a plugin: a command itself ("run"; accepting a request of type
\* "reason" names the sender at its end), a request for one, an acceptance
\* ("/ans ... by <sender>", or "/a <sender>, +"), or anything else.
ToServer ==
  [what : {"run", "ask"}, command : Commands, for : Admins \cup {None}]
  \cup [what : {"accept"}, command : Commands, for : Admins]
  \cup [what : {"other"}, command : {None}, for : {None}]

\* What may wait for the delay
Delayed == [what : {"run", "ask"}, command : Commands, for : {None}]

ASSUME CommandRequesterAssumption ==
  /\ None \notin Commands \cup Requests \cup Delayed
  /\ TypeOf \in [Commands -> Types]
  /\ CanUse \in [Admins -> SUBSET Commands]
  /\ {CheckLevel, Patient} \subseteq BOOLEAN
  /\ MaxInFlight \in Nat

VARIABLES
  last_command,      \* per administrator; None if try_parse_request rejects it
  current_request,
  command_to_send,
  to_server, to_client,
  refused,           \* history: what the server refused each administrator
  taken,             \* history: the requests whose acceptance was relayed
  owed               \* history: what each announced and has not run since

vars == <<last_command, current_request, command_to_send, to_server, to_client,
          refused, taken, owed>>

-----------------------------------------------------------------------------
Run(c, s) == [what |-> "run", command |-> c, for |-> s]
Ask(c) == [what |-> "ask", command |-> c, for |-> None]

Accept(r) == [what |-> "accept", command |-> r.command, for |-> r.sender]
Other == [what |-> "other", command |-> None, for |-> None]

\* What the server says: "no access" to one, the rest to all of them.
Refusal == [what |-> "refused", of |-> None]
ToClient == {Refusal} \cup [what : {"request", "taken"}, of : Requests]

TypeOK ==
  /\ last_command \in [Admins -> Commands \cup {None}]
  /\ current_request \in [Admins -> Requests \cup {None}]
  /\ command_to_send \in [Admins -> {None} \cup Delayed]
  /\ to_server \in [Admins -> Seq(ToServer)]
  /\ to_client \in [Admins -> Seq(ToClient)]
  /\ refused \in [Admins -> SUBSET Commands]
  /\ taken \subseteq Requests
  /\ owed \in [Admins -> SUBSET Commands]

Init ==
  /\ last_command = [a \in Admins |-> None]
  /\ current_request = [a \in Admins |-> None]
  /\ command_to_send = [a \in Admins |-> None]
  /\ to_server = [a \in Admins |-> <<>>]
  /\ to_client = [a \in Admins |-> <<>>]
  /\ refused = [a \in Admins |-> {}]
  /\ taken = {}
  /\ owed = [a \in Admins |-> {}]

-----------------------------------------------------------------------------
(* The plugin.                                                             *)

\* Every command leaves through the hooked outgoing RPC: on_send_command
\* remembers it, the plugin's own included, and only a command of the table
\* can be requested later.
RemembersRequestable(last, msg) ==                               \* mutant
  IF msg.what = "run" THEN msg.command ELSE last

Remembers(last, msg) == IF msg.what = "run" THEN msg.command ELSE None

Send(a, msg) ==
  /\ to_server' = [to_server EXCEPT ![a] = Append(@, msg)]
  /\ last_command' = [last_command EXCEPT ![a] = Remembers(@, msg)]
  /\ owed' = [owed EXCEPT ![a] =
                IF msg.what = "run" THEN @ \ {msg.command}
                ELSE IF msg.what = "accept" THEN @ \cup {msg.command}
                ELSE @]

Received(a, what) ==
  /\ to_client[a] # <<>> /\ Head(to_client[a]).what = what
  /\ to_client' = [to_client EXCEPT ![a] = Tail(@)]

\* try_parse_request also rejects a command whose receiver has left the game:
\* `connected` says that he has not.

\* on_server_message: the last command was refused, and may be requested.
OnRefused(a, connected) ==
  /\ Received(a, "refused")
  /\ IF connected /\ last_command[a] # None
     THEN /\ command_to_send' = [command_to_send EXCEPT ![a] = Ask(last_command[a])]
          /\ last_command' = [last_command EXCEPT ![a] = None]
     ELSE UNCHANGED <<command_to_send, last_command>>
  /\ UNCHANGED <<current_request, to_server, refused, taken, owed>>

\* try_handle_new_request: the newest request replaces the one on offer.
Offers(a, r) ==
  /\ r.sender # a
  /\ CheckLevel => r.command \in CanUse[a]

OnRequest(a, connected) ==
  /\ Received(a, "request")
  /\ LET r == Head(to_client[a]).of
     IN  current_request' =
           IF connected /\ Offers(a, r) THEN [current_request EXCEPT ![a] = r]
           ELSE current_request
  /\ UNCHANGED <<last_command, command_to_send, to_server, refused,
                 taken, owed>>

\* try_handle_approved_request: the text tells the type of the request and its
\* sender, not the command.
WithdrawnUnlessReason(offer, r) ==                               \* mutant
  /\ offer # None
  /\ TypeOf[offer.command] # "reason"
  /\ TypeOf[offer.command] = TypeOf[r.command] /\ offer.sender = r.sender

Withdrawn(offer, r) ==
  /\ offer # None
  /\ TypeOf[offer.command] = TypeOf[r.command] /\ offer.sender = r.sender

OnTaken(a) ==
  /\ Received(a, "taken")
  /\ current_request' =
       IF Withdrawn(current_request[a], Head(to_client[a]).of)
       THEN [current_request EXCEPT ![a] = None] ELSE current_request
  /\ UNCHANGED <<last_command, command_to_send, to_server, refused,
                 taken, owed>>

\* render: the command that waits for time_to_send_command, and the end of the
\* request's five seconds. `due` and `expired` say that the time has come.
Render(a, due, expired) ==
  /\ IF due /\ command_to_send[a] # None
     THEN /\ Send(a, command_to_send[a])
          /\ command_to_send' = [command_to_send EXCEPT ![a] = None]
     ELSE UNCHANGED <<to_server, last_command, owed, command_to_send>>
  /\ current_request' =
       IF expired THEN [current_request EXCEPT ![a] = None] ELSE current_request
  /\ UNCHANGED <<to_client, refused, taken>>

-----------------------------------------------------------------------------
(* The administrators.                                                     *)

InFlight ==
  MapThenSumSet(LAMBDA a : Len(to_server[a]) + Len(to_client[a]), Admins)

\* The last commands are done: sent, and answered if they are refused.
Done(a) ==
  /\ to_server[a] = <<>> /\ command_to_send[a] = None
  /\ \A i \in DOMAIN to_client[a] : to_client[a][i].what # "refused"

MayAct(a) == InFlight < MaxInFlight /\ (Patient => Done(a))

TypesCommand(a, msg) ==
  /\ MayAct(a)
  /\ msg \in {Run(c, None) : c \in Commands} \cup {Other}
  /\ Send(a, msg)
  /\ UNCHANGED <<current_request, command_to_send, to_client, refused, taken>>

\* approve_request, of the hotkey and of the notification's button: a command
\* with a reason is run at once; another is announced now and run later.
ApproveReason(a) ==
  /\ TypeOf[current_request[a].command] = "reason"
  /\ Send(a, Run(current_request[a].command, current_request[a].sender))
  /\ UNCHANGED command_to_send

ApproveOtherForgets(a) ==                                        \* mutant
  /\ TypeOf[current_request[a].command] # "reason"
  /\ Send(a, Accept(current_request[a]))
  /\ UNCHANGED command_to_send

ApproveOther(a) ==
  /\ TypeOf[current_request[a].command] # "reason"
  /\ Send(a, Accept(current_request[a]))
  /\ command_to_send' =
       [command_to_send EXCEPT ![a] = Run(current_request[a].command, None)]

ApproveRequest(a) ==
  /\ current_request[a] # None /\ MayAct(a)
  /\ ApproveReason(a) \/ ApproveOther(a)
  /\ current_request' = [current_request EXCEPT ![a] = None]
  /\ UNCHANGED <<to_client, refused, taken>>

-----------------------------------------------------------------------------
(* The server (external).                                                  *)

Tell(a, msg) == to_client' = [to_client EXCEPT ![a] = Append(@, msg)]

TellAll(what, s, c) ==
  to_client' = [a \in Admins |->
    Append(to_client[a], [what |-> what, of |-> [sender |-> s, command |-> c]])]

ServerRuns(a, msg) ==
  /\ msg.what = "run"
  /\ IF msg.command \notin CanUse[a]
     THEN /\ Tell(a, Refusal)
          /\ refused' = [refused EXCEPT ![a] = @ \cup {msg.command}]
          /\ UNCHANGED taken
     ELSE /\ IF TypeOf[msg.command] = "reason" /\ msg.for # None
             THEN /\ TellAll("taken", msg.for, msg.command)
                  /\ taken' = taken \cup {[sender |-> msg.for, command |-> msg.command]}
             ELSE UNCHANGED <<to_client, taken>>
          /\ UNCHANGED refused

ServerAsks(a, msg) ==
  /\ msg.what = "ask"
  /\ TellAll("request", a, msg.command)
  /\ taken' = taken \ {[sender |-> a, command |-> msg.command]}
  /\ UNCHANGED refused

ServerAccepts(a, msg) ==
  /\ msg.what = "accept"
  /\ TellAll("taken", msg.for, msg.command)
  /\ taken' = taken \cup {[sender |-> msg.for, command |-> msg.command]}
  /\ UNCHANGED refused

\* Another command, which the server may refuse as well
ServerOther(a, msg) ==
  /\ msg.what = "other"
  /\ Tell(a, Refusal) \/ UNCHANGED to_client
  /\ UNCHANGED <<refused, taken>>

ServerStep(a) ==
  /\ to_server[a] # <<>>
  /\ to_server' = [to_server EXCEPT ![a] = Tail(@)]
  /\ LET msg == Head(to_server[a])
     IN  ServerRuns(a, msg) \/ ServerAsks(a, msg) \/ ServerAccepts(a, msg)
         \/ ServerOther(a, msg)
  /\ UNCHANGED <<last_command, current_request, command_to_send, owed>>

-----------------------------------------------------------------------------
Next ==
  \E a \in Admins :
    \/ \E connected \in BOOLEAN : OnRefused(a, connected) \/ OnRequest(a, connected)
    \/ OnTaken(a)
    \/ ApproveRequest(a) \/ ServerStep(a)
    \/ \E due, expired \in BOOLEAN : Render(a, due, expired)
    \/ \E c \in Commands : TypesCommand(a, Run(c, None))
    \/ TypesCommand(a, Other)

Spec == Init /\ [][Next]_vars

-----------------------------------------------------------------------------
(* Properties.                                                             *)

\* A plugin requests only what the server refused its administrator: the
\* refusal names no command, and last_command is overwritten by whatever the
\* plugin or the administrator sends meanwhile.
AsksOnlyRefused ==
  \A a \in Admins :
    \A msg \in ToSet(to_server[a]) \cup ({command_to_send[a]} \ {None}) :
      msg.what = "ask" => msg.command \in refused[a]

\* A request that somebody has taken is on offer nowhere, once the messages
\* have arrived: requests of several senders replace one another, and the
\* texts that withdraw them name no command.
TakenIsWithdrawn ==
  \A a \in Admins :
    to_client[a] = <<>> => current_request[a] \notin taken

\* A command announced as accepted is run: until it has left, it is the one
\* that waits for the delay.
AnnouncedIsKept ==
  \A a \in Admins : \A c \in owed[a] : command_to_send[a] = Run(c, None)
=============================================================================

------------------------------- MODULE Binder -------------------------------
(***************************************************************************)
(* What binds do when they are called, by their hotkey or their command:   *)
(* the lines of their text, with variables replaced, go to the server,     *)
(* several of them one by one with a delay (server::binder); a line may be *)
(* the command of another bind, which is called at once, within the        *)
(* sending of the line.  Binds are called whatever the main window draws,  *)
(* and its menu edits them.                                                *)
(*                                                                         *)
(* A line goes `to` a bind or to the server (or the input window); a term  *)
(* of it is a word, or the variable SELECT with an index.  Other variables *)
(* are words.  The name of a bind's command is its uuid.                   *)
(***************************************************************************)
EXTENDS MainWindow

CONSTANTS
  Texts,            \* of the binds: sequences of [to, terms]
  Server,
  Delay,            \* SERVER_COMMAND_DELAY_MS, in ticks
  Said,             \* bound: the words a user gives to a command
  MaxCalls          \* bound: calls in all

\* Nothing in the code keeps a text from calling its own bind, which would never
\* return: the texts are those that do not, each calling only binds after it.
ASSUME BinderAssumption ==
  /\ Uuids \subseteq Nat /\ Server \notin Uuids /\ DOMAIN Texts = Uuids /\ Delay \in Nat
  /\ \A uuid \in Uuids : \A i \in DOMAIN Texts[uuid] :
       Texts[uuid][i].to \in Uuids => Texts[uuid][i].to > uuid

VARIABLES
  messages,         \* [line, due, call]: a line and what is left of its delay
  select_parameters,
  calls,            \* history: [uuid, words, within]: a bind that was called, with
                    \* what, and whether while another was
  sent              \* history: [line, call], for the number of a call

lines == <<messages, select_parameters, calls, sent>>

BinderInit == messages = <<>> /\ select_parameters = <<>> /\ calls = <<>> /\ sent = <<>>

-----------------------------------------------------------------------------
Empty == ""
Word(w) == [word |-> w, select |-> 0]
Select(n) == [word |-> Empty, select |-> n]

\* select_variable_callback
Replaced(term, parameters) ==
  IF term.select = 0 THEN term
  ELSE Word(IF term.select \in DOMAIN parameters THEN parameters[term.select] ELSE Empty)

\* process
Process(line, parameters) ==
  [line EXCEPT !.terms = [i \in DOMAIN @ |-> Replaced(@[i], parameters)]]

Words(line) == [i \in DOMAIN line.terms |-> line.terms[i].word]

\* The lines of a text in evaluate, processed with the parameters of now
EvaluatedLater(line, parameters) == line                          \* mutant
Evaluated(line, parameters) == Process(line, parameters)

KeptOn(parameters) == parameters                                  \* mutant
Cleared(parameters) == <<>>

RECURSIVE SendMessage(_, _, _), OnSendCommand(_, _, _), Evaluate(_, _, _, _)

\* evaluate_single_line and user::send_message, whose command comes back through the
\* hook of outgoing messages before it returns.
SendMessage(b, line, call) ==
  LET b1 == [b EXCEPT !.sent = Append(@, [line |-> line, call |-> call])] IN
  IF line.to \in ToSet(binds) THEN OnSendCommand(b1, line.to, Words(line)) ELSE b1

\* frames::binder::on_send_command
OnSendCommand(b, uuid, words) ==
  LET b1 == Evaluate([b EXCEPT !.select_parameters = @ \o words], uuid, words,
                     b.select_parameters # <<>>)
  IN [b1 EXCEPT !.select_parameters = Cleared(@)]

\* evaluate
Evaluate(b, uuid, words, within) ==
  LET text == Texts[uuid]
      call == Len(b.calls) + 1
      b1 == [b EXCEPT !.calls =
               Append(@, [uuid |-> uuid, words |-> words, within |-> within])]
      Line(i) == Evaluated(text[i], b.select_parameters)
  IN IF Len(text) = 1 THEN SendMessage(b1, Line(1), call)
     ELSE [b1 EXCEPT !.messages = @ \o
             [i \in DOMAIN text |->
                [line |-> Line(i), due |-> (i - 1) * Delay, call |-> call]]]

\* main_loop, from the i-th message on; what is sent may add more at the end.
WithoutFirst(queue, i) == Tail(queue)                             \* mutant
Without(queue, i) == RemoveAt(queue, i)

RECURSIVE MessagesFrom(_, _)
MessagesFrom(b, i) ==
  IF i > Len(b.messages) THEN b
  ELSE IF b.messages[i].due > 0 THEN MessagesFrom(b, i + 1)
  ELSE LET m == b.messages[i]
           b1 == SendMessage(b, Process(m.line, b.select_parameters), m.call)
       IN MessagesFrom([b1 EXCEPT !.messages = Without(@, i)], i)

Becomes(b) ==
  /\ messages' = b.messages /\ select_parameters' = b.select_parameters
  /\ calls' = b.calls /\ sent' = b.sent

Binder == [messages |-> messages, select_parameters |-> select_parameters,
           calls |-> calls, sent |-> sent]

-----------------------------------------------------------------------------
\* hotkey_callback: the hotkey of a bind that was deleted calls nothing.
CallByHotkey(uuid) ==
  /\ uuid \in pool
  /\ IF uuid \in ToSet(binds) THEN Becomes(Evaluate(Binder, uuid, <<>>, FALSE))
     ELSE UNCHANGED lines

\* A command typed by the user
CallByCommand(uuid, words) ==
  uuid \in ToSet(binds) /\ Becomes(OnSendCommand(Binder, uuid, words))

\* main_loop, after some ticks
MainLoop(ticks) ==
  Becomes(MessagesFrom([Binder EXCEPT
    !.messages = [i \in DOMAIN @ |-> [@[i] EXCEPT !.due = Max({0, @ - ticks})]]], 1))

CallsBinds ==
  /\ \/ \E uuid \in Uuids, words \in Said :
          Len(calls) < MaxCalls /\ (CallByHotkey(uuid) \/ CallByCommand(uuid, words))
     \/ messages # <<>> /\ \E ticks \in 0..Delay : MainLoop(ticks)
  /\ UNCHANGED vars

WindowAndBinds == (Next /\ UNCHANGED lines) \/ (~crashed /\ CallsBinds)

BinderSpec == Init /\ BinderInit /\ [][WindowAndBinds]_<<vars, lines>>

-----------------------------------------------------------------------------
\* The lines a call has sent, and those that wait
LinesOf(call) ==
  LET OfCall(queue) == SelectSeq(queue, LAMBDA m : m.call = call)
      Lines(queue) == [i \in DOMAIN queue |-> queue[i].line]
  IN Lines(OfCall(sent)) \o Lines(OfCall(messages))

\* A call sends its text: each line once, in order, with SELECT of its own words,
\* though the parameters are common to all calls, lines leave long after them and
\* whatever is called in between.  Excepted is a call made within the sending of
\* another's only line: its words come behind the other's.
SendsOwnText ==
  \A i \in DOMAIN calls :
    LET call == calls[i]
        text == Texts[call.uuid]
    IN ~call.within =>
         LinesOf(i) = [n \in DOMAIN text |-> Process(text[n], call.words)]
=============================================================================

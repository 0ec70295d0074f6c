-------------------------------- MODULE Chat --------------------------------
(***************************************************************************)
(* The reassembly of the chat's wrapped texts.  The server wraps a long    *)
(* text into several messages, with dots where one goes on in the next;    *)
(* set_continuous_text_callback keeps what it has of the text in the       *)
(* caller's storage and tells the callback the whole.  The parts of a text *)
(* arrive in their order, and lines of other texts may come between them.  *)
(* Dots of its own a text may have at its end, not at its start; the color *)
(* that the callback gets, that of the last line, is left out.             *)
(*                                                                         *)
(* A caller does not see every message: none arrives in the 500 ms after   *)
(* the game's menu, the command requester looks away outside /alogin, and  *)
(* an earlier handler may veto one.                                        *)
(***************************************************************************)
EXTENDS SequencesExt, Integers

CONSTANTS
  MaxTexts,     \* bound: texts posted
  MaxParts,     \* the messages of the longest text
  MaxChannel    \* bound: messages in flight when another text is posted

ASSUME ChatAssumption == MaxTexts \in Nat /\ MaxParts \in Nat \ {0} /\ MaxChannel \in Nat

VARIABLES
  posted,     \* the server's texts: how many messages, how many of them it
              \* has sent, and whether the text ends in dots of its own
  channel,    \* messages in flight: a text's index and the part of it
  storage,    \* the caller's; Nothing when empty
  told,       \* what the callback got
  spoiled     \* history: the texts no handler could have told whole

chat == <<posted, channel, storage, told, spoiled>>

Texts == 1..MaxTexts

\* A text as the handler sees it: pieces of the server's texts, and the dots
\* it starts and ends with
Nothing == [starts |-> FALSE, ends |-> FALSE, pieces |-> <<>>]

Wrapped(text) == posted[text].parts > 1
LineEndsLate(message) ==                                         \* mutant
  [starts |-> message.part > 1,
   ends |-> Wrapped(message.text) \/ posted[message.text].dots,
   pieces |-> <<message>>]

\* is_continuation_start, is_continuation_end
Line(message) ==
  [starts |-> message.part > 1,
   ends |-> message.part < posted[message.text].parts \/ posted[message.text].dots,
   pieces |-> <<message>>]

ChatInit ==
  /\ posted = <<>> /\ channel = <<>> /\ storage = Nothing /\ told = <<>> /\ spoiled = {}

-----------------------------------------------------------------------------
\* The server posts a text and sends the first of its messages, ...
Post(parts, dots) ==
  /\ Len(posted) < MaxTexts /\ Len(channel) <= MaxChannel
  /\ posted' = Append(posted, [parts |-> parts, sent |-> 1, dots |-> dots])
  /\ channel' = Append(channel, [text |-> Len(posted'), part |-> 1])
  /\ UNCHANGED <<storage, told, spoiled>>

\* ... and later the next one.
GoOn(text) ==
  /\ posted[text].sent < posted[text].parts /\ Len(channel) <= MaxChannel
  /\ posted' = [posted EXCEPT ![text].sent = @ + 1]
  /\ channel' = Append(channel, [text |-> text, part |-> posted'[text].sent])
  /\ UNCHANGED <<storage, told, spoiled>>

\* trim_ellipsis of both, one after the other
Joined(text, other) ==
  [starts |-> FALSE, ends |-> FALSE, pieces |-> text.pieces \o other.pieces]

CallAndKeep(texts) == told' = told \o texts /\ UNCHANGED storage    \* mutant
Callback(texts) == told' = told \o texts /\ storage' = Nothing
Store(text) == storage' = text /\ UNCHANGED told

SetContinuousTextCallback(clean_text) ==
  \/ /\ storage # Nothing /\ clean_text.starts /\ clean_text.ends
     /\ Store(Joined(storage, clean_text))
  \/ /\ storage # Nothing /\ clean_text.starts /\ ~clean_text.ends
     /\ Callback(<<Joined(storage, clean_text)>>)
  \/ /\ storage # Nothing /\ ~clean_text.starts
     /\ Callback(<<storage, clean_text>>)
  \/ /\ storage = Nothing /\ clean_text.ends
     /\ Store(clean_text)
  \/ /\ storage = Nothing /\ ~clean_text.ends
     /\ Callback(<<clean_text>>)

\* What of a text is kept when its last line is there, and only the dots it ends
\* in leave the handler waiting
Complete(pieces) == Last(pieces).part = posted[Last(pieces).text].parts

\* The texts that go wrong with a message received after one that left the
\* handler waiting for a continuation.  With the first line of another, what was
\* kept is told as it is, and so is the line; a later line of another is joined.
Continues(message) ==
  /\ Last(storage.pieces).text = message.text
  /\ Last(storage.pieces).part + 1 = message.part

KeptTexts == {p.text : p \in Range(storage.pieces)}

Spoils(message) ==
  CASE storage = Nothing -> {}
    [] storage # Nothing /\ message.part = 1 ->
         {t \in {message.text} : Wrapped(t)} \cup
         (IF Complete(storage.pieces) THEN {} ELSE KeptTexts)
    [] OTHER -> IF Continues(message) THEN {} ELSE {message.text} \cup KeptTexts

Receive ==
  /\ channel # <<>>
  /\ SetContinuousTextCallback(Line(Head(channel)))
  /\ spoiled' = spoiled \cup Spoils(Head(channel))
  /\ channel' = Tail(channel) /\ UNCHANGED posted

\* The handler does not see a message.
Lose ==
  /\ channel # <<>>
  /\ spoiled' = spoiled \cup {Head(channel).text}
  /\ channel' = Tail(channel) /\ UNCHANGED <<posted, storage, told>>

ChatNext ==
  \/ \E parts \in 1..MaxParts, dots \in BOOLEAN : Post(parts, dots)
  \/ \E text \in DOMAIN posted : GoOn(text)
  \/ Receive \/ Lose

ChatSpec == ChatInit /\ [][ChatNext]_chat

-----------------------------------------------------------------------------
\* The first lines of a text, as they are kept and told: dots of its own remain
\* where there was nothing to trim.
First(text, n) ==
  [starts |-> FALSE,
   ends |-> Line([text |-> text, part |-> 1]).ends /\ n = 1,
   pieces |-> [i \in 1..n |-> [text |-> text, part |-> i]]]

Whole(text) == First(text, posted[text].parts)

\* A text that was told, as Telling has it: none of its own if it is not whole
NumberOf(text) ==
  IF \E t \in DOMAIN posted : text = Whole(t)
  THEN CHOOSE t \in DOMAIN posted : text = Whole(t) ELSE 0

Sound(text) == \E p \in Range(text.pieces) : p.text \notin spoiled

\* The refinement mapping: of what was told, the rest of spoiled texts is left out.
Heard ==
  LET heard[n \in 0..Len(told)] ==
        IF n = 0 THEN <<>>
        ELSE IF Sound(told[n]) THEN Append(heard[n - 1], NumberOf(told[n])) ELSE heard[n - 1]
  IN heard

Told == Heard[Len(told)]
Waiting == (DOMAIN posted) \ (spoiled \cup Range(Told))

Promise == INSTANCE Telling WITH waiting <- Waiting, told <- Told

(* The handler tells the texts as Telling promises: whole, once, in order, *)
(* without the dots of the wrapping, whatever messages were lost before.   *)
(* Spoiled and none of its concern is a text with a line lost, one that a  *)
(* line of another came between, and a wrapped one that began while        *)
(* another was waited for.                                                 *)
TellsWhole == Promise!Spec

(* It keeps none back: with all messages received, every text that was not *)
(* spoiled has been told, but for the one kept, all the lines of it that   *)
(* were sent, which goes on or has dots of its own: it waits for the next  *)
(* message.                                                                *)
TellsAll ==
  channel = <<>> => \A t \in Waiting :
    /\ storage = First(t, posted[t].sent)
    /\ posted[t].sent < posted[t].parts \/ posted[t].dots
=============================================================================

------------------------------ MODULE Telling -------------------------------
(***************************************************************************)
(* What a handler of chat messages is promised (server_message.h, "whole   *)
(* text without server-wrapping"): it is told the texts the server posted, *)
(* each whole, once, and in their order.  A text may be spoiled instead,   *)
(* and is then none of them.  Texts are numbered in that order.            *)
(***************************************************************************)
EXTENDS Sequences, Integers

CONSTANT Texts

VARIABLES
  waiting,    \* the texts posted that are neither told nor spoiled
  told        \* those told

telling == <<waiting, told>>

Elements(s) == {s[i] : i \in DOMAIN s}

Init == waiting = {} /\ told = <<>>

Post(text) ==
  /\ \A other \in waiting \cup Elements(told) : other < text
  /\ waiting' = waiting \cup {text} /\ UNCHANGED told

\* A message spoils some texts, or ends some, which are told: the first of those
\* that wait and are not spoiled, in their order.
Handle(spoiled, texts) ==
  /\ \A i \in DOMAIN texts : texts[i] \in waiting \ spoiled
  /\ \A i, j \in DOMAIN texts : i < j => texts[i] < texts[j]
  /\ told' = told \o texts /\ waiting' = waiting \ (spoiled \cup Elements(texts))
  /\ \A i \in DOMAIN texts, text \in waiting' : texts[i] < text

\* It ends at most two: the one kept, and one of its own.
Next ==
  \/ \E text \in Texts : Post(text)
  \/ \E spoiled \in SUBSET Texts, n \in 0..2 : \E texts \in [1..n -> Texts] :
       Handle(spoiled, texts)

Spec == Init /\ [][Next]_telling
=============================================================================

----------------------------- MODULE ChatProofs -----------------------------
(***************************************************************************)
(* What the two components that live by the chat promise.                  *)
(*                                                                         *)
(* First the reassembly of its texts: for any number of texts, of any      *)
(* number of messages with any lines of others between them, and whatever  *)
(* messages the handler does not see, the texts that could be told are     *)
(* told whole, once and in their order, and none is kept back.             *)
(*                                                                         *)
(* Then the requests that administrators make of one another in it (the    *)
(* command requester hears its texts by set_continuous_text_callback): for *)
(* any number of administrators, any table of commands and levels, and any *)
(* number of messages in flight, a patient plugin requests only what was   *)
(* refused, and runs what it announced, and what is taken is withdrawn.    *)
(***************************************************************************)
EXTENDS Chat, CommandRequester, SequenceTheorems, WellFoundedInduction, TLAPS

-----------------------------------------------------------------------------
(* The reassembly of the chat's texts: its invariant                       *)

Messages == [text : Nat, part : Nat]
Lines == [starts : BOOLEAN, ends : BOOLEAN, pieces : Seq(Messages)]

Message(t, p) == [text |-> t, part |-> p]
Pieces(t, k) == [i \in 1..k |-> Message(t, i)]
OnTheWay == Range(channel)

\* The messages of a text travel in their order, and the first ones of all texts in
\* theirs: what is behind one of them was sent later.
ChannelInOrder ==
  /\ \A i \in 1..Len(channel) : /\ channel[i].text \in 1..Len(posted)
                                /\ channel[i].part \in 1..posted[channel[i].text].sent
  /\ \A i, j \in 1..Len(channel) :
       i < j /\ channel[i].text = channel[j].text => channel[i].part < channel[j].part
  /\ \A i, j \in 1..Len(channel) :
       i < j /\ channel[j].part = 1 => channel[i].text < channel[j].text

FirstsInOrder ==
  \A t, u \in 1..Len(posted) :
    t < u /\ Message(t, 1) \in OnTheWay => Message(u, 1) \in OnTheWay

Unspoiled == (1..Len(posted)) \ spoiled

\* As many messages of a text came as the handler was to see of it: k
Came(t, k) == \A p \in 1..posted[t].sent : Message(t, p) \in OnTheWay <=> p > k

\* They leave the handler waiting for another.
Waits(t, k) == k < posted[t].parts \/ posted[t].dots

KeptFirst(t, k) == storage = First(t, k) /\ Waits(t, k)
ToldWhole(n) == {t \in Unspoiled : \E i \in 1..n : told[i] = Whole(t)}

\* A text that is not spoiled has not come, or is kept as far as it came, or was told.
Found(t, k) ==
  k = 0 \/ KeptFirst(t, k) \/ (k = posted[t].parts /\ t \in ToldWhole(Len(told)))

NoneLost ==
  \A t \in Unspoiled : \E k \in 0..posted[t].sent : Came(t, k) /\ Found(t, k)

Spoilt(text) == \A i \in 1..Len(text.pieces) : text.pieces[i].text \in spoiled

\* What is kept is as much of a text as came, or it is spoiled.
KeptIsSound ==
  storage # Nothing =>
    /\ storage.pieces # <<>>
    /\ \/ Spoilt(storage)
       \/ \E t \in Unspoiled : \E k \in 1..posted[t].sent : Came(t, k) /\ KeptFirst(t, k)

\* What was told is a whole text, of which no more comes and nothing is kept, or it is
\* spoiled.
NoneKeptOf(t) == \A j \in 1..Len(storage.pieces) : storage.pieces[j].text # t
Gone(t) == posted[t].sent = posted[t].parts /\ Came(t, posted[t].parts) /\ NoneKeptOf(t)

ToldIsSound ==
  \A i \in 1..Len(told) :
    Spoilt(told[i]) \/ \E t \in Unspoiled : told[i] = Whole(t) /\ Gone(t)

ChatTypeOK ==
  /\ posted \in Seq([parts : 1..MaxParts, sent : 1..MaxParts, dots : BOOLEAN])
  /\ Len(posted) <= MaxTexts
  /\ \A t \in 1..Len(posted) : posted[t].sent <= posted[t].parts
  /\ channel \in Seq(Messages) /\ storage \in Lines /\ told \in Seq(Lines)
  /\ spoiled \subseteq 1..Len(posted)

ChatInv ==
  /\ ChatTypeOK /\ ChannelInOrder /\ FirstsInOrder
  /\ NoneLost /\ KeptIsSound /\ ToldIsSound

-----------------------------------------------------------------------------
(* Induction over a set of numbers                                         *)

LEMMA Least ==
  ASSUME NEW T, T \subseteq Nat, T # {}
  PROVE  \E n \in T : \A m \in T : n <= m
<1>1. IsWellFoundedOn(OpToRel(<, Nat), Nat)
  BY NatLessThanWellFounded
<1>2. PICK n \in T : \A m \in T : ~(<<m, n>> \in OpToRel(<, Nat))
  BY <1>1, WFMin
<1>3. ASSUME NEW m \in T
      PROVE  n <= m
  <2>1. m \in Nat /\ n \in Nat
    OBVIOUS
  <2>2. ~(m < n)
    BY <1>2, <2>1 DEF OpToRel
  <2> QED
    BY <2>1, <2>2
<1> QED
  BY <1>3

LEMMA UpTo ==
  ASSUME NEW n \in Nat, NEW T \in SUBSET (0..n), 0 \in T,
         \A i \in 1..n : i - 1 \in T => i \in T
  PROVE  T = 0..n
<1> SUFFICES ASSUME (0..n) \ T # {}
             PROVE  FALSE
  OBVIOUS
<1>1. (0..n) \ T \subseteq Nat
  OBVIOUS
<1>2. PICK i \in (0..n) \ T : \A m \in (0..n) \ T : i <= m
  BY <1>1, Least
<1>3. i \in 1..n /\ i - 1 \in 0..n
  BY <1>2
<1>4. i - 1 \in T
  BY <1>2, <1>3
<1> QED
  BY <1>2, <1>3, <1>4

-----------------------------------------------------------------------------
(* The messages of the server's texts                                      *)

LEMMA ChatTypes ==
  ASSUME ChatTypeOK
  PROVE  /\ Len(posted) \in Nat /\ DOMAIN posted = 1..Len(posted)
         /\ \A t \in 1..Len(posted) :
              /\ t \in Nat /\ posted[t].parts \in Nat \ {0} /\ posted[t].dots \in BOOLEAN
              /\ posted[t].sent \in Nat \ {0} /\ posted[t].sent <= posted[t].parts
         /\ channel \in Seq(Messages) /\ Len(channel) \in Nat
         /\ DOMAIN channel = 1..Len(channel)
         /\ storage \in Lines /\ storage.pieces \in Seq(Messages)
         /\ Len(storage.pieces) \in Nat
         /\ told \in Seq(Lines) /\ Len(told) \in Nat /\ DOMAIN told = 1..Len(told)
         /\ spoiled \subseteq 1..Len(posted)
<1>1. /\ posted \in Seq([parts : 1..MaxParts, sent : 1..MaxParts, dots : BOOLEAN])
      /\ channel \in Seq(Messages) /\ storage \in Lines /\ told \in Seq(Lines)
      /\ spoiled \subseteq 1..Len(posted)
  BY DEF ChatTypeOK
<1>2. ASSUME NEW t \in 1..Len(posted)
      PROVE  /\ t \in Nat /\ posted[t].parts \in Nat \ {0} /\ posted[t].dots \in BOOLEAN
             /\ posted[t].sent \in Nat \ {0} /\ posted[t].sent <= posted[t].parts
  <2>1. posted[t] \in [parts : 1..MaxParts, sent : 1..MaxParts, dots : BOOLEAN]
    BY <1>1, ElementOfSeq
  <2>2. posted[t].sent <= posted[t].parts
    BY DEF ChatTypeOK
  <2> QED
    BY <2>1, <2>2, ChatAssumption
<1>3. storage.pieces \in Seq(Messages)
  BY <1>1 DEF Lines
<1> QED
  BY <1>1, <1>2, <1>3, LenProperties

LEMMA PiecesAre ==
  ASSUME NEW t \in Nat, NEW k \in Nat
  PROVE  /\ Pieces(t, k) \in Seq(Messages) /\ Len(Pieces(t, k)) = k
         /\ \A i \in 1..k : Pieces(t, k)[i] = Message(t, i)
<1>1. Pieces(t, k) \in [1..k -> Messages]
  BY DEF Pieces, Message, Messages
<1>2. Pieces(t, k) \in Seq(Messages)
  BY <1>1, SeqDef
<1> QED
  BY <1>1, <1>2, LenProperties DEF Pieces

\* The first messages of a text, and the one that continues them
LEMMA PiecesGrow ==
  ASSUME NEW t \in Nat, NEW k \in Nat
  PROVE  Pieces(t, k) \o <<Message(t, k + 1)>> = Pieces(t, k + 1)
<1> DEFINE m == Message(t, k + 1)
           s == Pieces(t, k) \o <<m>>
<1>1. m \in Messages /\ <<m>> \in Seq(Messages) /\ Len(<<m>>) = 1 /\ <<m>>[1] = m
  BY DEF Messages, Message
<1>2. /\ Pieces(t, k) \in Seq(Messages) /\ Len(Pieces(t, k)) = k
      /\ \A i \in 1..k : Pieces(t, k)[i] = Message(t, i)
      /\ Pieces(t, k + 1) \in Seq(Messages) /\ Len(Pieces(t, k + 1)) = k + 1
      /\ \A i \in 1..(k + 1) : Pieces(t, k + 1)[i] = Message(t, i)
  <2>1. k + 1 \in Nat
    OBVIOUS
  <2>2. /\ Pieces(t, k) \in Seq(Messages) /\ Len(Pieces(t, k)) = k
        /\ \A i \in 1..k : Pieces(t, k)[i] = Message(t, i)
    BY PiecesAre
  <2>3. /\ Pieces(t, k + 1) \in Seq(Messages) /\ Len(Pieces(t, k + 1)) = k + 1
        /\ \A i \in 1..(k + 1) : Pieces(t, k + 1)[i] = Message(t, i)
    BY <2>1, PiecesAre
  <2> QED
    BY <2>2, <2>3
<1> HIDE DEF m
<1>3. /\ s \in Seq(Messages) /\ Len(s) = k + 1
      /\ \A i \in 1..(k + 1) : s[i] = IF i <= k THEN Pieces(t, k)[i] ELSE <<m>>[i - k]
  <2> DEFINE f == Pieces(t, k)
             g == <<m>>
  <2>1. f \in Seq(Messages) /\ g \in Seq(Messages) /\ Len(f) = k /\ Len(g) = 1
    BY <1>1, <1>2
  <2> HIDE DEF f, g
  <2>2. /\ f \o g \in Seq(Messages) /\ Len(f \o g) = Len(f) + Len(g)
        /\ \A i \in 1..(Len(f) + Len(g)) :
             (f \o g)[i] = IF i <= Len(f) THEN f[i] ELSE g[i - Len(f)]
    BY <2>1, ConcatProperties
  <2> QED
    BY <2>1, <2>2 DEF f, g
<1>4. \A i \in 1..(k + 1) : s[i] = Pieces(t, k + 1)[i]
  <2> TAKE i \in 1..(k + 1)
  <2>1. CASE i <= k
    BY <1>2, <1>3, <2>1
  <2>2. CASE ~(i <= k)
    <3>1. i = k + 1 /\ i - k = 1
      BY <2>2
    <3>2. s[i] = m
      BY <1>1, <1>3, <2>2, <3>1
    <3> QED
      BY <1>2, <3>1, <3>2 DEF m
  <2> QED
    BY <2>1, <2>2
<1> QED
  BY <1>2, <1>3, <1>4, SeqEqual DEF m

LEMMA FirstIs ==
  ASSUME ChatTypeOK, NEW t \in 1..Len(posted), NEW k \in Nat \ {0}
  PROVE  /\ First(t, k) = [starts |-> FALSE, ends |-> k = 1 /\ Waits(t, 1),
                           pieces |-> Pieces(t, k)]
         /\ First(t, k) \in Lines /\ First(t, k).pieces = Pieces(t, k)
         /\ First(t, k) # Nothing /\ First(t, k).pieces # <<>>
         /\ Len(First(t, k).pieces) = k /\ 1 \in 1..k /\ k \in 1..k
         /\ \A i \in 1..k : First(t, k).pieces[i] = Message(t, i)
         /\ Last(First(t, k).pieces) = Message(t, k)
<1>1. t \in Nat /\ posted[t].parts \in Nat /\ posted[t].dots \in BOOLEAN
  BY ChatTypes
<1>2. First(t, k) = [starts |-> FALSE, ends |-> k = 1 /\ Waits(t, 1), pieces |-> Pieces(t, k)]
  <2>1. Line([text |-> t, part |-> 1]).ends = Waits(t, 1)
    BY DEF Line, Waits
  <2>2. Line([text |-> t, part |-> 1]).ends /\ k = 1 <=> k = 1 /\ Waits(t, 1)
    BY <2>1
  <2> QED
    BY <2>2 DEF First, Pieces, Message
<1>3. /\ Pieces(t, k) \in Seq(Messages) /\ Len(Pieces(t, k)) = k
      /\ \A i \in 1..k : Pieces(t, k)[i] = Message(t, i)
  BY <1>1, PiecesAre
<1>4. 1 \in 1..k /\ k \in 1..k /\ k # 0
  OBVIOUS
<1> HIDE DEF Pieces, First
<1>5. First(t, k) \in Lines /\ First(t, k).pieces = Pieces(t, k)
  BY <1>2, <1>3 DEF Lines
<1>6. Pieces(t, k) # <<>> /\ Last(Pieces(t, k)) = Message(t, k)
  BY <1>3, <1>4, EmptySeq DEF Last
<1>7. First(t, k) # Nothing
  BY <1>5, <1>6 DEF Nothing
<1> QED
  BY <1>2, <1>3, <1>4, <1>5, <1>6, <1>7

\* The first line of a text, and the one that continues those kept
LEMMA LineOfFirst ==
  ASSUME ChatTypeOK, NEW t \in 1..Len(posted)
  PROVE  Line(Message(t, 1)) = First(t, 1)
<1>1. First(t, 1) = [starts |-> FALSE, ends |-> Waits(t, 1), pieces |-> Pieces(t, 1)]
  <2>1. 1 \in Nat \ {0} /\ Waits(t, 1) \in BOOLEAN
    BY ChatTypes DEF Waits
  <2> QED
    BY <2>1, FirstIs
<1>2. Line(Message(t, 1)) = [starts |-> FALSE, ends |-> Waits(t, 1),
                             pieces |-> <<Message(t, 1)>>]
  <2> DEFINE m == Message(t, 1)
  <2>1. m.text = t /\ m.part = 1 /\ (1 > 1) = FALSE
    BY DEF Message
  <2> HIDE DEF m
  <2>2. Line(m) = [starts |-> 1 > 1, ends |-> 1 < posted[t].parts \/ posted[t].dots,
                   pieces |-> <<m>>]
    BY <2>1 DEF Line
  <2> QED
    BY <2>1, <2>2 DEF Waits, m
<1>3. Pieces(t, 1) = <<Message(t, 1)>>
  <2>1. t \in Nat /\ Message(t, 1) \in Messages
    BY ChatTypes DEF Message, Messages
  <2>2. /\ Pieces(t, 1) \in Seq(Messages) /\ Len(Pieces(t, 1)) = 1
        /\ \A i \in 1..1 : Pieces(t, 1)[i] = Message(t, i)
    BY <2>1, PiecesAre
  <2>3. /\ <<Message(t, 1)>> \in Seq(Messages) /\ Len(<<Message(t, 1)>>) = 1
        /\ \A i \in 1..1 : <<Message(t, 1)>>[i] = Message(t, 1)
    BY <2>1
  <2>4. \A i \in 1..1 : i = 1
    OBVIOUS
  <2> QED
    BY <2>2, <2>3, <2>4, SeqEqual
<1> QED
  BY <1>1, <1>2, <1>3

LEMMA JoinedFirst ==
  ASSUME ChatTypeOK, NEW t \in 1..Len(posted), NEW k \in Nat \ {0}
  PROVE  Joined(First(t, k), Line(Message(t, k + 1))) = First(t, k + 1)
<1>1. t \in Nat /\ k + 1 \in Nat \ {0} /\ k + 1 # 1
  BY ChatTypes
<1>2. First(t, k).pieces = Pieces(t, k)
  BY FirstIs
<1>3. First(t, k + 1) = [starts |-> FALSE, ends |-> FALSE, pieces |-> Pieces(t, k + 1)]
  BY <1>1, FirstIs
<1>4. Line(Message(t, k + 1)).pieces = <<Message(t, k + 1)>>
  BY DEF Line
<1> QED
  BY <1>1, <1>2, <1>3, <1>4, PiecesGrow DEF Joined

LEMMA WholeIs ==
  ASSUME ChatTypeOK, NEW t \in 1..Len(posted)
  PROVE  /\ Whole(t) = First(t, posted[t].parts) /\ posted[t].parts \in Nat \ {0}
         /\ Whole(t) \in Lines /\ 1 \in 1..Len(Whole(t).pieces)
         /\ \A i \in 1..Len(Whole(t).pieces) : Whole(t).pieces[i].text = t
         /\ Whole(t).pieces[1] = Message(t, 1)
<1>1. posted[t].parts \in Nat \ {0} /\ Whole(t) = First(t, posted[t].parts)
  BY ChatTypes DEF Whole
<1>2. /\ Whole(t) \in Lines /\ Len(Whole(t).pieces) = posted[t].parts
      /\ \A i \in 1..posted[t].parts : Whole(t).pieces[i] = Message(t, i)
      /\ 1 \in 1..posted[t].parts
  BY <1>1, FirstIs
<1>3. \A i : Message(t, i).text = t
  BY DEF Message
<1> QED
  BY <1>1, <1>2, <1>3

LEMMA WholeDiffer ==
  ASSUME ChatTypeOK, NEW t \in 1..Len(posted), NEW u \in 1..Len(posted), Whole(t) = Whole(u)
  PROVE  t = u
<1>1. Whole(t).pieces[1] = Message(t, 1) /\ Whole(u).pieces[1] = Message(u, 1)
  BY WholeIs
<1> QED
  BY <1>1 DEF Message

-----------------------------------------------------------------------------
(* What travels                                                            *)

LEMMA Travels ==
  ASSUME ChatTypeOK, ChannelInOrder
  PROVE  /\ \A m \in OnTheWay : /\ m = Message(m.text, m.part)
                                /\ m.text \in 1..Len(posted)
                                /\ m.part \in 1..posted[m.text].sent
         /\ \A i \in 1..Len(channel) : channel[i] \in OnTheWay
         /\ \A m \in OnTheWay : \E i \in 1..Len(channel) : channel[i] = m
<1>1. channel \in Seq(Messages) /\ DOMAIN channel = 1..Len(channel)
  BY ChatTypes
<1>2. \A i \in 1..Len(channel) : channel[i] \in Messages
  BY <1>1, ElementOfSeq
<1>3. OnTheWay = {channel[i] : i \in 1..Len(channel)}
  BY <1>1 DEF OnTheWay, Range
<1>4. \A m \in Messages : m = Message(m.text, m.part)
  BY DEF Messages, Message
<1> QED
  BY <1>2, <1>3, <1>4 DEF ChannelInOrder

LEMMA MessageIs ==
  ASSUME NEW t, NEW p
  PROVE  Message(t, p).text = t /\ Message(t, p).part = p
         /\ \A u, q : Message(t, p) = Message(u, q) <=> t = u /\ p = q
<1>1. \A u, q : Message(u, q).text = u /\ Message(u, q).part = q
  BY DEF Message
<1> QED
  BY <1>1

\* The message that comes is the first of its text still to come, and a first one
\* comes before those of all later texts.
LEMMA HeadIs ==
  ASSUME ChatTypeOK, ChannelInOrder, channel # <<>>
  PROVE  LET m == Head(channel)
         IN /\ m \in OnTheWay /\ m = Message(m.text, m.part)
            /\ m.text \in 1..Len(posted) /\ m.part \in 1..posted[m.text].sent
            /\ m.part \in Nat \ {0} /\ m.part <= posted[m.text].parts
            /\ \A p \in Nat : Message(m.text, p) \in OnTheWay => m.part <= p
            /\ m.part = 1 => \A u : Message(u, 1) \in OnTheWay => u = m.text \/ m.text < u
<1> DEFINE m == Head(channel)
<1>1. /\ channel \in Seq(Messages) /\ Len(channel) \in Nat \ {0} /\ 1 \in 1..Len(channel)
      /\ m = channel[1]
  BY ChatTypes, EmptySeq
<1>2. m \in OnTheWay /\ m = Message(m.text, m.part)
      /\ m.text \in 1..Len(posted) /\ m.part \in 1..posted[m.text].sent
  BY <1>1, Travels
<1>3. m.part \in Nat \ {0} /\ m.part <= posted[m.text].parts
  BY <1>2, ChatTypes
<1> HIDE DEF m
<1>4. ASSUME NEW p \in Nat, Message(m.text, p) \in OnTheWay
      PROVE  m.part <= p
  <2>1. PICK i \in 1..Len(channel) : channel[i] = Message(m.text, p)
    BY <1>4, Travels
  <2>2. channel[i].text = m.text /\ channel[i].part = p
    BY <2>1, MessageIs
  <2>3. i = 1 \/ 1 < i
    BY <1>1
  <2>4. 1 < i => m.part < p
    BY <1>1, <2>2 DEF ChannelInOrder
  <2>5. i = 1 => m.part = p
    BY <1>1, <2>2
  <2> QED
    BY <1>3, <2>3, <2>4, <2>5
<1>5. ASSUME m.part = 1, NEW u, Message(u, 1) \in OnTheWay
      PROVE  u = m.text \/ m.text < u
  <2>1. PICK i \in 1..Len(channel) : channel[i] = Message(u, 1)
    BY <1>5, Travels
  <2>2. channel[i].text = u /\ channel[i].part = 1
    BY <2>1, MessageIs
  <2>3. i = 1 \/ 1 < i
    BY <1>1
  <2>4. 1 < i => m.text < u
    BY <1>1, <2>2 DEF ChannelInOrder
  <2> QED
    BY <1>1, <2>2, <2>3, <2>4
<1> QED
  BY <1>2, <1>3, <1>4, <1>5 DEF m

\* A message leaves the channel, seen or not.
LEMMA HeadTaken ==
  ASSUME ChatTypeOK, ChannelInOrder, FirstsInOrder, channel # <<>>,
         channel' = Tail(channel), posted' = posted
  PROVE  /\ channel' \in Seq(Messages) /\ ChannelInOrder' /\ FirstsInOrder'
         /\ OnTheWay' = OnTheWay \ {Head(channel)}
<1> DEFINE m == Head(channel)
<1>1. /\ channel \in Seq(Messages) /\ Len(channel) \in Nat \ {0} /\ m = channel[1]
      /\ DOMAIN channel = 1..Len(channel)
  BY ChatTypes, EmptySeq
<1>2. /\ channel' \in Seq(Messages) /\ Len(channel') = Len(channel) - 1
      /\ \A i \in 1..(Len(channel) - 1) : channel'[i] = channel[i + 1]
  BY <1>1, HeadTailProperties
<1>3. \A i \in 1..Len(channel') : channel'[i] = channel[i + 1] /\ i + 1 \in 1..Len(channel)
  BY <1>1, <1>2
<1>4. \A i, j \in 1..Len(channel') : i < j => i + 1 < j + 1
  BY <1>1, <1>2
<1>5. ChannelInOrder'
  <2>1. \A i \in 1..Len(channel') : /\ channel'[i].text \in 1..Len(posted)
                                    /\ channel'[i].part \in 1..posted[channel'[i].text].sent
    BY <1>3 DEF ChannelInOrder
  <2>2. ASSUME NEW i \in 1..Len(channel'), NEW j \in 1..Len(channel'), i < j
        PROVE  /\ channel'[i].text = channel'[j].text => channel'[i].part < channel'[j].part
               /\ channel'[j].part = 1 => channel'[i].text < channel'[j].text
    <3>1. i + 1 \in 1..Len(channel) /\ j + 1 \in 1..Len(channel) /\ i + 1 < j + 1
      BY <1>3, <1>4, <2>2
    <3>2. channel'[i] = channel[i + 1] /\ channel'[j] = channel[j + 1]
      BY <1>3
    <3> DEFINE a == i + 1
               b == j + 1
    <3> HIDE DEF a, b
    <3>3. /\ a \in 1..Len(channel) /\ b \in 1..Len(channel) /\ a < b
          /\ channel'[i] = channel[a] /\ channel'[j] = channel[b]
      BY <3>1, <3>2 DEF a, b
    <3> QED
      BY <3>3 DEF ChannelInOrder
  <2> QED
    BY <2>1, <2>2 DEF ChannelInOrder
<1>6. OnTheWay' = OnTheWay \ {m}
  <2>1. OnTheWay' = {channel'[i] : i \in 1..Len(channel')}
    <3>1. DOMAIN channel' = 1..Len(channel')
      BY <1>2, LenProperties
    <3> QED
      BY <3>1 DEF OnTheWay, Range
  <2>2. \A i \in 1..Len(channel') : channel'[i] \in OnTheWay /\ channel'[i] # m
    <3> TAKE i \in 1..Len(channel')
    <3>1. channel'[i] = channel[i + 1] /\ i + 1 \in 1..Len(channel) /\ 1 < i + 1
      BY <1>1, <1>2, <1>3
    <3> DEFINE a == i + 1
    <3> HIDE DEF a
    <3>2. channel'[i] = channel[a] /\ a \in 1..Len(channel) /\ 1 < a /\ 1 \in 1..Len(channel)
      BY <1>1, <3>1 DEF a
    <3>3. channel[1].text = channel[a].text => channel[1].part < channel[a].part
      BY <3>2 DEF ChannelInOrder
    <3>4. channel[1].part \in Nat
      BY <1>1, HeadIs
    <3>5. channel[a] # channel[1]
      BY <3>3, <3>4
    <3> QED
      BY <1>1, <3>2, <3>5, Travels
  <2>3. ASSUME NEW x \in OnTheWay, x # m
        PROVE  \E i \in 1..Len(channel') : channel'[i] = x
    <3>1. PICK a \in 1..Len(channel) : channel[a] = x
      BY Travels
    <3>2. a # 1
      BY <1>1, <2>3, <3>1
    <3>3. a - 1 \in 1..Len(channel') /\ (a - 1) + 1 = a
      BY <1>1, <1>2, <3>2
    <3>4. channel'[a - 1] = x
      BY <1>3, <3>1, <3>3
    <3> QED
      BY <3>3, <3>4
  <2> QED
    BY <2>1, <2>2, <2>3
<1>7. FirstsInOrder'
  <2>1. ASSUME NEW t \in 1..Len(posted), NEW u \in 1..Len(posted), t < u,
               Message(t, 1) \in OnTheWay \ {m}
        PROVE  Message(u, 1) \in OnTheWay \ {m}
    <3>1. Message(u, 1) \in OnTheWay
      BY <2>1 DEF FirstsInOrder
    <3>2. Message(u, 1) # m
      <4> SUFFICES ASSUME Message(u, 1) = m
                   PROVE  FALSE
        OBVIOUS
      <4>1. m.text = u /\ m.part = 1
        BY MessageIs
      <4>2. t = u \/ u < t
        BY <2>1, <4>1, HeadIs
      <4>3. t \in Nat /\ u \in Nat
        OBVIOUS
      <4> QED
        BY <2>1, <4>2, <4>3
    <3> QED
      BY <3>1, <3>2
  <2> QED
    BY <1>6, <2>1 DEF FirstsInOrder
<1> QED
  BY <1>2, <1>5, <1>6, <1>7

\* A message is sent, behind those of its text and, a first one, of the earlier texts.
LEMMA MessageSent ==
  ASSUME ChatTypeOK, ChannelInOrder, NEW t \in 1..Len(posted'), NEW p,
         channel' = Append(channel, Message(t, p)), p \in 1..posted'[t].sent, t \in Nat, p \in Nat,
         \A u \in 1..Len(posted) : /\ u \in 1..Len(posted')
                                   /\ \A q \in 1..posted[u].sent : q \in 1..posted'[u].sent,
         \A m \in OnTheWay : /\ m.text = t => m.part < p
                             /\ p = 1 => m.text < t
  PROVE  /\ channel' \in Seq(Messages) /\ ChannelInOrder'
         /\ OnTheWay' = OnTheWay \cup {Message(t, p)}
<1> DEFINE e == Message(t, p)
           n == Len(channel) + 1
<1>1. channel \in Seq(Messages) /\ Len(channel) \in Nat /\ DOMAIN channel = 1..Len(channel)
  BY ChatTypes
<1>2. e \in Messages /\ e.text = t /\ e.part = p
  BY DEF Messages, Message
<1>3. /\ channel' \in Seq(Messages) /\ Len(channel') = n
      /\ \A i \in 1..Len(channel) : channel'[i] = channel[i]
      /\ channel'[n] = e
  BY <1>1, <1>2, AppendProperties
<1>4. \A i \in 1..n : i \in 1..Len(channel) \/ i = n
  BY <1>1
<1>5. \A i \in 1..Len(channel) : i \in 1..n /\ i < n
  BY <1>1
<1>6. n \in 1..n /\ \A i \in 1..n : ~(n < i)
  BY <1>1
<1> HIDE DEF e, n
<1>7. \A i \in 1..n : /\ channel'[i].text \in 1..Len(posted')
                      /\ channel'[i].part \in 1..posted'[channel'[i].text].sent
  <2> TAKE i \in 1..n
  <2>1. CASE i = n
    BY <1>2, <1>3, <2>1
  <2>2. CASE i \in 1..Len(channel)
    <3>1. channel[i].text \in 1..Len(posted) /\ channel[i].part \in 1..posted[channel[i].text].sent
      BY <2>2 DEF ChannelInOrder
    <3>2. channel'[i] = channel[i]
      BY <1>3, <2>2
    <3> QED
      BY <3>1, <3>2
  <2> QED
    BY <1>4, <2>1, <2>2
<1>8. ASSUME NEW i \in 1..n, NEW j \in 1..n, i < j
      PROVE  /\ channel'[i].text = channel'[j].text => channel'[i].part < channel'[j].part
             /\ channel'[j].part = 1 => channel'[i].text < channel'[j].text
  <2>1. i \in 1..Len(channel) /\ channel'[i] = channel[i] /\ channel[i] \in OnTheWay
    BY <1>3, <1>4, <1>6, <1>8, Travels
  <2>2. CASE j = n
    BY <1>2, <1>3, <2>1, <2>2
  <2>3. CASE j \in 1..Len(channel)
    BY <1>3, <1>8, <2>1, <2>3 DEF ChannelInOrder
  <2> QED
    BY <1>4, <2>2, <2>3
<1>9. ChannelInOrder'
  BY <1>3, <1>7, <1>8 DEF ChannelInOrder
<1>10. OnTheWay' = OnTheWay \cup {e}
  <2>1. DOMAIN channel' = 1..n
    BY <1>3, LenProperties
  <2>2. /\ OnTheWay' = {channel'[i] : i \in 1..n}
        /\ OnTheWay = {channel[i] : i \in 1..Len(channel)}
    BY <1>1, <2>1 DEF OnTheWay, Range
  <2> QED
    BY <1>3, <1>4, <1>5, <1>6, <2>2
<1> QED
  BY <1>3, <1>9, <1>10 DEF e

LEMMA CameTaken ==
  ASSUME ChatTypeOK, ChannelInOrder, FirstsInOrder, channel # <<>>,
         channel' = Tail(channel), posted' = posted,
         NEW t \in 1..Len(posted), NEW k \in 0..posted[t].sent, Came(t, k)
  PROVE  /\ t # Head(channel).text => Came(t, k)'
         /\ t = Head(channel).text => Head(channel).part = k + 1 /\ Came(t, k + 1)'
<1> DEFINE m == Head(channel)
<1>1. /\ m \in OnTheWay /\ m = Message(m.text, m.part)
      /\ m.part \in 1..posted[m.text].sent /\ m.part \in Nat
      /\ \A p \in Nat : Message(m.text, p) \in OnTheWay => m.part <= p
      /\ posted[t].sent \in Nat /\ k \in Nat
  BY HeadIs, ChatTypes
<1>2. \A p : Message(t, p) \in OnTheWay' <=> Message(t, p) \in OnTheWay /\ Message(t, p) # m
  BY HeadTaken
<1>3. \A p \in 1..posted[t].sent : Message(t, p) \in OnTheWay <=> p > k
  BY DEF Came
<1> HIDE DEF m
<1>4. ASSUME t # m.text
      PROVE  Came(t, k)'
  <2>1. \A p : Message(t, p) # m
    BY <1>4, MessageIs
  <2> QED
    BY <1>2, <1>3, <2>1 DEF Came, Message
<1>5. ASSUME t = m.text
      PROVE  m.part = k + 1 /\ Came(t, k + 1)'
  <2>1. m.part > k
    BY <1>1, <1>3, <1>5
  <2>2. k + 1 \in 1..posted[t].sent /\ k + 1 > k
    BY <1>1, <1>5, <2>1
  <2>3. m.part <= k + 1
    BY <1>1, <1>3, <1>5, <2>2
  <2>4. m.part = k + 1
    BY <1>1, <2>1, <2>3
  <2>5. \A p : Message(t, p) # m <=> p # k + 1
    BY <1>1, <1>5, <2>4, MessageIs
  <2>6. \A p \in 1..posted[t].sent : p > k /\ p # k + 1 <=> p > k + 1
    BY <1>1
  <2>7. \A p \in 1..posted[t].sent : Message(t, p) \in OnTheWay' <=> p > k + 1
    BY <1>2, <1>3, <2>5, <2>6
  <2> QED
    BY <2>4, <2>7 DEF Came, Message
<1> QED
  BY <1>4, <1>5 DEF m

\* How far a text came is one number.
LEMMA CameOnce ==
  ASSUME ChatTypeOK, NEW t \in 1..Len(posted), NEW k \in 0..posted[t].sent,
         NEW j \in 0..posted[t].sent, Came(t, k), Came(t, j)
  PROVE  k = j
<1>1. posted[t].sent \in Nat
  BY ChatTypes
<1>2. ASSUME NEW a \in 0..posted[t].sent, NEW b \in 0..posted[t].sent, a < b,
             Came(t, a), Came(t, b)
      PROVE  FALSE
  <2>1. b \in 1..posted[t].sent /\ b > a /\ ~(b > b)
    BY <1>1, <1>2
  <2> QED
    BY <1>2, <2>1 DEF Came
<1>3. k < j \/ j < k \/ k = j
  BY <1>1
<1> QED
  BY <1>2, <1>3

\* The text whose first messages are kept
LEMMA KeptIs ==
  ASSUME ChatTypeOK, NEW t \in 1..Len(posted), NEW k \in Nat \ {0}, storage = First(t, k)
  PROVE  /\ storage # Nothing /\ Last(storage.pieces) = Message(t, k)
         /\ \A i \in 1..Len(storage.pieces) : storage.pieces[i].text = t
         /\ KeptTexts = {t} /\ 1 \in 1..Len(storage.pieces)
<1>1. /\ storage # Nothing /\ Last(storage.pieces) = Message(t, k)
      /\ Len(storage.pieces) = k /\ 1 \in 1..k
      /\ \A i \in 1..k : storage.pieces[i] = Message(t, i)
  BY FirstIs
<1>2. \A i : Message(t, i).text = t
  BY DEF Message
<1>3. DOMAIN storage.pieces = 1..Len(storage.pieces)
  BY ChatTypes, LenProperties
<1>4. KeptTexts = {t}
  <2>1. Range(storage.pieces) = {storage.pieces[i] : i \in 1..k}
    BY <1>1, <1>3 DEF Range
  <2>2. \A x \in Range(storage.pieces) : x.text = t
    BY <1>1, <1>2, <2>1
  <2>3. storage.pieces[1] \in Range(storage.pieces)
    BY <1>1, <2>1
  <2> QED
    BY <2>2, <2>3 DEF KeptTexts
<1> QED
  BY <1>1, <1>2, <1>4

LEMMA NothingIs == Nothing.pieces = <<>> /\ \A i \in 1..Len(Nothing.pieces) : FALSE
  BY EmptySeq DEF Nothing

\* How far a text that is not spoiled was seen
LEMMA SeenOf ==
  ASSUME ChatInv, NEW t \in Unspoiled
  PROVE  /\ t \in 1..Len(posted) /\ t \notin spoiled
         /\ posted[t].sent \in Nat /\ posted[t].parts \in Nat
         /\ posted[t].sent <= posted[t].parts
         /\ \E k \in 0..posted[t].sent : Came(t, k) /\ Found(t, k)
<1>1. t \in 1..Len(posted) /\ t \notin spoiled
  BY DEF Unspoiled
<1> QED
  BY <1>1, ChatTypes DEF ChatInv, NoneLost

\* What is kept, if anything
LEMMA KeptCases ==
  ASSUME ChatInv, storage # Nothing
  PROVE  \/ Spoilt(storage)
         \/ \E t \in Unspoiled : \E k \in 1..posted[t].sent :
              /\ Came(t, k) /\ storage = First(t, k) /\ Waits(t, k)
              /\ k \in Nat \ {0} /\ t \in 1..Len(posted)
<1>1. \A t \in Unspoiled : \A k \in 1..posted[t].sent : k \in Nat \ {0} /\ t \in 1..Len(posted)
  BY ChatTypes DEF ChatInv, Unspoiled
<1> QED
  BY <1>1 DEF ChatInv, KeptIsSound, KeptFirst

LEMMA KeptTextsAre ==
  ASSUME ChatTypeOK
  PROVE  KeptTexts = {storage.pieces[i].text : i \in 1..Len(storage.pieces)}
<1>1. DOMAIN storage.pieces = 1..Len(storage.pieces)
  BY ChatTypes, LenProperties
<1> QED
  BY <1>1 DEF KeptTexts, Range

LEMMA KeptTextsPosted ==
  ASSUME ChatInv, storage # Nothing
  PROVE  KeptTexts \subseteq 1..Len(posted)
<1>1. KeptTexts = {storage.pieces[i].text : i \in 1..Len(storage.pieces)}
      /\ spoiled \subseteq 1..Len(posted)
  BY KeptTextsAre, ChatTypes DEF ChatInv
<1>2. CASE Spoilt(storage)
  BY <1>1, <1>2 DEF Spoilt
<1>3. ASSUME NEW t \in 1..Len(posted), NEW k \in Nat \ {0}, storage = First(t, k)
      PROVE  KeptTexts \subseteq 1..Len(posted)
  BY <1>3, KeptIs DEF ChatInv
<1> QED
  BY <1>2, <1>3, KeptCases

\* What a message spoils
LEMMA SpoilsIs ==
  ASSUME NEW m
  PROVE  /\ storage = Nothing => Spoils(m) = {}
         /\ storage # Nothing /\ m.part = 1 =>
              Spoils(m) = {t \in {m.text} : Wrapped(t)} \cup
                          (IF Complete(storage.pieces) THEN {} ELSE KeptTexts)
         /\ storage # Nothing /\ m.part # 1 =>
              Spoils(m) = IF Continues(m) THEN {} ELSE {m.text} \cup KeptTexts
BY DEF Spoils

-----------------------------------------------------------------------------
(* What a message does                                                     *)

SpoiltNow(text) == \A i \in 1..Len(text.pieces) : text.pieces[i].text \in spoiled'

\* It is the next of a text that is not spoiled, and its line ends it or not, ...
Follows(m) ==
  /\ m.text \notin spoiled /\ spoiled' = spoiled
  /\ storage # Nothing => storage = First(m.text, m.part - 1) /\ m.part > 1

Extends(m) ==
  /\ Follows(m) /\ Waits(m.text, m.part)
  /\ storage' = First(m.text, m.part) /\ told' = told

Ends(m) ==
  /\ Follows(m) /\ m.part = posted[m.text].parts
  /\ storage' = Nothing /\ told' = told \o <<Whole(m.text)>>

\* ... or it is a first line and comes when another text is kept, ...
KeptEnds(m) ==
  \/ SpoiltNow(storage)
  \/ \E t \in Unspoiled :
       /\ t \notin spoiled' /\ t # m.text /\ storage = Whole(t)
       /\ posted[t].sent = posted[t].parts /\ Came(t, posted[t].parts)

LineEnds(m, line) ==
  \/ m.text \in spoiled' /\ SpoiltNow(line)
  \/ m.text \notin spoiled' /\ line = Whole(m.text) /\ posted[m.text].parts = 1

EndsBoth(m) ==
  /\ m.part = 1 /\ storage # Nothing /\ storage' = Nothing
  /\ KeptEnds(m)
  /\ \E line \in Lines : LineEnds(m, line) /\ told' = told \o <<storage, line>>

\* ... or it is spoiled, with all that is kept, before and after it.
AllSpoilt(m) ==
  /\ m.text \in spoiled' /\ SpoiltNow(storage) /\ SpoiltNow(storage')
  /\ storage' \in Lines
  /\ storage' # Nothing => storage'.pieces # <<>>
  /\ \/ told' = told
     \/ \E line \in Lines : SpoiltNow(line) /\ told' = told \o <<line>>

LEMMA LineIs ==
  ASSUME ChatTypeOK, ChannelInOrder, channel # <<>>
  PROVE  LET m == Head(channel)
         IN /\ Line(m) \in Lines /\ Line(m).pieces = <<m>> /\ m \in Messages
            /\ Line(m).starts <=> m.part > 1
            /\ Line(m).ends <=> Waits(m.text, m.part)
            /\ m.part = 1 => Line(m) = First(m.text, 1)
<1> DEFINE m == Head(channel)
           n == posted[m.text].parts
<1>1. /\ m.text \in 1..Len(posted) /\ m.part \in Nat /\ n \in Nat
      /\ posted[m.text].dots \in BOOLEAN /\ m.text \in Nat /\ m = Message(m.text, m.part)
  BY HeadIs, ChatTypes
<1>2. m \in Messages /\ <<m>> \in Seq(Messages)
  <2>1. \A t \in Nat, p \in Nat : Message(t, p) \in Messages
    BY DEF Message, Messages
  <2> HIDE DEF m
  <2> QED
    BY <1>1, <2>1
<1>3. m.part = 1 => Line(m) = First(m.text, 1)
  BY <1>1, LineOfFirst
<1> HIDE DEF m
<1>4. Line(m) = [starts |-> m.part > 1, ends |-> Waits(m.text, m.part), pieces |-> <<m>>]
  BY DEF Line, Waits
<1>5. (m.part > 1) \in BOOLEAN /\ Waits(m.text, m.part) \in BOOLEAN
  BY <1>1 DEF Waits
<1>6. \A a \in BOOLEAN, b \in BOOLEAN : [starts |-> a, ends |-> b, pieces |-> <<m>>] \in Lines
  BY <1>2 DEF Lines
<1>7. Line(m) \in Lines
  BY <1>4, <1>5, <1>6
<1>8. Line(m).pieces = <<m>> /\ (Line(m).starts <=> m.part > 1)
      /\ (Line(m).ends <=> Waits(m.text, m.part))
  BY DEF Line, Waits
<1> QED
  BY <1>2, <1>3, <1>7, <1>8 DEF m

LEMMA JoinedSpoilt ==
  ASSUME ChatTypeOK, NEW line \in Lines, NEW m \in Messages, line.pieces = <<m>>,
         m.text \in spoiled', SpoiltNow(storage)
  PROVE  /\ Joined(storage, line) \in Lines /\ Joined(storage, line).pieces # <<>>
         /\ SpoiltNow(Joined(storage, line))
<1> DEFINE s == storage.pieces
           r == s \o <<m>>
<1>1. s \in Seq(Messages) /\ Len(s) \in Nat /\ <<m>> \in Seq(Messages) /\ Len(<<m>>) = 1
      /\ <<m>>[1] = m
  BY ChatTypes
<1>2. /\ r \in Seq(Messages) /\ Len(r) = Len(s) + 1
      /\ \A i \in 1..(Len(s) + 1) : r[i] = IF i <= Len(s) THEN s[i] ELSE <<m>>[i - Len(s)]
  <2> DEFINE g == <<m>>
  <2>1. g \in Seq(Messages) /\ Len(g) = 1
    BY <1>1
  <2> HIDE DEF g, s
  <2>2. /\ s \o g \in Seq(Messages) /\ Len(s \o g) = Len(s) + Len(g)
        /\ \A i \in 1..(Len(s) + Len(g)) : (s \o g)[i] = IF i <= Len(s) THEN s[i] ELSE g[i - Len(s)]
    BY <1>1, <2>1, ConcatProperties
  <2> QED
    BY <2>1, <2>2 DEF g
<1>3. \A i \in 1..Len(s) : s[i].text \in spoiled'
  BY DEF SpoiltNow
<1> HIDE DEF s
<1>4. \A i \in 1..Len(r) : r[i].text \in spoiled'
  <2> TAKE i \in 1..Len(r)
  <2>1. CASE i <= Len(s)
    <3>1. i \in 1..Len(s) /\ r[i] = s[i]
      BY <1>1, <1>2, <2>1
    <3> QED
      BY <1>3, <3>1
  <2>2. CASE ~(i <= Len(s))
    <3>1. i - Len(s) = 1
      BY <1>1, <1>2, <2>2
    <3>2. r[i] = m
      BY <1>1, <1>2, <2>2, <3>1
    <3> QED
      BY <3>2
  <2> QED
    BY <2>1, <2>2
<1>5. r # <<>>
  BY <1>1, <1>2, EmptySeq
<1>6. Joined(storage, line) = [starts |-> FALSE, ends |-> FALSE, pieces |-> r]
  BY DEF Joined, s
<1> HIDE DEF r
<1> QED
  BY <1>2, <1>4, <1>5, <1>6 DEF Lines, SpoiltNow

LEMMA Outcome ==
  ASSUME ChatInv, Receive
  PROVE  LET m == Head(channel)
         IN /\ channel # <<>> /\ channel' = Tail(channel) /\ posted' = posted
            /\ spoiled' = spoiled \cup Spoils(m)
            /\ Extends(m) \/ Ends(m) \/ EndsBoth(m) \/ AllSpoilt(m)
<1> DEFINE m == Head(channel)
           line == Line(m)
           h == m.text
           n == posted[h].parts
<1>1. /\ channel # <<>> /\ channel' = Tail(channel) /\ posted' = posted
      /\ spoiled' = spoiled \cup Spoils(m) /\ SetContinuousTextCallback(line)
  BY DEF Receive
<1>2. ChatTypeOK /\ ChannelInOrder /\ FirstsInOrder
  BY DEF ChatInv
<1>3. /\ m.part \in Nat \ {0} /\ m.part <= n /\ n \in Nat \ {0} /\ h \in 1..Len(posted)
      /\ m = Message(h, m.part)
  BY <1>1, <1>2, HeadIs, ChatTypes
<1>4. /\ line \in Lines /\ line.pieces = <<m>> /\ m \in Messages
      /\ line.starts <=> m.part > 1
      /\ line.ends <=> Waits(h, m.part)
      /\ m.part = 1 => line = First(h, 1)
  BY <1>1, <1>2, LineIs
<1>5. ~Waits(h, m.part) => m.part = n
  BY <1>3 DEF Waits
<1>6. Whole(h) = First(h, n)
  BY DEF Whole
<1>7. ASSUME h \notin spoiled
      PROVE  m.part > 1 => storage = First(h, m.part - 1) /\ storage # Nothing
  <2>1. h \in Unspoiled
    BY <1>3, <1>7 DEF Unspoiled
  <2>2. PICK k \in 0..posted[h].sent : Came(h, k) /\ Found(h, k)
    BY <2>1, SeenOf
  <2>3. m.part = k + 1
    BY <1>1, <1>2, <1>3, <2>2, CameTaken
  <2>4. k \in Nat /\ k = m.part - 1 /\ k # n
    BY <1>3, <2>2, <2>3
  <2>5. m.part > 1 => storage = First(h, k) /\ k \in Nat \ {0}
    BY <2>2, <2>3, <2>4 DEF Found, KeptFirst
  <2> QED
    BY <1>2, <1>3, <2>4, <2>5, KeptIs
<1>8. h \in spoiled' => SpoiltNow(line)
  <2>1. Len(<<m>>) = 1 /\ \A i \in 1..1 : <<m>>[i] = m
    OBVIOUS
  <2> QED
    BY <1>4, <2>1 DEF SpoiltNow
<1>9. storage = Nothing => SpoiltNow(storage)
  BY NothingIs DEF SpoiltNow
<1>10. Nothing \in Lines /\ SpoiltNow(Nothing)
  <2>1. <<>> \in Seq(Messages)
    OBVIOUS
  <2> QED
    BY <2>1, NothingIs DEF Nothing, Lines, SpoiltNow
<1> SUFFICES Extends(m) \/ Ends(m) \/ EndsBoth(m) \/ AllSpoilt(m)
  BY <1>1
<1> HIDE DEF m, line, h, n
<1>11. CASE storage = Nothing
  <2>1. spoiled' = spoiled
    BY <1>1, <1>11, SpoilsIs
  <2>2. \/ Waits(h, m.part) /\ Store(line)
        \/ ~Waits(h, m.part) /\ Callback(<<line>>)
    BY <1>1, <1>4, <1>11 DEF SetContinuousTextCallback
  <2>3. CASE h \notin spoiled
    <3>1. m.part = 1 /\ line = First(h, 1)
      BY <1>3, <1>4, <1>7, <1>11, <2>3
    <3>2. Follows(m)
      BY <1>11, <2>1, <2>3 DEF Follows, h
    <3>3. ASSUME Waits(h, m.part) /\ Store(line)
          PROVE  Extends(m)
      BY <3>1, <3>2, <3>3 DEF Store, Extends, h
    <3>4. ASSUME ~Waits(h, m.part) /\ Callback(<<line>>)
          PROVE  Ends(m)
      BY <1>5, <1>6, <3>1, <3>2, <3>4 DEF Callback, Ends, h, n
    <3> QED
      BY <2>2, <3>3, <3>4
  <2>4. CASE h \in spoiled
    <3>1. h \in spoiled' /\ SpoiltNow(line) /\ SpoiltNow(storage)
      BY <1>8, <1>9, <1>11, <2>1, <2>4
    <3>2. ASSUME Store(line)
          PROVE  AllSpoilt(m)
      <4>1. line.pieces # <<>>
        BY <1>4
      <4> QED
        BY <1>4, <3>1, <3>2, <4>1 DEF Store, AllSpoilt, SpoiltNow, h
    <3>3. ASSUME Callback(<<line>>)
          PROVE  AllSpoilt(m)
      BY <1>4, <1>10, <3>1, <3>3 DEF Callback, AllSpoilt, SpoiltNow, h
    <3> QED
      BY <2>2, <3>2, <3>3
  <2> QED
    BY <2>3, <2>4
<1>12. CASE storage # Nothing /\ m.part = 1
  <2>1. Callback(<<storage, line>>)
    BY <1>1, <1>4, <1>12 DEF SetContinuousTextCallback
  <2>2. /\ Wrapped(h) => h \in spoiled'
        /\ ~Complete(storage.pieces) => KeptTexts \subseteq spoiled'
        /\ spoiled \subseteq spoiled'
    BY <1>1, <1>12, SpoilsIs DEF h
  <2>3. LineEnds(m, line)
    <3>1. CASE h \in spoiled'
      BY <1>8, <3>1 DEF LineEnds, h
    <3>2. CASE h \notin spoiled'
      <4>1. ~(n > 1)
        BY <2>2, <3>2 DEF Wrapped, n
      <4>2. n = 1
        BY <1>3, <4>1
      <4> QED
        BY <1>4, <1>6, <1>12, <3>2, <4>2 DEF LineEnds, h, n
    <3> QED
      BY <3>1, <3>2
  <2>4. KeptEnds(m)
    <3>1. CASE Spoilt(storage)
      BY <2>2, <3>1 DEF Spoilt, SpoiltNow, KeptEnds
    <3>2. ASSUME NEW t \in Unspoiled, NEW k \in 1..posted[t].sent, Came(t, k),
                 storage = First(t, k), k \in Nat \ {0}, t \in 1..Len(posted)
          PROVE  KeptEnds(m)
      <4>1. /\ Last(storage.pieces) = Message(t, k) /\ KeptTexts = {t}
            /\ \A i \in 1..Len(storage.pieces) : storage.pieces[i].text = t
        BY <1>2, <3>2, KeptIs
      <4>2. Complete(storage.pieces) <=> k = posted[t].parts
        BY <4>1, MessageIs DEF Complete
      <4>3. CASE t \in spoiled'
        BY <4>1, <4>3 DEF SpoiltNow, KeptEnds
      <4>4. CASE t \notin spoiled'
        <5>1. k = posted[t].parts
          BY <2>2, <4>1, <4>2, <4>4
        <5>2. posted[t].sent = posted[t].parts
          BY <3>2, <5>1, SeenOf
        <5>3. t # h
          <6> SUFFICES ASSUME t = h
                       PROVE  FALSE
            OBVIOUS
          <6>1. m.part = k + 1
            <7>1. k \in 0..posted[t].sent
              BY <3>2, SeenOf
            <7> QED
              BY <1>1, <1>2, <3>2, <7>1, CameTaken DEF h, m
          <6> QED
            BY <1>12, <3>2, <6>1
        <5> QED
          BY <3>2, <4>4, <5>1, <5>2, <5>3 DEF KeptEnds, Whole, h
      <4> QED
        BY <4>3, <4>4
    <3> QED
      BY <1>12, <3>1, <3>2, KeptCases
  <2>5. EndsBoth(m)
    BY <1>4, <1>12, <2>1, <2>3, <2>4 DEF Callback, EndsBoth
  <2> QED
    BY <2>5
<1>13. CASE storage # Nothing /\ m.part # 1
  <2>1. m.part > 1
    BY <1>3, <1>13
  <2>2. \/ Waits(h, m.part) /\ Store(Joined(storage, line))
        \/ ~Waits(h, m.part) /\ Callback(<<Joined(storage, line)>>)
    BY <1>1, <1>4, <1>13, <2>1 DEF SetContinuousTextCallback
  <2>3. ASSUME h \in spoiled', SpoiltNow(storage)
        PROVE  AllSpoilt(m)
    <3> DEFINE j == Joined(storage, line)
    <3>1. j \in Lines /\ j.pieces # <<>> /\ SpoiltNow(j)
      BY <1>2, <1>4, <2>3, JoinedSpoilt DEF h
    <3> HIDE DEF j
    <3>2. CASE Store(j)
      BY <2>3, <3>1, <3>2 DEF Store, AllSpoilt, SpoiltNow, h
    <3>3. CASE Callback(<<j>>)
      BY <1>10, <2>3, <3>1, <3>3 DEF Callback, AllSpoilt, SpoiltNow, h
    <3> QED
      BY <2>2, <3>2, <3>3 DEF j
  <2>4. CASE ~Continues(m)
    <3>1. spoiled' = spoiled \cup ({h} \cup KeptTexts)
      BY <1>1, <1>13, <2>4, SpoilsIs DEF h
    <3>2. SpoiltNow(storage)
      BY <1>2, <3>1, KeptTextsAre DEF SpoiltNow
    <3> QED
      BY <2>3, <3>1, <3>2
  <2>5. CASE Continues(m)
    <3>1. spoiled' = spoiled
      BY <1>1, <1>13, <2>5, SpoilsIs
    <3>2. Last(storage.pieces).text = h
      BY <2>5 DEF Continues, h
    <3>3. CASE Spoilt(storage)
      <4>1. storage.pieces # <<>>
        BY <1>13 DEF ChatInv, KeptIsSound
      <4>2. Len(storage.pieces) \in 1..Len(storage.pieces)
        BY <1>2, <4>1, ChatTypes, EmptySeq
      <4>3. h \in spoiled
        BY <3>2, <3>3, <4>2 DEF Spoilt, Last
      <4>4. SpoiltNow(storage)
        BY <3>1, <3>3 DEF Spoilt, SpoiltNow
      <4> QED
        BY <2>3, <3>1, <4>3, <4>4
    <3>4. CASE h \notin spoiled
      <4> DEFINE k == m.part - 1
      <4>1. k \in Nat \ {0} /\ k + 1 = m.part /\ storage = First(h, k)
        BY <1>3, <1>7, <2>1, <3>4
      <4> HIDE DEF k
      <4>2. Joined(storage, line) = First(h, m.part)
        <5>1. m = Message(h, k + 1)
          BY <1>3, <4>1
        <5>2. Joined(First(h, k), Line(Message(h, k + 1))) = First(h, k + 1)
          BY <1>2, <1>3, <4>1, JoinedFirst
        <5> QED
          BY <4>1, <5>1, <5>2 DEF line
      <4>3. Follows(m)
        BY <2>1, <3>1, <3>4, <4>1 DEF Follows, h, k
      <4>4. ASSUME Waits(h, m.part) /\ Store(Joined(storage, line))
            PROVE  Extends(m)
        BY <4>2, <4>3, <4>4 DEF Store, Extends, h
      <4>5. ASSUME ~Waits(h, m.part) /\ Callback(<<Joined(storage, line)>>)
            PROVE  Ends(m)
        BY <1>5, <1>6, <4>2, <4>3, <4>5 DEF Callback, Ends, h, n
      <4> QED
        BY <2>2, <4>4, <4>5
    <3>5. ASSUME NEW t \in Unspoiled, NEW k \in Nat \ {0}, storage = First(t, k),
                 t \in 1..Len(posted)
          PROVE  h \notin spoiled
      <4>1. Last(storage.pieces) = Message(t, k)
        BY <1>2, <3>5, KeptIs
      <4>2. t = h
        BY <3>2, <4>1, MessageIs
      <4> QED
        BY <4>2 DEF Unspoiled
    <3> QED
      BY <1>13, <3>3, <3>4, <3>5, KeptCases
  <2> QED
    BY <2>4, <2>5
<1> QED
  BY <1>11, <1>12, <1>13

-----------------------------------------------------------------------------
(* A message is received                                                   *)

LEMMA ToldGrows ==
  ASSUME ChatTypeOK, NEW texts \in Seq(Lines), told' = told \o texts
  PROVE  /\ told' \in Seq(Lines) /\ Len(told') = Len(told) + Len(texts) /\ Len(texts) \in Nat
         /\ \A i \in 1..Len(told) : i \in 1..Len(told') /\ told'[i] = told[i]
         /\ \A i \in 1..Len(texts) :
              Len(told) + i \in 1..Len(told') /\ told'[Len(told) + i] = texts[i]
         /\ \A i \in 1..Len(told') :
              \/ i \in 1..Len(told)
              \/ \E j \in 1..Len(texts) : i = Len(told) + j
<1>1. told \in Seq(Lines) /\ Len(told) \in Nat /\ Len(texts) \in Nat
  BY ChatTypes, LenProperties
<1>2. /\ told' \in Seq(Lines) /\ Len(told') = Len(told) + Len(texts)
      /\ \A i \in 1..(Len(told) + Len(texts)) :
           told'[i] = IF i <= Len(told) THEN told[i] ELSE texts[i - Len(told)]
  BY <1>1, ConcatProperties
<1> DEFINE a == Len(told)
           b == Len(texts)
<1>3. \A i \in 1..a : i \in 1..(a + b) /\ i <= a
  BY <1>1
<1>4. \A i \in 1..b : a + i \in 1..(a + b) /\ ~(a + i <= a) /\ (a + i) - a = i
  BY <1>1
<1>5. \A i \in 1..(a + b) : i \in 1..a \/ (i - a \in 1..b /\ i = a + (i - a))
  BY <1>1
<1> HIDE DEF a, b
<1>6. \A i \in 1..(a + b) : i \in 1..a \/ \E j \in 1..b : i = a + j
  BY <1>5
<1> QED
  BY <1>1, <1>2, <1>3, <1>4, <1>6 DEF a, b

\* The message that does not continue a text kept whole ends or spoils it.
LEMMA SameTexts ==
  ASSUME posted' = posted
  PROVE  /\ \A t, k : First(t, k)' = First(t, k) /\ (Waits(t, k)' <=> Waits(t, k))
         /\ \A t : Whole(t)' = Whole(t)
<1>1. \A t, k : First(t, k)' = First(t, k)
  BY DEF First, Line
<1>2. \A t, k : Waits(t, k)' <=> Waits(t, k)
  BY DEF Waits
<1>3. \A t : Whole(t)' = Whole(t)
  BY <1>1 DEF Whole
<1> QED
  BY <1>1, <1>2, <1>3

\* Lines of a spoiled text are spoiled.
LEMMA FirstSpoilt ==
  ASSUME ChatTypeOK, NEW t \in 1..Len(posted), NEW k \in Nat \ {0}
  PROVE  SpoiltNow(First(t, k)) <=> t \in spoiled'
<1>1. /\ Len(First(t, k).pieces) = k /\ 1 \in 1..k
      /\ \A i \in 1..k : First(t, k).pieces[i] = Message(t, i)
  BY FirstIs
<1>2. \A i : Message(t, i).text = t
  BY DEF Message
<1> HIDE DEF First
<1> QED
  BY <1>1, <1>2 DEF SpoiltNow

\* Another text's lines are not kept.
LEMMA FirstDiffer ==
  ASSUME ChatTypeOK, NEW t \in 1..Len(posted), NEW k \in Nat \ {0},
         NEW u \in 1..Len(posted), NEW j \in Nat \ {0}, First(t, k) = First(u, j)
  PROVE  t = u /\ k = j
<1>1. /\ Len(First(t, k).pieces) = k /\ First(t, k).pieces[1] = Message(t, 1)
      /\ Len(First(u, j).pieces) = j /\ First(u, j).pieces[1] = Message(u, 1)
  BY FirstIs
<1> HIDE DEF First
<1> QED
  BY <1>1, MessageIs

\* What the step left in the channel of the texts, and of the message's own
LEMMA CameNow ==
  ASSUME ChatInv, channel # <<>>, channel' = Tail(channel), posted' = posted
  PROVE  /\ \A t \in 1..Len(posted) : \A k \in 0..posted[t].sent :
              t # Head(channel).text /\ Came(t, k) => Came(t, k)'
         /\ \A t \in Unspoiled, k \in Nat :
              t = Head(channel).text /\ k = Head(channel).part => Came(t, k)'
         /\ \A t \in Unspoiled :
              posted[t].sent = posted[t].parts /\ Came(t, posted[t].parts) =>
                t # Head(channel).text /\ Came(t, posted[t].parts)'
<1> DEFINE m == Head(channel)
<1>1. ChatTypeOK /\ ChannelInOrder /\ FirstsInOrder
  BY DEF ChatInv
<1>2. m.text \in 1..Len(posted) /\ m.part \in 1..posted[m.text].sent
  BY <1>1, HeadIs
<1>3. ASSUME NEW t \in 1..Len(posted), NEW k \in 0..posted[t].sent, t # m.text, Came(t, k)
      PROVE  Came(t, k)'
  BY <1>1, <1>3, CameTaken
<1>4. ASSUME NEW t \in Unspoiled, NEW k \in Nat, t = m.text, k = m.part
      PROVE  Came(t, k)'
  <2>1. PICK j \in 0..posted[t].sent : Came(t, j)
    BY <1>4, SeenOf
  <2>2. t \in 1..Len(posted)
    BY <1>4, SeenOf
  <2>3. m.part = j + 1 /\ Came(t, j + 1)'
    BY <1>1, <1>4, <2>1, <2>2, CameTaken
  <2>4. k = j + 1
    BY <1>4, <2>3
  <2> QED
    BY <2>3, <2>4
<1>5. ASSUME NEW t \in Unspoiled, posted[t].sent = posted[t].parts, Came(t, posted[t].parts)
      PROVE  t # m.text /\ Came(t, posted[t].parts)'
  <2>1. t \in 1..Len(posted) /\ posted[t].parts \in Nat /\ posted[t].parts \in 0..posted[t].sent
    BY <1>5, SeenOf
  <2>2. t # m.text
    <3> SUFFICES ASSUME t = m.text
                 PROVE  FALSE
      OBVIOUS
    <3>1. m.part = posted[t].parts + 1
      BY <1>1, <1>5, <2>1, CameTaken
    <3>2. m.part \in 1..posted[t].sent
      BY <1>2
    <3> HIDE DEF m
    <3> QED
      BY <1>5, <2>1, <3>1, <3>2
  <2> QED
    BY <1>3, <1>5, <2>1, <2>2
<1> QED
  BY <1>3, <1>4, <1>5

LEMMA NoneLostReceived ==
  ASSUME ChatInv, Receive
  PROVE  NoneLost'
<1> DEFINE m == Head(channel)
           h == m.text
<1>1. /\ channel # <<>> /\ channel' = Tail(channel) /\ posted' = posted
      /\ spoiled' = spoiled \cup Spoils(m)
      /\ Extends(m) \/ Ends(m) \/ EndsBoth(m) \/ AllSpoilt(m)
  BY Outcome
<1>2. ChatTypeOK /\ ChannelInOrder /\ h \in 1..Len(posted) /\ m.part \in 1..posted[h].sent
      /\ m.part \in Nat \ {0}
  BY <1>1, HeadIs DEF ChatInv
<1>3. /\ \A t \in Unspoiled, k \in Nat : t = h /\ k = m.part => Came(t, k)'
      /\ \A t \in 1..Len(posted) : \A k \in 0..posted[t].sent :
           t # h /\ Came(t, k) => Came(t, k)'
  BY <1>1, CameNow
<1>4. /\ \A t, k : First(t, k)' = First(t, k) /\ (Waits(t, k)' <=> Waits(t, k))
      /\ \A t : Whole(t)' = Whole(t)
  BY <1>1, SameTexts
<1>5. \A line \in Lines : <<line>> \in Seq(Lines) /\ Len(<<line>>) = 1 /\ <<line>>[1] = line
  OBVIOUS
<1>6. storage \in Lines /\ Whole(h) \in Lines
  BY <1>2, ChatTypes, WholeIs
\* What was told now
<1>7. ASSUME NEW t \in 1..Len(posted), t \notin spoiled', NEW i \in 1..Len(told'),
             told'[i] = Whole(t)
      PROVE  t \in ToldWhole(Len(told))'
  BY <1>1, <1>4, <1>7 DEF ToldWhole, Unspoiled
<1>8. \A texts \in Seq(Lines) : told' = told \o texts =>
        /\ \A i \in 1..Len(told) : i \in 1..Len(told') /\ told'[i] = told[i]
        /\ \A i \in 1..Len(texts) :
             Len(told) + i \in 1..Len(told') /\ told'[Len(told) + i] = texts[i]
  BY <1>2, ToldGrows
<1> HIDE DEF m, h
<1>9. ASSUME NEW line \in Lines, told' = told \o <<line>>
      PROVE  \E i \in 1..Len(told') : told'[i] = line
  <2>1. 1 \in 1..Len(<<line>>)
    BY <1>5
  <2> QED
    BY <1>5, <1>8, <1>9, <2>1
<1>10. ASSUME NEW line \in Lines, NEW other \in Lines, told' = told \o <<line, other>>
      PROVE  /\ \E i \in 1..Len(told') : told'[i] = line
             /\ \E i \in 1..Len(told') : told'[i] = other
  <2>1. /\ <<line, other>> \in Seq(Lines) /\ Len(<<line, other>>) = 2
        /\ <<line, other>>[1] = line /\ <<line, other>>[2] = other
    OBVIOUS
  <2>2. 1 \in 1..Len(<<line, other>>) /\ 2 \in 1..Len(<<line, other>>)
    BY <2>1
  <2> QED
    BY <1>8, <1>10, <2>1, <2>2
<1>11. \A i \in 1..Len(told) : i \in 1..Len(told') /\ told'[i] = told[i]
  <2>1. CASE told' = told
    BY <2>1
  <2>2. ASSUME NEW line \in Lines, told' = told \o <<line>>
        PROVE  \A i \in 1..Len(told) : i \in 1..Len(told') /\ told'[i] = told[i]
    BY <1>5, <1>8, <2>2
  <2>3. ASSUME NEW line \in Lines, told' = told \o <<storage, line>>
        PROVE  \A i \in 1..Len(told) : i \in 1..Len(told') /\ told'[i] = told[i]
    <3>1. <<storage, line>> \in Seq(Lines)
      BY <1>6
    <3> QED
      BY <1>8, <2>3, <3>1
  <2> QED
    BY <1>1, <1>6, <2>1, <2>2, <2>3 DEF Extends, Ends, EndsBoth, AllSpoilt, h
<1>12. ASSUME NEW t \in 1..Len(posted), t \notin spoiled', t = h, NEW k \in Nat, k = m.part
       PROVE  Found(t, k)'
  <2>1. CASE Extends(m)
    <3>1. storage' = First(t, k) /\ Waits(t, k)
      BY <1>12, <2>1 DEF Extends, h
    <3>2. storage' = First(t, k)' /\ Waits(t, k)'
      BY <1>4, <3>1
    <3> QED
      BY <3>2 DEF Found, KeptFirst
  <2>2. CASE Ends(m)
    <3>1. \E i \in 1..Len(told') : told'[i] = Whole(t)
      BY <1>6, <1>9, <1>12, <2>2 DEF Ends, h
    <3> QED
      BY <1>1, <1>7, <1>12, <2>2, <3>1 DEF Ends, Found, h
  <2>3. CASE EndsBoth(m)
    <3>1. PICK line \in Lines : LineEnds(m, line) /\ told' = told \o <<storage, line>>
      BY <2>3 DEF EndsBoth
    <3>2. line = Whole(t) /\ posted[t].parts = m.part
      BY <1>12, <2>3, <3>1 DEF EndsBoth, LineEnds, h
    <3>3. \E i \in 1..Len(told') : told'[i] = Whole(t)
      BY <1>6, <1>10, <3>1, <3>2
    <3> QED
      BY <1>1, <1>7, <1>12, <3>2, <3>3 DEF Found
  <2>4. CASE AllSpoilt(m)
    BY <1>12, <2>4 DEF AllSpoilt, h
  <2> QED
    BY <1>1, <2>1, <2>2, <2>3, <2>4
<1>13. ASSUME NEW t \in Unspoiled, t \notin spoiled', t # h, NEW k \in 0..posted[t].sent,
              Came(t, k), Found(t, k)
       PROVE  Found(t, k)'
  <2>1. t \in 1..Len(posted) /\ k \in Nat /\ posted[t].sent \in Nat /\ posted[t].parts \in Nat
    BY SeenOf
  <2>2. CASE k = 0
    BY <2>2 DEF Found
  <2>3. CASE k = posted[t].parts /\ t \in ToldWhole(Len(told))
    <3>1. \E i \in 1..Len(told') : told'[i] = Whole(t)
      BY <1>11, <2>3 DEF ToldWhole
    <3> QED
      BY <1>1, <1>7, <1>13, <2>1, <2>3, <3>1 DEF Found
  <2>4. CASE k # 0 /\ KeptFirst(t, k)
    <3>1. k \in Nat \ {0} /\ storage = First(t, k)
      BY <2>1, <2>4 DEF KeptFirst
    <3>2. storage # Nothing /\ ~SpoiltNow(storage)
      BY <1>2, <1>13, <2>1, <3>1, FirstSpoilt, KeptIs
    <3>3. ~Follows(m)
      <4> SUFFICES ASSUME Follows(m)
                   PROVE  FALSE
        OBVIOUS
      <4>1. storage = First(h, m.part - 1) /\ m.part - 1 \in Nat \ {0}
        BY <1>2, <3>2 DEF Follows, h
      <4> QED
        <5>1. PICK j \in Nat \ {0} : storage = First(h, j)
          BY <4>1
        <5>2. First(t, k) = First(h, j)
          BY <3>1, <5>1
        <5> QED
          BY <1>2, <1>13, <2>1, <3>1, <5>2, FirstDiffer
    <3>4. EndsBoth(m)
      BY <1>1, <3>2, <3>3 DEF Extends, Ends, AllSpoilt
    <3>5. PICK u \in Unspoiled : /\ storage = Whole(u) /\ posted[u].sent = posted[u].parts
                                 /\ Came(u, posted[u].parts)
      BY <3>2, <3>4 DEF EndsBoth, KeptEnds
    <3>6. u = t /\ k = posted[t].parts
      <4>1. u \in 1..Len(posted) /\ posted[u].parts \in Nat \ {0}
            /\ Whole(u) = First(u, posted[u].parts)
        BY <1>2, WholeIs DEF Unspoiled
      <4> QED
        <5> DEFINE j == posted[u].parts
        <5>1. First(t, k) = First(u, j) /\ j \in Nat \ {0}
          BY <3>1, <3>5, <4>1
        <5> HIDE DEF j
        <5>2. t = u /\ k = j
          BY <1>2, <2>1, <3>1, <4>1, <5>1, FirstDiffer
        <5> QED
          BY <5>2 DEF j
    <3>7. \E i \in 1..Len(told') : told'[i] = Whole(t)
      <4>1. PICK line \in Lines : told' = told \o <<storage, line>>
        BY <3>4 DEF EndsBoth
      <4> QED
        BY <1>6, <1>10, <3>5, <3>6, <4>1
    <3> QED
      BY <1>1, <1>7, <1>13, <2>1, <3>6, <3>7 DEF Found
  <2> QED
    BY <1>13, <2>2, <2>3, <2>4 DEF Found
<1>14. ASSUME NEW t \in Unspoiled, t \notin spoiled'
       PROVE  \E k \in 0..posted[t].sent : Came(t, k)' /\ Found(t, k)'
  <2>1. t \in 1..Len(posted) /\ posted[t].sent \in Nat
    BY SeenOf
  <2>2. PICK k \in 0..posted[t].sent : Came(t, k) /\ Found(t, k)
    BY SeenOf
  <2>3. CASE t = h
    <3>1. PICK j \in 0..posted[t].sent : j = m.part
      BY <1>2, <2>1, <2>3
    <3>2. j \in Nat
      BY <2>1
    <3> QED
      BY <1>3, <1>12, <1>14, <2>1, <2>3, <3>1, <3>2
  <2>4. CASE t # h
    BY <1>3, <1>13, <1>14, <2>1, <2>2, <2>4
  <2> QED
    BY <2>3, <2>4
<1>15. \A t \in Unspoiled' : t \in Unspoiled /\ t \notin spoiled'
  BY <1>1 DEF Unspoiled
<1> QED
  BY <1>1, <1>14, <1>15 DEF NoneLost

LEMMA KeptIsSoundReceived ==
  ASSUME ChatInv, Receive
  PROVE  KeptIsSound'
<1> DEFINE m == Head(channel)
           h == m.text
<1>1. /\ channel # <<>> /\ channel' = Tail(channel) /\ posted' = posted
      /\ spoiled' = spoiled \cup Spoils(m)
      /\ Extends(m) \/ Ends(m) \/ EndsBoth(m) \/ AllSpoilt(m)
  BY Outcome
<1>2. ChatTypeOK /\ ChannelInOrder /\ h \in 1..Len(posted) /\ m.part \in 1..posted[h].sent
      /\ m.part \in Nat \ {0}
  BY <1>1, HeadIs DEF ChatInv
<1>3. \A t \in Unspoiled, k \in Nat : t = h /\ k = m.part => Came(t, k)'
  BY <1>1, CameNow
<1>4. \A t, k : First(t, k)' = First(t, k) /\ (Waits(t, k)' <=> Waits(t, k))
  BY <1>1, SameTexts
<1> HIDE DEF m
<1>5. CASE Extends(m)
  <2>1. /\ h \in Unspoiled /\ h \notin spoiled'
        /\ storage' = First(h, m.part) /\ Waits(h, m.part)
    BY <1>2, <1>5 DEF Extends, Follows, Unspoiled
  <2>2. storage'.pieces # <<>>
    BY <1>2, <2>1, FirstIs
  <2>3. PICK t \in Unspoiled : t = h
    BY <2>1
  <2>4. PICK k \in 1..posted[t].sent : k = m.part
    BY <1>2, <2>3
  <2>5. k \in Nat
    BY <1>2, <2>4
  <2>6. Came(t, k)' /\ storage' = First(t, k) /\ Waits(t, k)
    BY <1>3, <2>1, <2>3, <2>4, <2>5
  <2>7. Came(t, k)' /\ KeptFirst(t, k)' /\ t \in Unspoiled' /\ k \in 1..posted'[t].sent
    <3>1. KeptFirst(t, k)'
      BY <1>4, <2>6 DEF KeptFirst
    <3>2. t \in Unspoiled'
      BY <1>1, <1>2, <2>1, <2>3 DEF Unspoiled
    <3> QED
      BY <1>1, <2>4, <2>6, <3>1, <3>2
  <2> QED
    BY <2>2, <2>7 DEF KeptIsSound
<1>6. CASE Ends(m) \/ EndsBoth(m)
  BY <1>6 DEF Ends, EndsBoth, KeptIsSound
<1>7. CASE AllSpoilt(m)
  BY <1>7 DEF AllSpoilt, SpoiltNow, Spoilt, KeptIsSound
<1> QED
  BY <1>1, <1>5, <1>6, <1>7

\* Lines of one text are of no other.
LEMMA NoneOfFirst ==
  ASSUME ChatTypeOK, NEW t \in 1..Len(posted), NEW k \in Nat \ {0}
  PROVE  \A j \in 1..Len(First(t, k).pieces) : First(t, k).pieces[j].text = t
<1>1. /\ Len(First(t, k).pieces) = k
      /\ \A i \in 1..k : First(t, k).pieces[i] = Message(t, i)
  BY FirstIs
<1>2. \A i : Message(t, i).text = t
  BY DEF Message
<1> HIDE DEF First
<1> QED
  BY <1>1, <1>2

LEMMA ToldIsSoundReceived ==
  ASSUME ChatInv, Receive
  PROVE  ToldIsSound'
<1> DEFINE m == Head(channel)
           h == m.text
           Fine(text) == \/ SpoiltNow(text)
                         \/ \E t \in Unspoiled : /\ t \notin spoiled' /\ text = Whole(t)
                                                 /\ Gone(t)'
<1>1. /\ channel # <<>> /\ channel' = Tail(channel) /\ posted' = posted
      /\ spoiled' = spoiled \cup Spoils(m)
      /\ Extends(m) \/ Ends(m) \/ EndsBoth(m) \/ AllSpoilt(m)
  BY Outcome
<1>2. ChatTypeOK /\ ChannelInOrder /\ h \in 1..Len(posted) /\ m.part \in 1..posted[h].sent
      /\ m.part \in Nat \ {0} /\ posted[h].sent \in Nat /\ posted[h].sent <= posted[h].parts
      /\ posted[h].parts \in Nat
  BY <1>1, HeadIs, ChatTypes DEF ChatInv
<1>3. /\ \A t \in Unspoiled, k \in Nat : t = h /\ k = m.part => Came(t, k)'
      /\ \A t \in Unspoiled :
           posted[t].sent = posted[t].parts /\ Came(t, posted[t].parts) =>
             t # h /\ Came(t, posted[t].parts)'
  BY <1>1, CameNow
<1>4. \A t : Whole(t)' = Whole(t)
  BY <1>1, SameTexts
<1>5. storage \in Lines /\ Whole(h) \in Lines /\ told \in Seq(Lines)
  BY <1>2, ChatTypes, WholeIs
<1> HIDE DEF m
\* No text that is not spoiled is kept but that of the message
<1>6. ASSUME NEW t \in Unspoiled, t \notin spoiled', t # h
      PROVE  NoneKeptOf(t)'
  <2>1. CASE Extends(m)
    <3>1. storage' = First(h, m.part)
      BY <2>1 DEF Extends
    <3> QED
      BY <1>2, <1>6, <3>1, NoneOfFirst DEF NoneKeptOf
  <2>2. CASE Ends(m) \/ EndsBoth(m)
    BY <2>2, NothingIs DEF Ends, EndsBoth, NoneKeptOf
  <2>3. CASE AllSpoilt(m)
    BY <1>6, <2>3 DEF AllSpoilt, SpoiltNow, NoneKeptOf
  <2> QED
    BY <1>1, <2>1, <2>2, <2>3
<1>7. ASSUME NEW t \in Unspoiled, t \notin spoiled', posted[t].sent = posted[t].parts,
             Came(t, posted[t].parts)
      PROVE  Gone(t)'
  <2>1. t # h /\ Came(t, posted[t].parts)'
    BY <1>3, <1>7
  <2> QED
    BY <1>1, <1>6, <1>7, <2>1 DEF Gone
<1>8. ASSUME NEW t \in Unspoiled, t = h, m.part = posted[t].parts, storage' = Nothing
      PROVE  Gone(t)'
  <2>1. NoneKeptOf(t)'
    BY <1>8, NothingIs DEF NoneKeptOf
  <2>2. posted[t].parts \in Nat /\ posted[t].sent = posted[t].parts
    BY <1>2, <1>8
  <2>3. Came(t, posted[t].parts)'
    <3>1. PICK k \in Nat : k = posted[t].parts
      BY <2>2
    <3>2. Came(t, k)'
      BY <1>3, <1>8, <3>1
    <3> QED
      BY <1>1, <3>1, <3>2
  <2> QED
    BY <1>1, <2>1, <2>2, <2>3 DEF Gone
<1>9. ASSUME NEW i \in 1..Len(told)
      PROVE  Fine(told[i])
  <2>1. CASE Spoilt(told[i])
    BY <1>1, <2>1 DEF Spoilt, SpoiltNow
  <2>2. ASSUME NEW t \in Unspoiled, told[i] = Whole(t), Gone(t)
        PROVE  Fine(told[i])
    <3>1. CASE t \in spoiled'
      <4>1. t \in 1..Len(posted) /\ posted[t].parts \in Nat \ {0}
        BY <1>2, ChatTypes DEF Unspoiled
      <4>2. SpoiltNow(told[i])
        BY <1>2, <2>2, <3>1, <4>1, FirstSpoilt DEF Whole
      <4> QED
        BY <4>2
    <3>2. CASE t \notin spoiled'
      <4>1. Gone(t)'
        BY <1>7, <2>2, <3>2 DEF Gone
      <4> QED
        BY <2>2, <3>2, <4>1
    <3> QED
      BY <3>1, <3>2
  <2> QED
    BY <2>1, <2>2 DEF ChatInv, ToldIsSound
<1>10. ASSUME Ends(m)
       PROVE  Fine(Whole(h))
  <2>1. PICK t \in Unspoiled : t = h
    BY <1>2, <1>10 DEF Ends, Follows, Unspoiled
  <2>2. t \notin spoiled' /\ Gone(t)'
    BY <1>8, <1>10, <2>1 DEF Ends, Follows
  <2> QED
    BY <2>1, <2>2
<1>11. ASSUME EndsBoth(m)
       PROVE  /\ Fine(storage)
              /\ \A line \in Lines : LineEnds(m, line) => Fine(line)
  <2>1. Fine(storage)
    BY <1>7, <1>11 DEF EndsBoth, KeptEnds
  <2>2. ASSUME NEW line \in Lines, LineEnds(m, line)
        PROVE  Fine(line)
    <3>1. CASE SpoiltNow(line)
      BY <3>1
    <3>2. CASE h \notin spoiled' /\ line = Whole(h) /\ posted[h].parts = 1
      <4>1. PICK t \in Unspoiled : t = h
        BY <1>1, <1>2, <3>2 DEF Unspoiled
      <4>2. Gone(t)'
        BY <1>8, <1>11, <3>2, <4>1 DEF EndsBoth
      <4> QED
        BY <3>2, <4>1, <4>2
    <3> QED
      BY <2>2, <3>1, <3>2 DEF LineEnds
  <2> QED
    BY <2>1, <2>2
<1>12. \A line \in Lines : SpoiltNow(line) => Fine(line)
  OBVIOUS
<1> HIDE DEF Fine
<1>13. ASSUME NEW texts \in Seq(Lines), told' = told \o texts,
              \A j \in 1..Len(texts) : Fine(texts[j])
       PROVE  \A i \in 1..Len(told') : Fine(told'[i])
  <2>1. /\ \A i \in 1..Len(told) : told'[i] = told[i]
        /\ \A j \in 1..Len(texts) : told'[Len(told) + j] = texts[j]
        /\ \A i \in 1..Len(told') :
             \/ i \in 1..Len(told)
             \/ \E j \in 1..Len(texts) : i = Len(told) + j
    BY <1>2, <1>13, ToldGrows
  <2> QED
    BY <1>9, <1>13, <2>1
<1>14. ASSUME NEW line \in Lines, told' = told \o <<line>>, Fine(line)
       PROVE  \A i \in 1..Len(told') : Fine(told'[i])
  <2>1. <<line>> \in Seq(Lines) /\ \A j \in 1..Len(<<line>>) : <<line>>[j] = line
    OBVIOUS
  <2> QED
    BY <1>13, <1>14, <2>1
<1>15. ASSUME NEW line \in Lines, told' = told \o <<storage, line>>, Fine(storage), Fine(line)
       PROVE  \A i \in 1..Len(told') : Fine(told'[i])
  <2>1. /\ <<storage, line>> \in Seq(Lines)
        /\ \A j \in 1..Len(<<storage, line>>) :
             <<storage, line>>[j] = storage \/ <<storage, line>>[j] = line
    BY <1>5
  <2>2. \A j \in 1..Len(<<storage, line>>) : Fine(<<storage, line>>[j])
    BY <1>15, <2>1
  <2> QED
    BY <1>13, <1>15, <2>1, <2>2
<1>16. \A i \in 1..Len(told') : Fine(told'[i])
  <2>1. CASE told' = told
    BY <1>9, <2>1
  <2>2. CASE Ends(m)
    BY <1>5, <1>10, <1>14, <2>2 DEF Ends
  <2>3. CASE EndsBoth(m)
    BY <1>11, <1>15, <2>3 DEF EndsBoth
  <2>4. CASE AllSpoilt(m)
    BY <1>12, <1>14, <2>1, <2>4 DEF AllSpoilt
  <2> QED
    BY <1>1, <2>1, <2>2, <2>3, <2>4 DEF Extends
<1>17. ASSUME NEW text, Fine(text)
       PROVE  (\A i \in 1..Len(text.pieces) : text.pieces[i].text \in spoiled')
              \/ \E t \in Unspoiled' : text = Whole(t)' /\ Gone(t)'
  <2>1. CASE SpoiltNow(text)
    BY <2>1 DEF SpoiltNow
  <2>2. ASSUME NEW t \in Unspoiled, t \notin spoiled', text = Whole(t), Gone(t)'
        PROVE  t \in Unspoiled' /\ text = Whole(t)' /\ Gone(t)'
    BY <1>1, <1>4, <2>2 DEF Unspoiled
  <2> QED
    BY <1>17, <2>1, <2>2 DEF Fine
<1> QED
  BY <1>16, <1>17 DEF ToldIsSound, Spoilt

LEMMA ChatTypesReceived ==
  ASSUME ChatInv, Receive
  PROVE  ChatTypeOK'
<1> DEFINE m == Head(channel)
           h == m.text
<1>1. /\ channel # <<>> /\ channel' = Tail(channel) /\ posted' = posted
      /\ spoiled' = spoiled \cup Spoils(m)
      /\ Extends(m) \/ Ends(m) \/ EndsBoth(m) \/ AllSpoilt(m)
  BY Outcome
<1>2. ChatTypeOK /\ ChannelInOrder /\ FirstsInOrder
  BY DEF ChatInv
<1>3. h \in 1..Len(posted) /\ m.part \in Nat \ {0} /\ spoiled \subseteq 1..Len(posted)
  BY <1>1, <1>2, HeadIs, ChatTypes
<1>4. channel' \in Seq(Messages)
  BY <1>1, <1>2, HeadTaken
<1>5. storage \in Lines /\ Whole(h) \in Lines /\ told \in Seq(Lines)
  BY <1>2, <1>3, ChatTypes, WholeIs
<1>6. Nothing \in Lines /\ First(h, m.part) \in Lines
  <2>1. <<>> \in Seq(Messages)
    OBVIOUS
  <2>2. First(h, m.part) \in Lines
    BY <1>2, <1>3, FirstIs
  <2> QED
    BY <2>1, <2>2 DEF Nothing, Lines
<1> HIDE DEF m
<1>7. spoiled' \subseteq 1..Len(posted)
  <2>1. CASE storage = Nothing
    BY <1>1, <1>3, <2>1, SpoilsIs
  <2>2. CASE storage # Nothing
    <3>1. KeptTexts \subseteq 1..Len(posted)
      BY <2>2, KeptTextsPosted
    <3>2. Spoils(m) \subseteq {h} \cup KeptTexts
      BY <2>2, SpoilsIs
    <3> QED
      BY <1>1, <1>3, <3>1, <3>2
  <2> QED
    BY <2>1, <2>2
<1>8. storage' \in Lines
  BY <1>1, <1>6 DEF Extends, Ends, EndsBoth, AllSpoilt
<1>9. told' \in Seq(Lines)
  <2>1. \A texts \in Seq(Lines) : told' = told \o texts => told' \in Seq(Lines)
    BY <1>2, ToldGrows
  <2>2. \A line \in Lines : <<line>> \in Seq(Lines) /\ <<storage, line>> \in Seq(Lines)
    BY <1>5
  <2> QED
    BY <1>1, <1>5, <2>1, <2>2 DEF Extends, Ends, EndsBoth, AllSpoilt
<1> QED
  BY <1>1, <1>2, <1>4, <1>7, <1>8, <1>9 DEF ChatTypeOK

LEMMA ChatInvReceived ==
  ASSUME ChatInv, Receive
  PROVE  ChatInv'
<1>1. channel # <<>> /\ channel' = Tail(channel) /\ posted' = posted
  BY DEF Receive
<1>2. ChannelInOrder' /\ FirstsInOrder'
  BY <1>1, HeadTaken DEF ChatInv
<1> QED
  BY <1>2, ChatTypesReceived, NoneLostReceived, KeptIsSoundReceived, ToldIsSoundReceived
  DEF ChatInv

-----------------------------------------------------------------------------
(* A message is lost                                                       *)

LEMMA ChatInvLost ==
  ASSUME ChatInv, Lose
  PROVE  ChatInv'
<1> DEFINE h == Head(channel).text
<1>1. /\ channel # <<>> /\ channel' = Tail(channel) /\ posted' = posted
      /\ storage' = storage /\ told' = told /\ spoiled' = spoiled \cup {h}
  BY DEF Lose
<1>2. ChatTypeOK /\ ChannelInOrder /\ FirstsInOrder /\ h \in 1..Len(posted)
  BY <1>1, HeadIs DEF ChatInv
<1>3. /\ channel' \in Seq(Messages) /\ ChannelInOrder' /\ FirstsInOrder'
  BY <1>1, <1>2, HeadTaken
<1>4. /\ \A t \in 1..Len(posted) : \A k \in 0..posted[t].sent :
           t # h /\ Came(t, k) => Came(t, k)'
      /\ \A t \in Unspoiled :
           posted[t].sent = posted[t].parts /\ Came(t, posted[t].parts) =>
             t # h /\ Came(t, posted[t].parts)'
  BY <1>1, CameNow
<1>5. /\ \A t, k : First(t, k)' = First(t, k) /\ (Waits(t, k)' <=> Waits(t, k))
      /\ \A t : Whole(t)' = Whole(t)
  BY <1>1, SameTexts
<1> HIDE DEF h
<1>6. Unspoiled' = Unspoiled \ {h}
  BY <1>1 DEF Unspoiled
<1>7. ToldWhole(Len(told))' = ToldWhole(Len(told)) \ {h}
  BY <1>1, <1>5, <1>6 DEF ToldWhole
<1>8. \A t, k : KeptFirst(t, k)' <=> KeptFirst(t, k)
  BY <1>1, <1>5 DEF KeptFirst
<1>9. NoneLost'
  <2> SUFFICES ASSUME NEW t \in Unspoiled, t # h
               PROVE  \E k \in 0..posted[t].sent : Came(t, k)' /\ Found(t, k)'
    BY <1>1, <1>6 DEF NoneLost
  <2>1. t \in 1..Len(posted)
    BY SeenOf
  <2>2. PICK k \in 0..posted[t].sent : Came(t, k) /\ Found(t, k)
    BY SeenOf
  <2>3. Found(t, k)'
    BY <1>1, <1>7, <1>8, <2>2 DEF Found
  <2> QED
    BY <1>4, <2>1, <2>2, <2>3
<1>10. \A text : Spoilt(text) => SpoiltNow(text)
  BY <1>1 DEF Spoilt, SpoiltNow
<1>11. \A t \in 1..Len(posted), k \in Nat \ {0} : t = h => SpoiltNow(First(t, k))
  BY <1>1, <1>2, FirstSpoilt
<1>12. KeptIsSound'
  <2> SUFFICES ASSUME storage # Nothing
               PROVE  /\ storage.pieces # <<>>
                      /\ \/ SpoiltNow(storage)
                         \/ \E t \in Unspoiled' : \E k \in 1..posted[t].sent :
                              Came(t, k)' /\ KeptFirst(t, k)'
    BY <1>1 DEF KeptIsSound, Spoilt, SpoiltNow
  <2>1. storage.pieces # <<>>
    BY DEF ChatInv, KeptIsSound
  <2>2. CASE Spoilt(storage)
    BY <1>10, <2>1, <2>2
  <2>3. ASSUME NEW t \in Unspoiled, NEW k \in 1..posted[t].sent, Came(t, k),
               storage = First(t, k), Waits(t, k), k \in Nat \ {0}, t \in 1..Len(posted)
        PROVE  \/ SpoiltNow(storage)
               \/ t \in Unspoiled' /\ Came(t, k)' /\ KeptFirst(t, k)'
    <3>1. k \in 0..posted[t].sent
      BY <1>2, <2>3, ChatTypes
    <3>2. CASE t = h
      BY <1>1, <1>11, <2>3, <3>2
    <3>3. CASE t # h
      BY <1>4, <1>6, <1>8, <2>3, <3>1, <3>3 DEF KeptFirst
    <3> QED
      BY <3>2, <3>3
  <2> QED
    BY <2>1, <2>2, <2>3, KeptCases
<1>13. ToldIsSound'
  <2> SUFFICES ASSUME NEW i \in 1..Len(told)
               PROVE  \/ SpoiltNow(told[i])
                      \/ \E t \in Unspoiled' : told[i] = Whole(t)' /\ Gone(t)'
    BY <1>1 DEF ToldIsSound, Spoilt, SpoiltNow
  <2>1. CASE Spoilt(told[i])
    BY <1>10, <2>1
  <2>2. ASSUME NEW t \in Unspoiled, told[i] = Whole(t), Gone(t)
        PROVE  t \in Unspoiled' /\ told[i] = Whole(t)' /\ Gone(t)'
    <3>1. t # h /\ Came(t, posted[t].parts)'
      BY <1>4, <2>2 DEF Gone
    <3>2. NoneKeptOf(t)'
      BY <1>1, <2>2 DEF Gone, NoneKeptOf
    <3> QED
      BY <1>1, <1>5, <1>6, <2>2, <3>1, <3>2 DEF Gone
  <2> QED
    BY <2>1, <2>2 DEF ChatInv, ToldIsSound
<1>14. ChatTypeOK'
  BY <1>1, <1>2, <1>3 DEF ChatTypeOK
<1> QED
  BY <1>3, <1>9, <1>12, <1>13, <1>14 DEF ChatInv

-----------------------------------------------------------------------------
(* A message is sent                                                       *)

\* Of the texts posted before no other message was seen; none was of a new one.
LEMMA SentIsSound ==
  ASSUME ChatInv, storage' = storage, told' = told, spoiled' = spoiled,
         \A t \in 1..Len(posted) :
           /\ t \in 1..Len(posted') /\ posted'[t].parts = posted[t].parts
           /\ posted'[t].dots = posted[t].dots
           /\ posted'[t].sent \in Nat /\ posted[t].sent <= posted'[t].sent
           /\ posted'[t].sent <= posted'[t].parts
           /\ \A p \in 1..posted'[t].sent :
                Message(t, p) \in OnTheWay' <=> Message(t, p) \in OnTheWay \/ p > posted[t].sent,
         \A t \in 1..Len(posted') :
           t \notin 1..Len(posted) => posted'[t].sent \in Nat /\ Came(t, 0)'
  PROVE  NoneLost' /\ KeptIsSound' /\ ToldIsSound'
<1>1. /\ ChatTypeOK /\ Len(posted) \in Nat
      /\ \A t \in 1..Len(posted) : posted[t].sent \in Nat /\ posted[t].parts \in Nat
  BY ChatTypes DEF ChatInv
<1>2. ASSUME NEW t \in 1..Len(posted)
      PROVE  /\ \A k : First(t, k)' = First(t, k) /\ (Waits(t, k)' <=> Waits(t, k))
             /\ Whole(t)' = Whole(t)
  <2>1. posted'[t].parts = posted[t].parts /\ posted'[t].dots = posted[t].dots
    OBVIOUS
  <2>2. \A k : First(t, k)' = First(t, k)
    BY <2>1 DEF First, Line
  <2>3. \A k : Waits(t, k)' <=> Waits(t, k)
    BY <2>1 DEF Waits
  <2>4. Whole(t)' = Whole(t)
    BY <2>1, <2>2 DEF Whole
  <2> QED
    BY <2>2, <2>3, <2>4
<1>3. ASSUME NEW t \in 1..Len(posted), NEW k \in 0..posted[t].sent, Came(t, k)
      PROVE  Came(t, k)' /\ k \in 0..posted'[t].sent
  <2>1. /\ posted[t].sent \in Nat /\ posted'[t].sent \in Nat
        /\ posted[t].sent <= posted'[t].sent /\ k \in Nat
    BY <1>1
  <2>2. \A p \in 1..posted[t].sent : Message(t, p) \in OnTheWay <=> p > k
    BY <1>3 DEF Came
  <2>3. ASSUME NEW p \in 1..posted'[t].sent
        PROVE  Message(t, p) \in OnTheWay' <=> p > k
    <3>1. Message(t, p) \in OnTheWay' <=> Message(t, p) \in OnTheWay \/ p > posted[t].sent
      OBVIOUS
    <3>2. p \in 1..posted[t].sent \/ (p > posted[t].sent /\ p > k)
      BY <2>1
    <3>3. p \in 1..posted[t].sent => ~(p > posted[t].sent)
      BY <2>1
    <3> QED
      BY <2>2, <3>1, <3>2, <3>3
  <2>4. k \in 0..posted'[t].sent
    BY <2>1
  <2> QED
    BY <2>3, <2>4 DEF Came, Message
<1>4. \A t \in Unspoiled : t \in 1..Len(posted) /\ t \in Unspoiled'
  BY DEF Unspoiled
<1>5. \A t \in ToldWhole(Len(told)) : t \in ToldWhole(Len(told))'
  BY <1>2, <1>4 DEF ToldWhole
<1>6. \A t \in 1..Len(posted) : \A k : KeptFirst(t, k) => KeptFirst(t, k)'
  BY <1>2 DEF KeptFirst
<1>7. NoneLost'
  <2> SUFFICES ASSUME NEW t \in Unspoiled'
               PROVE  \E k \in 0..posted'[t].sent : Came(t, k)' /\ Found(t, k)'
    BY DEF NoneLost
  <2>1. t \in 1..Len(posted')
    BY DEF Unspoiled
  <2>2. CASE t \notin 1..Len(posted)
    <3>1. 0 \in 0..posted'[t].sent /\ Came(t, 0)'
      BY <2>1, <2>2
    <3>2. Found(t, 0)'
      BY DEF Found
    <3> QED
      BY <3>1, <3>2
  <2>3. CASE t \in 1..Len(posted)
    <3>1. t \in Unspoiled
      BY <2>3 DEF Unspoiled
    <3>2. PICK k \in 0..posted[t].sent : Came(t, k) /\ Found(t, k)
      BY <3>1, SeenOf
    <3>3. Found(t, k)'
      BY <1>5, <1>6, <2>3, <3>2 DEF Found
    <3> QED
      BY <1>3, <2>3, <3>2, <3>3
  <2> QED
    BY <2>2, <2>3
<1>8. KeptIsSound'
  <2>1. ASSUME NEW t \in Unspoiled, NEW k \in 1..posted[t].sent, Came(t, k), KeptFirst(t, k)
        PROVE  /\ t \in Unspoiled' /\ k \in 1..posted'[t].sent
               /\ Came(t, k)' /\ KeptFirst(t, k)'
    <3>1. t \in 1..Len(posted) /\ t \in Unspoiled'
      BY <1>4
    <3>2. posted[t].sent \in Nat /\ posted'[t].sent \in Nat /\ posted[t].sent <= posted'[t].sent
      BY <1>1, <3>1
    <3>3. k \in 0..posted[t].sent /\ k \in 1..posted'[t].sent
      BY <3>2
    <3> QED
      BY <1>3, <1>6, <2>1, <3>1, <3>3
  <2>2. storage # Nothing => storage.pieces # <<>> /\
          (Spoilt(storage)' \/ \E t \in Unspoiled' : \E k \in 1..posted'[t].sent :
                                 Came(t, k)' /\ KeptFirst(t, k)')
    BY <2>1 DEF ChatInv, KeptIsSound, Spoilt
  <2> QED
    BY <2>2 DEF KeptIsSound
<1>9. ToldIsSound'
  <2>1. ASSUME NEW t \in Unspoiled, Gone(t)
        PROVE  t \in Unspoiled' /\ Whole(t)' = Whole(t) /\ Gone(t)'
    <3>1. t \in 1..Len(posted) /\ t \in Unspoiled'
      BY <1>4
    <3> DEFINE k == posted[t].parts
    <3>2. /\ posted'[t].sent = k /\ posted'[t].parts = k /\ k \in 0..posted[t].sent
      BY <1>1, <2>1, <3>1 DEF Gone
    <3>3. Came(t, posted[t].parts) /\ NoneKeptOf(t)
      BY <2>1 DEF Gone
    <3>4. \A j \in 0..posted[t].sent : j = k => Came(t, j)'
      BY <1>3, <3>1, <3>3
    <3>5. \A j : j = k => Came(t, j)'
      BY <3>2, <3>4
    <3>6. Came(t, posted[t].parts)'
      BY <3>2, <3>5
    <3>7. NoneKeptOf(t)'
      BY <3>3 DEF NoneKeptOf
    <3> QED
      BY <1>2, <3>1, <3>2, <3>6, <3>7 DEF Gone
  <2>2. \A i \in 1..Len(told) :
          Spoilt(told[i])' \/ \E t \in Unspoiled' : told[i] = Whole(t)' /\ Gone(t)'
    BY <2>1 DEF ChatInv, ToldIsSound, Spoilt
  <2> QED
    BY <2>2 DEF ToldIsSound
<1> QED
  BY <1>7, <1>8, <1>9

LEMMA PostedIs ==
  ASSUME ChatTypeOK, ChannelInOrder, NEW parts \in 1..MaxParts, NEW dots \in BOOLEAN,
         Post(parts, dots)
  PROVE  LET last == Len(posted) + 1
         IN /\ Len(posted') = last /\ last \in 1..MaxTexts /\ last \in 1..last
            /\ 1..last = (1..Len(posted)) \cup {last} /\ last \notin 1..Len(posted)
            /\ posted' \in Seq([parts : 1..MaxParts, sent : 1..MaxParts, dots : BOOLEAN])
            /\ \A t \in 1..Len(posted) : posted'[t] = posted[t]
            /\ posted'[last] = [parts |-> parts, sent |-> 1, dots |-> dots]
            /\ storage' = storage /\ told' = told /\ spoiled' = spoiled
            /\ channel' \in Seq(Messages) /\ ChannelInOrder'
            /\ OnTheWay' = OnTheWay \cup {Message(last, 1)}
<1> DEFINE last == Len(posted) + 1
           R == [parts : 1..MaxParts, sent : 1..MaxParts, dots : BOOLEAN]
           r == [parts |-> parts, sent |-> 1, dots |-> dots]
<1>1. posted \in Seq(R) /\ Len(posted) \in Nat /\ r \in R /\ Len(posted) < MaxTexts
  <2>1. posted \in Seq(R) /\ Len(posted) \in Nat
    BY ChatTypes DEF ChatTypeOK
  <2>2. Len(posted) < MaxTexts
    BY DEF Post
  <2>3. 1 \in 1..MaxParts
    BY ChatAssumption
  <2> QED
    BY <2>1, <2>2, <2>3
<1>2. /\ posted' = Append(posted, r)
      /\ storage' = storage /\ told' = told /\ spoiled' = spoiled
  BY DEF Post
<1> HIDE DEF R, r
<1>3. /\ posted' \in Seq(R) /\ Len(posted') = last
      /\ \A t \in 1..Len(posted) : posted'[t] = posted[t]
      /\ posted'[last] = r
  BY <1>1, <1>2, AppendProperties
<1>4. /\ last \in 1..MaxTexts /\ last \in Nat /\ last \in 1..last
      /\ 1..last = (1..Len(posted)) \cup {last} /\ last \notin 1..Len(posted)
  BY <1>1, ChatAssumption
<1>5. channel' = Append(channel, Message(last, 1))
  BY <1>3 DEF Post, Message
<1>6. posted'[last].sent = 1
  BY <1>3 DEF r
<1>7. ASSUME NEW m \in OnTheWay
      PROVE  m.text # last /\ m.text < last
  BY <1>1, Travels
<1>8. /\ channel' \in Seq(Messages) /\ ChannelInOrder'
      /\ OnTheWay' = OnTheWay \cup {Message(last, 1)}
  <2>1. 1 \in 1..posted'[last].sent /\ last \in 1..Len(posted') /\ 1 \in Nat
    BY <1>3, <1>4, <1>6
  <2>2. \A u \in 1..Len(posted) : /\ u \in 1..Len(posted')
                                  /\ \A q \in 1..posted[u].sent : q \in 1..posted'[u].sent
    BY <1>3, <1>4
  <2> HIDE DEF last
  <2> QED
    BY <1>4, <1>5, <1>7, <2>1, <2>2, MessageSent
<1> QED
  BY <1>2, <1>3, <1>4, <1>8 DEF R, r

LEMMA ChatInvPosted ==
  ASSUME ChatInv, NEW parts \in 1..MaxParts, NEW dots \in BOOLEAN, Post(parts, dots)
  PROVE  ChatInv'
<1> DEFINE last == Len(posted) + 1
<1>1. ChatTypeOK /\ ChannelInOrder /\ FirstsInOrder
  BY DEF ChatInv
<1>2. /\ Len(posted') = last /\ last \in 1..MaxTexts /\ last \in 1..last
      /\ 1..last = (1..Len(posted)) \cup {last} /\ last \notin 1..Len(posted)
      /\ posted' \in Seq([parts : 1..MaxParts, sent : 1..MaxParts, dots : BOOLEAN])
      /\ \A t \in 1..Len(posted) : posted'[t] = posted[t]
      /\ posted'[last] = [parts |-> parts, sent |-> 1, dots |-> dots]
      /\ storage' = storage /\ told' = told /\ spoiled' = spoiled
      /\ channel' \in Seq(Messages) /\ ChannelInOrder'
      /\ OnTheWay' = OnTheWay \cup {Message(last, 1)}
  BY <1>1, PostedIs
<1>3. posted'[last].sent = 1 /\ posted'[last].parts = parts /\ parts >= 1
  BY <1>2
<1>4. \A t \in 1..Len(posted) :
        /\ posted[t].sent \in Nat /\ posted[t].sent <= posted[t].parts
        /\ t \in Nat /\ t < last
  BY <1>1, ChatTypes
<1>5. last \in Nat /\ Len(posted) \in Nat
  BY <1>1, ChatTypes
<1> HIDE DEF last
<1>6. \A t, p : t # last => (Message(t, p) \in OnTheWay' <=> Message(t, p) \in OnTheWay)
  BY <1>2, MessageIs
<1>7. NoneLost' /\ KeptIsSound' /\ ToldIsSound'
  <2>1. ASSUME NEW t \in 1..Len(posted)
        PROVE  /\ t \in 1..Len(posted') /\ posted'[t].parts = posted[t].parts
               /\ posted'[t].dots = posted[t].dots
               /\ posted'[t].sent \in Nat /\ posted[t].sent <= posted'[t].sent
               /\ posted'[t].sent <= posted'[t].parts
               /\ \A p \in 1..posted'[t].sent :
                    Message(t, p) \in OnTheWay' <=> Message(t, p) \in OnTheWay \/ p > posted[t].sent
    <3>1. posted'[t] = posted[t] /\ t # last /\ t \in 1..Len(posted')
      BY <1>2
    <3>2. \A p \in 1..posted[t].sent : ~(p > posted[t].sent)
      BY <1>4
    <3>3. posted[t].sent \in Nat /\ posted[t].sent <= posted[t].sent
          /\ posted[t].sent <= posted[t].parts
      BY <1>4
    <3> QED
      BY <1>6, <3>1, <3>2, <3>3
  <2>2. ASSUME NEW t \in 1..Len(posted'), t \notin 1..Len(posted)
        PROVE  posted'[t].sent \in Nat /\ Came(t, 0)'
    <3>1. t = last
      BY <1>2, <2>2
    <3>2. posted'[t].sent = 1 /\ Message(t, 1) \in OnTheWay'
      BY <1>2, <1>3, <3>1
    <3>3. \A p \in 1..posted'[t].sent : p = 1 /\ p > 0
      BY <3>2
    <3>4. \A p \in 1..posted'[t].sent : Message(t, p) \in OnTheWay' <=> p > 0
      BY <3>2, <3>3
    <3> QED
      BY <3>2, <3>4 DEF Came, Message
  <2> QED
    BY <1>2, <2>1, <2>2, SentIsSound
<1>8. FirstsInOrder'
  <2> SUFFICES ASSUME NEW t \in 1..last, NEW u \in 1..last, t < u, Message(t, 1) \in OnTheWay'
               PROVE  Message(u, 1) \in OnTheWay'
    BY <1>2 DEF FirstsInOrder, Message
  <2>1. CASE u = last
    BY <1>2, <2>1
  <2>2. CASE u # last
    <3>1. u \in 1..Len(posted)
      BY <1>2, <2>2
    <3>2. t # last /\ t \in 1..Len(posted)
      <4>1. u < last /\ u \in Nat /\ t \in Nat
        BY <1>4, <3>1
      <4>2. t # last
        BY <1>5, <4>1
      <4> QED
        BY <1>2, <4>2
    <3>3. Message(t, 1) \in OnTheWay
      BY <1>6, <3>2
    <3> QED
      BY <1>1, <1>6, <2>2, <3>1, <3>2, <3>3 DEF FirstsInOrder
  <2> QED
    BY <2>1, <2>2
<1>9. ChatTypeOK'
  <2>1. Len(posted') <= MaxTexts
    BY <1>2, ChatAssumption
  <2>2. \A t \in 1..Len(posted') : posted'[t].sent <= posted'[t].parts
    BY <1>2, <1>3, <1>4
  <2>3. spoiled' \subseteq 1..Len(posted')
    BY <1>1, <1>2 DEF ChatTypeOK
  <2> QED
    BY <1>1, <1>2, <2>1, <2>2, <2>3 DEF ChatTypeOK
<1> QED
  BY <1>2, <1>7, <1>8, <1>9 DEF ChatInv

LEMMA GoneOnIs ==
  ASSUME ChatTypeOK, ChannelInOrder, NEW text \in 1..Len(posted), GoOn(text)
  PROVE  LET n == posted[text].sent + 1
         IN /\ Len(posted') = Len(posted)
            /\ posted' \in Seq([parts : 1..MaxParts, sent : 1..MaxParts, dots : BOOLEAN])
            /\ \A t \in 1..Len(posted) :
                 /\ posted'[t].parts = posted[t].parts /\ posted'[t].dots = posted[t].dots
                 /\ posted'[t].sent = IF t = text THEN n ELSE posted[t].sent
            /\ n \in Nat /\ n > 1 /\ n <= posted[text].parts
            /\ storage' = storage /\ told' = told /\ spoiled' = spoiled
            /\ channel' \in Seq(Messages) /\ ChannelInOrder'
            /\ OnTheWay' = OnTheWay \cup {Message(text, n)}
<1> DEFINE n == posted[text].sent + 1
           R == [parts : 1..MaxParts, sent : 1..MaxParts, dots : BOOLEAN]
<1>1. posted \in Seq(R) /\ Len(posted) \in Nat /\ DOMAIN posted = 1..Len(posted)
  BY ChatTypes DEF ChatTypeOK
<1>2. /\ posted' = [posted EXCEPT ![text].sent = @ + 1]
      /\ posted[text].sent < posted[text].parts
      /\ channel' = Append(channel, [text |-> text, part |-> posted'[text].sent])
      /\ storage' = storage /\ told' = told /\ spoiled' = spoiled
  BY DEF GoOn
<1>3. /\ posted[text].sent \in Nat \ {0} /\ posted[text].parts \in 1..MaxParts
      /\ \A t \in 1..Len(posted) : posted[t] \in R /\ posted[t].sent \in Nat
  <2>1. \A t \in 1..Len(posted) : posted[t] \in R
    BY <1>1, ElementOfSeq
  <2>2. posted[text].parts \in 1..MaxParts
    BY <2>1
  <2> QED
    BY <2>1, <2>2, ChatTypes
<1>4. n \in Nat /\ n > 1 /\ n <= posted[text].parts /\ n \in 1..MaxParts /\ n \in 1..n
  BY <1>2, <1>3, ChatAssumption
<1>5. ASSUME NEW t \in 1..Len(posted)
      PROVE  /\ posted'[t] \in R
             /\ posted'[t].parts = posted[t].parts /\ posted'[t].dots = posted[t].dots
             /\ posted'[t].sent = IF t = text THEN n ELSE posted[t].sent
  <2>1. CASE t = text
    <3>1. posted'[t] = [posted[t] EXCEPT !.sent = n]
      BY <1>1, <1>2, <2>1
    <3>2. posted[t] \in R
      BY <1>3
    <3> HIDE DEF n
    <3> QED
      BY <1>4, <2>1, <3>1, <3>2
  <2>2. CASE t # text
    <3>1. posted'[t] = posted[t]
      BY <1>1, <1>2, <2>2
    <3> QED
      BY <1>3, <2>2, <3>1
  <2> QED
    BY <2>1, <2>2
<1>6. DOMAIN posted' = 1..Len(posted) /\ posted' \in [1..Len(posted) -> R]
  <2>1. DOMAIN posted' = 1..Len(posted) /\ posted' = [t \in 1..Len(posted) |-> posted'[t]]
    BY <1>1, <1>2
  <2> HIDE DEF R
  <2> QED
    BY <1>5, <2>1
<1>7. posted' \in Seq(R) /\ Len(posted') = Len(posted)
  <2> HIDE DEF R
  <2>1. posted' \in Seq(R)
    BY <1>1, <1>6, SeqDef
  <2> QED
    BY <1>1, <1>6, <2>1, LenProperties
<1>8. channel' = Append(channel, Message(text, n))
  BY <1>2, <1>5 DEF Message
<1> HIDE DEF R
<1>9. /\ channel' \in Seq(Messages) /\ ChannelInOrder'
      /\ OnTheWay' = OnTheWay \cup {Message(text, n)}
  <2>1. n \in 1..posted'[text].sent /\ text \in 1..Len(posted') /\ text \in Nat
    BY <1>4, <1>5, <1>7
  <2>2. ASSUME NEW u \in 1..Len(posted)
        PROVE  /\ u \in 1..Len(posted')
               /\ \A q \in 1..posted[u].sent : q \in 1..posted'[u].sent
    BY <1>3, <1>5, <1>7
  <2>3. ASSUME NEW m \in OnTheWay
        PROVE  /\ m.text = text => m.part < n
               /\ n = 1 => m.text < text
    <3>1. m.text \in 1..Len(posted) /\ m.part \in 1..posted[m.text].sent
      BY Travels
    <3>2. m.text = text => m.part < n
      BY <1>3, <3>1
    <3> QED
      BY <1>4, <3>2
  <2> HIDE DEF n
  <2> QED
    BY <1>4, <1>8, <2>1, <2>2, <2>3, MessageSent
<1> QED
  BY <1>2, <1>4, <1>5, <1>7, <1>9 DEF R

LEMMA ChatInvGoneOn ==
  ASSUME ChatInv, NEW text \in 1..Len(posted), GoOn(text)
  PROVE  ChatInv'
<1> DEFINE n == posted[text].sent + 1
<1>1. ChatTypeOK /\ ChannelInOrder /\ FirstsInOrder
  BY DEF ChatInv
<1>2. /\ Len(posted') = Len(posted)
      /\ posted' \in Seq([parts : 1..MaxParts, sent : 1..MaxParts, dots : BOOLEAN])
      /\ \A t \in 1..Len(posted) :
           /\ posted'[t].parts = posted[t].parts /\ posted'[t].dots = posted[t].dots
           /\ posted'[t].sent = IF t = text THEN n ELSE posted[t].sent
      /\ n \in Nat /\ n > 1 /\ n <= posted[text].parts
      /\ storage' = storage /\ told' = told /\ spoiled' = spoiled
      /\ channel' \in Seq(Messages) /\ ChannelInOrder'
      /\ OnTheWay' = OnTheWay \cup {Message(text, n)}
  BY <1>1, GoneOnIs
<1>3. \A t \in 1..Len(posted) :
        posted[t].sent \in Nat /\ posted[t].parts \in Nat /\ posted[t].sent <= posted[t].parts
  BY <1>1, ChatTypes
<1>4. \A t, p : Message(t, p) \in OnTheWay' <=>
                  Message(t, p) \in OnTheWay \/ (t = text /\ p = n)
  BY <1>2, MessageIs
<1>5. ASSUME NEW t \in 1..Len(posted)
      PROVE  /\ t \in 1..Len(posted') /\ posted'[t].parts = posted[t].parts
             /\ posted'[t].dots = posted[t].dots
             /\ posted'[t].sent \in Nat /\ posted[t].sent <= posted'[t].sent
             /\ posted'[t].sent <= posted'[t].parts
             /\ \A p \in 1..posted'[t].sent :
                  Message(t, p) \in OnTheWay' <=> Message(t, p) \in OnTheWay \/ p > posted[t].sent
  <2>1. /\ posted'[t].sent \in Nat /\ posted[t].sent <= posted'[t].sent
        /\ posted'[t].sent <= posted'[t].parts
    <3>1. /\ posted'[t].parts = posted[t].parts
          /\ posted'[t].sent = n \/ posted'[t].sent = posted[t].sent
          /\ posted'[t].sent = n => n <= posted[t].parts /\ posted[t].sent <= n
      <4>1. CASE t = text
        <5>1. posted'[t].sent = n /\ n <= posted[t].parts /\ posted'[t].parts = posted[t].parts
          BY <1>2, <4>1
        <5>2. posted[t].sent <= n
          BY <1>3, <4>1
        <5> QED
          BY <5>1, <5>2
      <4>2. CASE t # text
        <5>1. posted'[t].sent = posted[t].sent /\ posted'[t].parts = posted[t].parts
          BY <1>2, <4>2
        <5>2. posted[t].sent \in Nat /\ posted[t].sent <= posted[t].parts
          BY <1>3
        <5> QED
          BY <5>1, <5>2
      <4> QED
        BY <4>1, <4>2
    <3>2. posted[t].sent \in Nat /\ posted[t].sent <= posted[t].parts /\ n \in Nat
      BY <1>2, <1>3
    <3> HIDE DEF n
    <3> QED
      BY <3>1, <3>2
  <2>2. \A p \in 1..posted'[t].sent : p > posted[t].sent <=> t = text /\ p = n
    <3>1. CASE t = text
      <4>1. posted'[t].sent = n /\ posted[t].sent \in Nat /\ n = posted[t].sent + 1
        BY <1>2, <1>3, <3>1
      <4> HIDE DEF n
      <4> QED
        BY <3>1, <4>1
    <3>2. CASE t # text
      <4>1. posted'[t].sent = posted[t].sent /\ posted[t].sent \in Nat
        BY <1>2, <1>3, <3>2
      <4> QED
        BY <3>2, <4>1
    <3> QED
      BY <3>1, <3>2
  <2> HIDE DEF n
  <2> QED
    BY <1>2, <1>4, <2>1, <2>2
<1>6. NoneLost' /\ KeptIsSound' /\ ToldIsSound'
  <2>1. \A t \in 1..Len(posted') : t \in 1..Len(posted)
    BY <1>2
  <2> QED
    BY <1>2, <1>5, <2>1, SentIsSound
<1>7. FirstsInOrder'
  <2>1. \A t : Message(t, 1) \in OnTheWay' <=> Message(t, 1) \in OnTheWay
    <3>1. 1 # n
      BY <1>2
    <3> HIDE DEF n
    <3> QED
      BY <1>4, <3>1
  <2> QED
    BY <1>1, <1>2, <2>1 DEF FirstsInOrder, Message
<1>8. ChatTypeOK'
  <2>1. \A t \in 1..Len(posted') : posted'[t].sent <= posted'[t].parts
    BY <1>2, <1>5
  <2> QED
    BY <1>1, <1>2, <2>1 DEF ChatTypeOK
<1> QED
  BY <1>2, <1>6, <1>7, <1>8 DEF ChatInv

LEMMA ChatInvInitially == ChatInit => ChatInv
<1> SUFFICES ASSUME ChatInit
             PROVE  ChatInv
  OBVIOUS
<1>1. /\ posted = <<>> /\ channel = <<>> /\ told = <<>> /\ spoiled = {}
      /\ storage = Nothing /\ Len(<<>>) = 0 /\ 1..0 = {}
  BY DEF ChatInit
<1>2. ChatTypeOK
  <2>1. /\ <<>> \in Seq([parts : 1..MaxParts, sent : 1..MaxParts, dots : BOOLEAN])
        /\ 0 <= MaxTexts /\ <<>> \in Seq(Messages) /\ <<>> \in Seq(Lines)
    BY ChatAssumption
  <2>2. Nothing \in Lines
    BY <2>1 DEF Nothing, Lines
  <2> QED
    BY <1>1, <2>1, <2>2 DEF ChatTypeOK
<1>3. ChannelInOrder /\ FirstsInOrder
  BY <1>1 DEF ChannelInOrder, FirstsInOrder
<1>4. NoneLost /\ KeptIsSound /\ ToldIsSound
  BY <1>1 DEF NoneLost, KeptIsSound, ToldIsSound, Unspoiled
<1> QED
  BY <1>1, <1>2, <1>3, <1>4 DEF ChatInv

LEMMA ChatStep == ChatInv /\ [ChatNext]_chat => ChatInv'
<1>1. ASSUME ChatInv, UNCHANGED chat
      PROVE  ChatInv'
  <2>1. /\ posted' = posted /\ channel' = channel /\ storage' = storage /\ told' = told
        /\ spoiled' = spoiled
    BY <1>1 DEF chat
  <2>2. /\ ChatTypeOK /\ ChannelInOrder /\ FirstsInOrder
        /\ NoneLost /\ KeptIsSound /\ ToldIsSound
    BY <1>1 DEF ChatInv
  <2>3. Unspoiled' = Unspoiled /\ OnTheWay' = OnTheWay
    BY <2>1 DEF Unspoiled, OnTheWay, Range
  <2>4. ChatTypeOK' /\ ChannelInOrder' /\ FirstsInOrder'
    BY <2>1, <2>2, <2>3 DEF ChatTypeOK, ChannelInOrder, FirstsInOrder, Message
  <2>5. /\ \A t, k : First(t, k)' = First(t, k) /\ (Waits(t, k)' <=> Waits(t, k))
        /\ \A t : Whole(t)' = Whole(t)
    BY <2>1, SameTexts
  <2>6. /\ \A t, k : Came(t, k)' <=> Came(t, k)
        /\ \A t, k : KeptFirst(t, k)' <=> KeptFirst(t, k)
        /\ ToldWhole(Len(told))' = ToldWhole(Len(told))
    BY <2>1, <2>3, <2>5 DEF Came, Message, KeptFirst, ToldWhole
  <2>7. NoneLost'
    BY <2>1, <2>2, <2>3, <2>6 DEF NoneLost, Found
  <2>8. KeptIsSound'
    BY <2>1, <2>2, <2>3, <2>6 DEF KeptIsSound, Spoilt
  <2>9. ToldIsSound'
    BY <2>1, <2>2, <2>3, <2>5, <2>6 DEF ToldIsSound, Spoilt, Gone, NoneKeptOf
  <2> QED
    BY <2>2, <2>4, <2>7, <2>8, <2>9 DEF ChatInv
<1>2. ASSUME ChatInv, ChatNext
      PROVE  ChatInv'
  <2>1. DOMAIN posted = 1..Len(posted)
    BY <1>2, ChatTypes DEF ChatInv
  <2> QED
    BY <1>2, <2>1, ChatInvPosted, ChatInvGoneOn, ChatInvReceived, ChatInvLost DEF ChatNext
<1> QED
  BY <1>1, <1>2

LEMMA ChatInvariance == ChatSpec => []ChatInv
  BY ChatInvInitially, ChatStep, PTL DEF ChatSpec

-----------------------------------------------------------------------------
(* What was heard of what was told                                         *)

HeardGoesOn ==
  /\ Heard[0] = <<>>
  /\ \A n \in 1..Len(told) :
       Heard[n] = IF Sound(told[n]) THEN Append(Heard[n - 1], NumberOf(told[n]))
                  ELSE Heard[n - 1]

LEMMA HeardAt == ChatTypeOK => HeardGoesOn
<1> SUFFICES ASSUME ChatTypeOK
             PROVE  HeardGoesOn
  OBVIOUS
<1> DEFINE Next1(s, n) == IF Sound(told[n]) THEN Append(s, NumberOf(told[n])) ELSE s
           P(g, k) == g = [n \in 0..k |-> IF n = 0 THEN <<>>
                                          ELSE IF Sound(told[n])
                                               THEN Append(g[n - 1], NumberOf(told[n]))
                                               ELSE g[n - 1]]
           T == {k \in 0..Len(told) : \E g : P(g, k)}
<1>0. Len(told) \in Nat
  BY ChatTypes
<1>1. 0 \in T
  <2> DEFINE g == [n \in 0..0 |-> <<>>]
  <2>1. P(g, 0)
    OBVIOUS
  <2> HIDE DEF g, P
  <2> QED
    BY <1>0, <2>1
<1>2. ASSUME NEW k \in 1..Len(told), k - 1 \in T
      PROVE  k \in T
  <2>1. PICK g : P(g, k - 1)
    BY <1>2
  <2> DEFINE h == [n \in 0..k |-> IF n = k THEN Next1(g[k - 1], k) ELSE g[n]]
  <2>2. ASSUME NEW n \in 0..k
        PROVE  h[n] = IF n = 0 THEN <<>>
                      ELSE IF Sound(told[n]) THEN Append(h[n - 1], NumberOf(told[n]))
                      ELSE h[n - 1]
    <3>1. k - 1 \in 0..k /\ k - 1 # k /\ k # 0
      BY <1>2
    <3>2. CASE n = k
      BY <3>1, <3>2
    <3>3. CASE n # k /\ n = 0
      BY <2>1, <3>1, <3>3
    <3>4. CASE n # k /\ n # 0
      <4>1. n \in 0..(k - 1) /\ n - 1 \in 0..k /\ n - 1 # k
        BY <1>2, <3>4
      <4>2. h[n] = g[n] /\ h[n - 1] = g[n - 1]
        BY <3>4, <4>1
      <4>3. g[n] = IF Sound(told[n]) THEN Append(g[n - 1], NumberOf(told[n])) ELSE g[n - 1]
        BY <2>1, <3>4, <4>1
      <4> HIDE DEF h
      <4> QED
        BY <3>4, <4>2, <4>3
    <3> QED
      BY <3>2, <3>3, <3>4
  <2>3. P(h, k)
    BY <2>2
  <2> HIDE DEF h, P
  <2> QED
    BY <2>3
<1>3. T = 0..Len(told)
  <2>1. T \in SUBSET (0..Len(told))
    OBVIOUS
  <2> HIDE DEF T
  <2> QED
    BY <1>0, <1>1, <1>2, <2>1, UpTo
<1>4. \E g : P(g, Len(told))
  BY <1>0, <1>3
<1> DEFINE heard == Heard
<1>5. heard = [n \in 0..Len(told) |-> IF n = 0 THEN <<>>
                                      ELSE IF Sound(told[n])
                                           THEN Append(heard[n - 1], NumberOf(told[n]))
                                           ELSE heard[n - 1]]
  BY <1>4 DEF Heard
<1> HIDE DEF heard
<1>6. 0 \in 0..Len(told) /\ \A n \in 1..Len(told) : n \in 0..Len(told) /\ n # 0
  BY <1>0
<1>7. /\ heard[0] = <<>>
      /\ \A n \in 1..Len(told) :
           heard[n] = IF Sound(told[n]) THEN Append(heard[n - 1], NumberOf(told[n]))
                      ELSE heard[n - 1]
  BY <1>5, <1>6
<1> QED
  BY <1>7 DEF HeardGoesOn, heard

\* What was told soundly is a whole text, and every whole text that is not spoiled was.
SoundIsWhole ==
  \A i \in 1..Len(told) :
    /\ Sound(told[i]) =>
         \E t \in Unspoiled : told[i] = Whole(t) /\ NumberOf(told[i]) = t /\ Gone(t)
    /\ \A t \in Unspoiled : told[i] = Whole(t) => Sound(told[i]) /\ NumberOf(told[i]) = t

LEMMA NumberOfWhole ==
  ASSUME ChatTypeOK, NEW t \in 1..Len(posted)
  PROVE  NumberOf(Whole(t)) = t
<1>1. DOMAIN posted = 1..Len(posted)
  BY ChatTypes
<1>2. \A u \in 1..Len(posted) : Whole(t) = Whole(u) => u = t
  BY WholeDiffer
<1> QED
  BY <1>1, <1>2 DEF NumberOf

LEMMA SoundUnlessSpoilt ==
  ASSUME NEW text \in Lines
  PROVE  Sound(text) <=> ~Spoilt(text)
<1>1. text.pieces \in Seq(Messages)
  BY DEF Lines
<1>2. DOMAIN text.pieces = 1..Len(text.pieces)
  BY <1>1, LenProperties
<1> QED
  BY <1>2 DEF Sound, Spoilt, Range

LEMMA SoundTold == ChatInv => SoundIsWhole
<1> SUFFICES ASSUME ChatInv, NEW i \in 1..Len(told)
             PROVE  /\ Sound(told[i]) =>
                         \E t \in Unspoiled :
                           told[i] = Whole(t) /\ NumberOf(told[i]) = t /\ Gone(t)
                    /\ \A t \in Unspoiled :
                         told[i] = Whole(t) => Sound(told[i]) /\ NumberOf(told[i]) = t
  BY DEF SoundIsWhole
<1>1. ChatTypeOK /\ ToldIsSound
  BY DEF ChatInv
<1>2. told[i] \in Lines
  BY <1>1, ChatTypes, ElementOfSeq
<1>3. ASSUME Sound(told[i])
      PROVE  \E t \in Unspoiled : told[i] = Whole(t) /\ NumberOf(told[i]) = t /\ Gone(t)
  <2>1. ~Spoilt(told[i])
    BY <1>2, <1>3, SoundUnlessSpoilt
  <2>2. PICK t \in Unspoiled : told[i] = Whole(t) /\ Gone(t)
    BY <1>1, <2>1 DEF ToldIsSound
  <2>3. NumberOf(Whole(t)) = t
    BY <1>1, NumberOfWhole DEF Unspoiled
  <2> QED
    BY <2>2, <2>3
<1>4. ASSUME NEW t \in Unspoiled, told[i] = Whole(t)
      PROVE  Sound(told[i]) /\ NumberOf(told[i]) = t
  <2>1. t \in 1..Len(posted) /\ t \notin spoiled
    BY DEF Unspoiled
  <2>2. /\ 1 \in 1..Len(Whole(t).pieces)
        /\ \A j \in 1..Len(Whole(t).pieces) : Whole(t).pieces[j].text = t
    BY <1>1, <2>1, WholeIs
  <2>3. 1 \in 1..Len(Whole(t).pieces) /\ Whole(t).pieces[1].text = t
    BY <2>2
  <2>4. Whole(t).pieces[1].text \notin spoiled
    BY <2>1, <2>3
  <2>5. ~Spoilt(told[i])
    BY <1>4, <2>3, <2>4 DEF Spoilt
  <2> QED
    BY <1>1, <1>2, <1>4, <2>1, <2>5, SoundUnlessSpoilt, NumberOfWhole
<1> QED
  BY <1>3, <1>4

\* What the promise has: the texts told are those that were told whole.
HeardIsWhole ==
  \A n \in 0..Len(told) :
    /\ Heard[n] \in Seq(1..Len(posted)) /\ Range(Heard[n]) = ToldWhole(n)

LEMMA HeardWhole == ChatInv => HeardIsWhole
<1> SUFFICES ASSUME ChatInv
             PROVE  HeardIsWhole
  OBVIOUS
<1> DEFINE L == Len(told)
           H == Heard
           Fine(n) == H[n] \in Seq(1..Len(posted)) /\ Range(H[n]) = ToldWhole(n)
           T == {n \in 0..L : Fine(n)}
<1>1. L \in Nat /\ HeardGoesOn /\ SoundIsWhole
  BY ChatTypes, HeardAt, SoundTold DEF ChatInv
<1> HIDE DEF H
<1>2. 0 \in T
  <2>1. H[0] = <<>>
    BY <1>1 DEF HeardGoesOn, H
  <2>2. <<>> \in Seq(1..Len(posted)) /\ Range(<<>>) = {}
    BY DEF Range
  <2>3. ToldWhole(0) = {}
    BY DEF ToldWhole
  <2>4. Fine(0)
    BY <2>1, <2>2, <2>3
  <2> HIDE DEF Fine
  <2> QED
    BY <1>1, <2>4
<1>3. ASSUME NEW n \in 1..L, n - 1 \in T
      PROVE  n \in T
  <2>1. Fine(n - 1)
    BY <1>3
  <2>2. H[n] = IF Sound(told[n]) THEN Append(H[n - 1], NumberOf(told[n])) ELSE H[n - 1]
    BY <1>1 DEF HeardGoesOn, H
  <2>3. \A i \in 1..n : i \in 1..(n - 1) \/ i = n
    BY <1>1
  <2>4. \A i \in 1..(n - 1) : i \in 1..n
    BY <1>1
  <2>5. n \in 1..n
    BY <1>1
  <2>6. ToldWhole(n) = ToldWhole(n - 1) \cup {t \in Unspoiled : told[n] = Whole(t)}
    BY <2>3, <2>4, <2>5 DEF ToldWhole
  <2>7. CASE Sound(told[n])
    <3>1. PICK t \in Unspoiled : told[n] = Whole(t) /\ NumberOf(told[n]) = t
      BY <1>1, <2>7 DEF SoundIsWhole
    <3>2. {u \in Unspoiled : told[n] = Whole(u)} = {t}
      BY <1>1, <3>1 DEF SoundIsWhole
    <3>3. t \in 1..Len(posted)
      BY <3>1 DEF Unspoiled
    <3>4. H[n] = Append(H[n - 1], t)
      BY <2>2, <2>7, <3>1
    <3>5. /\ Append(H[n - 1], t) \in Seq(1..Len(posted))
          /\ Range(Append(H[n - 1], t)) = Range(H[n - 1]) \cup {t}
      <4> DEFINE s == H[n - 1]
      <4>1. s \in Seq(1..Len(posted))
        BY <2>1
      <4> HIDE DEF s
      <4>2. /\ Append(s, t) \in Seq(1..Len(posted)) /\ Len(Append(s, t)) = Len(s) + 1
            /\ \A j \in 1..Len(s) : Append(s, t)[j] = s[j]
            /\ Append(s, t)[Len(s) + 1] = t
            /\ Len(s) \in Nat /\ DOMAIN s = 1..Len(s)
        BY <3>3, <4>1, AppendProperties, LenProperties
      <4>3. DOMAIN Append(s, t) = 1..(Len(s) + 1)
        BY <4>2, LenProperties
      <4>4. 1..(Len(s) + 1) = (1..Len(s)) \cup {Len(s) + 1}
        BY <4>2
      <4>5. Range(Append(s, t)) = Range(s) \cup {t}
        BY <4>2, <4>3, <4>4 DEF Range
      <4> QED
        BY <4>2, <4>5 DEF s
    <3>6. Fine(n)
      BY <2>1, <2>6, <3>2, <3>4, <3>5
    <3> HIDE DEF Fine
    <3> QED
      BY <1>3, <3>6
  <2>8. CASE ~Sound(told[n])
    <3>1. {u \in Unspoiled : told[n] = Whole(u)} = {}
      BY <1>1, <2>8 DEF SoundIsWhole
    <3>2. Fine(n)
      BY <2>1, <2>2, <2>6, <2>8, <3>1
    <3> HIDE DEF Fine
    <3> QED
      BY <1>3, <3>2
  <2> QED
    BY <2>7, <2>8
<1>4. T = 0..L
  <2>1. T \in SUBSET (0..L)
    OBVIOUS
  <2> HIDE DEF T, L
  <2> QED
    BY <1>1, <1>2, <1>3, <2>1, UpTo
<1> HIDE DEF Fine
<1>5. \A n \in 0..L : Fine(n)
  BY <1>4
<1> QED
  BY <1>5 DEF HeardIsWhole, Fine, H

\* The texts that wait, by what was told
WaitingIsUntold ==
  /\ Told \in Seq(1..Len(posted)) /\ Range(Told) = ToldWhole(Len(told))
  /\ Waiting = Unspoiled \ ToldWhole(Len(told))

LEMMA WaitingUntold == ChatInv => WaitingIsUntold
<1> SUFFICES ASSUME ChatInv
             PROVE  WaitingIsUntold
  OBVIOUS
<1>1. Len(told) \in Nat /\ DOMAIN posted = 1..Len(posted)
  BY ChatTypes DEF ChatInv
<1>2. Told \in Seq(1..Len(posted)) /\ Range(Told) = ToldWhole(Len(told))
  BY <1>1, HeardWhole DEF HeardIsWhole, Told
<1> QED
  BY <1>1, <1>2 DEF WaitingIsUntold, Waiting, Unspoiled

\* With every message received, no text was kept back: each that was not spoiled was told,
\* but for one that the handler keeps as far as it was sent, which goes on or ends in dots
\* of its own, however many texts of however many messages were posted, whatever was lost
\* of them and whatever came between.
THEOREM TellsAllPosted == ChatSpec => []TellsAll
<1>1. ChatInv => TellsAll
  <2> SUFFICES ASSUME ChatInv, channel = <<>>, NEW t \in Waiting
               PROVE  /\ storage = First(t, posted[t].sent)
                      /\ posted[t].sent < posted[t].parts \/ posted[t].dots
    BY DEF TellsAll
  <2>1. t \in Unspoiled /\ t \in 1..Len(posted) /\ t \notin ToldWhole(Len(told))
    BY WaitingUntold DEF WaitingIsUntold, Unspoiled
  <2>2. posted[t].sent \in Nat \ {0}
    BY <2>1, ChatTypes DEF ChatInv
  <2>3. PICK k \in 0..posted[t].sent : Came(t, k) /\ Found(t, k)
    BY <2>1, SeenOf
  <2>4. OnTheWay = {}
    BY DEF OnTheWay, Range
  <2>5. k = posted[t].sent
    <3>1. ~(posted[t].sent > k) /\ k \in Nat
      BY <2>2, <2>3, <2>4 DEF Came
    <3> QED
      BY <2>2, <3>1
  <2> QED
    BY <2>1, <2>2, <2>3, <2>5 DEF Found, KeptFirst, Waits
<1> QED
  BY <1>1, ChatInvariance, PTL

-----------------------------------------------------------------------------
(* The handler keeps the promise                                           *)

HeardByText ==
  /\ Heard[0] = <<>>
  /\ \A n \in 1..Len(told) :
       /\ Spoilt(told[n]) => Heard[n] = Heard[n - 1]
       /\ \A t \in Unspoiled : told[n] = Whole(t) => Heard[n] = Append(Heard[n - 1], t)

LEMMA HeardTexts == ChatInv => HeardByText
<1> SUFFICES ASSUME ChatInv
             PROVE  HeardByText
  OBVIOUS
<1>1. HeardGoesOn /\ SoundIsWhole /\ told \in Seq(Lines)
  BY HeardAt, SoundTold, ChatTypes DEF ChatInv
<1>2. ASSUME NEW n \in 1..Len(told)
      PROVE  /\ Spoilt(told[n]) => Heard[n] = Heard[n - 1]
             /\ \A t \in Unspoiled : told[n] = Whole(t) => Heard[n] = Append(Heard[n - 1], t)
  <2>1. told[n] \in Lines
    BY <1>1, ElementOfSeq
  <2>2. Sound(told[n]) <=> ~Spoilt(told[n])
    BY <2>1, SoundUnlessSpoilt
  <2>3. Heard[n] = IF Sound(told[n]) THEN Append(Heard[n - 1], NumberOf(told[n]))
                   ELSE Heard[n - 1]
    BY <1>1 DEF HeardGoesOn
  <2>4. \A t \in Unspoiled : told[n] = Whole(t) => Sound(told[n]) /\ NumberOf(told[n]) = t
    BY <1>1 DEF SoundIsWhole
  <2> QED
    BY <2>2, <2>3, <2>4
<1> QED
  BY <1>1, <1>2 DEF HeardByText, HeardGoesOn

LEMMA ToldBefore ==
  ASSUME ChatInv, NEW t \in ToldWhole(Len(told))
  PROVE  t \in Unspoiled /\ Gone(t)
<1>1. PICK i \in 1..Len(told) : told[i] = Whole(t)
  BY DEF ToldWhole
<1>2. t \in Unspoiled
  BY DEF ToldWhole
<1>3. Sound(told[i]) /\ NumberOf(told[i]) = t
  BY <1>1, <1>2, SoundTold DEF SoundIsWhole
<1>4. PICK u \in Unspoiled : NumberOf(told[i]) = u /\ Gone(u)
  BY <1>3, SoundTold DEF SoundIsWhole
<1> QED
  BY <1>2, <1>3, <1>4

\* With nothing kept, what waits has not come.
WaitingComes == storage = Nothing => \A t \in Waiting : Message(t, 1) \in OnTheWay

LEMMA WaitingToCome == ChatInv => WaitingComes
<1> SUFFICES ASSUME ChatInv, storage = Nothing, NEW t \in Waiting
             PROVE  Message(t, 1) \in OnTheWay
  BY DEF WaitingComes
<1>1. t \in Unspoiled /\ t \in 1..Len(posted) /\ t \notin ToldWhole(Len(told))
  BY WaitingUntold DEF WaitingIsUntold, Unspoiled
<1>2. ChatTypeOK /\ posted[t].sent \in Nat \ {0}
  BY <1>1, ChatTypes DEF ChatInv
<1>3. PICK k \in 0..posted[t].sent : Came(t, k) /\ Found(t, k)
  BY <1>1, SeenOf
<1>4. k = 0
  <2> SUFFICES ASSUME k # 0
               PROVE  FALSE
    OBVIOUS
  <2>1. storage = First(t, k) /\ k \in Nat \ {0}
    BY <1>1, <1>2, <1>3 DEF Found, KeptFirst
  <2> QED
    BY <1>1, <1>2, <2>1, FirstIs
<1>5. 1 \in 1..posted[t].sent /\ 1 > k
  BY <1>2, <1>4
<1> QED
  BY <1>3, <1>5 DEF Came

\* What was heard stays heard.
LEMMA HeardStays ==
  ASSUME ChatInv, ChatInv', spoiled \subseteq spoiled',
         \A i \in 1..Len(told) : i \in 1..Len(told') /\ told'[i] = told[i],
         \A t \in ToldWhole(Len(told)) : t \in Unspoiled' /\ Whole(t)' = Whole(t)
  PROVE  \A n \in 0..Len(told) : Heard'[n] = Heard[n]
<1> DEFINE L == Len(told)
           H == Heard
           G == Heard'
           T == {n \in 0..L : G[n] = H[n]}
<1>1. L \in Nat /\ HeardByText /\ ToldIsSound
  BY ChatTypes, HeardTexts DEF ChatInv
<1>2. HeardByText'
  BY HeardTexts, PTL
<1>3. H[0] = <<>> /\ G[0] = <<>>
  BY <1>1, <1>2 DEF HeardByText
<1>4. ASSUME NEW n \in 1..L
      PROVE  G[n - 1] = H[n - 1] => G[n] = H[n]
  <2>1. n \in 1..Len(told') /\ told'[n] = told[n]
    OBVIOUS
  <2>2. CASE Spoilt(told[n])
    <3>1. Spoilt(told[n])'
      BY <2>1, <2>2 DEF Spoilt
    <3>2. H[n] = H[n - 1]
      BY <1>1, <2>2 DEF HeardByText
    <3>3. G[n] = G[n - 1]
      BY <1>2, <2>1, <3>1 DEF HeardByText
    <3> QED
      BY <3>2, <3>3
  <2>3. ASSUME NEW t \in Unspoiled, told[n] = Whole(t)
        PROVE  G[n - 1] = H[n - 1] => G[n] = H[n]
    <3>1. H[n] = Append(H[n - 1], t)
      BY <1>1, <2>3 DEF HeardByText
    <3>2. t \in ToldWhole(L)
      BY <2>3 DEF ToldWhole
    <3>3. t \in Unspoiled' /\ told'[n] = Whole(t)'
      BY <2>1, <2>3, <3>2
    <3>4. G[n] = Append(G[n - 1], t)
      BY <1>2, <2>1, <3>3 DEF HeardByText
    <3> HIDE DEF G, H
    <3> QED
      BY <3>1, <3>4
  <2> QED
    BY <1>1, <2>2, <2>3 DEF ToldIsSound
<1> HIDE DEF G, H
<1>5. 0 \in T
  BY <1>1, <1>3
<1>6. \A n \in 1..L : n - 1 \in T => n \in T
  <2>1. \A n \in 1..L : n \in 0..L
    BY <1>1
  <2> QED
    BY <1>4, <2>1
<1>7. T = 0..L
  <2>1. T \in SUBSET (0..L)
    OBVIOUS
  <2> HIDE DEF T, L
  <2> QED
    BY <1>1, <1>5, <1>6, <2>1, UpTo
<1>8. \A n \in 0..L : G[n] = H[n]
  BY <1>7
<1> QED
  BY <1>8 DEF G, H

\* What a message adds to what was heard, text by text
LEMMA HearsMore ==
  ASSUME ChatInv', Len(told) \in Nat, NEW n \in 1..Len(told')
  PROVE  /\ SpoiltNow(told'[n]) => Heard'[n] = Heard'[n - 1]
         /\ \A t \in Unspoiled' : told'[n] = Whole(t)' => Heard'[n] = Append(Heard'[n - 1], t)
<1>1. HeardByText'
  BY HeardTexts, PTL
<1>2. /\ \A i \in 1..Len(told') :
           /\ SpoiltNow(told'[i]) => Heard'[i] = Heard'[i - 1]
           /\ \A t \in Unspoiled' :
                told'[i] = Whole(t)' => Heard'[i] = Append(Heard'[i - 1], t)
  BY <1>1 DEF HeardByText, SpoiltNow, Spoilt
<1> QED
  BY <1>2

\* A step that adds some texts to those told is one of Telling.
LEMMA TextsHandled ==
  ASSUME ChatInv, ChatInv', posted' = posted, spoiled \subseteq spoiled',
         NEW n \in 0..2, NEW texts \in [1..n -> 1..Len(posted)],
         Told' = Told \o texts,
         \A i \in 1..n : /\ texts[i] \in Unspoiled \ spoiled'
                         /\ Message(texts[i], 1) \notin OnTheWay'
                         /\ texts[i] \notin ToldWhole(Len(told)),
         \A i, j \in 1..n : i < j => texts[i] < texts[j],
         n > 0 => storage' = Nothing
  PROVE  Promise!Next
<1>1. /\ Len(posted) \in Nat /\ Len(posted) <= MaxTexts /\ DOMAIN posted = 1..Len(posted)
  BY ChatTypes DEF ChatInv, ChatTypeOK
<1>2. WaitingIsUntold /\ WaitingIsUntold' /\ WaitingComes'
  BY WaitingUntold, WaitingToCome, PTL
<1>3. DOMAIN texts = 1..n /\ texts \in Seq(1..Len(posted)) /\ Len(texts) = n
  <2>1. texts \in Seq(1..Len(posted))
    BY SeqDef
  <2> QED
    BY <2>1, LenProperties
<1>4. spoiled' \subseteq 1..Len(posted)
  BY DEF ChatInv, ChatTypeOK
<1>5. \A i \in DOMAIN texts : texts[i] \in Waiting \ spoiled'
  BY <1>2, <1>3 DEF WaitingIsUntold
<1>6. Waiting' = Waiting \ (spoiled' \cup Promise!Elements(texts))
  <2>1. Range(Told') = Range(Told) \cup Promise!Elements(texts)
    <3> DEFINE s == Told
    <3>1. s \in Seq(1..Len(posted))
      BY <1>2 DEF WaitingIsUntold
    <3> HIDE DEF s
    <3>2. /\ s \o texts \in Seq(1..Len(posted)) /\ Len(s \o texts) = Len(s) + n
          /\ \A i \in 1..(Len(s) + n) :
               (s \o texts)[i] = IF i <= Len(s) THEN s[i] ELSE texts[i - Len(s)]
          /\ Len(s) \in Nat /\ DOMAIN s = 1..Len(s)
      BY <1>3, <3>1, ConcatProperties, LenProperties
    <3>3. DOMAIN (s \o texts) = 1..(Len(s) + n)
      BY <3>2, LenProperties
    <3>4. \A i \in 1..(Len(s) + n) :
            \/ i \in 1..Len(s) /\ (s \o texts)[i] = s[i]
            \/ i - Len(s) \in 1..n /\ (s \o texts)[i] = texts[i - Len(s)]
      BY <3>2
    <3>5. \A i \in 1..Len(s) : i \in 1..(Len(s) + n) /\ (s \o texts)[i] = s[i]
      BY <3>2
    <3>6. \A i \in 1..n : Len(s) + i \in 1..(Len(s) + n) /\ (s \o texts)[Len(s) + i] = texts[i]
      <4>1. \A i \in 1..n : /\ Len(s) + i \in 1..(Len(s) + n) /\ ~(Len(s) + i <= Len(s))
                            /\ (Len(s) + i) - Len(s) = i
        BY <3>2
      <4> QED
        BY <3>2, <4>1
    <3>7. Range(s \o texts) = Range(s) \cup {texts[i] : i \in 1..n}
      <4> DEFINE r == s \o texts
                 R == {r[i] : i \in 1..(Len(s) + n)}
                 S == {s[i] : i \in 1..Len(s)}
                 New == {texts[i] : i \in 1..n}
      <4> HIDE DEF r
      <4>1. Range(r) = R /\ Range(s) = S
        BY <3>2, <3>3 DEF Range, r
      <4>2. \A i \in 1..(Len(s) + n) : r[i] \in S \cup New
        BY <3>4 DEF r
      <4>3. \A i \in 1..Len(s) : s[i] \in R
        BY <3>5 DEF r
      <4>4. \A i \in 1..n : texts[i] \in R
        <5> TAKE i \in 1..n
        <5>1. Len(s) + i \in 1..(Len(s) + n) /\ r[Len(s) + i] = texts[i]
          BY <3>6 DEF r
        <5> QED
          BY <5>1
      <4>5. R = S \cup New
        BY <4>2, <4>3, <4>4
      <4> QED
        BY <4>1, <4>5 DEF r
    <3> QED
      BY <1>3, <3>7 DEF Promise!Elements, s
  <2> HIDE DEF Promise!Elements
  <2>2. /\ Waiting = (1..Len(posted)) \ (spoiled \cup Range(Told))
        /\ Waiting' = (1..Len(posted)) \ (spoiled' \cup Range(Told'))
    BY <1>1 DEF Waiting
  <2> QED
    BY <2>1, <2>2
<1>7. \A i \in DOMAIN texts, text \in Waiting' : texts[i] < text
  <2> SUFFICES ASSUME NEW i \in 1..n, NEW text \in Waiting'
               PROVE  texts[i] < text
    BY <1>3
  <2>1. n > 0
    OBVIOUS
  <2>2. Message(text, 1) \in OnTheWay'
    BY <1>2, <2>1 DEF WaitingComes, Message
  <2>3. text \in 1..Len(posted)
    BY <1>1, <1>2 DEF WaitingIsUntold, Unspoiled
  <2>4. Message(texts[i], 1) \notin OnTheWay' /\ texts[i] \in 1..Len(posted)
    OBVIOUS
  <2>5. ~(text < texts[i])
    BY <2>2, <2>3, <2>4 DEF ChatInv, FirstsInOrder, Message
  <2>6. text # texts[i]
    BY <2>2, <2>4
  <2> QED
    BY <1>1, <2>3, <2>4, <2>5, <2>6
<1>8. Promise!Handle(spoiled', texts)
  BY <1>3, <1>5, <1>6, <1>7 DEF Promise!Handle
<1>9. spoiled' \in SUBSET Texts /\ texts \in [1..n -> Texts]
  <2>1. 1..Len(posted) \subseteq Texts
    BY <1>1, ChatAssumption DEF Texts
  <2> QED
    BY <1>4, <2>1
<1> HIDE DEF Promise!Handle
<1> QED
  BY <1>8, <1>9 DEF Promise!Next

\* A text told is not spoiled by what comes later.
LEMMA ToldStays ==
  ASSUME ChatInv, ChatTypeOK', channel # <<>>, channel' = Tail(channel), posted' = posted,
         spoiled' \subseteq spoiled \cup {Head(channel).text} \cup KeptTexts
  PROVE  /\ \A t \in ToldWhole(Len(told)) : t \in Unspoiled' /\ Whole(t)' = Whole(t)
         /\ Head(channel).text \notin ToldWhole(Len(told))
<1>1. ASSUME NEW t \in ToldWhole(Len(told))
      PROVE  t \in Unspoiled /\ t # Head(channel).text /\ t \notin KeptTexts
  <2>1. t \in Unspoiled /\ Gone(t)
    BY ToldBefore
  <2>2. t # Head(channel).text
    BY <2>1, CameNow DEF Gone
  <2>3. t \notin KeptTexts
    BY <2>1, KeptTextsAre DEF Gone, NoneKeptOf, ChatInv
  <2> QED
    BY <2>1, <2>2, <2>3
<1>2. \A t : Whole(t)' = Whole(t)
  BY SameTexts
<1> QED
  BY <1>1, <1>2 DEF Unspoiled

LEMMA SameTold ==
  ASSUME ChatInv, ChatInv', posted' = posted, spoiled \subseteq spoiled', Told' = Told
  PROVE  Promise!Next
<1> DEFINE none == [i \in 1..0 |-> 1]
<1>1. Told \in Seq(1..Len(posted))
  BY WaitingUntold DEF WaitingIsUntold
<1>2. none = <<>> /\ none \in [1..0 -> 1..Len(posted)] /\ 1..0 = {}
  OBVIOUS
<1>3. Told' = Told \o none
  BY <1>1, <1>2, ConcatEmptySeq
<1>4. 0 \in 0..2 /\ ~(0 > 0)
  OBVIOUS
<1> HIDE DEF none
<1>5. \A i \in 1..0 : FALSE
  BY <1>2
<1> QED
  BY <1>2, <1>3, <1>4, <1>5, TextsHandled

LEMMA OneTold ==
  ASSUME ChatInv, ChatInv', posted' = posted, spoiled \subseteq spoiled', storage' = Nothing,
         NEW t \in Unspoiled \ spoiled', Message(t, 1) \notin OnTheWay',
         t \notin ToldWhole(Len(told)), Told' = Append(Told, t)
  PROVE  Promise!Next
<1> DEFINE texts == [i \in 1..1 |-> t]
<1>1. Told \in Seq(1..Len(posted)) /\ t \in 1..Len(posted)
  BY WaitingUntold DEF WaitingIsUntold, Unspoiled
<1>2. texts = <<t>> /\ texts \in [1..1 -> 1..Len(posted)] /\ \A i \in 1..1 : texts[i] = t
  BY <1>1
<1>3. Told' = Told \o texts
  BY <1>1, <1>2, AppendIsConcat
<1> HIDE DEF texts
<1>4. /\ \A i \in 1..1 : /\ texts[i] \in Unspoiled \ spoiled'
                         /\ Message(texts[i], 1) \notin OnTheWay'
                         /\ texts[i] \notin ToldWhole(Len(told))
      /\ \A i, j \in 1..1 : i < j => texts[i] < texts[j]
  <2>1. \A i, j \in 1..1 : ~(i < j)
    OBVIOUS
  <2> QED
    BY <1>2, <2>1
<1>5. 1 \in 0..2
  OBVIOUS
<1> QED
  BY <1>2, <1>3, <1>4, <1>5, TextsHandled

LEMMA TwoTold ==
  ASSUME ChatInv, ChatInv', posted' = posted, spoiled \subseteq spoiled', storage' = Nothing,
         NEW t \in Unspoiled \ spoiled', Message(t, 1) \notin OnTheWay',
         t \notin ToldWhole(Len(told)),
         NEW u \in Unspoiled \ spoiled', Message(u, 1) \notin OnTheWay',
         u \notin ToldWhole(Len(told)), t < u,
         Told' = Append(Append(Told, t), u)
  PROVE  Promise!Next
<1> DEFINE texts == <<t, u>>
<1>1. Told \in Seq(1..Len(posted)) /\ t \in 1..Len(posted) /\ u \in 1..Len(posted)
  BY WaitingUntold DEF WaitingIsUntold, Unspoiled
<1>2. Told' = Told \o texts
  <2> DEFINE s == Told
  <2>1. s \in Seq(1..Len(posted))
    BY <1>1
  <2> HIDE DEF s
  <2>2. Append(Append(s, t), u) = s \o <<t, u>>
    BY <1>1, <2>1
  <2> QED
    BY <2>2 DEF s
<1>3. texts \in [1..2 -> 1..Len(posted)] /\ texts[1] = t /\ texts[2] = u
  BY <1>1
<1> HIDE DEF texts
<1>4. 1..2 = {1, 2} /\ \A i, j \in 1..2 : i < j => i = 1 /\ j = 2
  OBVIOUS
<1>5. /\ \A i \in 1..2 : /\ texts[i] \in Unspoiled \ spoiled'
                         /\ Message(texts[i], 1) \notin OnTheWay'
                         /\ texts[i] \notin ToldWhole(Len(told))
      /\ \A i, j \in 1..2 : i < j => texts[i] < texts[j]
  BY <1>3, <1>4
<1>6. 2 \in 0..2
  OBVIOUS
<1> QED
  BY <1>2, <1>3, <1>5, <1>6, TextsHandled

LEMMA LostIsTelling ==
  ASSUME ChatInv, ChatInv', Lose
  PROVE  Promise!Next
<1>1. /\ channel # <<>> /\ channel' = Tail(channel) /\ posted' = posted /\ told' = told
      /\ spoiled' = spoiled \cup {Head(channel).text} /\ ChatTypeOK'
  BY DEF Lose, ChatInv
<1>2. \A t \in ToldWhole(Len(told)) : t \in Unspoiled' /\ Whole(t)' = Whole(t)
  BY <1>1, ToldStays
<1>3. \A n \in 0..Len(told) : Heard'[n] = Heard[n]
  BY <1>1, <1>2, HeardStays
<1>4. Len(told) \in Nat
  BY ChatTypes DEF ChatInv
<1>5. Told' = Told
  BY <1>1, <1>3, <1>4 DEF Told
<1> QED
  BY <1>1, <1>5, SameTold

LEMMA ReceivedIsTelling ==
  ASSUME ChatInv, ChatInv', Receive
  PROVE  Promise!Next
<1> DEFINE m == Head(channel)
           h == m.text
           L == Len(told)
<1>1. /\ channel # <<>> /\ channel' = Tail(channel) /\ posted' = posted
      /\ spoiled' = spoiled \cup Spoils(m)
      /\ Extends(m) \/ Ends(m) \/ EndsBoth(m) \/ AllSpoilt(m)
  BY Outcome
<1>2. /\ ChatTypeOK /\ ChannelInOrder /\ FirstsInOrder /\ ChatTypeOK' /\ L \in Nat
      /\ h \in 1..Len(posted) /\ m.part \in Nat \ {0} /\ m.part \in 1..posted[h].sent
      /\ m \in OnTheWay /\ m = Message(h, m.part) /\ storage \in Lines /\ Whole(h) \in Lines
  BY <1>1, HeadIs, ChatTypes, WholeIs DEF ChatInv
<1>3. spoiled \subseteq spoiled' /\ \A t : Whole(t)' = Whole(t)
  BY <1>1, SameTexts
<1>4. spoiled' \subseteq spoiled \cup {h} \cup KeptTexts
  BY <1>1, SpoilsIs
<1>5. /\ \A t \in ToldWhole(L) : t \in Unspoiled' /\ Whole(t)' = Whole(t)
      /\ h \notin ToldWhole(L)
  BY <1>1, <1>2, <1>4, ToldStays
<1>6. Message(h, 1) \notin OnTheWay'
  <2>1. OnTheWay' = OnTheWay \ {m}
    BY <1>1, <1>2, HeadTaken
  <2>2. Message(h, 1) \in OnTheWay => m.part <= 1
    BY <1>1, <1>2, HeadIs
  <2> HIDE DEF m
  <2>3. Message(h, 1) \in OnTheWay => m.part = 1
    BY <1>2, <2>2
  <2> QED
    BY <1>2, <2>1, <2>3
<1>7. ASSUME NEW more \in Seq(Lines), told' = told \o more
      PROVE  Heard'[L] = Told
  <2>1. \A i \in 1..L : i \in 1..Len(told') /\ told'[i] = told[i]
    BY <1>2, <1>7, ToldGrows
  <2>2. \A n \in 0..L : Heard'[n] = Heard[n]
    BY <1>3, <1>5, <2>1, HeardStays
  <2> QED
    BY <1>2, <2>2 DEF Told
<1> HIDE DEF m, h
<1>8. ASSUME h \notin spoiled'
      PROVE  h \in Unspoiled \ spoiled' /\ h \in Unspoiled'
  BY <1>1, <1>2, <1>3, <1>8 DEF Unspoiled
<1>9. CASE told' = told
  <2>1. \A i \in 1..L : i \in 1..Len(told') /\ told'[i] = told[i]
    BY <1>9
  <2>2. \A n \in 0..L : Heard'[n] = Heard[n]
    BY <1>3, <1>5, <2>1, HeardStays
  <2>3. Told' = Told
    BY <1>2, <1>9, <2>2 DEF Told
  <2> QED
    BY <1>1, <1>3, <2>3, SameTold
\* What is told after a line is told as it should be
<1>10. ASSUME NEW line \in Lines, told' = told \o <<line>>
       PROVE  /\ SpoiltNow(line) => Told' = Told
              /\ \A t \in Unspoiled' : line = Whole(t) => Told' = Append(Told, t)
  <2>1. <<line>> \in Seq(Lines) /\ Len(<<line>>) = 1 /\ <<line>>[1] = line /\ 1 \in 1..1
    OBVIOUS
  <2>2. /\ Len(told') = L + 1 /\ L + 1 \in 1..Len(told') /\ told'[L + 1] = line
        /\ (L + 1) - 1 = L
    BY <1>2, <1>10, <2>1, ToldGrows
  <2>3. Heard'[L] = Told /\ Told' = Heard'[L + 1]
    BY <1>7, <1>10, <2>1, <2>2 DEF Told
  <2>4. /\ SpoiltNow(line) => Heard'[L + 1] = Heard'[L]
        /\ \A t \in Unspoiled' :
             line = Whole(t)' => Heard'[L + 1] = Append(Heard'[L], t)
    BY <1>2, <2>2, HearsMore
  <2> QED
    BY <1>3, <2>3, <2>4
<1>11. CASE Ends(m)
  <2>1. h \notin spoiled' /\ storage' = Nothing /\ told' = told \o <<Whole(h)>>
    BY <1>11 DEF Ends, Follows, h
  <2>2. Told' = Append(Told, h)
    BY <1>2, <1>8, <1>10, <2>1
  <2> QED
    BY <1>1, <1>3, <1>5, <1>6, <1>8, <2>1, <2>2, OneTold
<1>12. CASE AllSpoilt(m)
  <2>1. CASE told' = told
    BY <1>9, <2>1
  <2>2. ASSUME NEW line \in Lines, SpoiltNow(line), told' = told \o <<line>>
        PROVE  Promise!Next
    <3>1. Told' = Told
      BY <1>10, <2>2
    <3> QED
      BY <1>1, <1>3, <3>1, SameTold
  <2> QED
    BY <1>12, <2>1, <2>2 DEF AllSpoilt
<1>13. CASE EndsBoth(m)
  <2>1. storage' = Nothing /\ m.part = 1 /\ KeptEnds(m)
    BY <1>13 DEF EndsBoth
  <2>2. PICK line \in Lines : LineEnds(m, line) /\ told' = told \o <<storage, line>>
    BY <1>13 DEF EndsBoth
  <2> DEFINE more == <<storage, line>>
  <2>3. more \in Seq(Lines) /\ Len(more) = 2 /\ more[1] = storage /\ more[2] = line
        /\ 1 \in 1..2 /\ 2 \in 1..2
    BY <1>2
  <2> HIDE DEF more
  <2>4. told' = told \o more
    BY <2>2 DEF more
  <2>5. /\ Len(told') = L + 2 /\ L + 1 \in 1..Len(told') /\ L + 2 \in 1..Len(told')
        /\ told'[L + 1] = storage /\ told'[L + 2] = line
        /\ (L + 1) - 1 = L /\ (L + 2) - 1 = L + 1
    <3>1. /\ Len(told') = L + Len(more)
          /\ \A i \in 1..Len(more) : L + i \in 1..Len(told') /\ told'[L + i] = more[i]
      BY <1>2, <2>3, <2>4, ToldGrows
    <3>2. (L + 1) - 1 = L /\ (L + 2) - 1 = L + 1
      BY <1>2
    <3> HIDE DEF L
    <3> QED
      BY <2>3, <3>1, <3>2
  <2>6. Heard'[L] = Told /\ Told' = Heard'[L + 2]
    BY <1>7, <2>3, <2>4, <2>5 DEF Told
  <2>7. /\ SpoiltNow(storage) => Heard'[L + 1] = Told
        /\ \A t \in Unspoiled' : storage = Whole(t) => Heard'[L + 1] = Append(Told, t)
    <3>1. /\ SpoiltNow(storage) => Heard'[L + 1] = Heard'[L]
          /\ \A t \in Unspoiled' :
               storage = Whole(t)' => Heard'[L + 1] = Append(Heard'[L], t)
      BY <1>2, <2>5, HearsMore
    <3> QED
      BY <1>3, <2>6, <3>1
  <2>8. /\ SpoiltNow(line) => Told' = Heard'[L + 1]
        /\ \A t \in Unspoiled' : line = Whole(t) => Told' = Append(Heard'[L + 1], t)
    <3>1. /\ SpoiltNow(line) => Heard'[L + 2] = Heard'[L + 1]
          /\ \A t \in Unspoiled' :
               line = Whole(t)' => Heard'[L + 2] = Append(Heard'[L + 1], t)
      BY <1>2, <2>5, HearsMore
    <3> QED
      BY <1>3, <2>6, <3>1
  <2>9. \/ Told' = Heard'[L + 1]
        \/ h \notin spoiled' /\ Told' = Append(Heard'[L + 1], h)
    BY <1>8, <2>2, <2>8 DEF LineEnds, h
  <2>10. CASE SpoiltNow(storage)
    <3>1. CASE Told' = Told
      BY <1>1, <1>3, <3>1, SameTold
    <3>2. CASE h \notin spoiled' /\ Told' = Append(Told, h)
      BY <1>1, <1>3, <1>5, <1>6, <1>8, <2>1, <3>2, OneTold
    <3> QED
      BY <2>7, <2>9, <2>10, <3>1, <3>2
  <2>11. ASSUME NEW t \in Unspoiled, t \notin spoiled', t # h, storage = Whole(t),
                Came(t, posted[t].parts), posted[t].sent = posted[t].parts
         PROVE  Promise!Next
    <3>1. t \in 1..Len(posted) /\ t \in Unspoiled' /\ t \in Unspoiled \ spoiled'
      BY <1>1, <2>11 DEF Unspoiled
    <3>2. Heard'[L + 1] = Append(Told, t)
      BY <2>7, <2>11, <3>1
    <3>3. Message(t, 1) \notin OnTheWay
      <4>1. posted[t].sent \in Nat \ {0}
        BY <1>2, <3>1, ChatTypes
      <4>2. 1 \in 1..posted[t].sent /\ ~(1 > posted[t].parts)
        BY <2>11, <4>1
      <4> QED
        BY <2>11, <4>2 DEF Came
    <3>4. Message(t, 1) \notin OnTheWay'
      BY <1>1, <1>2, <3>3, HeadTaken
    <3>5. t \notin ToldWhole(L)
      <4>1. 1 \in 1..Len(storage.pieces) /\ storage.pieces[1].text = t
        BY <1>2, <2>11, <3>1, WholeIs
      <4> QED
        BY <4>1, ToldBefore DEF Gone, NoneKeptOf
    <3>6. t < h
      <4>1. Message(h, 1) \in OnTheWay
        BY <1>2, <2>1
      <4>2. ~(h < t)
        BY <1>2, <3>1, <3>3, <4>1 DEF FirstsInOrder
      <4> QED
        BY <1>2, <2>11, <3>1, <4>2
    <3>7. CASE Told' = Append(Told, t)
      BY <1>1, <1>3, <2>1, <3>1, <3>4, <3>5, <3>7, OneTold
    <3>8. CASE h \notin spoiled' /\ Told' = Append(Append(Told, t), h)
      BY <1>1, <1>3, <1>5, <1>6, <1>8, <2>1, <3>1, <3>4, <3>5, <3>6, <3>8, TwoTold
    <3> QED
      BY <2>9, <3>2, <3>7, <3>8
  <2> QED
    BY <2>1, <2>10, <2>11 DEF KeptEnds, h
<1> QED
  BY <1>1, <1>9, <1>11, <1>12, <1>13 DEF Extends

\* Sending a message of the texts told changes nothing that was heard of them.
LEMMA SentIsHeard ==
  ASSUME ChatInv, ChatInv', told' = told, spoiled' = spoiled,
         \A t \in 1..Len(posted) : /\ t \in 1..Len(posted')
                                   /\ posted'[t].parts = posted[t].parts
                                   /\ posted'[t].dots = posted[t].dots
  PROVE  Told' = Told
<1>1. \A t \in 1..Len(posted) : Whole(t)' = Whole(t)
  BY DEF Whole, First, Line
<1>2. \A t \in ToldWhole(Len(told)) : t \in Unspoiled' /\ Whole(t)' = Whole(t)
  BY <1>1 DEF ToldWhole, Unspoiled
<1>3. \A n \in 0..Len(told) : Heard'[n] = Heard[n]
  BY <1>2, HeardStays
<1>4. Len(told) \in Nat
  BY ChatTypes DEF ChatInv
<1> QED
  BY <1>3, <1>4 DEF Told

LEMMA PostedIsTelling ==
  ASSUME ChatInv, ChatInv', NEW parts \in 1..MaxParts, NEW dots \in BOOLEAN,
         Post(parts, dots)
  PROVE  Promise!Next
<1> DEFINE last == Len(posted) + 1
<1>1. /\ ChatTypeOK /\ ChannelInOrder /\ Len(posted) \in Nat
      /\ spoiled \subseteq 1..Len(posted)
  BY ChatTypes DEF ChatInv
<1>2. /\ Len(posted') = last /\ last \in 1..MaxTexts /\ last \in 1..last
      /\ 1..last = (1..Len(posted)) \cup {last} /\ last \notin 1..Len(posted)
      /\ \A t \in 1..Len(posted) : posted'[t] = posted[t]
      /\ told' = told /\ spoiled' = spoiled
  BY <1>1, PostedIs
<1>3. Told' = Told
  BY <1>2, SentIsHeard
<1>4. WaitingIsUntold /\ Range(Told) \subseteq 1..Len(posted)
  BY WaitingUntold DEF WaitingIsUntold, ToldWhole, Unspoiled
<1>5. DOMAIN posted = 1..Len(posted) /\ DOMAIN posted' = 1..last
  <2>1. posted' \in Seq([parts : 1..MaxParts, sent : 1..MaxParts, dots : BOOLEAN])
    BY <1>1, PostedIs
  <2>2. DOMAIN posted' = 1..Len(posted')
    BY <2>1, LenProperties
  <2> QED
    BY <1>1, <1>2, <2>2, ChatTypes
<1> HIDE DEF last
<1>6. Waiting' = Waiting \cup {last}
  <2>1. /\ Waiting = (1..Len(posted)) \ (spoiled \cup Range(Told))
        /\ Waiting' = (1..last) \ (spoiled \cup Range(Told))
    BY <1>2, <1>3, <1>5 DEF Waiting, Range
  <2> QED
    BY <1>1, <1>2, <1>4, <2>1
<1>7. \A other \in Waiting \cup Promise!Elements(Told) : other < last
  <2>1. Promise!Elements(Told) = Range(Told)
    BY DEF Promise!Elements, Range
  <2>2. Waiting \subseteq 1..Len(posted)
    BY <1>5 DEF Waiting
  <2>3. \A t \in 1..Len(posted) : t < last
    BY <1>1 DEF last
  <2> QED
    BY <1>4, <2>1, <2>2, <2>3
<1>8. Promise!Post(last)
  BY <1>3, <1>6, <1>7 DEF Promise!Post
<1>9. last \in Texts
  BY <1>2 DEF Texts
<1> QED
  BY <1>8, <1>9 DEF Promise!Next

LEMMA GoneOnIsTelling ==
  ASSUME ChatInv, ChatInv', NEW text \in 1..Len(posted), GoOn(text)
  PROVE  UNCHANGED Promise!telling
<1>1. /\ Len(posted') = Len(posted) /\ told' = told /\ spoiled' = spoiled
      /\ \A t \in 1..Len(posted) :
           posted'[t].parts = posted[t].parts /\ posted'[t].dots = posted[t].dots
  BY GoneOnIs DEF ChatInv
<1>2. Told' = Told
  BY <1>1, SentIsHeard
<1>3. DOMAIN posted' = DOMAIN posted
  BY DEF GoOn
<1>4. Waiting' = Waiting
  BY <1>1, <1>2, <1>3 DEF Waiting, Range
<1> QED
  BY <1>2, <1>4 DEF Promise!telling

\* The texts arrive as the server posted them: whole, each once and in their order, without
\* the dots of the wrapping, whichever messages were lost before and whichever came between
\* those of another text, however the texts are wrapped; spoiled is one with a line lost,
\* one that a line of another came between, and one wrapped that began in the middle of it.
THEOREM TellsWholeTexts == ChatSpec => TellsWhole
<1>1. ChatInit => Promise!Init
  <2> SUFFICES ASSUME ChatInit
               PROVE  Promise!Init
    OBVIOUS
  <2>1. posted = <<>> /\ told = <<>> /\ Len(told) = 0 /\ DOMAIN posted = {}
    BY DEF ChatInit
  <2>2. Told = <<>>
    BY <2>1, ChatInvInitially, HeardTexts DEF Told, HeardByText
  <2> QED
    BY <2>1, <2>2 DEF Promise!Init, Waiting
<1>2. ChatInv /\ ChatInv' /\ [ChatNext]_chat => [Promise!Next]_(Promise!telling)
  <2>1. ASSUME ChatInv, ChatInv', ChatNext
        PROVE  Promise!Next \/ UNCHANGED Promise!telling
    <3>1. DOMAIN posted = 1..Len(posted)
      BY <2>1, ChatTypes DEF ChatInv
    <3> QED
      BY <2>1, <3>1, PostedIsTelling, GoneOnIsTelling, ReceivedIsTelling, LostIsTelling
      DEF ChatNext
  <2>2. ASSUME UNCHANGED chat
        PROVE  UNCHANGED Promise!telling
    <3>1. posted' = posted /\ told' = told /\ spoiled' = spoiled
      BY <2>2 DEF chat
    <3>2. Heard' = Heard
      BY <3>1 DEF Heard, Sound, NumberOf, Whole, First, Line
    <3>3. Told' = Told
      BY <3>1, <3>2 DEF Told
    <3>4. Waiting' = Waiting
      BY <3>1, <3>3 DEF Waiting
    <3> QED
      BY <3>3, <3>4 DEF Promise!telling
  <2> QED
    BY <2>1, <2>2
<1> QED
  BY <1>1, <1>2, ChatInvariance, PTL DEF ChatSpec, TellsWhole, Promise!Spec

-----------------------------------------------------------------------------
(* The requests of administrators                                          *)

Refusable(msg) == msg.what \in {"run", "other"}

NoRefusable(s) == \A i \in 1..Len(s) : ~Refusable(s[i])
NoRefusal(s) == \A i \in 1..Len(s) : s[i].what # "refused"

\* While a command waits for its delay, nothing of its administrator that the
\* server may refuse is on its way, nor a refusal.
WaitsUndisturbed(a) ==
  command_to_send[a] # None => NoRefusable(to_server[a]) /\ NoRefusal(to_client[a])

\* What the server may refuse is the last thing sent, and what last_command
\* remembers of it; no other refusal is on its way.
RefusableIsLast(a) ==
  \A i \in 1..Len(to_server[a]) :
    Refusable(to_server[a][i]) =>
      /\ i = Len(to_server[a])
      /\ NoRefusal(to_client[a])
      /\ last_command[a] = Remembers(None, to_server[a][i])

\* A refusal on its way is the only one, and it is of last_command, or of
\* nothing that can be requested.
RefusalIsOfLast(a) ==
  /\ \A i, j \in 1..Len(to_client[a]) :
       to_client[a][i].what = "refused" /\ to_client[a][j].what = "refused" => i = j
  /\ ~NoRefusal(to_client[a]) => last_command[a] \in refused[a] \cup {None}

\* Every request that waits, or is on its way to the server, is of a command
\* that was refused.
AsksRefused(a) ==
  /\ \A i \in 1..Len(to_server[a]) :
       to_server[a][i].what = "ask" => to_server[a][i].command \in refused[a]
  /\ command_to_send[a] # None /\ command_to_send[a].what = "ask"
       => command_to_send[a].command \in refused[a]

Kept(a) == \A c \in owed[a] : command_to_send[a] = Run(c, None)

Served(a) ==
  /\ WaitsUndisturbed(a) /\ RefusableIsLast(a) /\ RefusalIsOfLast(a)
  /\ AsksRefused(a) /\ Kept(a)

IInv == TypeOK /\ \A a \in Admins : Served(a)

-----------------------------------------------------------------------------
(* Sequences                                                               *)

\* What a channel holds once its first message is handled
LEMMA TailAt ==
  ASSUME NEW S, NEW s \in Seq(S), s # <<>>
  PROVE  /\ Tail(s) \in Seq(S) /\ Head(s) \in S /\ Head(s) = s[1]
         /\ Len(s) \in Nat /\ Len(s) > 0 /\ Len(Tail(s)) = Len(s) - 1
         /\ \A i \in 1..Len(Tail(s)) : i + 1 \in 1..Len(s) /\ Tail(s)[i] = s[i + 1]
  OBVIOUS

\* ... and once one more is on its way
LEMMA AppendAt ==
  ASSUME NEW S, NEW s \in Seq(S), NEW e \in S
  PROVE  /\ Append(s, e) \in Seq(S)
         /\ Len(s) \in Nat /\ Len(Append(s, e)) = Len(s) + 1
         /\ \A i \in 1..Len(s) : Append(s, e)[i] = s[i]
         /\ Append(s, e)[Len(s) + 1] = e
  OBVIOUS

-----------------------------------------------------------------------------
(* Types                                                                   *)

\* What is sent is of the channel's type.
LEMMA SentTypes ==
  /\ \A c \in Commands, s \in Admins \cup {None} : Run(c, s) \in ToServer
  /\ \A c \in Commands : Ask(c) \in Delayed /\ Run(c, None) \in Delayed
  /\ \A r \in Requests : Accept(r) \in ToServer
  /\ Other \in ToServer
  /\ Delayed \subseteq ToServer
  BY DEF Run, Ask, Accept, Other, ToServer, Delayed, Requests

\* Sending keeps the types of what it changes.
LEMMA SendType ==
  ASSUME TypeOK, NEW a \in Admins, NEW msg \in ToServer, Send(a, msg)
  PROVE  /\ to_server' \in [Admins -> Seq(ToServer)]
         /\ last_command' \in [Admins -> Commands \cup {None}]
         /\ owed' \in [Admins -> SUBSET Commands]
<1>1. Append(to_server[a], msg) \in Seq(ToServer)
  BY DEF TypeOK
<1>2. msg.what \in {"run", "accept"} => msg.command \in Commands
  BY DEF ToServer
<1>3. Remembers(last_command[a], msg) \in Commands \cup {None}
  BY <1>2 DEF Remembers
<1>4. to_server' \in [Admins -> Seq(ToServer)]
  BY <1>1 DEF Send, TypeOK
<1>5. last_command' \in [Admins -> Commands \cup {None}]
  BY <1>3 DEF Send, TypeOK
<1>6. owed' \in [Admins -> SUBSET Commands]
  BY <1>2 DEF Send, TypeOK
<1> QED
  BY <1>4, <1>5, <1>6

\* So does receiving.
LEMMA ReceivedType ==
  ASSUME TypeOK, NEW a \in Admins, NEW what, Received(a, what)
  PROVE  /\ to_client' \in [Admins -> Seq(ToClient)]
         /\ to_client[a] # <<>> /\ Head(to_client[a]) \in ToClient
         /\ Head(to_client[a]).what = what
         /\ to_client' = [to_client EXCEPT ![a] = Tail(@)]
         /\ what # "refused" => Head(to_client[a]).of \in Requests
<1>1. to_client[a] \in Seq(ToClient) /\ to_client[a] # <<>>
  BY DEF TypeOK, Received
<1>2. Tail(to_client[a]) \in Seq(ToClient) /\ Head(to_client[a]) \in ToClient
  BY <1>1, TailAt
<1>3. to_client' \in [Admins -> Seq(ToClient)]
  BY <1>2 DEF TypeOK, Received
<1> QED
  BY <1>1, <1>2, <1>3 DEF Received, ToClient, Refusal

\* Who waits for nothing owes nothing.
LEMMA OwesNothing ==
  ASSUME TypeOK, NEW a \in Admins, Kept(a),
         command_to_send[a] = None \/ command_to_send[a].what = "ask"
  PROVE  owed[a] = {}
<1> SUFFICES ASSUME NEW c \in owed[a] PROVE FALSE
  OBVIOUS
<1>1. c \in Commands /\ command_to_send[a] = Run(c, None)
  BY DEF TypeOK, Kept
<1> QED
  BY <1>1, SentTypes, CommandRequesterAssumption DEF Run

-----------------------------------------------------------------------------
(* One administrator's part of a step                                      *)

\* Nothing that is kept about b is lost when messages to him are handled, or
\* arrive and are no refusals, and the server takes one of his.
LEMMA Undisturbed ==
  ASSUME TypeOK, NEW b \in Admins, Served(b),
         last_command'[b] = last_command[b],
         command_to_send'[b] = command_to_send[b],
         owed'[b] = owed[b], refused[b] \subseteq refused'[b],
         \/ to_server'[b] = to_server[b]
         \/ to_server[b] # <<>> /\ to_server'[b] = Tail(to_server[b]),
         \/ to_client'[b] = to_client[b]
         \/ to_client[b] # <<>> /\ to_client'[b] = Tail(to_client[b])
         \/ \E m \in ToClient :
              m.what # "refused" /\ to_client'[b] = Append(to_client[b], m)
  PROVE  Served(b)'
<1>1. to_server[b] \in Seq(ToServer) /\ to_client[b] \in Seq(ToClient)
  BY DEF TypeOK
<1>2. Len(to_server[b]) \in Nat /\ Len(to_client[b]) \in Nat
  BY <1>1
<1>3. PICK d \in Nat :
        /\ Len(to_server'[b]) = Len(to_server[b]) - d
        /\ \A i \in 1..Len(to_server'[b]) :
             i + d \in 1..Len(to_server[b]) /\ to_server'[b][i] = to_server[b][i + d]
  <2>1. CASE to_server'[b] = to_server[b]
    <3> WITNESS 0 \in Nat
    <3> QED BY <2>1, <1>2
  <2>2. CASE to_server[b] # <<>> /\ to_server'[b] = Tail(to_server[b])
    <3> WITNESS 1 \in Nat
    <3> QED BY <2>2, <1>1, TailAt
  <2> QED BY <2>1, <2>2
<1>4. PICK e \in Nat :
        \A i \in 1..Len(to_client'[b]) : to_client'[b][i].what = "refused" =>
          i + e \in 1..Len(to_client[b]) /\ to_client'[b][i] = to_client[b][i + e]
  <2>1. CASE to_client'[b] = to_client[b]
    <3> WITNESS 0 \in Nat
    <3> QED BY <2>1, <1>2
  <2>2. CASE to_client[b] # <<>> /\ to_client'[b] = Tail(to_client[b])
    <3> WITNESS 1 \in Nat
    <3> QED BY <2>2, <1>1, TailAt
  <2>3. ASSUME NEW m \in ToClient, m.what # "refused",
               to_client'[b] = Append(to_client[b], m)
        PROVE  \E e \in Nat :
                 \A i \in 1..Len(to_client'[b]) : to_client'[b][i].what = "refused" =>
                   i + e \in 1..Len(to_client[b]) /\ to_client'[b][i] = to_client[b][i + e]
    <3> WITNESS 0 \in Nat
    <3> QED BY <2>3, <1>1, <1>2, AppendAt
  <2> QED BY <2>1, <2>2, <2>3
<1>5. NoRefusal(to_client[b]) => NoRefusal(to_client'[b])
  BY <1>4 DEF NoRefusal
<1>6. NoRefusable(to_server[b]) => NoRefusable(to_server'[b])
  BY <1>3 DEF NoRefusable
<1>7. WaitsUndisturbed(b)'
  BY <1>5, <1>6 DEF Served, WaitsUndisturbed
<1>8. RefusableIsLast(b)'
  <2> SUFFICES ASSUME NEW i \in 1..Len(to_server'[b]), Refusable(to_server'[b][i])
               PROVE  /\ i = Len(to_server'[b])
                      /\ NoRefusal(to_client'[b])
                      /\ last_command'[b] = Remembers(None, to_server'[b][i])
    BY DEF RefusableIsLast
  <2> QED
    BY <1>2, <1>3, <1>5 DEF Served, RefusableIsLast
<1>9. RefusalIsOfLast(b)'
  <2>1. ASSUME NEW i \in 1..Len(to_client'[b]), NEW j \in 1..Len(to_client'[b]),
               to_client'[b][i].what = "refused", to_client'[b][j].what = "refused"
        PROVE  i = j
    <3>1. i + e = j + e
      BY <1>4, <2>1 DEF Served, RefusalIsOfLast
    <3> QED
      BY <3>1
  <2>2. ~NoRefusal(to_client'[b]) => last_command'[b] \in refused'[b] \cup {None}
    BY <1>5 DEF Served, RefusalIsOfLast
  <2> QED
    BY <2>1, <2>2 DEF RefusalIsOfLast
<1>10. AsksRefused(b)'
  BY <1>3 DEF Served, AsksRefused
<1>11. Kept(b)'
  BY DEF Served, Kept
<1> QED
  BY <1>7, <1>8, <1>9, <1>10, <1>11 DEF Served

\* The server refuses the last thing a sent, and it is a's only refusal.
LEMMA Refuses ==
  ASSUME TypeOK, NEW a \in Admins, Served(a), to_server[a] # <<>>,
         Refusable(Head(to_server[a])),
         Head(to_server[a]).what = "run"
           => Head(to_server[a]).command \in refused'[a],
         to_server'[a] = Tail(to_server[a]),
         to_client'[a] = Append(to_client[a], Refusal),
         last_command'[a] = last_command[a],
         command_to_send'[a] = command_to_send[a],
         owed'[a] = owed[a], refused[a] \subseteq refused'[a]
  PROVE  Served(a)'
<1>1. to_server[a] \in Seq(ToServer) /\ to_client[a] \in Seq(ToClient)
  BY DEF TypeOK
<1>2. 1 \in 1..Len(to_server[a]) /\ Head(to_server[a]) = to_server[a][1]
  BY <1>1, TailAt
<1>3. /\ Len(to_server[a]) = 1 /\ NoRefusal(to_client[a])
      /\ last_command[a] = Remembers(None, Head(to_server[a]))
      /\ command_to_send[a] = None
  BY <1>2 DEF Served, RefusableIsLast, WaitsUndisturbed, NoRefusable
<1>4. Len(to_server'[a]) = 0
  BY <1>1, <1>3, TailAt
<1>5. Refusal \in ToClient /\ Refusal.what = "refused"
  BY DEF ToClient, Refusal
<1>6. \A i \in 1..Len(to_client'[a]) :
        to_client'[a][i].what = "refused" => i = Len(to_client[a]) + 1
  BY <1>1, <1>3, <1>5, AppendAt DEF NoRefusal
<1>7. last_command'[a] \in refused'[a] \cup {None}
  BY <1>3 DEF Remembers
<1>8. RefusalIsOfLast(a)'
  BY <1>6, <1>7 DEF RefusalIsOfLast
<1>9. WaitsUndisturbed(a)' /\ RefusableIsLast(a)' /\ AsksRefused(a)' /\ Kept(a)'
  BY <1>3, <1>4
  DEF Served, WaitsUndisturbed, RefusableIsLast, AsksRefused, Kept
<1> QED
  BY <1>8, <1>9 DEF Served

\* What a patient administrator sends is alone on its way; an acceptance leaves
\* its command waiting, and nothing else does.
LEMMA SendsAnew ==
  ASSUME TypeOK, NEW a \in Admins, Served(a), Done(a),
         NEW msg \in ToServer, msg.what # "ask", Send(a, msg),
         command_to_send'[a] =
           IF msg.what = "accept" THEN Run(msg.command, None) ELSE None,
         to_client'[a] = to_client[a], refused'[a] = refused[a]
  PROVE  Served(a)'
<1>1. to_server[a] = <<>> /\ command_to_send[a] = None /\ NoRefusal(to_client[a])
  BY DEF Done, NoRefusal, TypeOK
<1>2. to_server'[a] = Append(to_server[a], msg)
  BY DEF Send, TypeOK
<1>3. Len(to_server'[a]) = 1 /\ to_server'[a][1] = msg
  BY <1>1, <1>2
<1>4. last_command'[a] = Remembers(None, msg)
  BY DEF Send, TypeOK, Remembers
<1>5. owed[a] = {}
  BY <1>1, OwesNothing DEF Served
<1>6. owed'[a] = IF msg.what = "accept" THEN {msg.command} ELSE {}
  BY <1>5 DEF Send, TypeOK
<1>7. msg.what = "accept" => ~Refusable(msg)
  BY DEF Refusable
<1>8. WaitsUndisturbed(a)'
  BY <1>1, <1>3, <1>7 DEF WaitsUndisturbed, NoRefusable
<1>9. RefusableIsLast(a)' /\ RefusalIsOfLast(a)'
  BY <1>1, <1>3, <1>4 DEF RefusableIsLast, RefusalIsOfLast, NoRefusal
<1>10. AsksRefused(a)'
  BY <1>3 DEF AsksRefused, Run
<1>11. Kept(a)'
  BY <1>6 DEF Kept
<1> QED
  BY <1>8, <1>9, <1>10, <1>11 DEF Served

\* What has waited for its delay leaves undisturbed, and is no longer owed.
LEMMA SendsDelayed ==
  ASSUME TypeOK, NEW a \in Admins, Served(a), command_to_send[a] # None,
         Send(a, command_to_send[a]), command_to_send'[a] = None,
         to_client'[a] = to_client[a], refused'[a] = refused[a]
  PROVE  Served(a)'
<1> DEFINE msg == command_to_send[a]
<1>1. msg \in ToServer /\ msg.what \in {"run", "ask"}
  BY SentTypes DEF TypeOK, Delayed
<1>2. NoRefusable(to_server[a]) /\ NoRefusal(to_client[a])
  BY DEF Served, WaitsUndisturbed
<1>3. to_server[a] \in Seq(ToServer) /\ to_server'[a] = Append(to_server[a], msg)
  BY DEF Send, TypeOK
<1>4. /\ Len(to_server[a]) \in Nat /\ Len(to_server'[a]) = Len(to_server[a]) + 1
      /\ \A i \in 1..Len(to_server[a]) : to_server'[a][i] = to_server[a][i]
      /\ to_server'[a][Len(to_server[a]) + 1] = msg
  BY <1>1, <1>3, AppendAt
<1>5. last_command'[a] = Remembers(None, msg)
  BY DEF Send, TypeOK, Remembers
<1>6. owed'[a] = {}
  <2>1. CASE msg.what = "ask"
    BY <2>1, OwesNothing DEF Send, TypeOK, Served
  <2>2. CASE msg.what = "run"
    <3>1. ASSUME NEW c \in owed[a] PROVE c = msg.command
      <4>1. msg = Run(c, None)
        BY DEF Served, Kept
      <4> QED
        BY <4>1 DEF Run
    <3> QED
      BY <2>2, <3>1 DEF Send, TypeOK
  <2> QED
    BY <1>1, <2>1, <2>2
<1>7. RefusableIsLast(a)'
  BY <1>2, <1>4, <1>5 DEF RefusableIsLast, NoRefusable
<1>8. RefusalIsOfLast(a)'
  BY <1>2 DEF RefusalIsOfLast, NoRefusal
<1>9. AsksRefused(a)'
  BY <1>4 DEF Served, AsksRefused
<1>10. WaitsUndisturbed(a)' /\ Kept(a)'
  BY <1>6 DEF WaitsUndisturbed, Kept
<1> QED
  BY <1>7, <1>8, <1>9, <1>10 DEF Served

\* A refusal makes a request wait only of what was refused, with nothing else
\* under way.
LEMMA RequestsRefused ==
  ASSUME TypeOK, NEW a \in Admins, Served(a), Received(a, "refused"),
         last_command[a] # None,
         command_to_send'[a] = Ask(last_command[a]), last_command'[a] = None,
         to_server'[a] = to_server[a], refused'[a] = refused[a],
         owed'[a] = owed[a]
  PROVE  Served(a)'
<1>1. /\ to_client[a] \in Seq(ToClient) /\ to_client[a] # <<>>
      /\ Head(to_client[a]).what = "refused"
      /\ to_client'[a] = Tail(to_client[a])
  BY DEF TypeOK, Received
<1>2. 1 \in 1..Len(to_client[a]) /\ to_client[a][1].what = "refused"
  BY <1>1, TailAt
<1>3. command_to_send[a] = None /\ last_command[a] \in refused[a]
  BY <1>2 DEF Served, WaitsUndisturbed, RefusalIsOfLast, NoRefusal
<1>4. NoRefusal(to_client'[a])
  <2> SUFFICES ASSUME NEW i \in 1..Len(to_client'[a]),
                      to_client'[a][i].what = "refused"
               PROVE  FALSE
    BY DEF NoRefusal
  <2>1. i + 1 \in 1..Len(to_client[a]) /\ to_client[a][i + 1].what = "refused"
    BY <1>1, TailAt
  <2>2. i + 1 = 1
    BY <1>2, <2>1 DEF Served, RefusalIsOfLast
  <2> QED
    BY <2>2
<1>5. NoRefusable(to_server[a])
  BY <1>2 DEF Served, RefusableIsLast, NoRefusable, NoRefusal
<1>6. owed[a] = {}
  BY <1>3, OwesNothing DEF Served
<1>7. WaitsUndisturbed(a)' /\ RefusalIsOfLast(a)'
  BY <1>4, <1>5 DEF WaitsUndisturbed, RefusalIsOfLast, NoRefusal
<1>8. RefusableIsLast(a)'
  BY <1>5 DEF RefusableIsLast, NoRefusable
<1>9. AsksRefused(a)'
  BY <1>3 DEF Served, AsksRefused, Ask
<1>10. Kept(a)'
  BY <1>6 DEF Kept
<1> QED
  BY <1>7, <1>8, <1>9, <1>10 DEF Served

-----------------------------------------------------------------------------
(* The server                                                              *)

\* A step of the server tells nobody anything, everybody something, or refuses
\* what it took from a.
LEMMA ServerSays ==
  ASSUME TypeOK, NEW a \in Admins, ServerStep(a)
  PROVE  /\ taken' \subseteq Requests
         /\ refused' \in [Admins -> SUBSET Commands]
         /\ \A b \in Admins : refused[b] \subseteq refused'[b]
         /\ \/ to_client' = to_client
            \/ \E m \in ToClient :
                 /\ m.what # "refused"
                 /\ to_client' = [b \in Admins |-> Append(to_client[b], m)]
            \/ /\ Refusable(Head(to_server[a]))
               /\ Head(to_server[a]).what = "run"
                    => Head(to_server[a]).command \in refused'[a]
               /\ to_client' = [to_client EXCEPT ![a] = Append(@, Refusal)]
<1> DEFINE msg == Head(to_server[a])
<1>1. msg \in ToServer
  BY TailAt DEF TypeOK, ServerStep
<1>2. ASSUME NEW what \in {"request", "taken"}, NEW s \in Admins, NEW c \in Commands,
             TellAll(what, s, c)
      PROVE  \E m \in ToClient :
               /\ m.what # "refused"
               /\ to_client' = [b \in Admins |-> Append(to_client[b], m)]
  <2> DEFINE m == [what |-> what, of |-> [sender |-> s, command |-> c]]
  <2>1. m \in ToClient /\ m.what # "refused"
    BY DEF ToClient, Requests
  <2> QED
    BY <1>2, <2>1 DEF TellAll
<1>3. CASE ServerRuns(a, msg)
  <2>1. msg.what = "run" /\ msg.command \in Commands /\ msg.for \in Admins \cup {None}
    BY <1>1, <1>3 DEF ServerRuns, ToServer
  <2>2. CASE msg.command \notin CanUse[a]
    <3>1. refused' = [refused EXCEPT ![a] = @ \cup {msg.command}] /\ taken' = taken
      BY <1>3, <2>2 DEF ServerRuns
    <3>2. to_client' = [to_client EXCEPT ![a] = Append(@, Refusal)]
      BY <1>3, <2>2 DEF ServerRuns, Tell
    <3> QED
      BY <2>1, <3>1, <3>2 DEF TypeOK, Refusable
  <2>3. CASE /\ msg.command \in CanUse[a]
             /\ TypeOf[msg.command] = "reason" /\ msg.for # None
    <3>1. /\ TellAll("taken", msg.for, msg.command)
          /\ taken' = taken \cup {[sender |-> msg.for, command |-> msg.command]}
          /\ refused' = refused
      BY <1>3, <2>3 DEF ServerRuns
    <3> QED
      BY <1>2, <2>1, <2>3, <3>1 DEF TypeOK, Requests
  <2>4. CASE /\ msg.command \in CanUse[a]
             /\ ~(TypeOf[msg.command] = "reason" /\ msg.for # None)
    BY <1>3, <2>4 DEF ServerRuns, TypeOK
  <2> QED
    BY <2>2, <2>3, <2>4
<1>4. CASE ServerAsks(a, msg)
  <2>1. msg.command \in Commands
    BY <1>1, <1>4 DEF ServerAsks, ToServer
  <2> QED
    BY <1>2, <1>4, <2>1 DEF ServerAsks, TypeOK
<1>5. CASE ServerAccepts(a, msg)
  <2>1. msg.command \in Commands /\ msg.for \in Admins
    BY <1>1, <1>5 DEF ServerAccepts, ToServer
  <2> QED
    BY <1>2, <1>5, <2>1 DEF ServerAccepts, TypeOK, Requests
<1>6. CASE ServerOther(a, msg)
  BY <1>6 DEF ServerOther, Tell, TypeOK, Refusable
<1> QED
  BY <1>3, <1>4, <1>5, <1>6 DEF ServerStep

-----------------------------------------------------------------------------
(* Type correctness                                                        *)

\* Every handler, render, every act of an administrator and every step of the
\* server keeps the types.
LEMMA TypeStep ==
  ASSUME TypeOK, Next
  PROVE  TypeOK'
<1>1. ASSUME NEW a \in Admins, NEW connected \in BOOLEAN, OnRefused(a, connected)
      PROVE  TypeOK'
  <2>1. to_client' \in [Admins -> Seq(ToClient)]
    BY <1>1, ReceivedType DEF OnRefused
  <2>2. CASE connected /\ last_command[a] # None
    <3>1. Ask(last_command[a]) \in Delayed
      BY <2>2, SentTypes DEF TypeOK
    <3> QED
      BY <1>1, <2>1, <2>2, <3>1 DEF OnRefused, TypeOK
  <2>3. CASE ~(connected /\ last_command[a] # None)
    BY <1>1, <2>1, <2>3 DEF OnRefused, TypeOK
  <2> QED
    BY <2>2, <2>3
<1>2. ASSUME NEW a \in Admins, NEW connected \in BOOLEAN, OnRequest(a, connected)
      PROVE  TypeOK'
  <2>1. Received(a, "request")
    BY <1>2 DEF OnRequest
  <2>2. to_client' \in [Admins -> Seq(ToClient)] /\ Head(to_client[a]).of \in Requests
    BY <2>1, ReceivedType
  <2> QED
    BY <1>2, <2>2 DEF OnRequest, TypeOK
<1>3. ASSUME NEW a \in Admins, OnTaken(a)
      PROVE  TypeOK'
  <2>1. to_client' \in [Admins -> Seq(ToClient)]
    BY <1>3, ReceivedType DEF OnTaken
  <2> QED
    BY <1>3, <2>1 DEF OnTaken, TypeOK
<1>4. ASSUME NEW a \in Admins, ApproveRequest(a)
      PROVE  TypeOK'
  <2> DEFINE r == current_request[a]
  <2>1. r \in Requests /\ r.command \in Commands /\ r.sender \in Admins
    BY <1>4 DEF ApproveRequest, TypeOK, Requests
  <2>2. CASE ApproveReason(a)
    BY <1>4, <2>1, <2>2, SentTypes, SendType DEF ApproveRequest, ApproveReason, TypeOK
  <2>3. CASE ApproveOther(a)
    BY <1>4, <2>1, <2>3, SentTypes, SendType DEF ApproveRequest, ApproveOther, TypeOK
  <2> QED
    BY <1>4, <2>2, <2>3 DEF ApproveRequest
<1>5. ASSUME NEW a \in Admins, ServerStep(a)
      PROVE  TypeOK'
  <2>1. to_server' \in [Admins -> Seq(ToServer)]
    BY <1>5, TailAt DEF ServerStep, TypeOK
  <2>2. Refusal \in ToClient
    BY DEF ToClient
  <2>3. \A b \in Admins, m \in ToClient : Append(to_client[b], m) \in Seq(ToClient)
    BY DEF TypeOK
  <2>4. to_client' \in [Admins -> Seq(ToClient)]
    <3>1. CASE to_client' = to_client
      BY <3>1 DEF TypeOK
    <3>2. ASSUME NEW m \in ToClient,
                 to_client' = [b \in Admins |-> Append(to_client[b], m)]
          PROVE  to_client' \in [Admins -> Seq(ToClient)]
      BY <2>3, <3>2
    <3>3. CASE to_client' = [to_client EXCEPT ![a] = Append(@, Refusal)]
      BY <2>2, <2>3, <3>3 DEF TypeOK
    <3> QED
      BY <1>5, <3>1, <3>2, <3>3, ServerSays
  <2> QED
    BY <1>5, <2>1, <2>4, ServerSays DEF ServerStep, TypeOK
<1>6. ASSUME NEW a \in Admins, NEW due \in BOOLEAN, NEW expired \in BOOLEAN,
             Render(a, due, expired)
      PROVE  TypeOK'
  <2>1. CASE due /\ command_to_send[a] # None
    <3>1. command_to_send[a] \in ToServer
      BY <2>1, SentTypes DEF TypeOK
    <3> QED
      BY <1>6, <2>1, <3>1, SendType DEF Render, TypeOK
  <2>2. CASE ~(due /\ command_to_send[a] # None)
    BY <1>6, <2>2 DEF Render, TypeOK
  <2> QED
    BY <2>1, <2>2
<1>7. ASSUME NEW a \in Admins, NEW msg \in ToServer, TypesCommand(a, msg)
      PROVE  TypeOK'
  BY <1>7, SendType DEF TypesCommand, TypeOK
<1> QED
  BY <1>1, <1>2, <1>3, <1>4, <1>5, <1>6, <1>7, SentTypes DEF Next

\* What travels, waits and is on offer is what the code can make: a request on
\* offer is always of a command of the table, whatever else is sent.
THEOREM TypeCorrect == Spec => []TypeOK
<1>1. Init => TypeOK
  BY DEF Init, TypeOK
<1>2. TypeOK /\ [Next]_vars => TypeOK'
  <2>1. ASSUME TypeOK, UNCHANGED vars PROVE TypeOK'
    BY <2>1 DEF vars, TypeOK
  <2> QED
    BY <2>1, TypeStep
<1> QED
  BY <1>1, <1>2, PTL DEF Spec

-----------------------------------------------------------------------------
(* Patient administrators                                                  *)

\* Every step of one administrator's plugin, of himself, and of the server
\* about him serves all of them, if they are patient.
LEMMA ServedStep ==
  ASSUME Patient, IInv, Next
  PROVE  \A b \in Admins : Served(b)'
<1> USE DEF IInv
<1>1. ASSUME NEW a \in Admins, NEW connected \in BOOLEAN, OnRefused(a, connected),
             NEW b \in Admins
      PROVE  Served(b)'
  <2> USE <1>1 DEF OnRefused
  <2>1. to_client[a] # <<>> /\ to_client' = [to_client EXCEPT ![a] = Tail(@)]
    BY DEF Received
  <2>2. CASE connected /\ last_command[a] # None
    <3>1. CASE b = a
      BY <2>2, <3>1, RequestsRefused DEF TypeOK
    <3>2. CASE b # a
      BY <2>1, <2>2, <3>2, Undisturbed DEF TypeOK
    <3> QED
      BY <3>1, <3>2
  <2>3. CASE ~(connected /\ last_command[a] # None)
    BY <2>1, <2>3, Undisturbed DEF TypeOK
  <2> QED
    BY <2>2, <2>3
<1>2. ASSUME NEW a \in Admins, NEW connected \in BOOLEAN, OnRequest(a, connected),
             NEW b \in Admins
      PROVE  Served(b)'
  BY <1>2, Undisturbed DEF OnRequest, Received, TypeOK
<1>3. ASSUME NEW a \in Admins, OnTaken(a), NEW b \in Admins
      PROVE  Served(b)'
  BY <1>3, Undisturbed DEF OnTaken, Received, TypeOK
<1>4. ASSUME NEW a \in Admins, ApproveRequest(a), NEW b \in Admins
      PROVE  Served(b)'
  <2> DEFINE r == current_request[a]
  <2>1. r \in Requests /\ r.command \in Commands /\ r.sender \in Admins
    BY <1>4 DEF ApproveRequest, TypeOK, Requests
  <2>2. Done(a) /\ command_to_send[a] = None
    BY <1>4 DEF ApproveRequest, MayAct, Done
  <2>3. to_client' = to_client /\ refused' = refused
    BY <1>4 DEF ApproveRequest
  <2>4. CASE ApproveReason(a)
    <3> DEFINE msg == Run(r.command, r.sender)
    <3>1. Send(a, msg) /\ command_to_send' = command_to_send
      BY <2>4 DEF ApproveReason
    <3>2. msg \in ToServer /\ msg.what = "run"
      BY <2>1, SentTypes DEF Run
    <3>3. CASE b = a
      BY <2>2, <2>3, <3>1, <3>2, <3>3, SendsAnew
    <3>4. CASE b # a
      BY <2>3, <3>1, <3>4, Undisturbed DEF Send, TypeOK
    <3> QED
      BY <3>3, <3>4
  <2>5. CASE ApproveOther(a)
    <3> DEFINE msg == Accept(r)
    <3>1. /\ Send(a, msg)
          /\ command_to_send' = [command_to_send EXCEPT ![a] = Run(r.command, None)]
      BY <2>5 DEF ApproveOther
    <3>2. msg \in ToServer /\ msg.what = "accept" /\ msg.command = r.command
      BY <2>1, SentTypes DEF Accept
    <3>3. CASE b = a
      <4>1. command_to_send'[a] = Run(msg.command, None)
        BY <3>1, <3>2 DEF TypeOK
      <4> QED
        BY <2>2, <2>3, <3>1, <3>2, <3>3, <4>1, SendsAnew
    <3>4. CASE b # a
      BY <2>3, <3>1, <3>4, Undisturbed DEF Send, TypeOK
    <3> QED
      BY <3>3, <3>4
  <2> QED
    BY <1>4, <2>4, <2>5 DEF ApproveRequest
<1>5. ASSUME NEW a \in Admins, ServerStep(a), NEW b \in Admins
      PROVE  Served(b)'
  <2>1. /\ to_server[a] # <<>>
        /\ to_server' = [to_server EXCEPT ![a] = Tail(@)]
        /\ UNCHANGED <<last_command, command_to_send, owed>>
        /\ refused[b] \subseteq refused'[b]
    BY <1>5, ServerSays DEF ServerStep
  <2>2. /\ to_server'[a] = Tail(to_server[a])
        /\ b # a => to_server'[b] = to_server[b]
    BY <2>1 DEF TypeOK
  <2>3. CASE to_client' = to_client
    BY <2>1, <2>2, <2>3, Undisturbed
  <2>4. ASSUME NEW m \in ToClient, m.what # "refused",
               to_client' = [d \in Admins |-> Append(to_client[d], m)]
        PROVE  Served(b)'
    <3>1. to_client'[b] = Append(to_client[b], m)
      BY <2>4
    <3> QED
      BY <2>1, <2>2, <2>4, <3>1, Undisturbed
  <2>5. CASE /\ Refusable(Head(to_server[a]))
             /\ Head(to_server[a]).what = "run"
                  => Head(to_server[a]).command \in refused'[a]
             /\ to_client' = [to_client EXCEPT ![a] = Append(@, Refusal)]
    <3>1. CASE b = a
      <4>1. to_client'[a] = Append(to_client[a], Refusal)
        BY <2>5 DEF TypeOK
      <4> QED
        BY <2>1, <2>2, <2>5, <3>1, <4>1, Refuses
    <3>2. CASE b # a
      <4>1. to_client'[b] = to_client[b]
        BY <2>5, <3>2 DEF TypeOK
      <4> QED
        BY <2>1, <2>2, <4>1, Undisturbed
    <3> QED
      BY <3>1, <3>2
  <2> QED
    BY <1>5, <2>3, <2>4, <2>5, ServerSays
<1>6. ASSUME NEW a \in Admins, NEW due \in BOOLEAN, NEW expired \in BOOLEAN,
             Render(a, due, expired), NEW b \in Admins
      PROVE  Served(b)'
  <2>1. to_client' = to_client /\ refused' = refused
    BY <1>6 DEF Render
  <2>2. CASE due /\ command_to_send[a] # None
    <3>1. /\ Send(a, command_to_send[a])
          /\ command_to_send' = [command_to_send EXCEPT ![a] = None]
      BY <1>6, <2>2 DEF Render
    <3>2. CASE b = a
      BY <2>1, <2>2, <3>1, <3>2, SendsDelayed DEF TypeOK
    <3>3. CASE b # a
      BY <2>1, <3>1, <3>3, Undisturbed DEF Send, TypeOK
    <3> QED
      BY <3>2, <3>3
  <2>3. CASE ~(due /\ command_to_send[a] # None)
    BY <1>6, <2>1, <2>3, Undisturbed DEF Render
  <2> QED
    BY <2>2, <2>3
<1>7. ASSUME NEW a \in Admins, NEW msg \in ToServer, msg.what \in {"run", "other"},
             TypesCommand(a, msg), NEW b \in Admins
      PROVE  Served(b)'
  <2>1. /\ Send(a, msg) /\ Done(a)
        /\ UNCHANGED <<command_to_send, to_client, refused>>
    BY <1>7 DEF TypesCommand, MayAct
  <2>2. CASE b = a
    BY <1>7, <2>1, <2>2, SendsAnew DEF Done
  <2>3. CASE b # a
    BY <2>1, <2>3, Undisturbed DEF Send, TypeOK
  <2> QED
    BY <2>2, <2>3
<1>8. /\ \A c \in Commands : Run(c, None).what = "run"
      /\ Other.what = "other"
  BY DEF Run, Other
<1> QED
  BY <1>1, <1>2, <1>3, <1>4, <1>5, <1>6, <1>7, <1>8, SentTypes DEF Next

\* IInv holds from the start, and every step keeps it.
LEMMA Inductive == Patient => (Spec => []IInv)
<1> SUFFICES ASSUME Patient PROVE Spec => []IInv
  OBVIOUS
<1>1. Init => IInv
  BY DEF Init, IInv, TypeOK, Served, WaitsUndisturbed, RefusableIsLast,
     RefusalIsOfLast, AsksRefused, Kept, NoRefusable, NoRefusal
<1>2. IInv /\ [Next]_vars => IInv'
  <2>1. ASSUME IInv, Next PROVE IInv'
    BY <2>1, TypeStep, ServedStep DEF IInv
  <2>2. ASSUME IInv, UNCHANGED vars PROVE IInv'
    BY <2>2 DEF vars, IInv, TypeOK, Served, WaitsUndisturbed, RefusableIsLast,
       RefusalIsOfLast, AsksRefused, Kept, NoRefusable, NoRefusal
  <2> QED
    BY <2>1, <2>2
<1> QED
  BY <1>1, <1>2, PTL DEF Spec

\* A plugin puts to the chat only commands that the server refused, as long as
\* the administrator waits for the answer to his last command.
THEOREM RequestsAreRefusals == Patient => (Spec => []AsksOnlyRefused)
<1> SUFFICES ASSUME Patient PROVE Spec => []AsksOnlyRefused
  OBVIOUS
<1>1. IInv => AsksOnlyRefused
  <2> SUFFICES ASSUME IInv, NEW a \in Admins,
                      NEW msg \in ToSet(to_server[a]) \cup ({command_to_send[a]} \ {None}),
                      msg.what = "ask"
               PROVE  msg.command \in refused[a]
    BY DEF AsksOnlyRefused
  <2>1. AsksRefused(a)
    BY DEF IInv, Served
  <2>2. DOMAIN to_server[a] = 1..Len(to_server[a])
    BY DEF IInv, TypeOK
  <2> QED
    BY <2>1, <2>2 DEF AsksRefused, ToSet
<1> QED
  BY <1>1, Inductive, PTL

\* Who announced in the chat that he takes a request runs its command: nothing
\* overwrites it before its delay is over, as long as he does nothing else.
THEOREM AnnouncementsAreKept == Patient => (Spec => []AnnouncedIsKept)
<1> SUFFICES ASSUME Patient PROVE Spec => []AnnouncedIsKept
  OBVIOUS
<1>1. IInv => AnnouncedIsKept
  BY DEF IInv, Served, Kept, AnnouncedIsKept
<1> QED
  BY <1>1, Inductive, PTL

-----------------------------------------------------------------------------
(* What was taken                                                          *)

\* A message that withdraws r, in s from its i-th on
WithdrawnFrom(s, i, r) ==
  \E j \in i..Len(s) : s[j].what = "taken" /\ Withdrawn(r, s[j].of)

\* The strengthening of TakenIsWithdrawn: a request that was taken is on offer,
\* or on its way, only with a message behind it that withdraws it.
WithdrawalFollows(a) ==
  \A r \in taken :
    /\ current_request[a] = r => WithdrawnFrom(to_client[a], 1, r)
    /\ \A i \in 1..Len(to_client[a]) :
         to_client[a][i] = [what |-> "request", of |-> r]
           => WithdrawnFrom(to_client[a], i, r)

TInv == TypeOK /\ \A a \in Admins : WithdrawalFollows(a)

LEMMA AppendWithdraws ==
  ASSUME NEW S, NEW s \in Seq(S), NEW m \in S, NEW i \in Nat \ {0}, NEW r
  PROVE  /\ WithdrawnFrom(s, i, r) => WithdrawnFrom(Append(s, m), i, r)
         /\ i <= Len(s) + 1 /\ m.what = "taken" /\ Withdrawn(r, m.of)
              => WithdrawnFrom(Append(s, m), i, r)
<1>1. ASSUME NEW j \in i..Len(s), s[j].what = "taken", Withdrawn(r, s[j].of)
      PROVE  WithdrawnFrom(Append(s, m), i, r)
  <2>1. j \in i..Len(Append(s, m)) /\ Append(s, m)[j] = s[j]
    BY <1>1, AppendAt
  <2> QED
    BY <1>1, <2>1 DEF WithdrawnFrom
<1>2. ASSUME i <= Len(s) + 1, m.what = "taken", Withdrawn(r, m.of)
      PROVE  WithdrawnFrom(Append(s, m), i, r)
  <2>1. Len(s) + 1 \in i..Len(Append(s, m)) /\ Append(s, m)[Len(s) + 1] = m
    BY <1>2, AppendAt
  <2> QED
    BY <1>2, <2>1 DEF WithdrawnFrom
<1> QED
  BY <1>1, <1>2 DEF WithdrawnFrom

\* What follows the first message follows it in the rest.
LEMMA TailWithdraws ==
  ASSUME NEW S, NEW s \in Seq(S), s # <<>>, NEW i \in Nat \ {0}, NEW r,
         WithdrawnFrom(s, i, r),
         i > 1 \/ ~(s[1].what = "taken" /\ Withdrawn(r, s[1].of))
  PROVE  /\ WithdrawnFrom(Tail(s), 1, r)
         /\ i > 1 => WithdrawnFrom(Tail(s), i - 1, r)
<1>1. PICK j \in i..Len(s) : s[j].what = "taken" /\ Withdrawn(r, s[j].of)
  BY DEF WithdrawnFrom
<1>2. j > 1 /\ j - 1 \in 1..Len(Tail(s)) /\ Tail(s)[j - 1] = s[j]
  BY <1>1, TailAt
<1>3. i > 1 => j - 1 \in (i - 1)..Len(Tail(s))
  BY <1>1, <1>2, TailAt
<1> QED
  BY <1>1, <1>2, <1>3 DEF WithdrawnFrom

\* The handlers: what they take from the channel is offered, withdrawn or
\* neither.
LEMMA HandlingWithdraws ==
  ASSUME TypeOK, NEW b \in Admins, WithdrawalFollows(b), to_client[b] # <<>>,
         to_client'[b] = Tail(to_client[b]), taken' = taken,
         \/ /\ current_request'[b] = current_request[b]
            /\ Head(to_client[b]).what = "taken"
                 => ~Withdrawn(current_request[b], Head(to_client[b]).of)
         \/ current_request'[b] = None
         \/ Head(to_client[b]) = [what |-> "request", of |-> current_request'[b]]
  PROVE  WithdrawalFollows(b)'
<1> DEFINE s == to_client[b]
<1>1. s \in Seq(ToClient) /\ s # <<>> /\ Head(s) = s[1] /\ 1 \in 1..Len(s)
  BY TailAt DEF TypeOK
<1> SUFFICES ASSUME NEW r \in taken
             PROVE  /\ current_request'[b] = r => WithdrawnFrom(Tail(s), 1, r)
                    /\ \A i \in 1..Len(Tail(s)) :
                         Tail(s)[i] = [what |-> "request", of |-> r]
                           => WithdrawnFrom(Tail(s), i, r)
  BY DEF WithdrawalFollows, WithdrawnFrom
<1>2. r # None
  BY CommandRequesterAssumption DEF TypeOK
<1>3. ASSUME NEW i \in 1..Len(Tail(s)), Tail(s)[i] = [what |-> "request", of |-> r]
      PROVE  WithdrawnFrom(Tail(s), i, r)
  <2>1. i + 1 \in 1..Len(s) /\ s[i + 1] = Tail(s)[i] /\ i \in Nat \ {0}
    BY <1>1, TailAt
  <2>2. WithdrawnFrom(s, i + 1, r)
    BY <1>3, <2>1 DEF WithdrawalFollows
  <2>3. i + 1 \in Nat \ {0} /\ i + 1 > 1 /\ (i + 1) - 1 = i
    BY <2>1
  <2>4. WithdrawnFrom(Tail(s), (i + 1) - 1, r)
    BY <1>1, <2>2, <2>3, TailWithdraws
  <2> QED
    BY <2>3, <2>4
<1>4. ASSUME current_request'[b] = r PROVE WithdrawnFrom(Tail(s), 1, r)
  <2>1. CASE /\ current_request'[b] = current_request[b]
             /\ s[1].what = "taken" => ~Withdrawn(current_request[b], s[1].of)
    <3>1. WithdrawnFrom(s, 1, r)
      BY <1>4, <2>1 DEF WithdrawalFollows
    <3> QED
      BY <1>1, <1>4, <2>1, <3>1, TailWithdraws
  <2>2. CASE s[1] = [what |-> "request", of |-> current_request'[b]]
    <3>1. WithdrawnFrom(s, 1, r) /\ s[1].what # "taken"
      BY <1>1, <1>4, <2>2 DEF WithdrawalFollows
    <3> QED
      BY <1>1, <3>1, TailWithdraws
  <2> QED
    BY <1>1, <1>2, <1>4, <2>1, <2>2
<1> QED
  BY <1>3, <1>4

\* The server: one more message is on its way, which withdraws what it makes
\* taken, and requests nothing that is.
LEMMA TellingWithdraws ==
  ASSUME TypeOK, NEW b \in Admins, WithdrawalFollows(b), NEW m \in ToClient,
         to_client'[b] = Append(to_client[b], m),
         current_request'[b] = current_request[b],
         \A r \in taken' :
           \/ r \in taken /\ m # [what |-> "request", of |-> r]
           \/ m.what = "taken" /\ Withdrawn(r, m.of)
  PROVE  WithdrawalFollows(b)'
<1> DEFINE s == to_client[b]
<1>1. s \in Seq(ToClient) /\ Len(s) \in Nat
  BY DEF TypeOK
<1> SUFFICES ASSUME NEW r \in taken'
             PROVE  /\ current_request[b] = r => WithdrawnFrom(Append(s, m), 1, r)
                    /\ \A i \in 1..Len(Append(s, m)) :
                         Append(s, m)[i] = [what |-> "request", of |-> r]
                           => WithdrawnFrom(Append(s, m), i, r)
  BY DEF WithdrawalFollows, WithdrawnFrom
<1>2. CASE m.what = "taken" /\ Withdrawn(r, m.of)
  BY <1>1, <1>2, AppendAt, AppendWithdraws
<1>3. CASE r \in taken /\ m # [what |-> "request", of |-> r]
  <2>1. ASSUME current_request[b] = r PROVE WithdrawnFrom(Append(s, m), 1, r)
    <3>1. WithdrawnFrom(s, 1, r)
      BY <1>3, <2>1 DEF WithdrawalFollows
    <3>2. 1 \in Nat \ {0}
      OBVIOUS
    <3> QED
      BY <1>1, <3>1, <3>2, AppendWithdraws
  <2>2. ASSUME NEW i \in 1..Len(Append(s, m)),
               Append(s, m)[i] = [what |-> "request", of |-> r]
        PROVE  WithdrawnFrom(Append(s, m), i, r)
    <3>1. i \in 1..Len(s) /\ s[i] = Append(s, m)[i] /\ i \in Nat
      BY <1>1, <1>3, <2>2, AppendAt
    <3> QED
      BY <1>1, <1>3, <2>2, <3>1, AppendWithdraws DEF WithdrawalFollows
  <2> QED
    BY <2>1, <2>2
<1> QED
  BY <1>2, <1>3

\* Where neither the channel nor what is taken changes, a request may only go.
LEMMA QuietWithdraws ==
  ASSUME NEW b \in Admins, WithdrawalFollows(b), TypeOK,
         to_client'[b] = to_client[b], taken' = taken,
         current_request'[b] \in {current_request[b], None}
  PROVE  WithdrawalFollows(b)'
<1>1. None \notin taken
  BY CommandRequesterAssumption DEF TypeOK
<1> QED
  BY <1>1 DEF WithdrawalFollows, WithdrawnFrom

\* Every step keeps what follows a taken request behind it, for all.
LEMMA WithdrawalStep ==
  ASSUME TInv, Next
  PROVE  \A b \in Admins : WithdrawalFollows(b)'
<1> USE DEF TInv
<1>1. ASSUME NEW a \in Admins, NEW connected \in BOOLEAN, NEW b \in Admins,
             OnRefused(a, connected) \/ OnRequest(a, connected) \/ OnTaken(a)
      PROVE  WithdrawalFollows(b)'
  <2> DEFINE head == Head(to_client[a])
  <2>1. /\ to_client[a] # <<>> /\ head \in ToClient
        /\ to_client' = [to_client EXCEPT ![a] = Tail(@)] /\ taken' = taken
    BY <1>1, ReceivedType DEF OnRefused, OnRequest, OnTaken
  <2>2. CASE b # a
    <3>1. current_request'[b] = current_request[b]
      BY <1>1, <2>2 DEF OnRefused, OnRequest, OnTaken, TypeOK
    <3> QED
      BY <2>1, <2>2, <3>1, QuietWithdraws DEF TypeOK
  <2>3. CASE b = a
    <3>1. to_client'[a] = Tail(to_client[a])
      BY <2>1 DEF TypeOK
    <3>2. CASE OnRefused(a, connected)
      <4>1. current_request'[a] = current_request[a] /\ head.what = "refused"
        BY <3>2 DEF OnRefused, Received
      <4> QED
        BY <2>1, <2>3, <3>1, <4>1, HandlingWithdraws
    <3>3. CASE OnRequest(a, connected)
      <4>1. head.what = "request"
        BY <3>3 DEF OnRequest, Received
      <4>2. head = [what |-> "request", of |-> head.of]
        BY <2>1, <4>1 DEF ToClient, Refusal
      <4>3. current_request'[a] \in {current_request[a], head.of}
        BY <3>3 DEF OnRequest, TypeOK
      <4> QED
        BY <2>1, <2>3, <3>1, <4>1, <4>2, <4>3, HandlingWithdraws
    <3>4. CASE OnTaken(a)
      <4>1. current_request'[a] =
              IF Withdrawn(current_request[a], head.of) THEN None ELSE current_request[a]
        BY <3>4 DEF OnTaken, TypeOK
      <4> QED
        BY <2>1, <2>3, <3>1, <4>1, HandlingWithdraws
    <3> QED
      BY <1>1, <3>2, <3>3, <3>4
  <2> QED
    BY <2>2, <2>3
<1>2. ASSUME NEW a \in Admins, NEW b \in Admins, ApproveRequest(a)
      PROVE  WithdrawalFollows(b)'
  BY <1>2, QuietWithdraws DEF ApproveRequest, TypeOK
<1>3. ASSUME NEW a \in Admins, NEW b \in Admins, NEW due \in BOOLEAN,
             NEW expired \in BOOLEAN, Render(a, due, expired)
      PROVE  WithdrawalFollows(b)'
  BY <1>3, QuietWithdraws DEF Render, TypeOK
<1>4. ASSUME NEW a \in Admins, NEW b \in Admins, NEW msg, TypesCommand(a, msg)
      PROVE  WithdrawalFollows(b)'
  BY <1>4, QuietWithdraws DEF TypesCommand
<1>5. ASSUME NEW a \in Admins, NEW b \in Admins, ServerStep(a)
      PROVE  WithdrawalFollows(b)'
  <2> DEFINE msg == Head(to_server[a])
             r0(s) == [sender |-> s, command |-> msg.command]
  <2>1. msg \in ToServer /\ UNCHANGED current_request
    BY <1>5, TailAt DEF ServerStep, TypeOK
  <2>2. ASSUME NEW s \in Admins, msg.command \in Commands,
               TellAll("taken", s, msg.command), taken' = taken \cup {r0(s)}
        PROVE  WithdrawalFollows(b)'
    <3> DEFINE m == [what |-> "taken", of |-> r0(s)]
    <3>1. m \in ToClient /\ r0(s) \in Requests
      BY <2>2 DEF ToClient, Requests
    <3>2. Withdrawn(r0(s), m.of) /\ m.what = "taken"
      BY <3>1, CommandRequesterAssumption DEF Withdrawn
    <3>3. to_client'[b] = Append(to_client[b], m)
      BY <2>2 DEF TellAll
    <3>4. \A r : m # [what |-> "request", of |-> r]
      OBVIOUS
    <3> HIDE DEF m, r0
    <3> QED
      BY <2>1, <2>2, <3>1, <3>2, <3>3, <3>4, TellingWithdraws
  <2>3. CASE ServerAsks(a, msg)
    <3> DEFINE m == [what |-> "request", of |-> r0(a)]
    <3>1. msg.command \in Commands
      BY <2>1, <2>3 DEF ServerAsks, ToServer
    <3>2. m \in ToClient
      BY <3>1 DEF ToClient, Requests
    <3>3. to_client'[b] = Append(to_client[b], m) /\ taken' = taken \ {r0(a)}
      BY <2>3 DEF ServerAsks, TellAll
    <3>4. \A r \in taken' : r \in taken /\ m # [what |-> "request", of |-> r]
      BY <3>3
    <3> HIDE DEF m, r0
    <3> QED
      BY <2>1, <3>2, <3>3, <3>4, TellingWithdraws
  <2>4. CASE ServerAccepts(a, msg)
    BY <2>1, <2>2, <2>4 DEF ServerAccepts, ToServer
  <2>5. CASE ServerRuns(a, msg) \/ ServerOther(a, msg)
    <3>1. CASE to_client' = to_client /\ taken' = taken
      BY <2>1, <3>1, QuietWithdraws
    <3>2. CASE Tell(a, Refusal) /\ taken' = taken
      <4>1. to_client'[b] \in {to_client[b], Append(to_client[b], Refusal)}
        BY <3>2 DEF Tell, TypeOK
      <4>2. Refusal \in ToClient /\ \A r : Refusal # [what |-> "request", of |-> r]
        BY DEF Refusal, ToClient
      <4> QED
        BY <2>1, <3>2, <4>1, <4>2, QuietWithdraws, TellingWithdraws
    <3>3. CASE /\ msg.what = "run" /\ msg.for # None
               /\ TellAll("taken", msg.for, msg.command)
               /\ taken' = taken \cup {r0(msg.for)}
      BY <2>1, <2>2, <3>3 DEF ToServer
    <3> QED
      BY <2>5, <3>1, <3>2, <3>3 DEF ServerRuns, ServerOther
  <2> QED
    BY <1>5, <2>3, <2>4, <2>5 DEF ServerStep
<1> QED
  BY <1>1, <1>2, <1>3, <1>4, <1>5 DEF Next

\* What somebody has taken is on offer nowhere once the messages have arrived,
\* for any number of administrators, patient or not, whichever requests replace
\* one another and whichever levels and times keep them from being offered.
THEOREM TakenRequestsAreWithdrawn == Spec => []TakenIsWithdrawn
<1>1. Init => TInv
  BY DEF Init, TInv, TypeOK, WithdrawalFollows
<1>2. TInv /\ [Next]_vars => TInv'
  <2>1. ASSUME TInv, Next PROVE TInv'
    BY <2>1, TypeStep, WithdrawalStep DEF TInv
  <2>2. ASSUME TInv, UNCHANGED vars PROVE TInv'
    BY <2>2 DEF vars, TInv, TypeOK, WithdrawalFollows, WithdrawnFrom
  <2> QED
    BY <2>1, <2>2
<1>3. TInv => TakenIsWithdrawn
  <2> SUFFICES ASSUME TInv, NEW a \in Admins, to_client[a] = <<>>,
                      current_request[a] \in taken
               PROVE  FALSE
    BY DEF TakenIsWithdrawn
  <2>1. WithdrawnFrom(<<>>, 1, current_request[a])
    BY DEF TInv, WithdrawalFollows
  <2> QED
    BY <2>1 DEF WithdrawnFrom
<1> QED
  BY <1>1, <1>2, <1>3, PTL DEF Spec
=============================================================================

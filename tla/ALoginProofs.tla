---------------------------- MODULE ALoginProofs ----------------------------
(***************************************************************************)
(* How often an administrator can be listed, whether the plugin is on      *)
(* /alogin when the server has the user there, and that nobody is missing  *)
(* from the list then: proved for every set of administrators, both        *)
(* configured times and any number of messages in flight.                  *)
(***************************************************************************)
EXTENDS ALogin, FiniteSetTheorems, TLAPS

Once(s) == \A i, j \in 1..Len(s) : i < j => s[i] # s[j]

Twice(s) ==
  \A i, j, k \in 1..Len(s) : i < j /\ j < k /\ s[i] = s[j] => s[j] # s[k]

\* The strengthening: off /alogin an administrator is listed at most once, for
\* only the messages of those who come reach the list, and leaving empties it.
ListedOnceOffAlogin == ~on_alogin => Once(list)

IInv == TypeOK /\ ListedAtMostTwice /\ ListedOnceOffAlogin

-----------------------------------------------------------------------------
(* Sequences                                                               *)

\* The list in a dialog names nobody twice.
LEMMA SetToSeqOnce ==
  ASSUME NEW S, IsFiniteSet(S)
  PROVE  SetToSeq(S) \in Seq(S) /\ Once(SetToSeq(S))
<1> DEFINE n == Cardinality(S)
<1>1. n \in Nat /\ ExistsBijection(1..n, S)
  BY FS_CardinalityType
<1>2. \E f \in [1..n -> S] : IsInjective(f)
  BY <1>1 DEF ExistsBijection, Bijection, Injection
<1>3. SetToSeq(S) \in [1..n -> S] /\ IsInjective(SetToSeq(S))
  BY <1>2 DEF SetToSeq
<1> HIDE DEF n
<1> DEFINE f == SetToSeq(S)
<1>4. f \in [1..n -> S] /\ IsInjective(f)
  BY <1>3
<1> HIDE DEF f
<1>5. f \in Seq(S) /\ Len(f) = n /\ DOMAIN f = 1..n
  BY <1>1, <1>4
<1>6. Once(f)
  BY <1>1, <1>4, <1>5 DEF Once, IsInjective
<1> QED
  BY <1>5, <1>6 DEF f

\* No entry more is no entry too many.
LEMMA OnceTwice == ASSUME NEW S, NEW s \in Seq(S), Once(s) PROVE Twice(s)
  BY DEF Once, Twice

\* remove_disconnected_admin erases one entry.
LEMMA RemoveAtKeeps ==
  ASSUME NEW S, NEW s \in Seq(S), NEW i \in 1..Len(s)
  PROVE  /\ RemoveAt(s, i) \in Seq(S)
         /\ Once(s) => Once(RemoveAt(s, i))
         /\ Twice(s) => Twice(RemoveAt(s, i))
<1> DEFINE a == SubSeq(s, 1, i - 1)
           b == SubSeq(s, i + 1, Len(s))
           r == a \o b
           at(k) == IF k < i THEN k ELSE k + 1
<1>a. a \in Seq(S) /\ Len(a) = i - 1 /\ \A m \in 1..(i - 1) : a[m] = s[m]
  OBVIOUS
<1>b. b \in Seq(S) /\ Len(b) = Len(s) - i
      /\ \A m \in 1..(Len(s) - i) : b[m] = s[i + m]
  OBVIOUS
<1> HIDE DEF a, b
<1>1. r \in Seq(S) /\ Len(r) = Len(s) - 1
  BY <1>a, <1>b
<1>2. \A k \in 1..Len(r) : at(k) \in 1..Len(s) /\ r[k] = s[at(k)]
  <2> SUFFICES ASSUME NEW k \in 1..Len(r)
               PROVE  at(k) \in 1..Len(s) /\ r[k] = s[at(k)]
    OBVIOUS
  <2>1. CASE k < i
    BY <1>1, <1>a, <1>b, <2>1
  <2>2. CASE k >= i
    <3>1. k - (i - 1) \in 1..(Len(s) - i)
      BY <1>1, <2>2
    <3>2. r[k] = b[k - (i - 1)]
      BY <1>1, <1>a, <1>b, <2>2
    <3>3. b[k - (i - 1)] = s[i + (k - (i - 1))]
      BY <1>b, <3>1
    <3>4. i + (k - (i - 1)) = k + 1 /\ k + 1 \in 1..Len(s)
      BY <1>1, <2>2
    <3> QED
      BY <3>2, <3>3, <3>4, <2>2
  <2> QED
    BY <2>1, <2>2
<1>3. \A j, k \in 1..Len(r) : j < k => at(j) < at(k)
  BY <1>1
<1>r. r = RemoveAt(s, i)
  BY DEF RemoveAt, a, b
<1> HIDE DEF r, at
<1>4. Once(s) => Once(r)
  BY <1>2, <1>3 DEF Once
<1>5. Twice(s) => Twice(r)
  BY <1>2, <1>3 DEF Twice
<1> QED
  BY <1>1, <1>4, <1>5, <1>r

\* add_connected_admin lists nobody who is listed.
LEMMA AppendKeeps ==
  ASSUME NEW S, NEW s \in Seq(S), NEW a \in S \ ToSet(s)
  PROVE  /\ Append(s, a) \in Seq(S)
         /\ Once(s) => Once(Append(s, a))
         /\ Twice(s) => Twice(Append(s, a))
<1>1. \A i \in 1..Len(s) : s[i] # a
  BY DEF ToSet
<1>2. /\ Append(s, a) \in Seq(S) /\ Len(Append(s, a)) = Len(s) + 1
      /\ \A i \in 1..Len(s) : Append(s, a)[i] = s[i]
      /\ Append(s, a)[Len(s) + 1] = a
  OBVIOUS
<1>3. Once(s) => Once(Append(s, a))
  BY <1>1, <1>2 DEF Once
<1>4. Twice(s) => Twice(Append(s, a))
  BY <1>1, <1>2 DEF Twice
<1> QED
  BY <1>2, <1>3, <1>4

\* update_admins puts one list behind another.
LEMMA ConcatTwice ==
  ASSUME NEW S, NEW s \in Seq(S), NEW t \in Seq(S), Once(s), Once(t)
  PROVE  s \o t \in Seq(S) /\ Twice(s \o t)
<1> DEFINE u == s \o t
<1>1. u \in Seq(S) /\ Len(u) = Len(s) + Len(t)
  OBVIOUS
<1>2. \A i \in 1..Len(u) :
         /\ i <= Len(s) => u[i] = s[i]
         /\ i > Len(s) => u[i] = t[i - Len(s)] /\ i - Len(s) \in 1..Len(t)
  BY <1>1
<1> HIDE DEF u
<1>3. ASSUME NEW i \in 1..Len(u), NEW j \in 1..Len(u), NEW k \in 1..Len(u),
             i < j, j < k, u[i] = u[j], u[j] = u[k]
      PROVE  FALSE
  <2>1. CASE j <= Len(s)
    BY <1>2, <1>3, <2>1 DEF Once
  <2>2. CASE j > Len(s)
    BY <1>2, <1>3, <2>2 DEF Once
  <2> QED
    BY <2>1, <2>2
<1>4. Twice(u)
  BY <1>3 DEF Twice
<1> QED
  BY <1>1, <1>4 DEF u

\* Who is listed after each change of the list
LEMMA SetToSeqAll == ASSUME NEW S, IsFiniteSet(S) PROVE S \subseteq ToSet(SetToSeq(S))
<1>1. Cardinality(S) \in Nat /\ ExistsBijection(1..Cardinality(S), S)
  BY FS_CardinalityType
<1>2. \E f \in [1..Cardinality(S) -> S] : IsInjective(f)
  BY <1>1 DEF ExistsBijection, Bijection, Injection
<1>3. SetToSeq(S) \in [1..Cardinality(S) -> S] /\ IsInjective(SetToSeq(S))
  BY <1>2 DEF SetToSeq
<1>4. SetToSeq(S) \in Injection(1..Cardinality(S), S)
  BY <1>3 DEF IsInjective, Injection
<1>5. SetToSeq(S) \in Surjection(1..Cardinality(S), S)
  <2>1. IsFiniteSet(1..Cardinality(S)) /\ Cardinality(1..Cardinality(S)) = Cardinality(S)
    BY <1>1, FS_Interval
  <2> QED
    BY <1>4, <2>1, FS_Injection
<1> QED
  BY <1>3, <1>5 DEF Surjection, ToSet

LEMMA ConcatLists ==
  ASSUME NEW S, NEW s \in Seq(S), NEW t \in Seq(S)
  PROVE  ToSet(s) \subseteq ToSet(s \o t) /\ ToSet(t) \subseteq ToSet(s \o t)
<1>1. /\ Len(s) \in Nat /\ Len(t) \in Nat /\ Len(s \o t) = Len(s) + Len(t)
      /\ DOMAIN s = 1..Len(s) /\ DOMAIN t = 1..Len(t)
      /\ s \o t \in Seq(S) /\ DOMAIN (s \o t) = 1..(Len(s) + Len(t))
  OBVIOUS
<1>2. \A i \in 1..Len(s) : i \in 1..(Len(s) + Len(t)) /\ (s \o t)[i] = s[i]
  OBVIOUS
<1>3. \A i \in 1..Len(t) :
         Len(s) + i \in 1..(Len(s) + Len(t)) /\ (s \o t)[Len(s) + i] = t[i]
  OBVIOUS
<1> QED
  BY <1>1, <1>2, <1>3 DEF ToSet

LEMMA RemoveAtLists ==
  ASSUME NEW S, NEW s \in Seq(S), NEW i \in 1..Len(s), NEW b \in ToSet(s), b # s[i]
  PROVE  b \in ToSet(RemoveAt(s, i))
<1>1. SubSeq(s, 1, i - 1) \in Seq(S) /\ SubSeq(s, i + 1, Len(s)) \in Seq(S)
  OBVIOUS
<1>2. PICK k \in 1..Len(s) : b = s[k]
  BY DEF ToSet
<1>3. CASE k < i
  <2>1. b \in ToSet(SubSeq(s, 1, i - 1))
    <3>1. k \in 1..(i - 1) /\ SubSeq(s, 1, i - 1)[k] = s[k]
          /\ DOMAIN SubSeq(s, 1, i - 1) = 1..(i - 1)
      BY <1>3
    <3> QED
      BY <1>2, <3>1 DEF ToSet
  <2> QED
    BY <1>1, <2>1, ConcatLists DEF RemoveAt
<1>4. CASE k > i
  <2>1. b \in ToSet(SubSeq(s, i + 1, Len(s)))
    <3>1. k - i \in 1..(Len(s) - i) /\ SubSeq(s, i + 1, Len(s))[k - i] = s[k]
          /\ DOMAIN SubSeq(s, i + 1, Len(s)) = 1..(Len(s) - i)
      BY <1>4
    <3> QED
      BY <1>2, <3>1 DEF ToSet
  <2> QED
    BY <1>1, <2>1, ConcatLists DEF RemoveAt
<1> QED
  BY <1>2, <1>3, <1>4

LEMMA AppendLists ==
  ASSUME NEW S, NEW s \in Seq(S), NEW a
  PROVE  ToSet(s) \cup {a} \subseteq ToSet(Append(s, a))
<1>1. /\ Len(Append(s, a)) = Len(s) + 1 /\ Len(s) \in Nat
      /\ \A k \in 1..Len(s) : Append(s, a)[k] = s[k]
      /\ Append(s, a)[Len(s) + 1] = a /\ DOMAIN s = 1..Len(s)
      /\ DOMAIN Append(s, a) = 1..(Len(s) + 1)
  OBVIOUS
<1> QED
  BY <1>1 DEF ToSet

-----------------------------------------------------------------------------
(* The steps                                                               *)

LEMMA AdminsFinite == IsFiniteSet(Admins)
  BY ALoginAssumption, FS_AddElement DEF Admins

\* The plugin starts off /alogin and lists nobody.
LEMMA InitIInv == Init => IInv
<1> SUFFICES ASSUME Init PROVE IInv
  OBVIOUS
<1>1. TypeOK
  <2>1. 0 \in 0..MaxSeconds
    BY ALoginAssumption DEF MaxSeconds
  <2>2. ClientTypeOK
    BY <2>1 DEF Init, ClientTypeOK
  <2>3. list \in Seq(Admins) /\ ChannelTypeOK
    BY DEF Init, ChannelTypeOK
  <2>4. ServerTypeOK
    BY DEF Init, ServerTypeOK, Admins
  <2> QED
    BY <2>2, <2>3, <2>4 DEF TypeOK
<1>2. list = <<>>
  BY DEF Init
<1> QED
  BY <1>1, <1>2 DEF IInv, ListedAtMostTwice, ListedOnceOffAlogin, Once

\* What may become of the list in a step.
ListStep ==
  \/ UNCHANGED list /\ (on_alogin' = FALSE => on_alogin = FALSE)
  \/ list' = <<>>
  \/ UNCHANGED on_alogin /\ \E a \in Admins \ ToSet(list) : list' = Append(list, a)
  \/ UNCHANGED on_alogin /\ \E i \in 1..Len(list) : list' = RemoveAt(list, i)
  \/ /\ ~on_alogin /\ on_alogin' = TRUE
     /\ \E S \in SUBSET Admins : list' = list \o SetToSeq(S)

\* Each of them keeps both bounds.
LEMMA ListStepKeeps ==
  ASSUME IInv, ListStep
  PROVE  list' \in Seq(Admins) /\ ListedAtMostTwice' /\ ListedOnceOffAlogin'
<1>1. list \in Seq(Admins) /\ Twice(list) /\ (~on_alogin => Once(list))
  BY DEF IInv, TypeOK, ListedAtMostTwice, ListedOnceOffAlogin, Twice
<1>2. SUFFICES list' \in Seq(Admins) /\ Twice(list') /\ (~on_alogin' => Once(list'))
  BY DEF ListedAtMostTwice, ListedOnceOffAlogin, Twice, Once
<1>3. CASE UNCHANGED list /\ (on_alogin' = FALSE => on_alogin = FALSE)
  BY <1>1, <1>3 DEF IInv, TypeOK
<1>4. CASE list' = <<>>
  BY <1>4 DEF Once, Twice
<1>5. CASE UNCHANGED on_alogin /\ \E a \in Admins \ ToSet(list) : list' = Append(list, a)
  BY <1>1, <1>5, AppendKeeps
<1>6. CASE UNCHANGED on_alogin /\ \E i \in 1..Len(list) : list' = RemoveAt(list, i)
  BY <1>1, <1>6, RemoveAtKeeps
<1>7. ASSUME ~on_alogin, on_alogin' = TRUE,
             NEW S \in SUBSET Admins, list' = list \o SetToSeq(S)
      PROVE  list' \in Seq(Admins) /\ Twice(list') /\ (~on_alogin' => Once(list'))
  <2>1. SetToSeq(S) \in Seq(Admins) /\ Once(SetToSeq(S))
    BY AdminsFinite, FS_Subset, SetToSeqOnce
  <2> QED
    BY <1>1, <1>7, <2>1, ConcatTwice
<1> QED
  BY <1>3, <1>4, <1>5, <1>6, <1>7 DEF ListStep

-----------------------------------------------------------------------------
(* Every action keeps the types, and does to the list what ListStep says.  *)

OthersTypeOK == ClientTypeOK /\ ChannelTypeOK /\ ServerTypeOK

\* The messages' types
LEMMA NoticeType == ASSUME NEW n \in Notices \cup {"menu"} PROVE Notice(n) \in ToClient
  BY DEF Notice, ToClient

LEMMA AboutType ==
  ASSUME NEW n \in OfAdmin, NEW a \in Admins PROVE About(n, a) \in ToClient
  BY DEF About, ToClient

LEMMA OnlineDialogType == ASSUME ServerTypeOK PROVE OnlineDialog \in ToClient
  BY DEF OnlineDialog, ToClient, ServerTypeOK

\* A message taken from the channel is about administrators.
LEMMA ReceivedType ==
  ASSUME IInv, to_client # <<>>
  PROVE  /\ Tail(to_client) \in Seq(ToClient)
         /\ Head(to_client).of \subseteq Admins
<1>1. to_client \in Seq(ToClient)
  BY DEF IInv, TypeOK, ChannelTypeOK
<1>2. Tail(to_client) \in Seq(ToClient) /\ Head(to_client) \in ToClient
  BY <1>1
<1> QED
  BY <1>2 DEF ToClient

\* Sending and telling keep the channels' types.
LEMMA SendType ==
  ASSUME IInv, NEW c \in Commands PROVE Append(to_server, c) \in Seq(Commands)
  BY DEF IInv, TypeOK, ChannelTypeOK

LEMMA TellType ==
  ASSUME IInv, NEW m \in ToClient PROVE Append(to_client, m) \in Seq(ToClient)
  BY DEF IInv, TypeOK, ChannelTypeOK

\* The client's handlers
LEMMA OnAuthorizedStep == ASSUME IInv, OnAuthorized PROVE OthersTypeOK' /\ ListStep
<1>1. to_client' \in Seq(ToClient)
  BY ReceivedType DEF OnAuthorized, Received
<1> QED
  BY <1>1 DEF OnAuthorized, Received, IInv, TypeOK, OthersTypeOK, ClientTypeOK,
     ChannelTypeOK, ServerTypeOK, ListStep, gate, afk, server

LEMMA OnUserLeftStep ==
  ASSUME IInv, NEW n \in Notices, OnUserLeft(n) PROVE OthersTypeOK' /\ ListStep
<1>1. to_client' \in Seq(ToClient)
  BY ReceivedType DEF OnUserLeft, Received
<1>2. on_alogin' \in BOOLEAN /\ ListStep
  BY DEF OnUserLeft, LeaveAlogin, ListStep, IInv, TypeOK, ClientTypeOK
<1> QED
  BY <1>1, <1>2 DEF OnUserLeft, Received, IInv, TypeOK, OthersTypeOK,
     ClientTypeOK, ChannelTypeOK, ServerTypeOK, gate, afk, server

LEMMA OnAdminCameStep == ASSUME IInv, OnAdminCame PROVE OthersTypeOK' /\ ListStep
<1>1. to_client' \in Seq(ToClient) /\ Head(to_client).of \subseteq Admins
  BY ReceivedType DEF OnAdminCame, Received
<1>2. ListStep
  BY <1>1 DEF OnAdminCame, ListStep, user
<1> QED
  BY <1>1, <1>2 DEF OnAdminCame, Received, IInv, TypeOK, OthersTypeOK,
     ClientTypeOK, ChannelTypeOK, ServerTypeOK, user, gate, afk, server

LEMMA OnAdminGoneStep ==
  ASSUME IInv, NEW n \in OfAdmin, OnAdminGone(n) PROVE OthersTypeOK' /\ ListStep
<1>1. to_client' \in Seq(ToClient) /\ Head(to_client).of \subseteq Admins
  BY ReceivedType DEF OnAdminGone, Received
<1>2. PICK a \in Head(to_client).of :
         IF a = Me THEN LeaveAlogin
         ELSE list' = WithoutFirst(a) /\ UNCHANGED on_alogin
  BY DEF OnAdminGone
<1>3. on_alogin' \in BOOLEAN /\ ListStep
  <2>1. CASE a = Me
    BY <1>2, <2>1 DEF LeaveAlogin, ListStep
  <2>2. CASE a # Me
    <3> DEFINE first == {i \in 1..Len(list) :
                           list[i] = a /\ \A j \in 1..(i - 1) : list[j] # a}
    <3>1. list' = IF first = {} THEN list
                  ELSE RemoveAt(list, CHOOSE i \in first : TRUE)
      BY <1>2, <2>2 DEF WithoutFirst
    <3>2. UNCHANGED on_alogin /\ on_alogin \in BOOLEAN
      BY <1>2, <2>2 DEF IInv, TypeOK, ClientTypeOK
    <3>3. first # {} => (CHOOSE i \in first : TRUE) \in 1..Len(list)
      OBVIOUS
    <3> HIDE DEF first
    <3> QED
      BY <3>1, <3>2, <3>3 DEF ListStep
  <2> QED
    BY <2>1, <2>2
<1> QED
  BY <1>1, <1>3 DEF OnAdminGone, Received, IInv, TypeOK, OthersTypeOK,
     ClientTypeOK, ChannelTypeOK, ServerTypeOK, gate, afk, server

LEMMA OnMenuStep == ASSUME IInv, OnMenu PROVE OthersTypeOK' /\ ListStep
<1>1. to_client' \in Seq(ToClient)
  BY ReceivedType DEF OnMenu, Received
<1>2. to_server' \in Seq(Commands)
  BY SendType DEF OnMenu, Send, Commands, IInv, TypeOK, ChannelTypeOK
<1> QED
  BY <1>1, <1>2 DEF OnMenu, Received, IInv, TypeOK, OthersTypeOK, ClientTypeOK,
     ChannelTypeOK, ServerTypeOK, ListStep, user, gate, afk, server

LEMMA OnOnlineDialogStep ==
  ASSUME IInv, OnOnlineDialog PROVE OthersTypeOK' /\ ListStep
<1>1. to_client' \in Seq(ToClient) /\ Head(to_client).of \subseteq Admins
  BY ReceivedType DEF OnOnlineDialog, Received
<1>2. on_alogin' \in BOOLEAN /\ ListStep
  BY <1>1 DEF OnOnlineDialog, WithOnline, ListStep, IInv, TypeOK, ClientTypeOK
<1> QED
  BY <1>1, <1>2 DEF OnOnlineDialog, Received, IInv, TypeOK, OthersTypeOK,
     ClientTypeOK, ChannelTypeOK, ServerTypeOK, gate, afk, server

\* The main loop
LEMMA MainLoopStep ==
  ASSUME IInv, NEW second \in BOOLEAN, MainLoop(second)
  PROVE  OthersTypeOK' /\ ListStep
<1>1. to_server' \in Seq(Commands)
  <2>1. to_server \in Seq(Commands) /\ UserLoopSends \in Seq(Commands)
    <3>1. to_server \in Seq(Commands)
      BY DEF IInv, TypeOK, ChannelTypeOK
    <3>2. <<"/adm">> \in Seq(Commands) /\ <<>> \in Seq(Commands)
      BY DEF Commands
    <3> QED
      BY <3>1, <3>2 DEF UserLoopSends
  <2>2. <<"/alogout">> \in Seq(Commands)
    BY DEF Commands
  <2> HIDE DEF UserLoopSends
  <2>3. /\ to_server \o UserLoopSends \in Seq(Commands)
        /\ to_server \o UserLoopSends \o <<"/alogout">> \in Seq(Commands)
    BY <2>1, <2>2
  <2> QED
    BY <2>3 DEF MainLoop
<1>2. Elapsed(second) \in 0..MaxSeconds /\ 0 \in 0..MaxSeconds
  BY ALoginAssumption DEF IInv, TypeOK, ClientTypeOK, Elapsed, MaxSeconds
<1>3. seconds_inactive' \in 0..MaxSeconds
  BY <1>2 DEF MainLoop
<1>4. on_alogin' \in BOOLEAN /\ ListStep
  BY DEF MainLoop, LeaveAlogin, ListStep, IInv, TypeOK, ClientTypeOK
<1>5. sent_warning_notification' \in BOOLEAN
  BY DEF MainLoop, IInv, TypeOK, ClientTypeOK
<1> QED
  BY <1>1, <1>3, <1>4, <1>5 DEF MainLoop, IInv, TypeOK, OthersTypeOK,
     ClientTypeOK, ChannelTypeOK, ServerTypeOK, gate, server

\* Time, the gate and the user
LEMMA QuietSteps ==
  ASSUME IInv, DelayPasses \/ MessagePasses \/ GateOpens \/ ChangesFocus
  PROVE  OthersTypeOK' /\ ListStep
<1> USE DEF IInv, TypeOK, OthersTypeOK, ClientTypeOK, ChannelTypeOK,
        ServerTypeOK, ListStep, user, gate, afk, server
<1>1. CASE DelayPasses
  BY <1>1 DEF DelayPasses
<1>2. CASE MessagePasses
  <2>1. to_client' \in Seq(ToClient)
    BY <1>2, ReceivedType DEF MessagePasses
  <2> QED
    BY <1>2, <2>1 DEF MessagePasses
<1>3. CASE GateOpens
  BY <1>3 DEF GateOpens
<1>4. CASE ChangesFocus
  <2>1. gated' \in BOOLEAN /\ inactive' \in BOOLEAN
    BY <1>4 DEF ChangesFocus
  <2> QED
    BY <1>4, <2>1 DEF ChangesFocus
<1> QED
  BY <1>1, <1>2, <1>3, <1>4

LEMMA TypesStep ==
  ASSUME IInv, NEW c \in Commands, Types(c) PROVE OthersTypeOK' /\ ListStep
<1>1. to_server' \in Seq(Commands)
  BY SendType DEF Types, Send
<1> QED
  BY <1>1 DEF Types, IInv, TypeOK, OthersTypeOK, ClientTypeOK, ChannelTypeOK,
     ServerTypeOK, ListStep, user, gate, afk, server

\* The server
LEMMA ServerStepStep == ASSUME IInv, ServerStep PROVE OthersTypeOK' /\ ListStep
<1>1. to_server' \in Seq(Commands)
  BY DEF ServerStep, IInv, TypeOK, ChannelTypeOK
<1>2. ServerTypeOK
  BY DEF IInv, TypeOK
<1>3. to_client' \in Seq(ToClient)
  <2>1. to_client \in Seq(ToClient)
    BY DEF IInv, TypeOK, ChannelTypeOK
  <2>2. \A n \in Notices \cup {"menu"} :
           Append(to_client, Notice(n)) \in Seq(ToClient)
    BY NoticeType, TellType
  <2>3. Append(to_client, OnlineDialog) \in Seq(ToClient)
    BY <1>2, OnlineDialogType, TellType
  <2>4. {"authorized", "alogout_message", "menu"} \subseteq Notices \cup {"menu"}
    BY DEF Notices
  <2> QED
    BY <2>1, <2>2, <2>3, <2>4
       DEF ServerStep, ServerAlogin, ServerAlogout, ServerAdm, ServerMenu, Tell
<1>4. ServerTypeOK'
  BY <1>2 DEF ServerStep, ServerAlogin, ServerAlogout, ServerAdm, ServerMenu,
     ServerTypeOK, Admins
<1> QED
  BY <1>1, <1>3, <1>4 DEF ServerStep, client, IInv, TypeOK, OthersTypeOK,
     ClientTypeOK, ChannelTypeOK, ListStep, user, gate, afk

LEMMA AdminStep ==
  ASSUME IInv, NEW a \in Admins,
         AdminComes(a) \/ AdminLeaves(a) \/ \E n \in OfAdmin : AdminGone(n, a)
  PROVE  OthersTypeOK' /\ ListStep
<1>1. to_client \in Seq(ToClient)
  BY DEF IInv, TypeOK, ChannelTypeOK
<1>2. \A n \in OfAdmin : Append(to_client, About(n, a)) \in Seq(ToClient)
  BY AboutType, TellType
<1>3. to_client' \in Seq(ToClient)
  BY <1>1, <1>2 DEF AdminComes, AdminLeaves, AdminGone, Tell, OfAdmin
<1>4. ServerTypeOK'
  BY DEF AdminComes, AdminLeaves, AdminGone, IInv, TypeOK, ServerTypeOK, Admins
<1>5. UNCHANGED <<client, to_server>>
  BY DEF AdminComes, AdminLeaves, AdminGone
<1> QED
  BY <1>3, <1>4, <1>5 DEF client, IInv, TypeOK, OthersTypeOK, ClientTypeOK,
     ChannelTypeOK, ListStep, user, gate, afk

LEMMA UserGoneStep ==
  ASSUME IInv, NEW n \in Notices, UserGone(n) PROVE OthersTypeOK' /\ ListStep
<1>1. to_client' \in Seq(ToClient)
  BY NoticeType, TellType DEF UserGone, Tell
<1>2. to_server' \in Seq(Commands)
  BY DEF UserGone, IInv, TypeOK, ChannelTypeOK
<1>3. ServerTypeOK'
  BY DEF UserGone, IInv, TypeOK, ServerTypeOK
<1> QED
  BY <1>1, <1>2, <1>3 DEF UserGone, client, IInv, TypeOK, OthersTypeOK,
     ClientTypeOK, ChannelTypeOK, ListStep, user, gate, afk

-----------------------------------------------------------------------------
(* Whether the plugin is, or will be, on /alogin, and whom it lists then.  *)

Dialogs == [what : {"online_dialog"}, of : SUBSET Admins]

\* What ends /alogin for the plugin, lists an administrator, and removes him
Enders ==
  [what : EndsAlogin, of : {{}}]
    \cup [what : {"left", "quit", "renamed"}, of : {{Me}}]

Comes(a) == {About("came", a)}

Removes(a) == [what : {"left", "quit", "renamed"}, of : {{a}}]

\* A message of X is behind the one at i; all of them are behind 0.
After(s, i, X) == \E k \in (i + 1)..Len(s) : s[k] \in X

\* The chat lists the administrator behind the message at i, to stay.
Brought(s, i, a) ==
  \E j \in (i + 1)..Len(s) : s[j] \in Comes(a) /\ ~After(s, j, Removes(a))

\* The plugin is on /alogin (0), or the dialog at i puts it there; whom it lists
Leads(i) == IF i = 0 THEN on_alogin ELSE to_client[i] \in Dialogs

Lists(i) == IF i = 0 THEN ToSet(list) ELSE to_client[i].of

ListedFrom(i, a) ==
  (a \in Lists(i) /\ ~After(to_client, i, Removes(a))) \/ Brought(to_client, i, a)

LeadsRightly(i) ==
  Leads(i) /\ ~After(to_client, i, Enders) =>
    Me \in online /\ \A a \in online : ListedFrom(i, a)

\* The strengthening: as long as no message has passed the gate, from wherever
\* the plugin is on /alogin, now or by a dialog on its way, and is not put off
\* by what is behind it, the user is there, and what is behind it completes
\* the list.
StatusInv == ~missed => \A i \in 0..Len(to_client) : LeadsRightly(i)

\* What a message more, or one less, does to what is behind another
LEMMA AfterAppend ==
  ASSUME NEW M, NEW s \in Seq(M), NEW e, NEW i \in 0..Len(s), NEW X
  PROVE  After(Append(s, e), i, X) <=> After(s, i, X) \/ e \in X
<1>1. /\ Len(s) \in Nat /\ Len(Append(s, e)) = Len(s) + 1
      /\ \A k \in 1..Len(s) : Append(s, e)[k] = s[k]
      /\ Append(s, e)[Len(s) + 1] = e
  OBVIOUS
<1>2. \A k \in (i + 1)..Len(s) : k \in 1..Len(s) /\ k \in (i + 1)..(Len(s) + 1)
  BY <1>1
<1>3. \A k \in (i + 1)..(Len(s) + 1) : k \in (i + 1)..Len(s) \/ k = Len(s) + 1
  BY <1>1
<1>4. Len(s) + 1 \in (i + 1)..(Len(s) + 1)
  BY <1>1
<1>5. ASSUME After(Append(s, e), i, X) PROVE After(s, i, X) \/ e \in X
  <2>1. PICK k \in (i + 1)..(Len(s) + 1) : Append(s, e)[k] \in X
    BY <1>1, <1>5 DEF After
  <2> QED
    BY <1>1, <1>2, <1>3, <2>1 DEF After
<1>6. ASSUME After(s, i, X) PROVE After(Append(s, e), i, X)
  <2>1. PICK k \in (i + 1)..Len(s) : s[k] \in X
    BY <1>6 DEF After
  <2> QED
    BY <1>1, <1>2, <2>1 DEF After
<1>7. ASSUME e \in X PROVE After(Append(s, e), i, X)
  BY <1>1, <1>4, <1>7 DEF After
<1> QED
  BY <1>5, <1>6, <1>7

LEMMA AfterTail ==
  ASSUME NEW M, NEW s \in Seq(M), s # <<>>, NEW X
  PROVE  /\ \A i \in 0..Len(Tail(s)) : After(Tail(s), i, X) <=> After(s, i + 1, X)
         /\ After(s, 0, X) <=> Head(s) \in X \/ After(s, 1, X)
<1>1. /\ Len(s) \in Nat /\ Len(s) >= 1 /\ Len(Tail(s)) = Len(s) - 1 /\ Head(s) = s[1]
      /\ \A k \in 1..(Len(s) - 1) : Tail(s)[k] = s[k + 1]
  OBVIOUS
<1>2. ASSUME NEW i \in 0..Len(Tail(s))
      PROVE  After(Tail(s), i, X) <=> After(s, i + 1, X)
  <2>1. ASSUME After(Tail(s), i, X) PROVE After(s, i + 1, X)
    <3>1. PICK k \in (i + 1)..Len(Tail(s)) : Tail(s)[k] \in X
      BY <2>1 DEF After
    <3>2. k + 1 \in (i + 2)..Len(s) /\ s[k + 1] \in X
      BY <1>1, <3>1
    <3> QED
      BY <3>2 DEF After
  <2>2. ASSUME After(s, i + 1, X) PROVE After(Tail(s), i, X)
    <3>1. PICK k \in (i + 1 + 1)..Len(s) : s[k] \in X
      BY <2>2 DEF After
    <3>2. k - 1 \in (i + 1)..Len(Tail(s)) /\ Tail(s)[k - 1] = s[k]
      BY <1>1, <3>1
    <3> QED
      BY <3>1, <3>2 DEF After
  <2> QED
    BY <2>1, <2>2
<1>3. After(s, 0, X) => Head(s) \in X \/ After(s, 1, X)
  <2>1. \A k \in 1..Len(s) : k = 1 \/ k \in 2..Len(s)
    BY <1>1
  <2> QED
    BY <1>1, <2>1 DEF After
<1>4. Head(s) \in X \/ After(s, 1, X) => After(s, 0, X)
  <2>1. 1 \in 1..Len(s) /\ \A k \in 2..Len(s) : k \in 1..Len(s)
    BY <1>1
  <2> QED
    BY <1>1, <2>1 DEF After
<1> QED
  BY <1>2, <1>3, <1>4

\* ... and to whom the chat lists
LEMMA BroughtAppend ==
  ASSUME NEW M, NEW s \in Seq(M), NEW e, NEW i \in 0..Len(s), NEW a, e \notin Removes(a)
  PROVE  Brought(s, i, a) \/ e \in Comes(a) => Brought(Append(s, e), i, a)
<1>1. /\ Len(s) \in Nat /\ Len(Append(s, e)) = Len(s) + 1
      /\ \A k \in 1..Len(s) : Append(s, e)[k] = s[k]
      /\ Append(s, e)[Len(s) + 1] = e
  OBVIOUS
<1>2. ASSUME Brought(s, i, a) PROVE Brought(Append(s, e), i, a)
  <2>1. PICK j \in (i + 1)..Len(s) : s[j] \in Comes(a) /\ ~After(s, j, Removes(a))
    BY <1>2 DEF Brought
  <2>2. /\ j \in 0..Len(s) /\ j \in (i + 1)..Len(Append(s, e))
        /\ Append(s, e)[j] \in Comes(a)
    BY <1>1, <2>1
  <2>3. ~After(Append(s, e), j, Removes(a))
    BY <2>1, <2>2, AfterAppend
  <2> QED
    BY <2>2, <2>3 DEF Brought
<1>3. ASSUME e \in Comes(a) PROVE Brought(Append(s, e), i, a)
  <2>1. Len(s) + 1 \in (i + 1)..Len(Append(s, e))
    BY <1>1
  <2>2. ~After(Append(s, e), Len(s) + 1, Removes(a))
    BY <1>1 DEF After
  <2> QED
    BY <1>1, <1>3, <2>1, <2>2 DEF Brought
<1> QED
  BY <1>2, <1>3

LEMMA BroughtTail ==
  ASSUME NEW M, NEW s \in Seq(M), s # <<>>, NEW a
  PROVE  /\ \A i \in 0..Len(Tail(s)) : Brought(s, i + 1, a) => Brought(Tail(s), i, a)
         /\ Brought(s, 0, a) =>
              \/ Head(s) \in Comes(a) /\ ~After(Tail(s), 0, Removes(a))
              \/ Brought(Tail(s), 0, a)
<1>1. /\ Len(s) \in Nat /\ Len(s) >= 1 /\ Len(Tail(s)) = Len(s) - 1 /\ Head(s) = s[1]
      /\ \A k \in 1..(Len(s) - 1) : Tail(s)[k] = s[k + 1]
  OBVIOUS
<1>2. ASSUME NEW i \in 0..Len(Tail(s)), Brought(s, i + 1, a)
      PROVE  Brought(Tail(s), i, a)
  <2>1. PICK j \in (i + 1 + 1)..Len(s) : s[j] \in Comes(a) /\ ~After(s, j, Removes(a))
    BY <1>2 DEF Brought
  <2>2. /\ j - 1 \in (i + 1)..Len(Tail(s)) /\ j - 1 \in 0..Len(Tail(s))
        /\ (j - 1) + 1 = j /\ Tail(s)[j - 1] = s[j]
    BY <1>1, <2>1
  <2>3. ~After(Tail(s), j - 1, Removes(a))
    BY <2>1, <2>2, AfterTail
  <2> QED
    BY <2>1, <2>2, <2>3 DEF Brought
<1>3. ASSUME Brought(s, 0, a)
      PROVE  \/ Head(s) \in Comes(a) /\ ~After(Tail(s), 0, Removes(a))
             \/ Brought(Tail(s), 0, a)
  <2>1. PICK j \in (0 + 1)..Len(s) : s[j] \in Comes(a) /\ ~After(s, j, Removes(a))
    BY <1>3 DEF Brought
  <2>2. CASE j = 1
    <3>1. ~After(s, 0 + 1, Removes(a)) /\ 0 \in 0..Len(Tail(s))
      BY <1>1, <2>1, <2>2
    <3>2. ~After(Tail(s), 0, Removes(a))
      BY <3>1, AfterTail
    <3> QED
      BY <1>1, <2>1, <2>2, <3>2
  <2>3. CASE j # 1
    <3>1. j \in (0 + 1 + 1)..Len(s) /\ 0 \in 0..Len(Tail(s))
      BY <1>1, <2>1, <2>3
    <3>2. Brought(s, 0 + 1, a)
      BY <2>1, <3>1 DEF Brought
    <3> QED
      BY <1>2, <3>1, <3>2
  <2> QED
    BY <2>2, <2>3
<1> QED
  BY <1>2, <1>3

\* Nothing is told, and the user is not where he was not; or nobody is told
\* because the user is not on the server's /alogin.
LEMMA KeptStatus ==
  ASSUME StatusInv, UNCHANGED <<missed, to_client>>,
         on_alogin' => on_alogin /\ UNCHANGED list,
         UNCHANGED online \/ Me \notin online
  PROVE  StatusInv'
<1> SUFFICES ASSUME ~missed, NEW i \in 0..Len(to_client), Leads(i)',
                    ~After(to_client, i, Enders)
             PROVE  Me \in online' /\ \A a \in online' : ListedFrom(i, a)'
  BY DEF StatusInv, LeadsRightly, ListedFrom
<1>1. Leads(i) /\ Lists(i)' = Lists(i)
  BY DEF Leads, Lists
<1>2. Me \in online /\ \A a \in online : ListedFrom(i, a)
  BY <1>1 DEF StatusInv, LeadsRightly
<1> QED
  BY <1>1, <1>2 DEF ListedFrom

\* The server tells of the user's end, or of somebody on its /alogin.
LEMMA ToldStatus ==
  ASSUME TypeOK, StatusInv, NEW e, to_client' = Append(to_client, e),
         UNCHANGED <<missed, on_alogin, list>>,
         \/ e \in Enders
         \/ /\ e \in Dialogs => Me \in online' /\ online' \subseteq e.of
            /\ Me \in online =>
                 /\ Me \in online'
                 /\ \A a \in online' :
                      (a \in online \/ e \in Comes(a)) /\ e \notin Removes(a)
  PROVE  StatusInv'
<1>1. /\ to_client \in Seq(ToClient) /\ Len(to_client) \in Nat
      /\ Len(to_client') = Len(to_client) + 1
      /\ \A k \in 1..Len(to_client) : to_client'[k] = to_client[k]
      /\ to_client'[Len(to_client) + 1] = e
  BY DEF TypeOK, ChannelTypeOK
<1> SUFFICES ASSUME ~missed, NEW i \in 0..Len(to_client'), Leads(i)',
                    ~After(to_client', i, Enders)
             PROVE  Me \in online' /\ \A a \in online' : ListedFrom(i, a)'
  BY DEF StatusInv, LeadsRightly
<1>2. CASE i \in 0..Len(to_client)
  <2>1. ~After(to_client, i, Enders) /\ e \notin Enders
    BY <1>1, <1>2, AfterAppend
  <2>2. Leads(i) /\ Lists(i)' = Lists(i)
    BY <1>1, <1>2 DEF Leads, Lists
  <2>3. Me \in online /\ \A a \in online : ListedFrom(i, a)
    BY <1>2, <2>1, <2>2 DEF StatusInv, LeadsRightly
  <2>4. ASSUME NEW a \in online' PROVE ListedFrom(i, a)'
    <3>1. (a \in online \/ e \in Comes(a)) /\ e \notin Removes(a)
      BY <2>1, <2>3, <2>4
    <3>2. After(to_client', i, Removes(a)) <=> After(to_client, i, Removes(a))
      BY <1>1, <1>2, <3>1, AfterAppend
    <3>3. Brought(to_client, i, a) \/ e \in Comes(a) => Brought(to_client', i, a)
      BY <1>1, <1>2, <3>1, BroughtAppend
    <3> QED
      BY <2>2, <2>3, <3>1, <3>2, <3>3 DEF ListedFrom
  <2> QED
    BY <2>1, <2>3, <2>4
<1>3. CASE i = Len(to_client) + 1
  <2>1. e \in Dialogs /\ Lists(i)' = e.of
    BY <1>1, <1>3 DEF Leads, Lists
  <2>2. e \notin Enders
    BY <2>1 DEF Dialogs, Enders, EndsAlogin
  <2>3. Me \in online' /\ online' \subseteq e.of
    BY <2>1, <2>2
  <2>4. \A a : ~After(to_client', i, Removes(a))
    BY <1>1, <1>3 DEF After
  <2> QED
    BY <2>1, <2>3, <2>4 DEF ListedFrom
<1> QED
  BY <1>1, <1>2, <1>3

\* What is left of the status when a message is handled: the plugin is still on
\* /alogin, lists whom the message brings, and keeps whom it does not remove;
\* or the message is the dialog that puts it there.
LEMMA TakenStatus ==
  ASSUME TypeOK, StatusInv, to_client # <<>>, to_client' = Tail(to_client),
         UNCHANGED <<missed, online>>,
         on_alogin' =>
           \/ /\ on_alogin /\ Head(to_client) \notin Enders
              /\ \A a \in online :
                   \/ a \in ToSet(list) /\ Head(to_client) \notin Removes(a)
                   \/ Head(to_client) \in Comes(a)
                   => a \in ToSet(list')
           \/ Head(to_client) \in Dialogs /\ Head(to_client).of \subseteq ToSet(list')
  PROVE  StatusInv'
<1>1. /\ to_client \in Seq(ToClient) /\ Len(to_client) \in Nat /\ Len(to_client) >= 1
      /\ Len(to_client') = Len(to_client) - 1 /\ Head(to_client) = to_client[1]
      /\ \A k \in 1..Len(to_client') : to_client'[k] = to_client[k + 1]
  BY DEF TypeOK, ChannelTypeOK
<1> SUFFICES ASSUME ~missed, NEW i \in 0..Len(to_client'), Leads(i)',
                    ~After(to_client', i, Enders)
             PROVE  Me \in online /\ \A a \in online : ListedFrom(i, a)'
  BY DEF StatusInv, LeadsRightly
<1>2. i + 1 \in 0..Len(to_client) /\ 0 \in 0..Len(to_client)
  BY <1>1
<1>3. ~After(to_client, i + 1, Enders)
  BY <1>1, AfterTail
<1>4. \A a : After(to_client', i, Removes(a)) <=> After(to_client, i + 1, Removes(a))
  BY <1>1, AfterTail
<1>5. \A a : Brought(to_client, i + 1, a) => Brought(to_client', i, a)
  BY <1>1, BroughtTail
<1>6. ASSUME Leads(i + 1), Lists(i + 1) \subseteq Lists(i)'
      PROVE  Me \in online /\ \A a \in online : ListedFrom(i, a)'
  <2>1. Me \in online /\ \A a \in online : ListedFrom(i + 1, a)
    BY <1>2, <1>3, <1>6 DEF StatusInv, LeadsRightly
  <2> QED
    BY <1>4, <1>5, <1>6, <2>1 DEF ListedFrom
<1>7. CASE i # 0
  BY <1>1, <1>6, <1>7 DEF Leads, Lists
<1>8. CASE i = 0 /\ Head(to_client) \in Dialogs /\ Head(to_client).of \subseteq ToSet(list')
  BY <1>1, <1>6, <1>8 DEF Leads, Lists
<1>9. ASSUME i = 0, on_alogin, Head(to_client) \notin Enders,
             \A a \in online :
               \/ a \in ToSet(list) /\ Head(to_client) \notin Removes(a)
               \/ Head(to_client) \in Comes(a)
               => a \in ToSet(list')
      PROVE  Me \in online /\ \A a \in online : ListedFrom(i, a)'
  <2>1. ~After(to_client, 0, Enders)
    BY <1>1, <1>3, <1>9, AfterTail
  <2>2. Me \in online /\ \A a \in online : ListedFrom(0, a)
    BY <1>2, <1>9, <2>1 DEF StatusInv, LeadsRightly, Leads
  <2>3. ASSUME NEW a \in online PROVE ListedFrom(0, a)'
    <3>1. CASE a \in ToSet(list) /\ ~After(to_client, 0, Removes(a))
      <4>1. Head(to_client) \notin Removes(a) /\ ~After(to_client, 1, Removes(a))
        BY <1>1, <3>1, AfterTail
      <4>2. a \in ToSet(list') /\ ~After(to_client', 0, Removes(a))
        BY <1>4, <1>9, <3>1, <4>1
      <4> QED
        BY <4>2 DEF ListedFrom, Lists
    <3>2. CASE Brought(to_client, 0, a)
      <4>1. \/ Head(to_client) \in Comes(a) /\ ~After(to_client', 0, Removes(a))
            \/ Brought(to_client', 0, a)
        BY <1>1, <3>2, BroughtTail
      <4> QED
        BY <1>9, <4>1 DEF ListedFrom, Lists
    <3> QED
      BY <2>2, <3>1, <3>2 DEF ListedFrom, Lists
  <2> QED
    BY <1>9, <2>2, <2>3
<1> QED
  BY <1>7, <1>8, <1>9 DEF Leads

\* The kinds of a message that is handled
LEMMA ReceivedKinds ==
  ASSUME TypeOK, NEW n, Received(n)
  PROVE  /\ to_client # <<>> /\ to_client' = Tail(to_client) /\ UNCHANGED missed
         /\ Head(to_client).what = n
         /\ n \in OfAdmin => \E a \in Admins : Head(to_client).of = {a}
         /\ n = "online_dialog" =>
              Head(to_client) \in Dialogs /\ Head(to_client).of \subseteq Admins
         /\ Head(to_client) \in Enders =>
              \/ n \in EndsAlogin
              \/ n \in {"left", "quit", "renamed"} /\ Head(to_client).of = {Me}
         /\ \A a : Head(to_client) \in Removes(a) =>
              n \in {"left", "quit", "renamed"} /\ Head(to_client).of = {a}
         /\ \A a : Head(to_client) \in Comes(a) => n = "came" /\ Head(to_client).of = {a}
<1>1. /\ to_client # <<>> /\ to_client' = Tail(to_client) /\ UNCHANGED missed
      /\ Head(to_client).what = n
  BY DEF Received, gate
<1>2. Head(to_client) \in ToClient
  BY <1>1 DEF TypeOK, ChannelTypeOK
<1>3. n \in OfAdmin => \E a \in Admins : Head(to_client).of = {a}
  BY <1>1, <1>2 DEF ToClient, OfAdmin, Notices
<1>4. n = "online_dialog" =>
        Head(to_client) \in Dialogs /\ Head(to_client).of \subseteq Admins
  BY <1>1, <1>2 DEF ToClient, OfAdmin, Notices, Dialogs
<1>5. Head(to_client) \in Enders =>
        \/ n \in EndsAlogin
        \/ n \in {"left", "quit", "renamed"} /\ Head(to_client).of = {Me}
  BY <1>1 DEF Enders
<1>6. \A a : Head(to_client) \in Removes(a) =>
        n \in {"left", "quit", "renamed"} /\ Head(to_client).of = {a}
  BY <1>1 DEF Removes
<1>7. \A a : Head(to_client) \in Comes(a) => n = "came" /\ Head(to_client).of = {a}
  BY <1>1 DEF Comes, About
<1> QED
  BY <1>1, <1>3, <1>4, <1>5, <1>6, <1>7

LEMMA OnAuthorizedStatus ==
  ASSUME TypeOK, StatusInv, OnAuthorized \/ OnMenu PROVE StatusInv'
<1>1. PICK n \in {"authorized", "menu"} : Received(n)
  BY DEF OnAuthorized, OnMenu
<1>2. UNCHANGED <<on_alogin, list, online>>
  BY DEF OnAuthorized, OnMenu, server, user
<1>3. Head(to_client) \notin Enders /\ \A a : Head(to_client) \notin Comes(a)
  BY <1>1, ReceivedKinds DEF EndsAlogin
<1> QED
  BY <1>1, <1>2, <1>3, ReceivedKinds, TakenStatus

LEMMA OnUserLeftStatus ==
  ASSUME TypeOK, StatusInv, NEW n \in Notices, OnUserLeft(n) PROVE StatusInv'
<1>1. Received(n) /\ on_alogin' = FALSE /\ UNCHANGED online
  BY DEF OnUserLeft, LeaveAlogin, Notices, EndsAlogin, server, TypeOK, ClientTypeOK
<1> QED
  BY <1>1, ReceivedKinds, TakenStatus

LEMMA OnAdminCameStatus == ASSUME TypeOK, StatusInv, OnAdminCame PROVE StatusInv'
<1>1. Received("came") /\ UNCHANGED <<on_alogin, online>>
  BY DEF OnAdminCame, user, server
<1>2. PICK a \in Admins : Head(to_client).of = {a}
  BY <1>1, ReceivedKinds DEF OfAdmin
<1>3. list' = IF a \in ToSet(list) THEN list ELSE Append(list, a)
  BY <1>2 DEF OnAdminCame
<1>4. ToSet(list) \subseteq ToSet(list') /\ a \in ToSet(list')
  <2>1. list \in Seq(Admins)
    BY DEF TypeOK
  <2> QED
    BY <1>3, <2>1, AppendLists
<1>5. Head(to_client) \notin Enders
  BY <1>1, ReceivedKinds DEF EndsAlogin
<1>6. \A b : Head(to_client) \in Comes(b) => b = a
  BY <1>1, <1>2, ReceivedKinds
<1> QED
  BY <1>1, <1>4, <1>5, <1>6, ReceivedKinds, TakenStatus

LEMMA OnAdminGoneStatus ==
  ASSUME TypeOK, StatusInv, NEW n \in OfAdmin, OnAdminGone(n) PROVE StatusInv'
<1>1. Received(n) /\ n \in {"left", "quit", "renamed"} /\ UNCHANGED online
  BY DEF OnAdminGone, server
<1>2. PICK a \in Admins : Head(to_client).of = {a}
  BY <1>1, ReceivedKinds
<1>3. IF a = Me THEN LeaveAlogin ELSE list' = WithoutFirst(a) /\ UNCHANGED on_alogin
  BY <1>2 DEF OnAdminGone
<1>4. CASE a = Me
  BY <1>1, <1>3, <1>4, ReceivedKinds, TakenStatus DEF LeaveAlogin
<1>5. CASE a # Me
  <2>1. Head(to_client) \notin Enders /\ \A b : Head(to_client) \notin Comes(b)
    BY <1>1, <1>2, <1>5, ReceivedKinds DEF EndsAlogin
  <2>2. Head(to_client) \in Removes(a)
    <3>1. Head(to_client) \in ToClient /\ Head(to_client).what = n
      BY <1>1, ReceivedKinds DEF TypeOK, ChannelTypeOK
    <3> QED
      BY <1>1, <1>2, <3>1 DEF Removes, ToClient, Notices
  <2>3. ASSUME NEW b \in ToSet(list), b # a PROVE b \in ToSet(list')
    <3> DEFINE first == {i \in 1..Len(list) :
                           list[i] = a /\ \A j \in 1..(i - 1) : list[j] # a}
    <3>1. list' = IF first = {} THEN list
                  ELSE RemoveAt(list, CHOOSE i \in first : TRUE)
      BY <1>3, <1>5 DEF WithoutFirst
    <3>2. first # {} => (CHOOSE i \in first : TRUE) \in first
      OBVIOUS
    <3>3. \A i \in first : i \in 1..Len(list) /\ list[i] = a
      OBVIOUS
    <3> HIDE DEF first
    <3>4. list \in Seq(Admins)
      BY DEF TypeOK
    <3> QED
      BY <2>3, <3>1, <3>2, <3>3, <3>4, RemoveAtLists
  <2> QED
    BY <1>1, <1>3, <1>5, <2>1, <2>2, <2>3, ReceivedKinds, TakenStatus
<1> QED
  BY <1>4, <1>5

LEMMA OnOnlineDialogStatus ==
  ASSUME TypeOK, StatusInv, OnOnlineDialog PROVE StatusInv'
<1>1. Received("online_dialog") /\ UNCHANGED online
  BY DEF OnOnlineDialog, server
<1>2. CASE on_alogin
  <2>1. UNCHANGED <<on_alogin, list>>
    BY <1>2 DEF OnOnlineDialog
  <2>2. Head(to_client) \notin Enders /\ \A a : Head(to_client) \notin Comes(a)
    BY <1>1, ReceivedKinds DEF EndsAlogin
  <2> QED
    BY <1>1, <1>2, <2>1, <2>2, ReceivedKinds, TakenStatus
<1>3. CASE ~on_alogin
  <2> DEFINE S == Head(to_client).of
  <2>1. S \subseteq Admins /\ Head(to_client) \in Dialogs
    BY <1>1, ReceivedKinds
  <2>2. list' = list \o SetToSeq(S)
    BY <1>3 DEF OnOnlineDialog, WithOnline
  <2> HIDE DEF S
  <2>3. IsFiniteSet(S)
    BY <2>1, AdminsFinite, FS_Subset
  <2>4. SetToSeq(S) \in Seq(Admins) /\ list \in Seq(Admins)
    BY <2>1, <2>3, SetToSeqOnce DEF TypeOK
  <2>5. S \subseteq ToSet(list')
    BY <2>2, <2>3, <2>4, SetToSeqAll, ConcatLists
  <2> QED
    BY <1>1, <2>1, <2>5, ReceivedKinds, TakenStatus DEF S
<1> QED
  BY <1>2, <1>3

\* The main loop, time, the gate and the user
LEMMA LocalStatus ==
  ASSUME TypeOK, StatusInv,
         \/ \E second \in BOOLEAN : MainLoop(second)
         \/ DelayPasses \/ MessagePasses \/ GateOpens \/ ChangesFocus
         \/ \E c \in Commands : Types(c)
  PROVE  StatusInv'
<1>1. ASSUME NEW second \in BOOLEAN, MainLoop(second) PROVE StatusInv'
  <2>1. UNCHANGED <<missed, to_client, online>> /\ (on_alogin' => on_alogin /\ UNCHANGED list)
    BY <1>1 DEF MainLoop, LeaveAlogin, gate, server
  <2> QED
    BY <2>1, KeptStatus
<1>2. CASE MessagePasses
  BY <1>2 DEF MessagePasses, StatusInv
<1>3. CASE DelayPasses \/ GateOpens \/ ChangesFocus \/ \E c \in Commands : Types(c)
  <2>1. UNCHANGED <<missed, to_client, online, on_alogin, list>>
    BY <1>3 DEF DelayPasses, GateOpens, ChangesFocus, Types, user, gate, server
  <2> QED
    BY <2>1, KeptStatus
<1> QED
  BY <1>1, <1>2, <1>3

\* The messages the server sends
LEMMA ToldKinds ==
  /\ \A n \in EndsAlogin : Notice(n) \in Enders
  /\ \A n \in {"authorized", "menu"} :
       Notice(n) \notin Dialogs /\ \A a : Notice(n) \notin Removes(a)
  /\ online \subseteq Admins =>
       OnlineDialog \in Dialogs /\ OnlineDialog.of = online
  /\ \A a : OnlineDialog \notin Removes(a)
  /\ \A n \in {"left", "quit", "renamed"} : About(n, Me) \in Enders
  /\ \A n \in OfAdmin : \A a : About(n, a) \notin Dialogs
  /\ \A a : About("came", a) \in Comes(a) /\ \A b : About("came", a) \notin Removes(b)
  /\ \A n \in OfAdmin : \A a, b : About(n, a) \in Removes(b) => a = b
<1>1. /\ \A n \in EndsAlogin : Notice(n) \in Enders
      /\ \A n \in {"left", "quit", "renamed"} : About(n, Me) \in Enders
  BY DEF Notice, About, Enders
<1>2. \A n \in {"authorized", "menu"} :
        Notice(n) \notin Dialogs /\ \A a : Notice(n) \notin Removes(a)
  BY DEF Notice, Dialogs, Removes
<1>3. /\ online \subseteq Admins => OnlineDialog \in Dialogs /\ OnlineDialog.of = online
      /\ \A a : OnlineDialog \notin Removes(a)
  BY DEF OnlineDialog, Dialogs, Removes
<1>4. \A n \in OfAdmin : \A a : About(n, a) \notin Dialogs
  BY DEF About, Dialogs, OfAdmin
<1>5. \A a : About("came", a) \in Comes(a) /\ \A b : About("came", a) \notin Removes(b)
  BY DEF About, Comes, Removes
<1>6. \A n \in OfAdmin : \A a, b : About(n, a) \in Removes(b) => a = b
  BY DEF About, Removes
<1> QED
  BY <1>1, <1>2, <1>3, <1>4, <1>5, <1>6

LEMMA ServerStatus == ASSUME TypeOK, StatusInv, ServerStep PROVE StatusInv'
<1>1. UNCHANGED <<missed, on_alogin, list>>
  BY DEF ServerStep, client, user, gate
<1>2. online \subseteq Admins
  BY DEF TypeOK, ServerTypeOK
<1>3. CASE ServerAlogin
  <2>1. to_client' = Append(to_client, Notice("authorized")) /\ online' = online \cup {Me}
    BY <1>3 DEF ServerAlogin, Tell
  <2> QED
    BY <1>1, <2>1, ToldKinds, ToldStatus
<1>4. CASE ServerAlogout
  <2>1. CASE Me \in online
    <3>1. to_client' = Append(to_client, Notice("alogout_message"))
      BY <1>4, <2>1 DEF ServerAlogout, Tell
    <3>2. Notice("alogout_message") \in Enders
      BY ToldKinds DEF EndsAlogin
    <3> QED
      BY <1>1, <3>1, <3>2, ToldStatus
  <2>2. CASE Me \notin online
    BY <1>1, <1>4, <2>2, KeptStatus DEF ServerAlogout
  <2> QED
    BY <2>1, <2>2
<1>5. ASSUME UNCHANGED <<online, to_client>> PROVE StatusInv'
  BY <1>1, <1>5, KeptStatus
<1>6. ASSUME UNCHANGED online, Tell(Notice("menu")) PROVE StatusInv'
  <2>1. to_client' = Append(to_client, Notice("menu"))
    BY <1>6 DEF Tell
  <2> QED
    BY <1>1, <1>6, <2>1, ToldKinds, ToldStatus
<1>7. ASSUME UNCHANGED online, Me \in online, Tell(OnlineDialog) PROVE StatusInv'
  <2>1. to_client' = Append(to_client, OnlineDialog)
    BY <1>7 DEF Tell
  <2> QED
    BY <1>1, <1>2, <1>7, <2>1, ToldKinds, ToldStatus
<1>8. CASE ServerAdm
  BY <1>5, <1>6, <1>7, <1>8 DEF ServerAdm
<1>9. CASE ServerMenu
  BY <1>5, <1>7, <1>9 DEF ServerMenu
<1> QED
  BY <1>3, <1>4, <1>8, <1>9 DEF ServerStep

LEMMA AdminStatus ==
  ASSUME TypeOK, StatusInv, NEW a \in Admins,
         AdminComes(a) \/ AdminLeaves(a) \/ \E n \in OfAdmin : AdminGone(n, a)
  PROVE  StatusInv'
<1>1. UNCHANGED <<missed, on_alogin, list>>
  BY DEF AdminComes, AdminLeaves, AdminGone, client, user, gate
<1>2. CASE AdminComes(a)
  <2>1. CASE Me \in online
    <3>1. to_client' = Append(to_client, About("came", a)) /\ online' = online \cup {a}
      BY <1>2, <2>1 DEF AdminComes, Tell
    <3>2. "came" \in OfAdmin
      BY DEF OfAdmin
    <3> QED
      BY <1>1, <3>1, <3>2, ToldKinds, ToldStatus
  <2>2. CASE Me \notin online
    BY <1>1, <1>2, <2>2, KeptStatus DEF AdminComes
  <2> QED
    BY <2>1, <2>2
<1>3. ASSUME NEW n \in {"left", "quit", "renamed"}, Tell(About(n, a)),
             online' = online \ {a}
      PROVE  StatusInv'
  <2>1. to_client' = Append(to_client, About(n, a)) /\ n \in OfAdmin
    BY <1>3 DEF Tell, OfAdmin
  <2>2. CASE a = Me
    BY <1>1, <2>1, <2>2, ToldKinds, ToldStatus
  <2>3. CASE a # Me
    BY <1>1, <1>3, <2>1, <2>3, ToldKinds, ToldStatus
  <2> QED
    BY <2>2, <2>3
<1>4. CASE AdminLeaves(a)
  <2>1. CASE Me \in online
    BY <1>3, <1>4, <2>1 DEF AdminLeaves
  <2>2. CASE Me \notin online
    BY <1>1, <1>4, <2>2, KeptStatus DEF AdminLeaves
  <2> QED
    BY <2>1, <2>2
<1>5. CASE \E n \in OfAdmin : AdminGone(n, a)
  BY <1>3, <1>5 DEF AdminGone
<1> QED
  BY <1>2, <1>4, <1>5

LEMMA UserGoneStatus ==
  ASSUME TypeOK, StatusInv, NEW n \in Notices, UserGone(n) PROVE StatusInv'
<1>1. /\ UNCHANGED <<missed, on_alogin, list>> /\ n \in EndsAlogin
      /\ to_client' = Append(to_client, Notice(n))
  BY DEF UserGone, client, user, gate, Tell, EndsAlogin
<1>2. Notice(n) \in Enders
  BY <1>1, ToldKinds
<1> QED
  BY <1>1, <1>2, ToldStatus

-----------------------------------------------------------------------------
(* The theorems                                                            *)

\* The invariant survives every step of the plugin, the user, the server and
\* the other administrators.
THEOREM Inductive == IInv /\ [Next]_vars => IInv'
<1> SUFFICES ASSUME IInv, [Next]_vars PROVE IInv'
  OBVIOUS
<1>1. OthersTypeOK' /\ ListStep
  <2>1. CASE ClientStep
    BY <2>1, OnAuthorizedStep, OnAdminCameStep, OnMenuStep, OnOnlineDialogStep,
       OnUserLeftStep, OnAdminGoneStep DEF ClientStep
  <2>2. CASE ServerStep
    BY <2>2, ServerStepStep
  <2>3. CASE \E second \in BOOLEAN : MainLoop(second)
    BY <2>3, MainLoopStep
  <2>4. CASE DelayPasses \/ MessagePasses \/ GateOpens \/ ChangesFocus
    BY <2>4, QuietSteps
  <2>5. CASE \E c \in Commands : Types(c)
    BY <2>5, TypesStep
  <2>6. CASE \E a \in Admins : AdminComes(a) \/ AdminLeaves(a)
    BY <2>6, AdminStep
  <2>7. CASE \E a \in Admins, n \in OfAdmin : AdminGone(n, a)
    BY <2>7, AdminStep
  <2>8. CASE \E n \in Notices : UserGone(n)
    BY <2>8, UserGoneStep
  <2>9. CASE UNCHANGED vars
    BY <2>9 DEF vars, IInv, TypeOK, OthersTypeOK, ClientTypeOK, ChannelTypeOK,
       ServerTypeOK, ListStep, user, gate, afk, server
  <2> QED
    BY <2>1, <2>2, <2>3, <2>4, <2>5, <2>6, <2>7, <2>8, <2>9 DEF Next
<1>2. list' \in Seq(Admins) /\ ListedAtMostTwice' /\ ListedOnceOffAlogin'
  BY <1>1, ListStepKeeps
<1> QED
  BY <1>1, <1>2 DEF IInv, TypeOK, OthersTypeOK

\* So does what is on its way to the status and the list.
THEOREM StatusInductive == TypeOK /\ StatusInv /\ [Next]_vars => StatusInv'
<1> SUFFICES ASSUME TypeOK, StatusInv, [Next]_vars PROVE StatusInv'
  OBVIOUS
<1>1. CASE ClientStep
  BY <1>1, OnAuthorizedStatus, OnAdminCameStatus, OnOnlineDialogStatus,
     OnUserLeftStatus, OnAdminGoneStatus DEF ClientStep
<1>2. CASE ServerStep
  BY <1>2, ServerStatus
<1>3. CASE \/ \E second \in BOOLEAN : MainLoop(second)
           \/ DelayPasses \/ MessagePasses \/ GateOpens \/ ChangesFocus
           \/ \E c \in Commands : Types(c)
  BY <1>3, LocalStatus
<1>4. CASE \E a \in Admins : AdminComes(a) \/ AdminLeaves(a)
  BY <1>4, AdminStatus
<1>5. CASE \E a \in Admins, n \in OfAdmin : AdminGone(n, a)
  BY <1>5, AdminStatus
<1>6. CASE \E n \in Notices : UserGone(n)
  BY <1>6, UserGoneStatus
<1>7. CASE UNCHANGED vars
  <2>1. UNCHANGED <<missed, to_client, online, on_alogin, list>>
    BY <1>7 DEF vars, user, gate, server
  <2> QED
    BY <2>1, KeptStatus
<1> QED
  BY <1>1, <1>2, <1>3, <1>4, <1>5, <1>6, <1>7 DEF Next

\* The plugin starts off /alogin, with nothing on its way.
LEMMA InitStatus == Init => StatusInv
<1> SUFFICES ASSUME Init, NEW i \in 0..Len(to_client) PROVE ~Leads(i)
  BY DEF StatusInv, LeadsRightly
<1>1. i = 0 /\ on_alogin = FALSE
  BY DEF Init
<1> QED
  BY <1>1 DEF Leads

\* The flags of user.cpp, the list of admins.cpp and the counter of
\* auto_alogout.cpp keep their types, and the counter its range.
THEOREM TypeCorrect == Spec => []TypeOK
<1>1. IInv => TypeOK
  BY DEF IInv
<1> QED
  BY <1>1, InitIInv, Inductive, PTL DEF Spec

\* No administrator is listed three times, although update_admins appends
\* without looking: one entry comes from the chat before the dialog, one from
\* the dialog, and the next dialog is the user's own.
THEOREM ListedTwice == Spec => []ListedAtMostTwice
<1>1. IInv => ListedAtMostTwice
  BY DEF IInv
<1> QED
  BY <1>1, InitIInv, Inductive, PTL DEF Spec

\* Off /alogin nobody is listed twice.
THEOREM ListedOnce == Spec => []ListedOnceOffAlogin
<1>1. IInv => ListedOnceOffAlogin
  BY DEF IInv
<1> QED
  BY <1>1, InitIInv, Inductive, PTL DEF Spec

\* Once everything has arrived, and the handlers have seen all of it, the plugin
\* is on /alogin only if the server has the user there, however logins, logouts,
\* dialogs and disconnections overlap.
THEOREM StatusIsServers == Spec => []OnlyOnServersAlogin
<1>1. IInv => TypeOK
  BY DEF IInv
<1>2. TypeOK /\ StatusInv => OnlyOnServersAlogin
  <2> SUFFICES ASSUME StatusInv, Quiet, on_alogin PROVE Me \in online
    BY DEF OnlyOnServersAlogin
  <2>1. LeadsRightly(0)
    BY DEF StatusInv, Quiet
  <2> QED
    BY <2>1 DEF LeadsRightly, Leads, After, Quiet
<1> QED
  BY <1>1, <1>2, InitIInv, Inductive, InitStatus, StatusInductive, PTL DEF Spec

\* ... and then every administrator the server has on /alogin is listed, however
\* those who come and go interleave with the dialog and what it lists.
THEOREM EverybodyIsListed == Spec => []NobodyMissing
<1>1. IInv => TypeOK
  BY DEF IInv
<1>2. TypeOK /\ StatusInv => NobodyMissing
  <2> SUFFICES ASSUME StatusInv, Quiet, on_alogin PROVE online \subseteq ToSet(list)
    BY DEF NobodyMissing
  <2>1. LeadsRightly(0)
    BY DEF StatusInv, Quiet
  <2>2. \A a \in online : ListedFrom(0, a)
    BY <2>1 DEF LeadsRightly, Leads, After, Quiet
  <2> QED
    BY <2>2 DEF ListedFrom, Lists, Brought, Quiet
<1> QED
  BY <1>1, <1>2, InitIInv, Inductive, InitStatus, StatusInductive, PTL DEF Spec
=============================================================================

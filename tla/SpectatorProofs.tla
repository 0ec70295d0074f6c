-------------------------- MODULE SpectatorProofs --------------------------
(***************************************************************************)
(* What the plugin shows of a spectated player, proved for any players and *)
(* any traffic between the plugin and the server: whom it shows, whose     *)
(* keys, shots and statistics, which dialogs reach the user, and that the  *)
(* camera follows a player into a vehicle and out.                         *)
(*                                                                         *)
(* The types come first, then what a message more or less does to a        *)
(* channel, then one invariant for each of the questions.                  *)
(***************************************************************************)
EXTENDS Spectator, SequenceTheorems, FiniteSetTheorems, TLAPS

\* The type invariant in two parts: what travels, and the rest.
MessagesOK == to_server \in Seq(ToServer) /\ to_client \in Seq(ToClient)

SessionOK ==
  /\ active \in BOOLEAN /\ id \in Ids /\ previous_id \in {FirstId} \cup Players
  /\ player \in {NoObject} \cup Players
  /\ camera_switch_state \in {"none"} \cup Modes
  /\ made_of \subseteq Players

RequestsOK ==
  /\ stage \in {Nobody} \cup Players
  /\ timer \in {"off", "running", "elapsed"}
  /\ checking_statistics \in BOOLEAN /\ reloaded \in BOOLEAN /\ cut \in BOOLEAN
  /\ statistics_of \in {Nobody} \cup Players
  /\ owed \in Nat

WorldOK ==
  /\ sp \in {Nobody} \cup Players /\ camera \in Modes /\ slipped \in BOOLEAN
  /\ mode \in [Players -> Modes]

LEMMA Parts == TypeOK <=> MessagesOK /\ SessionOK /\ RequestsOK /\ WorldOK
BY DEF TypeOK, MessagesOK, SessionOK, RequestsOK, WorldOK

LEMMA InitTypeOK == Init => TypeOK
<1> SUFFICES ASSUME Init PROVE TypeOK
  OBVIOUS
<1>1. MessagesOK
  BY DEF Init, MessagesOK
<1>2. SessionOK
  BY DEF Init, SessionOK, Ids, Modes
<1>3. RequestsOK
  BY DEF Init, RequestsOK
<1>4. WorldOK
  BY DEF Init, WorldOK, Modes
<1> QED
  BY <1>1, <1>2, <1>3, <1>4, Parts

-----------------------------------------------------------------------------
(* What the messages are about.                                            *)

LEMMA HeadTypes ==
  ASSUME MessagesOK
  PROVE  /\ to_client # <<>> => /\ Head(to_client) \in ToClient
                                /\ Tail(to_client) \in Seq(ToClient)
         /\ to_server # <<>> => /\ Head(to_server) \in ToServer
                                /\ Tail(to_server) \in Seq(ToServer)
BY DEF MessagesOK

LEMMA OfPlayer ==
  ASSUME MessagesOK, Received("spectating_player") PROVE Of \in Players
<1>1. Head(to_client) \in ToClient /\ Head(to_client).what = "spectating_player"
  BY HeadTypes DEF Received
<1> QED
  BY <1>1 DEF Of, ToClient

LEMMA OfDialog ==
  ASSUME MessagesOK, Received("dialog") PROVE Of \in Players \cup {Me}
<1>1. Head(to_client) \in ToClient /\ Head(to_client).what = "dialog"
  BY HeadTypes DEF Received
<1> QED
  BY <1>1 DEF Of, ToClient

LEMMA OptionType ==
  ASSUME NEW o \in Options \cup {"own_statistics"} PROVE Option(o) \in ToServer
BY DEF Option, ToServer

LEMMA TellType ==
  /\ Tell("show_menu", Nobody) \in ToClient
  /\ Tell("hide_menu", Nobody) \in ToClient
  /\ \A p \in Players : /\ Tell("spectating_player", p) \in ToClient
                        /\ Tell("spectating_vehicle", p) \in ToClient
  /\ \A p \in Players \cup {Me} : Tell("dialog", p) \in ToClient
BY DEF Tell, ToClient

-----------------------------------------------------------------------------
(* One lemma for each part of the state.                                   *)

LEMMA SpectateType ==
  ASSUME MessagesOK, WorldOK, NEW before \in Seq(ToClient), NEW p \in Players,
         Spectate(before, p)
  PROVE  /\ to_client' \in Seq(ToClient)
         /\ sp' \in Players /\ camera' \in Modes /\ slipped' \in BOOLEAN
<1> DEFINE last == Tell(IF mode[p] = "player" THEN "spectating_player"
                                             ELSE "spectating_vehicle", p)
<1>1. mode[p] \in Modes
  BY DEF WorldOK
<1>2. last \in ToClient
  <2>1. CASE mode[p] = "player"
    BY <2>1, TellType
  <2>2. CASE mode[p] # "player"
    BY <2>2, TellType
  <2> QED
    BY <2>1, <2>2
<1>3. to_client' = (to_client \o before) \o <<last>>
  BY DEF Spectate
<1>4. to_client' \in Seq(ToClient)
  <2> HIDE DEF last
  <2> QED
    BY <1>2, <1>3 DEF MessagesOK
<1> QED
  BY <1>1, <1>4 DEF Spectate

LEMMA ServerType ==
  ASSUME MessagesOK, WorldOK, ServerStep
  PROVE  /\ MessagesOK'
         /\ sp' \in {Nobody} \cup Players /\ camera' \in Modes /\ slipped' \in BOOLEAN
<1> USE DEF MessagesOK, WorldOK
<1>1. to_server' \in Seq(ToServer) /\ Head(to_server) \in ToServer
  BY HeadTypes DEF ServerStep
<1>2. CASE ServerIgnores
  BY <1>1, <1>2 DEF ServerIgnores, server
<1>3. CASE ServerSp
  <2>1. Head(to_server).of \in Players
    BY <1>1, <1>3 DEF ServerSp, Said, ToServer, Options
  <2>2. <<Tell("show_menu", Nobody)>> \in Seq(ToClient) /\ <<>> \in Seq(ToClient)
    BY TellType
  <2>3. CASE sp = Nobody
    <3>1. Spectate(<<Tell("show_menu", Nobody)>>, Head(to_server).of)
      BY <1>3, <2>3 DEF ServerSp
    <3> QED
      BY <1>1, <2>1, <2>2, <3>1, SpectateType
  <2>4. CASE sp # Nobody
    <3>1. Spectate(<<>>, Head(to_server).of)
      BY <1>3, <2>4 DEF ServerSp
    <3> QED
      BY <1>1, <2>1, <2>2, <3>1, SpectateType
  <2> QED
    BY <2>3, <2>4
<1>4. CASE ServerNext
  <2>1. PICK q \in Players : Spectate(<<>>, q)
    BY <1>4 DEF ServerNext
  <2>2. <<>> \in Seq(ToClient)
    OBVIOUS
  <2> QED
    BY <1>1, <2>1, <2>2, SpectateType
<1>5. CASE ServerReload
  <2>1. sp \in Players /\ Spectate(<<>>, sp) /\ <<>> \in Seq(ToClient)
    BY <1>5 DEF ServerReload
  <2> QED
    BY <1>1, <2>1, SpectateType
<1>6. CASE ServerStatistics
  <2>1. Tell("dialog", sp) \in ToClient
    BY <1>6, TellType DEF ServerStatistics
  <2> QED
    BY <1>1, <1>6, <2>1 DEF ServerStatistics, server
<1>7. CASE ServerOwnStatistics
  BY <1>1, <1>7, TellType DEF ServerOwnStatistics, server
<1>8. CASE ServerExit
  BY <1>1, <1>8, TellType DEF ServerExit, EndSession
<1> QED
  BY <1>2, <1>3, <1>4, <1>5, <1>6, <1>7, <1>8 DEF ServerStep

-----------------------------------------------------------------------------
\* assign, and what leaves the assigned player alone, keep the types and the
\* owner of the keys and shots.
LEMMA AssignedType ==
  ASSUME SessionOK, OwnKeysAndShots, NEW p \in Players, Assign(p) \/ KeepAssigned
  PROVE  /\ id' \in Ids /\ previous_id' \in {FirstId} \cup Players
         /\ player' \in {NoObject} \cup Players
         /\ camera_switch_state' \in {"none"} \cup Modes
         /\ made_of' \subseteq Players /\ OwnKeysAndShots'
BY DEF SessionOK, OwnKeysAndShots, Assign, KeepAssigned, Ids

LEMMA SessionType ==
  ASSUME TypeOK, OwnKeysAndShots, [Next]_vars
  PROVE  SessionOK' /\ OwnKeysAndShots'
<1> SUFFICES ASSUME MessagesOK, SessionOK, WorldOK PROVE SessionOK' /\ OwnKeysAndShots'
  BY Parts
<1>u. ASSUME UNCHANGED session, UNCHANGED camera_switch_state, UNCHANGED made_of
      PROVE  SessionOK' /\ OwnKeysAndShots'
  BY <1>u DEF session, SessionOK, OwnKeysAndShots
<1>1. CASE OnShowMenu \/ OnHideMenu
  BY <1>1 DEF OnShowMenu, OnHideMenu, shown, SessionOK, OwnKeysAndShots
<1>2. CASE OnSpectatingPlayer
  <2>1. Of \in Players
    BY <1>2, OfPlayer DEF OnSpectatingPlayer
  <2>2. Assign(Of) \/ KeepAssigned
    BY <1>2, Zenon DEF OnSpectatingPlayer
  <2>3. UNCHANGED active
    BY <1>2 DEF OnSpectatingPlayer
  <2> QED
    BY <2>1, <2>2, <2>3, AssignedType DEF SessionOK
<1>3. CASE OnSpectatingVehicle
  BY <1>3, <1>u DEF OnSpectatingVehicle, shown
<1>4. CASE OnDialog
  <2>1. UNCHANGED active
    BY <1>4 DEF OnDialog
  <2>2. CASE ~active \/ Of = Me
    BY <1>4, <2>1, <2>2 DEF OnDialog, KeepAssigned, SessionOK, OwnKeysAndShots
  <2>3. CASE active /\ Of # Me
    <3>1. Of \in Players
      BY <1>4, <2>3, OfDialog DEF OnDialog
    <3>2. Assign(Of) \/ KeepAssigned
      BY <1>4, <2>3, Zenon DEF OnDialog
    <3> QED
      BY <2>1, <3>1, <3>2, AssignedType DEF SessionOK
  <2> QED
    BY <2>2, <2>3
<1>5. ASSUME NEW p \in Players, OnSynchronization(p) \/ OnBulletSynchronization(p)
      PROVE  SessionOK' /\ OwnKeysAndShots'
  <2>1. mode[p] \in Modes
    BY DEF WorldOK
  <2>2. UNCHANGED session /\ made_of' = made_of \cup {p} /\ p = id
    BY <1>5, Zenon DEF OnSynchronization, OnBulletSynchronization
  <2>3. camera_switch_state' \in {mode[p], camera_switch_state}
    BY <1>5 DEF OnSynchronization, OnBulletSynchronization
  <2> QED
    BY <2>1, <2>2, <2>3 DEF session, SessionOK, OwnKeysAndShots
<1>6. ASSUME NEW here \in SUBSET Players, NEW inputs \in BOOLEAN, MainLoop(here, inputs)
      PROVE  SessionOK' /\ OwnKeysAndShots'
  <2>1. player' \in {player} \cup Players
    BY <1>6 DEF MainLoop, Fetched, SessionOK
  <2>2. UNCHANGED <<active, id, previous_id, camera_switch_state, made_of>>
    BY <1>6 DEF MainLoop, shown
  <2> QED
    BY <2>1, <2>2 DEF SessionOK, OwnKeysAndShots
<1>7. CASE ServerStep
  BY <1>7, <1>u, Zenon DEF ServerStep, shown
<1>8. CASE ServerEnds
  BY <1>8, <1>u, Zenon DEF ServerEnds, client, shown
<1>9. CASE TimerElapses \/ ReloadDelayPasses \/ TypesOwnStatistics \/ OnRemove3dText
           \/ (\E o \in Options : Chooses(o))
  BY <1>9, <1>u, Zenon
     DEF TimerElapses, ReloadDelayPasses, TypesOwnStatistics, OnRemove3dText, Chooses, shown
<1>10. CASE \E p \in Players :
              \/ TypesSp(p) \/ PlayerSwitches(p)
              \/ (\E is_stage \in BOOLEAN : OnShow3dText(p, is_stage))
  BY <1>10, <1>u, Zenon
     DEF TypesSp, PlayerSwitches, OnRemove3dText, OnShow3dText, client, shown
<1>11. CASE UNCHANGED vars
  BY <1>11, <1>u, Zenon DEF vars, shown
<1> QED
  BY <1>1, <1>2, <1>3, <1>4, <1>5, <1>6, <1>7, <1>8, <1>9, <1>10, <1>11, Zenon
     DEF Next, ClientStep, Synchronizes

-----------------------------------------------------------------------------
LEMMA RequestsType ==
  ASSUME TypeOK, [Next]_vars
  PROVE  RequestsOK'
<1> SUFFICES ASSUME MessagesOK, RequestsOK, WorldOK PROVE RequestsOK'
  BY Parts
<1>u. ASSUME UNCHANGED stage, UNCHANGED statistics_of, UNCHANGED requests, UNCHANGED owed
      PROVE  RequestsOK'
  BY <1>u DEF requests, RequestsOK
<1>1. CASE OnShowMenu
  BY <1>1, <1>u, Zenon DEF OnShowMenu, shown
<1>2. CASE OnHideMenu
  <2>1. cut' \in BOOLEAN
    BY <1>2, Zenon DEF OnHideMenu, RequestsOK
  <2> QED
    BY <1>2, <2>1, Zenon DEF OnHideMenu, shown, RequestsOK
<1>3. CASE OnSpectatingPlayer \/ OnSpectatingVehicle
  <2>1. timer' \in {timer, "running"}
    BY <1>3 DEF OnSpectatingPlayer, OnSpectatingVehicle
  <2>2. UNCHANGED <<stage, statistics_of, checking_statistics, reloaded, cut, owed>>
    BY <1>3, Zenon DEF OnSpectatingPlayer, OnSpectatingVehicle, shown
  <2> QED
    BY <2>1, <2>2 DEF RequestsOK
<1>4. CASE OnDialog
  <2>1. Received("dialog") /\ UNCHANGED <<stage, timer, reloaded, cut>>
    BY <1>4, Zenon DEF OnDialog
  <2>2. statistics_of' \in {Nobody} \cup Players
    BY <1>4, <2>1, OfDialog DEF OnDialog, RequestsOK
  <2>3. checking_statistics' \in BOOLEAN
    BY <1>4, Zenon DEF OnDialog, Kept, RequestsOK
  <2>4. owed' \in Nat
    BY <1>4 DEF OnDialog, Shows, RequestsOK
  <2> QED
    BY <2>1, <2>2, <2>3, <2>4, Zenon DEF RequestsOK
<1>5. CASE Synchronizes \/ (\E p \in Players : OnBulletSynchronization(p))
  BY <1>5, <1>u, Zenon DEF Synchronizes, OnSynchronization, OnBulletSynchronization
<1>6. ASSUME NEW here \in SUBSET Players, NEW inputs \in BOOLEAN, MainLoop(here, inputs)
      PROVE  RequestsOK'
  <2>1. timer' \in {timer, "off"}
    BY <1>6 DEF MainLoop
  <2>2. checking_statistics' \in BOOLEAN /\ reloaded' \in BOOLEAN
    BY <1>6, Zenon DEF MainLoop, RequestsOK
  <2>3. UNCHANGED <<stage, statistics_of, cut, owed>>
    BY <1>6, Zenon DEF MainLoop, shown
  <2> QED
    BY <2>1, <2>2, <2>3 DEF RequestsOK
<1>7. CASE ServerStep
  <2>1. UNCHANGED <<stage, statistics_of, timer, checking_statistics, reloaded>>
    BY <1>7, Zenon DEF ServerStep, shown
  <2>2. cut' \in BOOLEAN
    BY <1>7, Zenon DEF ServerStep, ServerIgnores, RequestsOK
  <2>3. owed' \in {owed, owed + 1}
    <3>1. CASE ServerStatistics
      BY <3>1 DEF ServerStatistics
    <3>2. CASE ~ServerStatistics
      BY <1>7, <3>2, Zenon
         DEF ServerStep, ServerIgnores, ServerSp, ServerNext, ServerReload,
             ServerOwnStatistics, ServerExit, EndSession, Spectate
    <3> QED
      BY <3>1, <3>2
  <2>4. owed' \in Nat
    BY <2>3 DEF RequestsOK
  <2> QED
    BY <2>1, <2>2, <2>4, Zenon DEF RequestsOK
<1>8. CASE ServerEnds
  BY <1>8, <1>u, Zenon DEF ServerEnds, EndSession, client, shown
<1>9. CASE TimerElapses
  BY <1>9 DEF TimerElapses, shown, RequestsOK
<1>10. CASE ReloadDelayPasses
  BY <1>10 DEF ReloadDelayPasses, shown, RequestsOK
<1>11. CASE TypesOwnStatistics \/ (\E o \in Options : Chooses(o))
            \/ (\E p \in Players : TypesSp(p) \/ PlayerSwitches(p))
  BY <1>11, <1>u, Zenon
     DEF TypesOwnStatistics, Chooses, TypesSp, PlayerSwitches, client, shown
<1>12. CASE OnRemove3dText
             \/ \E p \in Players, is_stage \in BOOLEAN : OnShow3dText(p, is_stage)
  <2>1. stage' \in {Nobody} \cup Players
    BY <1>12 DEF OnRemove3dText, OnShow3dText, RequestsOK
  <2>2. UNCHANGED <<requests, statistics_of, owed>>
    BY <1>12, Zenon DEF OnRemove3dText, OnShow3dText
  <2> QED
    BY <2>1, <2>2 DEF requests, RequestsOK
<1>13. CASE UNCHANGED vars
  BY <1>13, <1>u, Zenon DEF vars, shown
<1> QED
  BY <1>1, <1>2, <1>3, <1>4, <1>5, <1>6, <1>7, <1>8, <1>9, <1>10, <1>11, <1>12,
     <1>13, Zenon DEF Next, ClientStep

LEMMA WorldAndMessagesType ==
  ASSUME TypeOK, [Next]_vars
  PROVE  WorldOK' /\ MessagesOK'
<1> SUFFICES ASSUME MessagesOK, RequestsOK, WorldOK PROVE WorldOK' /\ MessagesOK'
  BY Parts
<1>u. ASSUME UNCHANGED mode, UNCHANGED server, MessagesOK' PROVE WorldOK' /\ MessagesOK'
  BY <1>u DEF server, WorldOK
<1>r. ASSUME NEW n, Received(n), UNCHANGED to_server PROVE MessagesOK'
  BY <1>r, HeadTypes DEF Received, MessagesOK
<1>s. ASSUME NEW o \in Options \cup {"own_statistics"}, Send(o), UNCHANGED to_client
      PROVE  MessagesOK'
  BY <1>s, OptionType DEF Send, MessagesOK
<1>1. CASE ClientStep
  <2>1. UNCHANGED mode /\ UNCHANGED server /\ UNCHANGED to_server
    BY <1>1, Zenon DEF ClientStep, OnShowMenu, OnHideMenu, OnSpectatingPlayer,
                       OnSpectatingVehicle, OnDialog
  <2>2. \E n \in {"show_menu", "hide_menu", "spectating_player",
                   "spectating_vehicle", "dialog"} : Received(n)
    BY <1>1 DEF ClientStep, OnShowMenu, OnHideMenu, OnSpectatingPlayer,
                OnSpectatingVehicle, OnDialog
  <2> QED
    BY <2>1, <2>2, <1>r, <1>u, Zenon
<1>2. CASE ServerStep
  <2>1. UNCHANGED mode
    BY <1>2, Zenon DEF ServerStep
  <2> QED
    BY <1>2, <2>1, ServerType DEF WorldOK
<1>3. CASE ServerEnds
  <2>1. MessagesOK'
    BY <1>3, TellType DEF ServerEnds, EndSession, MessagesOK
  <2> QED
    BY <1>3, <2>1 DEF ServerEnds, EndSession, WorldOK
<1>4. CASE Synchronizes \/ \E p \in Players : OnBulletSynchronization(p)
  <2>1. UNCHANGED mode /\ UNCHANGED server /\ UNCHANGED to_client
    BY <1>4, Zenon DEF Synchronizes, OnSynchronization, OnBulletSynchronization
  <2>2. Send("reload") \/ UNCHANGED to_server
    BY <1>4, Zenon DEF Synchronizes, OnSynchronization, OnBulletSynchronization
  <2>3. "reload" \in Options
    BY DEF Options
  <2>4. UNCHANGED to_server => MessagesOK'
    BY <2>1 DEF MessagesOK
  <2> QED
    BY <2>1, <2>2, <2>3, <2>4, <1>s, <1>u, Zenon
<1>5. ASSUME NEW here \in SUBSET Players, NEW inputs \in BOOLEAN, MainLoop(here, inputs)
      PROVE  WorldOK' /\ MessagesOK'
  <2> DEFINE asked == IF timer = "elapsed" THEN <<Option("automatic")>> ELSE <<>>
             again == IF Reloads(here, inputs) THEN <<Option("reload")>> ELSE <<>>
  <2>1. asked \in Seq(ToServer) /\ again \in Seq(ToServer)
    <3>1. <<Option("automatic")>> \in Seq(ToServer) /\ <<Option("reload")>> \in Seq(ToServer)
          /\ <<>> \in Seq(ToServer)
      BY OptionType DEF Options
    <3> QED
      BY <3>1, Zenon
  <2>2. to_server' = (to_server \o asked) \o again
    BY <1>5 DEF MainLoop
  <2>3. to_server' \in Seq(ToServer)
    <3> HIDE DEF asked, again
    <3> QED
      BY <2>1, <2>2 DEF MessagesOK
  <2>4. UNCHANGED mode /\ UNCHANGED server /\ UNCHANGED to_client
    BY <1>5, Zenon DEF MainLoop
  <2> QED
    BY <2>3, <2>4, <1>u DEF MessagesOK
<1>6. CASE \/ TimerElapses \/ ReloadDelayPasses \/ OnRemove3dText
           \/ \E p \in Players, is_stage \in BOOLEAN : OnShow3dText(p, is_stage)
  <2>1. UNCHANGED <<mode, to_server, to_client, server>>
    BY <1>6, Zenon DEF TimerElapses, ReloadDelayPasses, OnRemove3dText, OnShow3dText
  <2> QED
    BY <2>1 DEF server, WorldOK, MessagesOK
<1>7. CASE TypesOwnStatistics \/ (\E o \in Options : Chooses(o))
  <2>1. UNCHANGED mode /\ UNCHANGED server /\ UNCHANGED to_client
    BY <1>7, Zenon DEF TypesOwnStatistics, Chooses
  <2>2. \E o \in Options \cup {"own_statistics"} : Send(o)
    BY <1>7 DEF TypesOwnStatistics, Chooses
  <2> QED
    BY <2>1, <2>2, <1>s, <1>u, Zenon
<1>8. ASSUME NEW p \in Players, TypesSp(p) PROVE WorldOK' /\ MessagesOK'
  <2>1. [what |-> "/sp", of |-> p] \in ToServer
    BY DEF ToServer
  <2> QED
    BY <1>8, <2>1, <1>u DEF TypesSp, MessagesOK
<1>9. ASSUME NEW p \in Players, PlayerSwitches(p) PROVE WorldOK' /\ MessagesOK'
  <2>1. mode' \in [Players -> Modes]
    BY <1>9 DEF PlayerSwitches, WorldOK, Modes
  <2>2. slipped' \in BOOLEAN
    BY <1>9, Zenon DEF PlayerSwitches, WorldOK
  <2> QED
    BY <1>9, <2>1, <2>2 DEF PlayerSwitches, WorldOK, MessagesOK
<1>10. CASE UNCHANGED vars
  BY <1>10, <1>u DEF vars, MessagesOK
<1> QED
  BY <1>1, <1>2, <1>3, <1>4, <1>5, <1>6, <1>7, <1>8, <1>9, <1>10, Zenon DEF Next

-----------------------------------------------------------------------------
-----------------------------------------------------------------------------
(* Messages on their way.  The invariants below say of a channel that it   *)
(* has a message of some set, how many it has, and what its last ones are; *)
(* each of these is known of a channel of one message more or less.        *)

Has(s, M) == \E i \in DOMAIN s : s[i] \in M

\* After the last message of M in N, which is part of M, no other of M comes.
EndsWith(s, M, N) == \E i \in DOMAIN s : /\ s[i] \in N
                                         /\ \A j \in DOMAIN s : j > i => s[j] \notin M

\* If there is a last message of M, it is in N.
LastIn(s, M, N) ==
  \A i \in DOMAIN s :
    s[i] \in M /\ (\A j \in DOMAIN s : j > i => s[j] \notin M) => s[i] \in N

\* A message of M is followed at once by one of N.
AtOnce(s, M, N) ==
  \A i \in DOMAIN s : s[i] \in M => i + 1 \in DOMAIN s /\ s[i + 1] \in N

Marks(s, M) == {i \in DOMAIN s : s[i] \in M}
Many(s, M) == Cardinality(Marks(s, M))

LEMMA Appended ==
  ASSUME NEW S, NEW s \in Seq(S), NEW e \in S
  PROVE  /\ Append(s, e) \in Seq(S) /\ Len(Append(s, e)) = Len(s) + 1
         /\ DOMAIN s = 1..Len(s) /\ DOMAIN Append(s, e) = 1..Len(s) + 1
         /\ \A i \in 1..Len(s) : Append(s, e)[i] = s[i]
         /\ Append(s, e)[Len(s) + 1] = e
         /\ s \o <<e>> = Append(s, e)
         /\ Len(s) \in Nat
OBVIOUS

LEMMA Taken ==
  ASSUME NEW S, NEW s \in Seq(S), s # <<>>
  PROVE  /\ Tail(s) \in Seq(S) /\ Len(s) \in Nat \ {0}
         /\ DOMAIN s = 1..Len(s) /\ DOMAIN Tail(s) = 1..Len(s) - 1
         /\ \A i \in 1..Len(s) - 1 : Tail(s)[i] = s[i + 1]
         /\ Head(s) = s[1] /\ Head(s) \in S
OBVIOUS

LEMMA HasAppend ==
  ASSUME NEW S, NEW s \in Seq(S), NEW e \in S, NEW M
  PROVE  Has(Append(s, e), M) <=> Has(s, M) \/ e \in M
BY Appended DEF Has

LEMMA HasTail ==
  ASSUME NEW S, NEW s \in Seq(S), NEW M, s # <<>>
  PROVE  Has(s, M) <=> Head(s) \in M \/ Has(Tail(s), M)
<1>1. Has(s, M) => Head(s) \in M \/ Has(Tail(s), M)
  <2> SUFFICES ASSUME NEW i \in DOMAIN s, s[i] \in M, i # 1 PROVE Has(Tail(s), M)
    BY Taken DEF Has
  <2>1. i - 1 \in DOMAIN Tail(s) /\ Tail(s)[i - 1] = s[i]
    BY Taken
  <2> QED
    BY <2>1 DEF Has
<1>2. Has(Tail(s), M) => Has(s, M)
  <2> SUFFICES ASSUME NEW i \in DOMAIN Tail(s), Tail(s)[i] \in M PROVE Has(s, M)
    BY DEF Has
  <2>1. i + 1 \in DOMAIN s /\ s[i + 1] = Tail(s)[i]
    BY Taken
  <2> QED
    BY <2>1 DEF Has
<1>3. 1 \in DOMAIN s /\ s[1] = Head(s)
  BY Taken
<1> QED
  BY <1>1, <1>2, <1>3 DEF Has

LEMMA EndsWithAppend ==
  ASSUME NEW S, NEW s \in Seq(S), NEW e \in S, NEW M, NEW N,
         (e \notin M /\ EndsWith(s, M, N)) \/ e \in N
  PROVE  EndsWith(Append(s, e), M, N)
<1>1. CASE e \in N
  BY <1>1, Appended DEF EndsWith
<1>2. CASE e \notin M /\ EndsWith(s, M, N)
  <2>1. PICK i \in DOMAIN s : s[i] \in N /\ \A j \in DOMAIN s : j > i => s[j] \notin M
    BY <1>2 DEF EndsWith
  <2>2. i \in DOMAIN Append(s, e) /\ Append(s, e)[i] \in N
    BY <2>1, Appended
  <2>3. \A j \in DOMAIN Append(s, e) : j > i => Append(s, e)[j] \notin M
    BY <1>2, <2>1, Appended
  <2> QED
    BY <2>2, <2>3 DEF EndsWith
<1> QED
  BY <1>1, <1>2

LEMMA EndsWithTail ==
  ASSUME NEW S, NEW s \in Seq(S), NEW M, NEW N, s # <<>>, EndsWith(s, M, N)
  PROVE  EndsWith(Tail(s), M, N) \/ (Head(s) \in N /\ ~Has(Tail(s), M))
<1>1. PICK i \in DOMAIN s : s[i] \in N /\ \A j \in DOMAIN s : j > i => s[j] \notin M
  BY DEF EndsWith
<1>2. \A j \in DOMAIN Tail(s) : j > i - 1 => Tail(s)[j] \notin M
  BY <1>1, Taken
<1>3. CASE i = 1
  BY <1>1, <1>2, <1>3, Taken DEF Has
<1>4. CASE i # 1
  <2>1. i - 1 \in DOMAIN Tail(s) /\ Tail(s)[i - 1] \in N
    BY <1>1, <1>4, Taken
  <2> QED
    BY <1>2, <2>1 DEF EndsWith
<1> QED
  BY <1>3, <1>4

LEMMA EndsWithHas ==
  ASSUME NEW s, NEW M, NEW N, EndsWith(s, M, N) PROVE Has(s, N)
BY DEF EndsWith, Has

LEMMA LastInAppend ==
  ASSUME NEW S, NEW s \in Seq(S), NEW e \in S, NEW M, NEW N,
         (e \in M /\ e \in N) \/ (e \notin M /\ LastIn(s, M, N))
  PROVE  LastIn(Append(s, e), M, N)
<1> SUFFICES ASSUME NEW i \in DOMAIN Append(s, e), Append(s, e)[i] \in M,
                    \A j \in DOMAIN Append(s, e) : j > i => Append(s, e)[j] \notin M
             PROVE  Append(s, e)[i] \in N
  BY DEF LastIn
<1>1. CASE i = Len(s) + 1
  BY <1>1, Appended
<1>2. CASE i # Len(s) + 1
  <2>1. i \in DOMAIN s /\ s[i] = Append(s, e)[i]
    BY <1>2, Appended
  <2>2. Len(s) + 1 > i /\ e \notin M
    BY <2>1, Appended
  <2>3. \A j \in DOMAIN s : j > i => s[j] \notin M
    BY Appended
  <2> QED
    BY <2>1, <2>2, <2>3 DEF LastIn
<1> QED
  BY <1>1, <1>2

LEMMA LastInTail ==
  ASSUME NEW S, NEW s \in Seq(S), NEW M, NEW N, s # <<>>, LastIn(s, M, N)
  PROVE  /\ LastIn(Tail(s), M, N)
         /\ Head(s) \in M /\ ~Has(Tail(s), M) => Head(s) \in N
<1>1. LastIn(Tail(s), M, N)
  <2> SUFFICES ASSUME NEW i \in DOMAIN Tail(s), Tail(s)[i] \in M,
                      \A j \in DOMAIN Tail(s) : j > i => Tail(s)[j] \notin M
               PROVE  Tail(s)[i] \in N
    BY DEF LastIn
  <2>1. i + 1 \in DOMAIN s /\ s[i + 1] = Tail(s)[i]
    BY Taken
  <2>2. ASSUME NEW j \in DOMAIN s, j > i + 1 PROVE s[j] \notin M
    <3>1. j - 1 \in DOMAIN Tail(s) /\ j - 1 > i /\ Tail(s)[j - 1] = s[j]
      BY <2>2, Taken
    <3> QED
      BY <3>1
  <2> QED
    BY <2>1, <2>2 DEF LastIn
<1>2. ASSUME Head(s) \in M, ~Has(Tail(s), M) PROVE Head(s) \in N
  <2>1. ASSUME NEW j \in DOMAIN s, j > 1 PROVE s[j] \notin M
    <3>1. j - 1 \in DOMAIN Tail(s) /\ Tail(s)[j - 1] = s[j]
      BY <2>1, Taken
    <3> QED
      BY <1>2, <3>1 DEF Has
  <2>2. 1 \in DOMAIN s /\ s[1] = Head(s)
    BY Taken
  <2> QED
    BY <1>2, <2>1, <2>2 DEF LastIn
<1> QED
  BY <1>1, <1>2

LEMMA AtOnceAppend ==
  ASSUME NEW S, NEW s \in Seq(S), NEW e \in S, NEW M, NEW N, e \notin M, AtOnce(s, M, N)
  PROVE  AtOnce(Append(s, e), M, N)
BY Appended DEF AtOnce

LEMMA AtOncePair ==
  ASSUME NEW S, NEW s \in Seq(S), NEW d \in S, NEW e \in S, NEW M, NEW N,
         e \in N, e \notin M, AtOnce(s, M, N)
  PROVE  AtOnce(Append(Append(s, d), e), M, N)
<1>1. Append(s, d) \in Seq(S)
  BY Appended
<1> DEFINE r == Append(s, d)
           t == Append(r, e)
<1>2. /\ DOMAIN t = 1..Len(s) + 2 /\ t[Len(s) + 2] = e /\ t[Len(s) + 1] = d
      /\ \A i \in DOMAIN s : t[i] = s[i]
      /\ DOMAIN s = 1..Len(s) /\ Len(s) \in Nat
  BY <1>1
<1> HIDE DEF t
<1>3. AtOnce(t, M, N)
  BY <1>2 DEF AtOnce
<1> QED
  BY <1>3 DEF t

LEMMA AtOnceTail ==
  ASSUME NEW S, NEW s \in Seq(S), NEW M, NEW N, s # <<>>, AtOnce(s, M, N)
  PROVE  AtOnce(Tail(s), M, N)
<1>1. ASSUME NEW i \in DOMAIN Tail(s), Tail(s)[i] \in M
      PROVE  i + 1 \in DOMAIN Tail(s) /\ Tail(s)[i + 1] \in N
  <2>1. i + 1 \in DOMAIN s /\ s[i + 1] \in M
    BY <1>1, Taken
  <2>2. i + 1 + 1 \in DOMAIN s /\ s[i + 1 + 1] \in N
    BY <2>1 DEF AtOnce
  <2> QED
    BY <1>1, <2>2, Taken
<1> QED
  BY <1>1 DEF AtOnce

LEMMA AtOnceHas ==
  ASSUME NEW s, NEW M, NEW N, AtOnce(s, M, N), Has(s, M) PROVE Has(s, N)
BY DEF AtOnce, Has

LEMMA MarksFinite ==
  ASSUME NEW S, NEW s \in Seq(S), NEW M
  PROVE  IsFiniteSet(Marks(s, M)) /\ Many(s, M) \in Nat
<1>1. IsFiniteSet(1..Len(s)) /\ Marks(s, M) \in SUBSET (1..Len(s))
  BY FS_Interval DEF Marks
<1>2. IsFiniteSet(Marks(s, M))
  BY <1>1, FS_Subset
<1> QED
  BY <1>2, FS_CardinalityType DEF Many

LEMMA ManyAppend ==
  ASSUME NEW S, NEW s \in Seq(S), NEW e \in S, NEW M
  PROVE  Many(Append(s, e), M) = Many(s, M) + (IF e \in M THEN 1 ELSE 0)
<1>1. Marks(Append(s, e), M) = Marks(s, M) \cup (IF e \in M THEN {Len(s) + 1} ELSE {})
  <2>1. CASE e \in M
    BY <2>1, Appended DEF Marks
  <2>2. CASE e \notin M
    BY <2>2, Appended DEF Marks
  <2> QED
    BY <2>1, <2>2
<1>2. Len(s) + 1 \notin Marks(s, M)
  BY DEF Marks
<1>3. CASE e \in M
  <2>1. Marks(Append(s, e), M) = Marks(s, M) \cup {Len(s) + 1}
    BY <1>1, <1>3
  <2> QED
    BY <1>2, <1>3, <2>1, MarksFinite, FS_AddElement DEF Many
<1>4. CASE e \notin M
  <2>1. Marks(Append(s, e), M) = Marks(s, M)
    BY <1>1, <1>4
  <2> QED
    BY <1>4, <2>1, MarksFinite DEF Many
<1> QED
  BY <1>3, <1>4

LEMMA AppendOther ==
  ASSUME NEW S, NEW s \in Seq(S), NEW e \in S, NEW M, e \notin M
  PROVE  /\ Has(Append(s, e), M) <=> Has(s, M)
         /\ Many(Append(s, e), M) = Many(s, M)
BY HasAppend, ManyAppend, MarksFinite

LEMMA ManyTail ==
  ASSUME NEW S, NEW s \in Seq(S), NEW M, s # <<>>
  PROVE  Many(s, M) = Many(Tail(s), M) + (IF Head(s) \in M THEN 1 ELSE 0)
<1> DEFINE A == Marks(Tail(s), M)
           B == Marks(s, M) \ {1}
           f == [i \in A |-> i + 1]
<1>1. IsFiniteSet(A) /\ IsFiniteSet(Marks(s, M))
  BY MarksFinite, Taken
<1>2. f \in Bijection(A, B)
  <2>1. f \in [A -> B]
    BY Taken DEF Marks
  <2>2. \A a, b \in A : f[a] = f[b] => a = b
    BY DEF Marks
  <2>3. \A b \in B : b - 1 \in A /\ f[b - 1] = b
    BY Taken DEF Marks
  <2>4. \A b \in B : \E a \in A : f[a] = b
    BY <2>3
  <2> QED
    BY <2>1, <2>2, <2>4 DEF Bijection, Injection, IsInjective, Surjection
<1>3. Cardinality(B) = Cardinality(A)
  BY <1>1, <1>2, FS_Bijection DEF ExistsBijection
<1>4. Cardinality(B) = IF 1 \in Marks(s, M) THEN Cardinality(Marks(s, M)) - 1
                                            ELSE Cardinality(Marks(s, M))
  BY <1>1, FS_RemoveElement
<1>5. 1 \in Marks(s, M) <=> Head(s) \in M
  BY Taken DEF Marks
<1>6. Cardinality(Marks(s, M)) \in Nat
  BY <1>1, FS_CardinalityType
<1> QED
  BY <1>3, <1>4, <1>5, <1>6 DEF Many

-----------------------------------------------------------------------------
(* The kinds of messages, and what a step does to the channels.            *)

ShowMenu == {Tell("show_menu", Nobody)}
HideMenu == {Tell("hide_menu", Nobody)}
Spectating == [what : {"spectating_player", "spectating_vehicle"}, of : Players]
Dialogs == [what : {"dialog"}, of : Players]
About == Spectating \cup Dialogs
AboutSp == {m \in About : m.of = sp}
Others(p) == [what : {"spectating_player", "dialog"}, of : Players \ {p}]
Automatic == {Option("automatic")}
Reload == {Option("reload")}

LEMMA Kinds ==
  /\ ShowMenu \subseteq ToClient /\ HideMenu \subseteq ToClient
  /\ Spectating \subseteq ToClient /\ Dialogs \subseteq ToClient
  /\ \A m \in ShowMenu : m \notin HideMenu /\ m \notin About
  /\ \A m \in HideMenu : m \notin ShowMenu /\ m \notin About
  /\ \A m \in About : m \notin ShowMenu /\ m \notin HideMenu /\ m.of \in Players
  /\ \A m \in Spectating : m \notin Dialogs
  /\ Automatic \subseteq ToServer /\ Reload \subseteq ToServer
  /\ \A m \in Reload : m \notin Automatic
BY DEF ShowMenu, HideMenu, Spectating, Dialogs, About, Automatic, Reload, Tell, Option,
       ToClient, ToServer, Options

LEMMA ReceivedKinds ==
  ASSUME MessagesOK, NEW n, Received(n)
  PROVE  /\ to_client # <<>> /\ Head(to_client) \in ToClient /\ Of = Head(to_client).of
         /\ to_client' = Tail(to_client)
         /\ n = "show_menu" => Head(to_client) \in ShowMenu
         /\ n = "hide_menu" => Head(to_client) \in HideMenu
         /\ n \in {"spectating_player", "spectating_vehicle"} => Head(to_client) \in Spectating
         /\ n = "dialog" => /\ Of # Me => Head(to_client) \in Dialogs
                            /\ Of = Me => Head(to_client) \notin About
                            /\ Head(to_client) \notin ShowMenu
                            /\ Head(to_client) \notin HideMenu
                            /\ Head(to_client) \notin Spectating
<1>1. /\ to_client # <<>> /\ Head(to_client) \in ToClient /\ Head(to_client).what = n
      /\ to_client' = Tail(to_client) /\ Of = Head(to_client).of
  BY HeadTypes DEF Received, Of
<1> DEFINE m == Head(to_client)
<1> HIDE DEF m
<1>2. m \in ToClient /\ m.what = n /\ Of = m.of
  BY <1>1 DEF m
<1>3. n = "show_menu" => m \in ShowMenu
  BY <1>2 DEF ToClient, ShowMenu, Tell
<1>4. n = "hide_menu" => m \in HideMenu
  BY <1>2 DEF ToClient, HideMenu, Tell
<1>5. n \in {"spectating_player", "spectating_vehicle"} => m \in Spectating
  BY <1>2 DEF ToClient, Spectating
<1>6. ASSUME n = "dialog"
      PROVE  /\ Of # Me => m \in Dialogs
             /\ Of = Me => m \notin About
             /\ m \notin ShowMenu /\ m \notin HideMenu /\ m \notin Spectating
  <2>1. m \in [what : {"dialog"}, of : Players \cup {Me}]
    BY <1>2, <1>6 DEF ToClient
  <2>2. Me \notin Players
    BY SpectatorAssumption
  <2> QED
    BY <1>2, <1>6, <2>1, <2>2 DEF Dialogs, About, Spectating, ShowMenu, HideMenu, Tell
<1> QED
  BY <1>1, <1>3, <1>4, <1>5, <1>6 DEF m

\* What the server does with a message: it ignores it, has the user spectate
\* somebody, shows a dialog, or ends the session.
Ignored ==
  /\ sp = Nobody /\ UNCHANGED <<to_client, sp, camera, slipped, owed>>
  /\ cut' = (cut \/ Head(to_server) \in Automatic)

Spectated ==
  \E e \in Spectating :
    /\ sp' = e.of /\ camera' = mode[sp'] /\ slipped' = FALSE
    /\ \/ sp # Nobody /\ to_client' = Append(to_client, e)
       \/ to_client' = Append(Append(to_client, Tell("show_menu", Nobody)), e)
    /\ Head(to_server) \notin Automatic /\ UNCHANGED <<owed, cut>>

Answered ==
  /\ sp # Nobody /\ Tell("dialog", sp) \in Dialogs
  /\ to_client' = Append(to_client, Tell("dialog", sp))
  /\ \/ Head(to_server) \in Automatic /\ UNCHANGED owed
     \/ Head(to_server) \notin Automatic /\ owed' = IF cut THEN owed ELSE owed + 1
  /\ Head(to_server) \notin Reload
  /\ UNCHANGED <<sp, camera, slipped, cut>>

AnsweredOwn ==
  /\ to_client' = Append(to_client, Tell("dialog", Me))
  /\ Head(to_server) \notin Automatic /\ Head(to_server) \notin Reload
  /\ UNCHANGED <<sp, camera, slipped, owed, cut>>

Ended ==
  /\ sp' = Nobody /\ to_client' = Append(to_client, Tell("hide_menu", Nobody))
  /\ Head(to_server) \notin Automatic /\ UNCHANGED <<camera, slipped, owed, cut>>

LEMMA SpectateShape ==
  ASSUME TypeOK, NEW p \in Players, NEW before, Spectate(before, p),
         \/ sp = Nobody /\ before = <<Tell("show_menu", Nobody)>>
         \/ sp # Nobody /\ before = <<>>,
         Head(to_server) \notin Automatic, UNCHANGED cut
  PROVE  Spectated
<1> DEFINE e == Tell(IF mode[p] = "player" THEN "spectating_player"
                                          ELSE "spectating_vehicle", p)
<1>1. e \in Spectating /\ e.of = p
  BY DEF Tell, Spectating
<1>2. e \in ToClient /\ Tell("show_menu", Nobody) \in ToClient /\ to_client \in Seq(ToClient)
  BY <1>1, Kinds DEF ShowMenu, TypeOK
<1>3. to_client' = (to_client \o before) \o <<e>>
  BY DEF Spectate
<1> HIDE DEF e
<1>4. CASE sp = Nobody /\ before = <<Tell("show_menu", Nobody)>>
  <2>1. to_client \o before = Append(to_client, Tell("show_menu", Nobody))
    BY <1>2, <1>4, Appended
  <2>2. to_client \o before \in Seq(ToClient)
    BY <1>2, <2>1, Appended
  <2>3. to_client' = Append(to_client \o before, e)
    BY <1>2, <1>3, <2>2, Appended
  <2> QED
    BY <1>1, <2>1, <2>3 DEF Spectate, Spectated
<1>5. CASE sp # Nobody /\ before = <<>>
  <2>1. to_client' = Append(to_client, e)
    BY <1>2, <1>3, <1>5
  <2> QED
    BY <1>1, <1>5, <2>1 DEF Spectate, Spectated
<1> QED
  BY <1>4, <1>5

LEMMA ServerShape ==
  ASSUME TypeOK, ServerStep
  PROVE  /\ to_server # <<>> /\ to_server' = Tail(to_server)
         /\ Head(to_server) \in ToServer
         /\ UNCHANGED <<active, id, previous_id, camera_switch_state, statistics_of,
                        timer, checking_statistics, mode>>
         /\ Ignored \/ Spectated \/ Answered \/ AnsweredOwn \/ Ended
<1>1. MessagesOK
  BY Parts
<1>2. to_server # <<>> /\ to_server' = Tail(to_server) /\ Head(to_server) \in ToServer
  BY <1>1, HeadTypes DEF ServerStep
<1>3. Head(to_server) \in Automatic <=> Said = "automatic"
  BY <1>2 DEF Automatic, Option, Said, ToServer, Options
<1>4. Head(to_server) \in Reload <=> Said = "reload"
  BY <1>2 DEF Reload, Option, Said, ToServer, Options
<1>5. UNCHANGED <<active, id, previous_id, camera_switch_state, statistics_of,
                  timer, checking_statistics, mode>>
  BY DEF ServerStep, session, shown
<1>6. sp \in {Nobody} \cup Players
  BY DEF TypeOK
<1>7. CASE ServerIgnores
  <2>1. cut' = (cut \/ Said = "automatic")
    BY <1>7, Zenon DEF ServerIgnores
  <2> QED
    BY <1>2, <1>3, <1>5, <1>7, <2>1 DEF ServerIgnores, Ignored, server
<1>8. CASE ~ServerIgnores
  <2>0. UNCHANGED cut
    BY <1>8, Zenon DEF ServerStep
  <2>1. CASE ServerSp
    <3>1. Head(to_server).of \in Players /\ Said = "/sp"
      BY <1>2, <2>1 DEF ServerSp, Said, ToServer, Options
    <3>2. Spectate(IF sp = Nobody THEN <<Tell("show_menu", Nobody)>> ELSE <<>>,
                   Head(to_server).of)
      BY <2>1, Zenon DEF ServerSp
    <3>3. Spectated
      BY <1>3, <2>0, <3>1, <3>2, SpectateShape
    <3> QED
      BY <1>2, <1>5, <3>3
  <2>2. CASE ServerNext
    <3>1. PICK q \in Players : Spectate(<<>>, q)
      BY <2>2 DEF ServerNext
    <3>2. Spectated
      BY <1>3, <2>0, <2>2, <3>1, SpectateShape DEF ServerNext
    <3> QED
      BY <1>2, <1>5, <3>2
  <2>3. CASE ServerReload
    <3>1. Spectated
      BY <1>3, <1>6, <2>0, <2>3, SpectateShape DEF ServerReload
    <3> QED
      BY <1>2, <1>5, <3>1
  <2>4. CASE ServerStatistics
    <3>1. sp \in Players /\ Tell("dialog", sp) \in Dialogs
      BY <1>6, <2>4 DEF ServerStatistics, Tell, Dialogs
    <3>2. Said \in {"statistics", "automatic"}
      BY <2>4 DEF ServerStatistics
    <3>3. owed' = IF Said = "statistics" /\ ~cut THEN owed + 1 ELSE owed
      BY <2>4, Zenon DEF ServerStatistics
    <3>4. \/ Head(to_server) \in Automatic /\ UNCHANGED owed
          \/ Head(to_server) \notin Automatic /\ owed' = IF cut THEN owed ELSE owed + 1
      BY <1>3, <3>2, <3>3
    <3>5. Answered
      BY <1>4, <2>0, <2>4, <3>1, <3>2, <3>4 DEF ServerStatistics, Answered, server
    <3> QED
      BY <1>2, <1>5, <3>5
  <2>5. CASE ServerOwnStatistics
    BY <1>2, <1>3, <1>4, <1>5, <2>0, <2>5 DEF ServerOwnStatistics, AnsweredOwn, server
  <2>6. CASE ServerExit
    BY <1>2, <1>3, <1>5, <2>0, <2>6 DEF ServerExit, EndSession, Ended
  <2> QED
    BY <1>8, <2>1, <2>2, <2>3, <2>4, <2>5, <2>6 DEF ServerStep
<1> QED
  BY <1>7, <1>8

\* What the other steps leave alone, sending at most one message that is not
\* the plugin's request for statistics.
Elsewhere ==
  /\ UNCHANGED <<active, id, previous_id, statistics_of, timer, checking_statistics,
                 cut, owed, to_client, sp>>
  /\ \/ UNCHANGED to_server
     \/ \E o \in ToServer : o \notin Automatic /\ to_server' = Append(to_server, o)

\* A turn of the main loop: the request for statistics goes out with the delay
\* over, a reload may.
Turn ==
  /\ active
  /\ UNCHANGED <<active, id, previous_id, statistics_of, camera_switch_state, cut, owed,
                 to_client, sp, camera, slipped, mode>>
  /\ \E s \in Seq(ToServer) :
       /\ \/ /\ timer # "elapsed" /\ s = to_server
             /\ UNCHANGED <<timer, checking_statistics>>
          \/ /\ timer = "elapsed" /\ s = Append(to_server, Option("automatic"))
             /\ timer' = "off" /\ checking_statistics' = TRUE
       /\ to_server' = s \/ to_server' = Append(s, Option("reload"))

LEMMA MainLoopShape ==
  ASSUME TypeOK, NEW here \in SUBSET Players, NEW inputs \in BOOLEAN, MainLoop(here, inputs)
  PROVE  Turn
<1>1. Option("automatic") \in ToServer /\ Option("reload") \in ToServer
  BY Kinds DEF Automatic, Reload
<1> DEFINE asked == IF timer = "elapsed" THEN <<Option("automatic")>> ELSE <<>>
           again == IF Reloads(here, inputs) THEN <<Option("reload")>> ELSE <<>>
           s == to_server \o asked
<1>2. to_server \in Seq(ToServer) /\ timer \in {"off", "running", "elapsed"}
      /\ checking_statistics \in BOOLEAN
  BY DEF TypeOK
<1>3. /\ active /\ to_server' = s \o again
      /\ UNCHANGED <<active, id, previous_id, statistics_of, camera_switch_state, cut, owed,
                     to_client, sp, camera, slipped, mode>>
      /\ timer' = IF timer = "elapsed" THEN "off" ELSE timer
      /\ checking_statistics' = (checking_statistics \/ timer = "elapsed")
  BY Zenon DEF MainLoop, shown, server
<1>4. CASE timer = "elapsed"
  <2>1. asked = <<Option("automatic")>>
    BY <1>4
  <2>2. s = Append(to_server, Option("automatic")) /\ s \in Seq(ToServer)
    BY <1>1, <1>2, <2>1, Appended
  <2>3. timer' = "off" /\ checking_statistics' = TRUE
    BY <1>3, <1>4
  <2> HIDE DEF s, again
  <2>4. again = <<Option("reload")>> \/ again = <<>>
    BY DEF again
  <2>5. s \o <<Option("reload")>> = Append(s, Option("reload")) /\ s \o <<>> = s
    BY <1>1, <2>2, Appended, ConcatEmptySeq
  <2>6. to_server' = s \/ to_server' = Append(s, Option("reload"))
    BY <1>3, <2>4, <2>5
  <2> QED
    BY <1>3, <1>4, <2>2, <2>3, <2>6 DEF Turn
<1>5. CASE timer # "elapsed"
  <2>1. asked = <<>>
    BY <1>5
  <2>2. s = to_server /\ s \in Seq(ToServer)
    BY <1>2, <2>1, ConcatEmptySeq
  <2>3. UNCHANGED <<timer, checking_statistics>>
    BY <1>2, <1>3, <1>5
  <2> HIDE DEF s, again
  <2>4. again = <<Option("reload")>> \/ again = <<>>
    BY DEF again
  <2>5. s \o <<Option("reload")>> = Append(s, Option("reload")) /\ s \o <<>> = s
    BY <1>1, <2>2, Appended, ConcatEmptySeq
  <2>6. to_server' = s \/ to_server' = Append(s, Option("reload"))
    BY <1>3, <2>4, <2>5
  <2> QED
    BY <1>3, <1>5, <2>2, <2>3, <2>6 DEF Turn
<1> QED
  BY <1>4, <1>5

LEMMA ElsewhereShape ==
  ASSUME TypeOK,
         \/ Synchronizes \/ ReloadDelayPasses \/ TypesOwnStatistics \/ OnRemove3dText
         \/ \E o \in Options : Chooses(o)
         \/ \E p \in Players :
              \/ TypesSp(p) \/ OnBulletSynchronization(p) \/ PlayerSwitches(p)
              \/ (\E is_stage \in BOOLEAN : OnShow3dText(p, is_stage))
         \/ UNCHANGED vars
  PROVE  Elsewhere
<1> DEFINE rest == UNCHANGED <<active, id, previous_id, statistics_of, timer,
                               checking_statistics, cut, owed, to_client, sp>>
<1>1. CASE Synchronizes
  <2>1. PICK p \in Players : OnSynchronization(p)
    BY <1>1 DEF Synchronizes
  <2>2. rest
    BY <2>1, Zenon DEF OnSynchronization, session, requests, server
  <2>3. Option("reload") \in ToServer /\ Option("reload") \notin Automatic
    BY Kinds DEF Reload
  <2>4. UNCHANGED to_server \/ to_server' = Append(to_server, Option("reload"))
    BY <2>1, Zenon DEF OnSynchronization, Send
  <2> QED
    BY <2>2, <2>3, <2>4 DEF Elsewhere
<1>2. CASE \/ ReloadDelayPasses \/ OnRemove3dText \/ UNCHANGED vars
           \/ \E p \in Players :
                \/ OnBulletSynchronization(p) \/ PlayerSwitches(p)
                \/ (\E is_stage \in BOOLEAN : OnShow3dText(p, is_stage))
  <2>1. rest /\ UNCHANGED to_server
    BY <1>2, Zenon DEF ReloadDelayPasses, OnRemove3dText, vars, OnBulletSynchronization,
                       PlayerSwitches, OnShow3dText, client, session, shown, requests, server
  <2> QED
    BY <2>1, Zenon DEF Elsewhere
<1>3. CASE TypesOwnStatistics
  <2>1. rest /\ to_server' = Append(to_server, Option("own_statistics"))
    BY <1>3, Zenon DEF TypesOwnStatistics, Send, session, shown, requests, server
  <2>2. Option("own_statistics") \in ToServer /\ Option("own_statistics") \notin Automatic
    BY DEF Option, ToServer, Automatic
  <2> QED
    BY <2>1, <2>2 DEF Elsewhere
<1>4. ASSUME NEW o \in Options, Chooses(o) PROVE Elsewhere
  <2>1. rest /\ to_server' = Append(to_server, Option(o)) /\ o # "automatic"
    BY <1>4, Zenon DEF Chooses, Send, session, shown, requests, server
  <2>2. Option(o) \in ToServer /\ Option(o) \notin Automatic
    BY <2>1 DEF Option, ToServer, Automatic
  <2> QED
    BY <2>1, <2>2 DEF Elsewhere
<1>5. ASSUME NEW p \in Players, TypesSp(p) PROVE Elsewhere
  <2>1. rest /\ to_server' = Append(to_server, [what |-> "/sp", of |-> p])
    BY <1>5, Zenon DEF TypesSp, session, shown, requests, server
  <2>2. [what |-> "/sp", of |-> p] \in ToServer /\ [what |-> "/sp", of |-> p] \notin Automatic
    BY DEF Option, ToServer, Automatic
  <2> QED
    BY <2>1, <2>2 DEF Elsewhere
<1> QED
  BY <1>1, <1>2, <1>3, <1>4, <1>5, Zenon

LEMMA StepShapes ==
  ASSUME TypeOK, [Next]_vars
  PROVE  \/ OnShowMenu \/ OnHideMenu \/ OnSpectatingPlayer \/ OnSpectatingVehicle
         \/ OnDialog \/ ServerStep \/ ServerEnds \/ Turn \/ TimerElapses \/ Elsewhere
BY MainLoopShape, ElsewhereShape, Zenon DEF Next, ClientStep

-----------------------------------------------------------------------------
(* Whom the plugin knows to be spectated.  While somebody is:              *)
(*  - the menu is shown, or will be by a show_menu no hide_menu follows;   *)
(*  - the last message about a player on its way is about him;             *)
(*  - without such a message the plugin has him already, or has yet to ask *)
(*    whose vehicle it is, or he has the ID that previous_id has from the  *)
(*    start and nobody was assigned yet.                                   *)
(* A show_menu has the message about the player right behind it: so that   *)
(* the plugin is in a session when the last message about one comes.       *)

Requested == timer # "off" \/ Has(to_server, Automatic)

ShownAtOnce == AtOnce(to_client, ShowMenu, Spectating)

Known == id = previous_id \/ (id = Unassigned /\ previous_id = FirstId)

MenuShown ==
  sp # Nobody => \/ active /\ ~Has(to_client, HideMenu)
                 \/ EndsWith(to_client, HideMenu, ShowMenu)

LastAbout == sp # Nobody => LastIn(to_client, About, AboutSp)

Assigned == id = sp \/ (sp = FirstId /\ id = Unassigned)

Told == sp # Nobody /\ ~Has(to_client, About) => Assigned \/ Requested

PlayerInv == ShownAtOnce /\ Known /\ MenuShown /\ LastAbout /\ Told

\* What a message taken leaves of the order of those behind it, and that the
\* last one about a player finds the plugin in a session.
LEMMA TakenOrder ==
  ASSUME TypeOK, PlayerInv, NEW n, Received(n), UNCHANGED sp
  PROVE  /\ ShownAtOnce' /\ LastAbout'
         /\ sp # Nobody /\ Head(to_client) \in About /\ ~Has(to_client', About)
               => active /\ Head(to_client).of = sp
<1>1. to_client \in Seq(ToClient) /\ to_client # <<>> /\ to_client' = Tail(to_client)
  BY Parts, ReceivedKinds DEF MessagesOK
<1>2. ShownAtOnce'
  <2>1. AtOnce(Tail(to_client), ShowMenu, Spectating)
    BY <1>1, AtOnceTail DEF PlayerInv, ShownAtOnce
  <2> QED
    BY <1>1, <2>1 DEF ShownAtOnce
<1>3. LastAbout'
  <2>1. sp # Nobody => LastIn(Tail(to_client), About, AboutSp)
    BY <1>1, LastInTail DEF PlayerInv, LastAbout
  <2>2. AboutSp' = AboutSp
    BY DEF AboutSp
  <2> QED
    BY <1>1, <2>1, <2>2 DEF LastAbout
<1>4. ASSUME sp # Nobody, Head(to_client) \in About, ~Has(to_client', About)
      PROVE  active /\ Head(to_client).of = sp
  <2>1. Head(to_client) \in AboutSp
    BY <1>1, <1>4, LastInTail DEF PlayerInv, LastAbout
  <2>2. ~EndsWith(to_client, HideMenu, ShowMenu)
    <3> SUFFICES ASSUME EndsWith(to_client, HideMenu, ShowMenu) PROVE FALSE
      OBVIOUS
    <3>1. EndsWith(Tail(to_client), HideMenu, ShowMenu)
      BY <1>1, <1>4, EndsWithTail, Kinds
    <3>2. Has(Tail(to_client), Spectating)
      <4>1. Has(Tail(to_client), ShowMenu)
        BY <3>1, EndsWithHas
      <4>2. AtOnce(Tail(to_client), ShowMenu, Spectating)
        BY <1>1, <1>2 DEF ShownAtOnce
      <4> QED
        BY <4>1, <4>2, AtOnceHas
    <3> QED
      BY <1>1, <1>4, <3>2 DEF Has, About
  <2> QED
    BY <1>4, <2>1, <2>2 DEF PlayerInv, MenuShown, AboutSp
<1> QED
  BY <1>2, <1>3, <1>4

LEMMA TakenMenu ==
  ASSUME TypeOK, PlayerInv, NEW n, Received(n), UNCHANGED sp,
         IF n = "show_menu" THEN active' ELSE n # "hide_menu" => UNCHANGED active
  PROVE  MenuShown'
<1> SUFFICES ASSUME sp # Nobody
             PROVE  \/ active' /\ ~Has(to_client', HideMenu)
                    \/ EndsWith(to_client', HideMenu, ShowMenu)
  BY DEF MenuShown
<1>1. to_client \in Seq(ToClient) /\ to_client # <<>> /\ to_client' = Tail(to_client)
  BY Parts, ReceivedKinds DEF MessagesOK
<1>2. CASE EndsWith(to_client, HideMenu, ShowMenu)
  <2>1. \/ EndsWith(to_client', HideMenu, ShowMenu)
        \/ Head(to_client) \in ShowMenu /\ ~Has(to_client', HideMenu)
    BY <1>1, <1>2, EndsWithTail
  <2>2. Head(to_client) \in ShowMenu => n = "show_menu"
    BY DEF ShowMenu, Tell, Received
  <2> QED
    BY <2>1, <2>2
<1>3. CASE active /\ ~Has(to_client, HideMenu)
  <2>1. ~Has(to_client', HideMenu) /\ Head(to_client) \notin HideMenu
    BY <1>1, <1>3, HasTail
  <2>2. n # "hide_menu"
    BY <2>1, Parts, ReceivedKinds
  <2> QED
    BY <1>3, <2>1, <2>2
<1> QED
  BY <1>2, <1>3 DEF PlayerInv, MenuShown

\* A message about a player other than the last is replaced by it.
LEMMA TakenTold ==
  ASSUME TypeOK, PlayerInv, NEW n, Received(n), UNCHANGED sp, UNCHANGED to_server,
         Head(to_client) \notin About => UNCHANGED id /\ (active /\ n # "hide_menu" => UNCHANGED timer),
         sp # Nobody /\ active /\ Head(to_client) \in About /\ Head(to_client).of = sp
            => Assigned' \/ timer' # "off",
         n = "show_menu" => UNCHANGED timer
  PROVE  Told'
<1> SUFFICES ASSUME sp # Nobody, ~Has(to_client', About) PROVE Assigned' \/ Requested'
  BY DEF Told
<1>1. to_client \in Seq(ToClient) /\ to_client # <<>> /\ to_client' = Tail(to_client)
  BY Parts, ReceivedKinds DEF MessagesOK
<1>2. CASE Head(to_client) \in About
  BY <1>2, TakenOrder DEF Requested
<1>3. CASE Head(to_client) \notin About
  <2>1. ~Has(to_client, About)
    BY <1>1, <1>3, HasTail
  <2>2. ~EndsWith(to_client, HideMenu, ShowMenu)
    <3>1. Has(to_client, ShowMenu) => Has(to_client, Spectating)
      BY AtOnceHas DEF PlayerInv, ShownAtOnce
    <3>2. ~Has(to_client, Spectating)
      BY <2>1 DEF Has, About
    <3> QED
      BY <3>1, <3>2, EndsWithHas
  <2>3. active /\ Head(to_client) \notin HideMenu
    BY <1>1, <2>2, HasTail DEF PlayerInv, MenuShown
  <2>4. n # "hide_menu"
    BY <2>3, Parts, ReceivedKinds
  <2> QED
    BY <1>3, <2>1, <2>3, <2>4 DEF PlayerInv, Told, Assigned, Requested
<1> QED
  BY <1>2, <1>3

LEMMA ClientKeepsPlayer ==
  ASSUME TypeOK, PlayerInv, ClientStep
  PROVE  PlayerInv'
<1>0. MessagesOK /\ SessionOK
  BY Parts
<1>1. CASE OnShowMenu
  <2>1. Received("show_menu") /\ active' /\ UNCHANGED <<id, previous_id, timer, sp, to_server>>
    BY <1>1 DEF OnShowMenu, requests, server
  <2>2. Head(to_client) \notin About
    BY <1>0, <2>1, ReceivedKinds, Kinds
  <2>3. Told'
    BY <2>1, <2>2, TakenTold
  <2>4. Known'
    BY <2>1 DEF PlayerInv, Known
  <2> QED
    BY <2>1, <2>3, <2>4, TakenOrder, TakenMenu DEF PlayerInv
<1>2. CASE OnHideMenu
  <2>1. Received("hide_menu") /\ UNCHANGED <<id, previous_id, sp, to_server>>
    BY <1>2 DEF OnHideMenu, requests, server
  <2>2. Head(to_client) \notin About
    BY <1>0, <2>1, ReceivedKinds, Kinds
  <2>3. Told'
    BY <2>1, <2>2, TakenTold
  <2>4. Known'
    BY <2>1 DEF PlayerInv, Known
  <2> QED
    BY <2>1, <2>3, <2>4, TakenOrder, TakenMenu DEF PlayerInv
<1>3. CASE OnSpectatingPlayer
  <2>1. Received("spectating_player") /\ UNCHANGED <<active, sp, to_server>>
    BY <1>3 DEF OnSpectatingPlayer, server
  <2>2. Head(to_client) \in About /\ Of = Head(to_client).of /\ Of \in Players
    BY <1>0, <2>1, ReceivedKinds, OfPlayer DEF About
  <2>3. active => id' = Of \/ (Of = FirstId /\ id' = Unassigned)
    BY <1>3, <2>2 DEF OnSpectatingPlayer, Assign, KeepAssigned, PlayerInv, Known
  <2>4. Known'
    BY <1>3 DEF OnSpectatingPlayer, Assign, KeepAssigned, PlayerInv, Known
  <2>5. Told'
    BY <2>1, <2>2, <2>3, TakenTold DEF Assigned
  <2> QED
    BY <2>1, <2>4, <2>5, TakenOrder, TakenMenu DEF PlayerInv
<1>4. CASE OnSpectatingVehicle
  <2>1. Received("spectating_vehicle") /\ UNCHANGED <<active, id, previous_id, sp, to_server>>
    BY <1>4 DEF OnSpectatingVehicle, session, server
  <2>2. Head(to_client) \in About
    BY <1>0, <2>1, ReceivedKinds DEF About
  <2>3. active => timer' = "running"
    BY <1>4 DEF OnSpectatingVehicle
  <2>4. Known'
    BY <2>1 DEF PlayerInv, Known
  <2>5. Told'
    BY <2>1, <2>2, <2>3, TakenTold
  <2> QED
    BY <2>1, <2>4, <2>5, TakenOrder, TakenMenu DEF PlayerInv
<1>5. CASE OnDialog
  <2>1. Received("dialog") /\ UNCHANGED <<active, timer, sp, to_server>>
    BY <1>5 DEF OnDialog, server
  <2>2. Of \in Players \cup {Me} /\ Of = Head(to_client).of
    BY <1>0, <2>1, ReceivedKinds, OfDialog
  <2>3. Of # Me <=> Head(to_client) \in About
    BY <1>0, <2>1, ReceivedKinds DEF About
  <2>4. active /\ Of # Me => id' = Of \/ (Of = FirstId /\ id' = Unassigned)
    BY <1>5, <2>2 DEF OnDialog, Assign, KeepAssigned, PlayerInv, Known
  <2>5. Of = Me => UNCHANGED id
    BY <1>5 DEF OnDialog, KeepAssigned
  <2>6. Known'
    BY <1>5 DEF OnDialog, Assign, KeepAssigned, PlayerInv, Known
  <2>7. Told'
    BY <2>1, <2>2, <2>3, <2>4, <2>5, TakenTold DEF Assigned
  <2> QED
    BY <2>1, <2>6, <2>7, TakenOrder, TakenMenu DEF PlayerInv
<1> QED
  BY <1>1, <1>2, <1>3, <1>4, <1>5 DEF ClientStep

\* A message behind the others that is about the spectated player, or about
\* nobody and ends no session.
LEMMA AppendedOrder ==
  ASSUME TypeOK, PlayerInv, NEW e \in ToClient, to_client' = Append(to_client, e),
         UNCHANGED <<active, id, previous_id, timer, sp>>,
         e \notin ShowMenu, e \notin HideMenu, e \in About => e.of = sp /\ sp # Nobody,
         Requested => Requested' \/ e \in About
  PROVE  PlayerInv'
<1>1. to_client \in Seq(ToClient)
  BY DEF TypeOK
<1>2. ShownAtOnce' /\ Known'
  BY <1>1, AtOnceAppend DEF PlayerInv, ShownAtOnce, Known
<1>3. MenuShown'
  BY <1>1, HasAppend, EndsWithAppend DEF PlayerInv, MenuShown
<1>4. LastAbout'
  <2>1. e \in About => e \in AboutSp
    BY DEF AboutSp
  <2>2. AboutSp' = AboutSp
    BY DEF AboutSp
  <2> QED
    BY <1>1, <2>1, <2>2, LastInAppend DEF PlayerInv, LastAbout
<1>5. Told'
  BY <1>1, HasAppend DEF PlayerInv, Told, Assigned
<1> QED
  BY <1>2, <1>3, <1>4, <1>5 DEF PlayerInv

LEMMA ServerKeepsPlayer ==
  ASSUME TypeOK, PlayerInv, ServerStep
  PROVE  PlayerInv'
<1>1. to_client \in Seq(ToClient) /\ to_server \in Seq(ToServer)
      /\ sp \in {Nobody} \cup Players /\ Nobody \notin Players
  BY SpectatorAssumption DEF TypeOK, Nobody
<1>2. /\ to_server # <<>> /\ to_server' = Tail(to_server)
      /\ UNCHANGED <<active, id, previous_id, timer>>
      /\ Ignored \/ Spectated \/ Answered \/ AnsweredOwn \/ Ended
  BY ServerShape
<1>3. Head(to_server) \notin Automatic => (Requested => Requested')
  BY <1>1, <1>2, HasTail DEF Requested
<1>4. CASE Ignored
  BY <1>2, <1>4 DEF Ignored, PlayerInv, ShownAtOnce, Known, MenuShown, LastAbout,
                       Told, Assigned, Requested
<1>5. CASE Spectated
  <2>1. PICK e \in Spectating :
          /\ sp' = e.of
          /\ \/ sp # Nobody /\ to_client' = Append(to_client, e)
             \/ to_client' = Append(Append(to_client, Tell("show_menu", Nobody)), e)
          /\ Head(to_server) \notin Automatic
    BY <1>5 DEF Spectated
  <2>2. /\ e \in ToClient /\ e \notin ShowMenu /\ e \notin HideMenu /\ e \in About
        /\ e.of \in Players
    BY <2>1, Kinds DEF About
  <2> DEFINE m == Tell("show_menu", Nobody)
             s == Append(to_client, m)
  <2>3. m \in ToClient /\ m \in ShowMenu /\ m \notin HideMenu /\ s \in Seq(ToClient)
    BY <1>1, Kinds DEF ShowMenu
  <2> HIDE DEF m
  <2>4. ShownAtOnce'
    BY <1>1, <2>1, <2>2, <2>3, AtOnceAppend, AtOncePair DEF PlayerInv, ShownAtOnce, m
  <2>5. Known'
    BY <1>2 DEF PlayerInv, Known
  <2>6. MenuShown'
    <3>1. CASE sp # Nobody /\ to_client' = Append(to_client, e)
      BY <1>1, <1>2, <2>2, <3>1, HasAppend, EndsWithAppend DEF PlayerInv, MenuShown
    <3>2. CASE to_client' = Append(s, e)
      <4>1. EndsWith(s, HideMenu, ShowMenu)
        BY <1>1, <2>3, EndsWithAppend
      <4>2. EndsWith(Append(s, e), HideMenu, ShowMenu)
        BY <2>2, <2>3, <4>1, EndsWithAppend
      <4> QED
        BY <3>2, <4>2 DEF MenuShown
    <3> QED
      BY <2>1, <3>1, <3>2 DEF m
  <2>7. e \in AboutSp'
    BY <2>1, <2>2 DEF AboutSp
  <2>8. PICK r \in Seq(ToClient) : to_client' = Append(r, e)
    BY <1>1, <2>1, <2>3 DEF m
  <2>9. LastAbout' /\ Told'
    <3>1. Has(Append(r, e), About)
      BY <2>2, HasAppend
    <3>2. LastIn(Append(r, e), About, AboutSp')
      BY <2>2, <2>7, LastInAppend
    <3> QED
      BY <2>8, <3>1, <3>2 DEF LastAbout, Told
  <2> QED
    BY <2>4, <2>5, <2>6, <2>9 DEF PlayerInv
<1>6. CASE Answered
  <2>1. Tell("dialog", sp) \in Dialogs /\ Tell("dialog", sp).of = sp
    BY <1>6 DEF Answered, Tell
  <2> QED
    BY <1>2, <1>6, <2>1, Kinds, AppendedOrder DEF Answered, About
<1>7. CASE AnsweredOwn
  <2>1. /\ Tell("dialog", Me) \in ToClient /\ Tell("dialog", Me) \notin ShowMenu
        /\ Tell("dialog", Me) \notin HideMenu /\ Tell("dialog", Me) \notin About
    BY SpectatorAssumption, TellType DEF Tell, ShowMenu, HideMenu, About, Spectating, Dialogs
  <2> QED
    BY <1>2, <1>3, <1>7, <2>1, AppendedOrder DEF AnsweredOwn
<1>8. CASE Ended
  <2>1. Tell("hide_menu", Nobody) \in ToClient /\ Tell("hide_menu", Nobody) \notin ShowMenu
    BY Kinds DEF HideMenu
  <2>2. ShownAtOnce' /\ Known'
    BY <1>1, <1>2, <1>8, <2>1, AtOnceAppend DEF Ended, PlayerInv, ShownAtOnce, Known
  <2> QED
    BY <1>8, <2>2 DEF Ended, PlayerInv, MenuShown, LastAbout, Told
<1> QED
  BY <1>2, <1>4, <1>5, <1>6, <1>7, <1>8

LEMMA PlayerStep ==
  ASSUME TypeOK, PlayerInv, [Next]_vars
  PROVE  PlayerInv'
<1>1. to_client \in Seq(ToClient) /\ to_server \in Seq(ToServer)
  BY DEF TypeOK
<1>q. ASSUME UNCHANGED <<active, id, previous_id, to_client, sp>>, Requested => Requested'
      PROVE  PlayerInv'
  <2>1. AboutSp' = AboutSp
    BY <1>q DEF AboutSp
  <2> QED
    BY <1>q, <2>1 DEF PlayerInv, ShownAtOnce, Known, MenuShown, LastAbout, Told, Assigned
<1>2. CASE ServerEnds
  <2>1. /\ sp' = Nobody /\ to_client' = Append(to_client, Tell("hide_menu", Nobody))
        /\ UNCHANGED <<id, previous_id>>
    BY <1>2, Zenon DEF ServerEnds, EndSession, client, session
  <2>2. Tell("hide_menu", Nobody) \in ToClient /\ Tell("hide_menu", Nobody) \notin ShowMenu
    BY Kinds DEF HideMenu
  <2>3. ShownAtOnce' /\ Known'
    BY <1>1, <2>1, <2>2, AtOnceAppend DEF PlayerInv, ShownAtOnce, Known
  <2> QED
    BY <2>1, <2>3 DEF PlayerInv, MenuShown, LastAbout, Told
<1>3. CASE Turn
  <2>1. UNCHANGED <<active, id, previous_id, to_client, sp>>
    BY <1>3, Zenon DEF Turn
  <2>2. PICK s \in Seq(ToServer) :
          /\ \/ timer # "elapsed" /\ s = to_server /\ UNCHANGED timer
             \/ timer = "elapsed" /\ s = Append(to_server, Option("automatic"))
          /\ to_server' = s \/ to_server' = Append(s, Option("reload"))
    BY <1>3, Zenon DEF Turn
  <2>3. Option("automatic") \in Automatic /\ Option("automatic") \in ToServer
        /\ Option("reload") \in ToServer
    BY Kinds DEF Automatic, Reload
  <2>4. Has(s, Automatic) => Has(to_server', Automatic)
    BY <2>2, <2>3, HasAppend
  <2>5. Requested => timer' # "off" \/ Has(s, Automatic)
    <3>1. CASE timer # "elapsed"
      BY <2>2, <3>1 DEF Requested
    <3>2. CASE timer = "elapsed"
      <4>1. Has(Append(to_server, Option("automatic")), Automatic)
        BY <1>1, <2>3, HasAppend
      <4> QED
        BY <2>2, <3>2, <4>1
    <3> QED
      BY <3>1, <3>2
  <2> QED
    BY <1>q, <2>1, <2>4, <2>5 DEF Requested
<1>4. CASE TimerElapses
  <2>1. UNCHANGED <<active, id, previous_id, to_client, sp>> /\ timer' = "elapsed"
    BY <1>4 DEF TimerElapses, session, server
  <2> QED
    BY <1>q, <2>1 DEF Requested
<1>5. CASE Elsewhere
  <2>1. UNCHANGED <<active, id, previous_id, to_client, sp, timer>>
    BY <1>5, Zenon DEF Elsewhere
  <2>2. Has(to_server, Automatic) => Has(to_server', Automatic)
    BY <1>1, <1>5, HasAppend DEF Elsewhere
  <2> QED
    BY <1>q, <2>1, <2>2 DEF Requested
<1> QED
  BY <1>2, <1>3, <1>4, <1>5, StepShapes, ServerKeepsPlayer, ClientKeepsPlayer, Zenon
     DEF ClientStep

-----------------------------------------------------------------------------
(* Whose statistics are shown, and which dialogs.  Until a session ends    *)
(* under a request of the plugin:                                          *)
(*  - in a session in which a player is assigned the statistics are his,   *)
(*    or are about to be asked for, or the answer that will be kept is on  *)
(*    its way;                                                             *)
(*  - between two sessions no answer is waited for, and the statistics are *)
(*    those of the player last assigned, if any was;                       *)
(*  - of the dialogs on their way and those the plugin has asked for, all  *)
(*    but the one it waits for pay the user's own requests.                *)

WaitsFor == IF checking_statistics THEN 1 ELSE 0

InSession ==
  ~cut /\ active /\ id # Unassigned =>
    \/ statistics_of = id \/ timer # "off"
    \/ checking_statistics /\ (Has(to_server, Automatic) \/ Has(to_client, Dialogs))

Between ==
  ~cut /\ ~active => ~checking_statistics /\ (statistics_of = id \/ id = Unassigned)

Covered == ~cut => owed + WaitsFor <= Many(to_client, Dialogs) + Many(to_server, Automatic)

StatisticsInv == InSession /\ Between /\ Covered

\* A message that is no dialog of a player.
LEMMA TakenOther ==
  ASSUME TypeOK, NEW n, Received(n), n # "dialog" \/ Of = Me
  PROVE  /\ Many(to_client', Dialogs) = Many(to_client, Dialogs)
         /\ Has(to_client', Dialogs) <=> Has(to_client, Dialogs)
<1>1. to_client \in Seq(ToClient) /\ to_client # <<>> /\ to_client' = Tail(to_client)
  BY Parts, ReceivedKinds DEF MessagesOK
<1>2. Head(to_client) \notin Dialogs
  BY Parts, ReceivedKinds, SpectatorAssumption DEF Dialogs, Received
<1>3. Many(Tail(to_client), Dialogs) \in Nat
  BY <1>1, MarksFinite, Taken
<1> QED
  BY <1>1, <1>2, <1>3, HasTail, ManyTail

LEMMA ClientKeepsStatistics ==
  ASSUME TypeOK, PlayerInv, StatisticsInv, ClientStep
  PROVE  StatisticsInv'
<1>0. /\ to_client \in Seq(ToClient) /\ to_server \in Seq(ToServer) /\ owed \in Nat
      /\ checking_statistics \in BOOLEAN /\ active \in BOOLEAN /\ cut \in BOOLEAN
      /\ Me \notin Players /\ Unassigned \notin Players
  BY SpectatorAssumption DEF TypeOK
<1>1. CASE OnShowMenu
  <2>1. /\ Received("show_menu") /\ active'
        /\ UNCHANGED <<id, previous_id, timer, checking_statistics, cut, owed,
                       statistics_of, to_server>>
    BY <1>1, Zenon DEF OnShowMenu, shown, requests
  <2>2. /\ Many(to_client', Dialogs) = Many(to_client, Dialogs)
        /\ Has(to_client', Dialogs) <=> Has(to_client, Dialogs)
    BY <2>1, TakenOther
  <2>3. InSession'
    BY <2>1, <2>2 DEF StatisticsInv, InSession, Between
  <2> QED
    BY <2>1, <2>2, <2>3 DEF StatisticsInv, Between, Covered, WaitsFor
<1>2. CASE OnHideMenu
  <2>1. /\ Received("hide_menu") /\ ~active'
        /\ UNCHANGED <<id, previous_id, checking_statistics, owed, statistics_of, to_server>>
        /\ cut' = (cut \/ timer # "off" \/ checking_statistics)
    BY <1>2, Zenon DEF OnHideMenu, shown
  <2>2. Many(to_client', Dialogs) = Many(to_client, Dialogs)
    BY <2>1, TakenOther
  <2>3. Between'
    BY <1>0, <2>1, <2>2 DEF StatisticsInv, InSession, Between
  <2> QED
    BY <1>0, <2>1, <2>2, <2>3 DEF StatisticsInv, InSession, Covered, WaitsFor
<1>3. CASE OnSpectatingPlayer \/ OnSpectatingVehicle
  <2>1. /\ Received("spectating_player") \/ Received("spectating_vehicle")
        /\ UNCHANGED <<active, checking_statistics, cut, owed, statistics_of, to_server>>
    BY <1>3, Zenon DEF OnSpectatingPlayer, OnSpectatingVehicle, session, shown
  <2>2. /\ Many(to_client', Dialogs) = Many(to_client, Dialogs)
        /\ Has(to_client', Dialogs) <=> Has(to_client, Dialogs)
    BY <2>1, TakenOther
  <2>3. Of \in Players
    BY <2>1, <1>0, Parts, ReceivedKinds DEF Spectating
  <2>4. \/ active /\ timer' = "running"
        \/ UNCHANGED <<id, previous_id, timer>>
    BY <1>0, <1>3, <2>3
       DEF OnSpectatingPlayer, OnSpectatingVehicle, KeepAssigned, session
  <2>5. InSession' /\ Between'
    BY <2>1, <2>2, <2>4 DEF StatisticsInv, InSession, Between
  <2> QED
    BY <2>1, <2>2, <2>5 DEF StatisticsInv, Covered, WaitsFor
<1>4. CASE OnDialog
  <2>1. Received("dialog") /\ UNCHANGED <<active, timer, cut, to_server>>
    BY <1>4 DEF OnDialog
  <2>2. to_client # <<>> /\ to_client' = Tail(to_client)
    BY <2>1, Parts, ReceivedKinds
  <2>3. CASE Of = Me
    <3>1. UNCHANGED <<id, previous_id, owed, statistics_of, checking_statistics>>
      BY <1>4, <2>3, Zenon DEF OnDialog, KeepAssigned
    <3>2. /\ Many(to_client', Dialogs) = Many(to_client, Dialogs)
          /\ Has(to_client', Dialogs) <=> Has(to_client, Dialogs)
      BY <2>1, <2>3, TakenOther
    <3> QED
      BY <2>1, <3>1, <3>2 DEF StatisticsInv, InSession, Between, Covered, WaitsFor
  <2>4. CASE Of # Me
    <3>1. Head(to_client) \in Dialogs
      BY <2>1, <2>4, Parts, ReceivedKinds
    <3>2. Many(to_client, Dialogs) = Many(to_client', Dialogs) + 1
      BY <1>0, <2>2, <3>1, ManyTail
    <3>3. /\ Many(to_client', Dialogs) \in Nat
          /\ Many(to_server, Automatic) \in Nat /\ Many(to_server', Automatic) = Many(to_server, Automatic)
      BY <1>0, <2>1, <2>2, Taken, MarksFinite
    <3>4. CASE active
      <4>1. id' \in {Of, Unassigned}
        BY <1>0, <1>4, <2>1, <2>4, <3>4, Parts, OfDialog
           DEF OnDialog, Assign, KeepAssigned, PlayerInv, Known
      <4>2. /\ statistics_of' = Of /\ checking_statistics' = FALSE
            /\ owed' = IF checking_statistics \/ owed = 0 THEN owed ELSE owed - 1
        BY <1>0, <1>4, <2>4, <3>4 DEF OnDialog, Kept, Shows
      <4>3. Covered'
        BY <1>0, <2>1, <3>2, <3>3, <4>2 DEF StatisticsInv, Covered, WaitsFor
      <4> QED
        BY <2>1, <3>4, <4>1, <4>2, <4>3 DEF StatisticsInv, InSession, Between
    <3>5. CASE ~active
      <4>1. /\ UNCHANGED <<id, previous_id, statistics_of, checking_statistics>>
            /\ owed' = IF owed = 0 THEN owed ELSE owed - 1
        BY <1>0, <1>4, <2>4, <3>5 DEF OnDialog, KeepAssigned, Shows
      <4>2. Covered'
        BY <1>0, <2>1, <3>2, <3>3, <3>5, <4>1 DEF StatisticsInv, Between, Covered, WaitsFor
      <4> QED
        BY <2>1, <3>5, <4>1, <4>2 DEF StatisticsInv, InSession, Between
    <3> QED
      BY <3>4, <3>5
  <2> QED
    BY <2>3, <2>4
<1> QED
  BY <1>1, <1>2, <1>3, <1>4 DEF ClientStep

LEMMA ServerKeepsStatistics ==
  ASSUME TypeOK, StatisticsInv, ServerStep
  PROVE  StatisticsInv'
<1>0. /\ to_client \in Seq(ToClient) /\ to_server \in Seq(ToServer) /\ owed \in Nat
      /\ checking_statistics \in BOOLEAN /\ cut \in BOOLEAN
  BY DEF TypeOK
<1>1. /\ to_server # <<>> /\ to_server' = Tail(to_server)
      /\ UNCHANGED <<active, id, previous_id, statistics_of, timer, checking_statistics>>
      /\ Ignored \/ Spectated \/ Answered \/ AnsweredOwn \/ Ended
  BY ServerShape
<1> DEFINE asks == Head(to_server) \in Automatic
<1>2. /\ Many(to_server, Automatic) = Many(to_server', Automatic) + (IF asks THEN 1 ELSE 0)
      /\ ~asks => (Has(to_server, Automatic) => Has(to_server', Automatic))
      /\ Many(to_server', Automatic) \in Nat /\ Many(to_client, Dialogs) \in Nat
  BY <1>0, <1>1, ManyTail, HasTail, MarksFinite, Taken
\* No request is lost, and what the server says it says behind the rest.
<1>3. ASSUME ~asks, UNCHANGED <<owed, cut>>, NEW e \in ToClient, NEW r \in Seq(ToClient),
             to_client' = Append(r, e), e \notin Dialogs,
             Has(to_client, Dialogs) => Has(r, Dialogs),
             Many(r, Dialogs) = Many(to_client, Dialogs)
      PROVE  StatisticsInv'
  <2>1. /\ Has(to_client, Dialogs) => Has(to_client', Dialogs)
        /\ Many(to_client', Dialogs) = Many(to_client, Dialogs)
    BY <1>3, AppendOther
  <2>2. Covered'
    BY <1>0, <1>1, <1>2, <1>3, <2>1 DEF StatisticsInv, Covered, WaitsFor
  <2> QED
    BY <1>1, <1>2, <1>3, <2>1, <2>2 DEF StatisticsInv, InSession, Between
<1>4. CASE Ignored
  <2>1. UNCHANGED <<to_client, owed>> /\ cut' = (cut \/ asks)
    BY <1>4 DEF Ignored
  <2>2. cut' \/ (UNCHANGED cut /\ ~asks)
    <3>1. cut = TRUE \/ cut = FALSE
      BY <1>0
    <3>2. asks \/ ~asks
      OBVIOUS
    <3> HIDE DEF asks
    <3> QED
      BY <2>1, <3>1, <3>2, Zenon
  <2>3. CASE cut'
    BY <2>3 DEF StatisticsInv, InSession, Between, Covered
  <2>4. CASE UNCHANGED cut /\ ~asks
    BY <1>0, <1>1, <1>2, <2>1, <2>4
       DEF StatisticsInv, InSession, Between, Covered, WaitsFor
  <2> QED
    BY <2>2, <2>3, <2>4
<1>5. CASE Spectated
  <2>1. PICK e \in Spectating :
          /\ \/ to_client' = Append(to_client, e)
             \/ to_client' = Append(Append(to_client, Tell("show_menu", Nobody)), e)
          /\ ~asks /\ UNCHANGED <<owed, cut>>
    BY <1>5 DEF Spectated
  <2>2. e \in ToClient /\ e \notin Dialogs
    BY <2>1, Kinds
  <2> DEFINE m == Tell("show_menu", Nobody)
             s == Append(to_client, m)
  <2>3. m \in ToClient /\ m \notin Dialogs
    BY Kinds DEF ShowMenu, About
  <2> HIDE DEF m
  <2>4. /\ s \in Seq(ToClient)
        /\ Has(to_client, Dialogs) => Has(s, Dialogs)
        /\ Many(s, Dialogs) = Many(to_client, Dialogs)
    BY <1>0, <2>3, Appended, AppendOther
  <2>5. CASE to_client' = Append(to_client, e)
    BY <1>0, <1>3, <2>1, <2>2, <2>5
  <2>6. CASE to_client' = Append(s, e)
    BY <1>3, <2>1, <2>2, <2>4, <2>6
  <2> QED
    BY <2>1, <2>5, <2>6 DEF m
<1>6. CASE Answered
  <2> DEFINE d == Tell("dialog", sp)
  <2>1. /\ d \in Dialogs /\ d \in ToClient /\ to_client' = Append(to_client, d)
        /\ UNCHANGED cut
        /\ \/ asks /\ UNCHANGED owed
           \/ ~asks /\ owed' = IF cut THEN owed ELSE owed + 1
    BY <1>6, Kinds DEF Answered
  <2> HIDE DEF d
  <2>2. /\ Has(to_client', Dialogs)
        /\ Many(to_client', Dialogs) = Many(to_client, Dialogs) + 1
    BY <1>0, <2>1, HasAppend, ManyAppend
  <2>3. Covered'
    BY <1>0, <1>1, <1>2, <2>1, <2>2 DEF StatisticsInv, Covered, WaitsFor
  <2> QED
    BY <1>1, <2>1, <2>2, <2>3 DEF StatisticsInv, InSession, Between
<1>7. CASE AnsweredOwn
  <2>1. Tell("dialog", Me) \in ToClient /\ Tell("dialog", Me) \notin Dialogs
    BY SpectatorAssumption, TellType DEF Tell, Dialogs
  <2> QED
    BY <1>0, <1>3, <1>7, <2>1 DEF AnsweredOwn
<1>8. CASE Ended
  <2>1. Tell("hide_menu", Nobody) \in ToClient /\ Tell("hide_menu", Nobody) \notin Dialogs
    BY Kinds DEF HideMenu, About
  <2> QED
    BY <1>0, <1>3, <1>8, <2>1 DEF Ended
<1> QED
  BY <1>1, <1>4, <1>5, <1>6, <1>7, <1>8

LEMMA StatisticsStep ==
  ASSUME TypeOK, PlayerInv, StatisticsInv, [Next]_vars
  PROVE  StatisticsInv'
<1>0. /\ to_client \in Seq(ToClient) /\ to_server \in Seq(ToServer) /\ owed \in Nat
      /\ checking_statistics \in BOOLEAN /\ cut \in BOOLEAN
      /\ Many(to_client, Dialogs) \in Nat /\ Many(to_server, Automatic) \in Nat
  BY MarksFinite DEF TypeOK
<1>1. CASE ServerEnds
  <2>1. /\ to_client' = Append(to_client, Tell("hide_menu", Nobody))
        /\ UNCHANGED <<active, id, previous_id, statistics_of, timer, checking_statistics,
                       cut, owed, to_server>>
    BY <1>1, Zenon DEF ServerEnds, EndSession, client, session, shown, requests
  <2>2. Tell("hide_menu", Nobody) \in ToClient /\ Tell("hide_menu", Nobody) \notin Dialogs
    BY Kinds DEF HideMenu, About
  <2>3. /\ Has(to_client, Dialogs) => Has(to_client', Dialogs)
        /\ Many(to_client', Dialogs) = Many(to_client, Dialogs)
    BY <1>0, <2>1, <2>2, AppendOther
  <2> QED
    BY <2>1, <2>3 DEF StatisticsInv, InSession, Between, Covered, WaitsFor
<1>2. CASE Turn
  <2>1. active /\ UNCHANGED <<active, id, previous_id, statistics_of, cut, owed, to_client>>
    BY <1>2, Zenon DEF Turn
  <2>2. PICK s \in Seq(ToServer) :
          /\ \/ /\ timer # "elapsed" /\ s = to_server
                /\ UNCHANGED <<timer, checking_statistics>>
             \/ /\ timer = "elapsed" /\ s = Append(to_server, Option("automatic"))
                /\ timer' = "off" /\ checking_statistics' = TRUE
          /\ to_server' = s \/ to_server' = Append(s, Option("reload"))
    BY <1>2, Zenon DEF Turn
  <2>3. /\ Option("automatic") \in Automatic /\ Option("automatic") \in ToServer
        /\ Option("reload") \in ToServer /\ Option("reload") \notin Automatic
    BY Kinds DEF Automatic, Reload
  <2>4. /\ Has(s, Automatic) => Has(to_server', Automatic)
        /\ Many(to_server', Automatic) = Many(s, Automatic)
    <3>1. /\ Has(Append(s, Option("reload")), Automatic) <=> Has(s, Automatic)
          /\ Many(Append(s, Option("reload")), Automatic) = Many(s, Automatic)
      BY <2>3, AppendOther
    <3> QED
      BY <2>2, <3>1
  <2>5. CASE timer # "elapsed"
    BY <2>1, <2>2, <2>4, <2>5 DEF StatisticsInv, InSession, Between, Covered, WaitsFor
  <2>6. CASE timer = "elapsed"
    <3>1. /\ s = Append(to_server, Option("automatic"))
          /\ checking_statistics' = TRUE
      BY <2>2, <2>6
    <3>2. Has(s, Automatic) /\ Many(s, Automatic) = Many(to_server, Automatic) + 1
      BY <1>0, <2>3, <3>1, HasAppend, ManyAppend
    <3>3. Covered'
      BY <1>0, <2>1, <2>4, <3>1, <3>2 DEF StatisticsInv, Covered, WaitsFor
    <3> QED
      BY <2>1, <2>4, <3>1, <3>2, <3>3 DEF StatisticsInv, InSession, Between
  <2> QED
    BY <2>5, <2>6
<1>3. CASE TimerElapses
  <2>1. /\ UNCHANGED <<active, id, previous_id, statistics_of, checking_statistics, cut, owed,
                       to_client, to_server>>
        /\ timer' = "elapsed"
    BY <1>3 DEF TimerElapses, session, shown
  <2> QED
    BY <2>1 DEF StatisticsInv, InSession, Between, Covered, WaitsFor
<1>4. CASE Elsewhere
  <2>1. UNCHANGED <<active, id, previous_id, statistics_of, timer, checking_statistics, cut,
                    owed, to_client>>
    BY <1>4, Zenon DEF Elsewhere
  <2>2. /\ Has(to_server, Automatic) => Has(to_server', Automatic)
        /\ Many(to_server', Automatic) = Many(to_server, Automatic)
    <3>1. CASE UNCHANGED to_server
      BY <3>1
    <3>2. ASSUME NEW o \in ToServer, o \notin Automatic, to_server' = Append(to_server, o)
          PROVE  /\ Has(to_server, Automatic) => Has(to_server', Automatic)
                 /\ Many(to_server', Automatic) = Many(to_server, Automatic)
      BY <1>0, <3>2, AppendOther
    <3> QED
      BY <1>4, <3>1, <3>2, Zenon DEF Elsewhere
  <2> QED
    BY <2>1, <2>2 DEF StatisticsInv, InSession, Between, Covered, WaitsFor
<1> QED
  BY <1>1, <1>2, <1>3, <1>4, StepShapes, ServerKeepsStatistics, ClientKeepsStatistics, Zenon
     DEF ClientStep

-----------------------------------------------------------------------------
(* The camera.  While it is not where the spectated player is, and he did  *)
(* not slip away, a reload is on its way or the plugin has yet to see the  *)
(* change: it has the player, as he was before, and no message on its way  *)
(* makes it forget that.                                                   *)

CameraInv ==
  sp # Nobody /\ ~slipped /\ camera # mode[sp] =>
    \/ Has(to_server, Reload)
    \/ id = sp /\ camera_switch_state \in Modes \ {mode[sp]} /\ ~Has(to_client, Others(id))

LEMMA ReassignsOthers ==
  ASSUME TypeOK PROVE Reassigns <=> Has(to_client, Others(id))
<1>1. ASSUME NEW i \in DOMAIN to_client
      PROVE  to_client[i] \in Others(id) <=>
               /\ to_client[i].what \in {"spectating_player", "dialog"}
               /\ to_client[i].of \in Players \ {id}
  <2>1. to_client[i] \in ToClient
    BY DEF TypeOK
  <2> QED
    BY <2>1, Zenon DEF Others, ToClient
<1> QED
  BY <1>1 DEF Reassigns, Has

LEMMA ClientKeepsCamera ==
  ASSUME TypeOK, PlayerInv, CameraInv, ClientStep
  PROVE  CameraInv'
<1>0. /\ to_client \in Seq(ToClient) /\ Nobody \notin Players /\ Me \notin Players
      /\ sp \in {Nobody} \cup Players
  BY SpectatorAssumption DEF TypeOK, Nobody
<1>1. UNCHANGED <<sp, camera, slipped, mode, to_server>>
  BY Zenon DEF ClientStep, OnShowMenu, OnHideMenu, OnSpectatingPlayer, OnSpectatingVehicle,
               OnDialog, server
<1> SUFFICES ASSUME sp # Nobody, id = sp, camera_switch_state \in Modes \ {mode[sp]},
                    ~Has(to_client, Others(id))
             PROVE  id' = sp /\ UNCHANGED camera_switch_state /\ ~Has(to_client', Others(id))
  BY <1>1 DEF CameraInv
<1>2. \E n : Received(n)
  BY DEF ClientStep, OnShowMenu, OnHideMenu, OnSpectatingPlayer, OnSpectatingVehicle, OnDialog
<1>3. to_client # <<>> /\ to_client' = Tail(to_client)
  BY <1>2, Parts, ReceivedKinds
<1>4. ~Has(to_client', Others(id)) /\ Head(to_client) \notin Others(id)
  BY <1>0, <1>3, HasTail
<1>5. id = previous_id
  BY <1>0, SpectatorAssumption DEF PlayerInv, Known
<1>6. CASE OnShowMenu \/ OnHideMenu \/ OnSpectatingVehicle
  BY <1>4, <1>6 DEF OnShowMenu, OnHideMenu, OnSpectatingVehicle, session, shown
<1>7. CASE OnSpectatingPlayer
  <2>1. Received("spectating_player")
    BY <1>7 DEF OnSpectatingPlayer
  <2>2. /\ Head(to_client) \in Spectating /\ Head(to_client).what = "spectating_player"
        /\ Of = Head(to_client).of
    BY <2>1, Parts, ReceivedKinds DEF Received
  <2>3. Of = id
    BY <1>4, <2>2 DEF Spectating, Others
  <2> QED
    BY <1>4, <1>5, <1>7, <2>3 DEF OnSpectatingPlayer, KeepAssigned
<1>8. CASE OnDialog
  <2>1. Received("dialog")
    BY <1>8 DEF OnDialog
  <2>2. Of # Me => Of = id
    <3>1. Of = Head(to_client).of /\ (Of # Me => Head(to_client) \in Dialogs)
      BY <2>1, Parts, ReceivedKinds
    <3> QED
      BY <1>4, <3>1 DEF Dialogs, Others
  <2> QED
    BY <1>4, <1>5, <1>8, <2>2 DEF OnDialog, KeepAssigned
<1> QED
  BY <1>6, <1>7, <1>8 DEF ClientStep

LEMMA CameraStep ==
  ASSUME TypeOK, PlayerInv, CameraInv, [Next]_vars
  PROVE  CameraInv'
<1>0. /\ to_client \in Seq(ToClient) /\ to_server \in Seq(ToServer)
      /\ sp \in {Nobody} \cup Players /\ Nobody \notin Players
      /\ mode \in [Players -> Modes] /\ camera \in Modes /\ slipped \in BOOLEAN
  BY SpectatorAssumption DEF TypeOK, Nobody
<1>q. ASSUME UNCHANGED <<id, camera_switch_state, to_client, sp, camera, slipped, mode>>,
             Has(to_server, Reload) => Has(to_server', Reload)
      PROVE  CameraInv'
  BY <1>q DEF CameraInv
<1>e. ASSUME Elsewhere PROVE /\ Has(to_server, Reload) => Has(to_server', Reload)
                             /\ UNCHANGED <<id, to_client, sp>>
  <2>1. UNCHANGED <<id, to_client, sp>>
    BY <1>e, Zenon DEF Elsewhere
  <2>2. ASSUME NEW o \in ToServer, to_server' = Append(to_server, o)
        PROVE  Has(to_server, Reload) => Has(to_server', Reload)
    BY <1>0, <2>2, HasAppend
  <2> QED
    BY <1>e, <2>1, <2>2, Zenon DEF Elsewhere
<1>1. CASE ServerStep
  <2>1. /\ to_server # <<>> /\ to_server' = Tail(to_server)
        /\ UNCHANGED <<id, camera_switch_state, mode>>
        /\ Ignored \/ Spectated \/ Answered \/ AnsweredOwn \/ Ended
    BY <1>1, ServerShape
  <2>2. Head(to_server) \notin Reload => (Has(to_server, Reload) => Has(to_server', Reload))
    BY <1>0, <2>1, HasTail
  <2>3. CASE Ignored \/ Ended
    BY <2>3 DEF Ignored, Ended, CameraInv
  <2>4. CASE Spectated
    BY <2>1, <2>4 DEF Spectated, CameraInv
  <2>5. ASSUME UNCHANGED <<sp, camera, slipped>>, Head(to_server) \notin Reload,
               NEW e \in ToClient, to_client' = Append(to_client, e),
               sp # Nobody /\ id = sp => e \notin Others(id)
        PROVE  CameraInv'
    BY <1>0, <2>1, <2>2, <2>5, AppendOther DEF CameraInv
  <2>6. CASE Answered
    <3>1. Tell("dialog", sp) \in ToClient /\ Tell("dialog", sp) \notin Others(sp)
      BY <2>6, Kinds DEF Answered, Tell, Others
    <3> QED
      BY <2>5, <2>6, <3>1 DEF Answered
  <2>7. CASE AnsweredOwn
    <3>1. Tell("dialog", Me) \in ToClient /\ Tell("dialog", Me) \notin Others(id)
      BY SpectatorAssumption, TellType DEF Tell, Others
    <3> QED
      BY <2>5, <2>7, <3>1 DEF AnsweredOwn
  <2> QED
    BY <2>1, <2>3, <2>4, <2>6, <2>7
<1>2. CASE ServerEnds
  BY <1>2 DEF ServerEnds, EndSession, CameraInv
<1>3. CASE Synchronizes
  <2>1. PICK p \in Players : OnSynchronization(p)
    BY <1>3 DEF Synchronizes
  <2>2. UNCHANGED <<camera, slipped, mode>>
    BY <2>1, Zenon DEF OnSynchronization, server
  <2>3. Has(to_server, Reload) => Has(to_server', Reload)
    BY <1>3, <1>e, ElsewhereShape
  <2>4. UNCHANGED <<id, to_client, sp>>
    BY <1>3, <1>e, ElsewhereShape
  <2>5. ASSUME id = sp, camera_switch_state \in Modes \ {mode[sp]} PROVE Has(to_server', Reload)
    <3>1. to_server' = Append(to_server, Option("reload"))
      BY <2>1, <2>5 DEF OnSynchronization, Switched, Send
    <3>2. Option("reload") \in ToServer /\ Option("reload") \in Reload
      BY Kinds DEF Reload
    <3> QED
      BY <1>0, <3>1, <3>2, HasAppend
  <2> QED
    BY <2>2, <2>3, <2>4, <2>5 DEF CameraInv
<1>4. CASE Turn
  <2>1. UNCHANGED <<id, camera_switch_state, to_client, sp, camera, slipped, mode>>
    BY <1>4, Zenon DEF Turn
  <2>2. PICK s \in Seq(ToServer) :
          /\ s = to_server \/ s = Append(to_server, Option("automatic"))
          /\ to_server' = s \/ to_server' = Append(s, Option("reload"))
    BY <1>4, Zenon DEF Turn
  <2>3. Option("automatic") \in ToServer /\ Option("reload") \in ToServer
    BY Kinds DEF Automatic, Reload
  <2>4. /\ Has(to_server, Reload) => Has(Append(to_server, Option("automatic")), Reload)
        /\ Has(s, Reload) => Has(Append(s, Option("reload")), Reload)
    BY <1>0, <2>3, HasAppend
  <2> QED
    BY <1>q, <2>1, <2>2, <2>4
<1>5. CASE TimerElapses
  <2>1. UNCHANGED <<id, camera_switch_state, to_client, sp, camera, slipped, mode, to_server>>
    BY <1>5, Zenon DEF TimerElapses, session, shown, server
  <2> QED
    BY <1>q, <2>1
<1>6. CASE \/ ReloadDelayPasses \/ TypesOwnStatistics \/ OnRemove3dText
           \/ \E o \in Options : Chooses(o)
           \/ \E p \in Players :
                \/ TypesSp(p) \/ OnBulletSynchronization(p)
                \/ (\E is_stage \in BOOLEAN : OnShow3dText(p, is_stage))
           \/ UNCHANGED vars
  <2>1. Elsewhere
    BY <1>6, ElsewhereShape, Zenon
  <2>2. UNCHANGED <<camera_switch_state, camera, slipped, mode>>
    BY <1>6, Zenon DEF ReloadDelayPasses, TypesOwnStatistics, OnRemove3dText, Chooses, TypesSp,
                       OnBulletSynchronization, OnShow3dText, vars, shown, server
  <2> QED
    BY <1>e, <1>q, <2>1, <2>2
<1>7. ASSUME NEW p \in Players, PlayerSwitches(p) PROVE CameraInv'
  <2>1. /\ UNCHANGED <<id, camera_switch_state, to_client, to_server, sp, camera>>
        /\ mode' = [mode EXCEPT ![p] = IF @ = "player" THEN "vehicle" ELSE "player"]
        /\ slipped' = (slipped \/ (p = sp /\ ~Seen(p)))
    BY <1>7, Zenon DEF PlayerSwitches, client, session, shown
  <2>2. CASE p # sp
    <3>1. slipped' = slipped /\ (sp # Nobody => mode'[sp] = mode[sp])
      BY <1>0, <2>1, <2>2
    <3> QED
      BY <2>1, <3>1 DEF CameraInv
  <2>3. CASE p = sp
    <3> SUFFICES ASSUME ~slipped', camera # mode'[sp]
                 PROVE  /\ id = sp /\ ~Has(to_client, Others(id))
                        /\ camera_switch_state \in Modes \ {mode'[sp]}
      BY <2>1 DEF CameraInv
    <3>1. Seen(p)
      BY <2>1, <2>3, Zenon
    <3>2. id = p /\ camera_switch_state = mode[p] /\ ~Has(to_client, Others(id))
      BY <3>1, ReassignsOthers DEF Seen
    <3>3. mode[p] \in Modes /\ mode'[p] # mode[p]
      BY <1>0, <2>1 DEF Modes
    <3> QED
      BY <2>3, <3>2, <3>3
  <2> QED
    BY <2>2, <2>3
<1> QED
  BY <1>1, <1>2, <1>3, <1>4, <1>5, <1>6, <1>7, MainLoopShape, ClientKeepsCamera, Zenon DEF Next

-----------------------------------------------------------------------------
(* The invariant of a run, and what it says once everything sent has been  *)
(* handled.                                                                *)

IInv == TypeOK /\ OwnKeysAndShots /\ PlayerInv /\ StatisticsInv /\ CameraInv

LEMMA InitIInv == Init => IInv
<1> SUFFICES ASSUME Init PROVE IInv
  OBVIOUS
<1>1. /\ to_client = <<>> /\ to_server = <<>> /\ sp = Nobody /\ previous_id = FirstId
      /\ id = Unassigned /\ active = FALSE
      /\ checking_statistics = FALSE /\ owed = 0
  BY DEF Init
<1>2. PlayerInv /\ CameraInv
  BY <1>1 DEF PlayerInv, ShownAtOnce, AtOnce, Known, MenuShown, LastAbout, Told, CameraInv
<1>3. Many(<<>>, Dialogs) \in Nat /\ Many(<<>>, Automatic) \in Nat
  <2>1. <<>> \in Seq(ToClient) /\ <<>> \in Seq(ToServer)
    OBVIOUS
  <2> QED
    BY <2>1, MarksFinite
<1>4. StatisticsInv
  BY <1>1, <1>3 DEF StatisticsInv, InSession, Between, Covered, WaitsFor
<1> QED
  BY <1>2, <1>4, InitTypeOK DEF Init, IInv, OwnKeysAndShots

LEMMA Invariance == Spec => []IInv
<1>1. IInv /\ [Next]_vars => IInv'
  <2> SUFFICES ASSUME TypeOK, OwnKeysAndShots, PlayerInv, StatisticsInv, CameraInv, [Next]_vars
               PROVE  IInv'
    BY DEF IInv
  <2>1. TypeOK'
    BY SessionType, RequestsType, WorldAndMessagesType
       DEF TypeOK, SessionOK, RequestsOK, WorldOK, MessagesOK
  <2> QED
    BY <2>1, SessionType, PlayerStep, StatisticsStep, CameraStep DEF IInv
<1> QED
  BY <1>1, InitIInv, PTL DEF Spec

LEMMA QuietHas ==
  ASSUME Quiet
  PROVE  timer = "off" /\ \A M : ~Has(to_client, M) /\ ~Has(to_server, M)
BY DEF Quiet, Has

\* Every state of a session has its types: whoever is assigned is a player, and
\* what travels is about the players it is said of.
THEOREM TypeCorrect == Spec => []TypeOK
<1>1. IInv => TypeOK
  BY DEF IInv
<1> QED
  BY <1>1, Invariance, PTL

\* The keys and the shots shown are those of the player shown: whatever comes
\* between the packets, the messages of the server and the answers to dialogs,
\* another player's are never added to his.
THEOREM KeysAndShotsAreOwn == Spec => []OwnKeysAndShots
<1>1. IInv => OwnKeysAndShots
  BY DEF IInv
<1> QED
  BY <1>1, Invariance, PTL

\* Whoever is shown, once everything sent is handled, is the player the server
\* has the user spectate: whatever options, commands and ends of sessions
\* crossed the server's messages on the way, and whatever his ID.  Only the one
\* whose ID previous_id has from the start, 0, is not assigned when he is first.
THEOREM PlayerShownIsRight == Spec => []RightPlayer
<1>1. IInv => RightPlayer
  BY QuietHas DEF IInv, PlayerInv, Told, Assigned, Requested, RightPlayer
<1> QED
  BY <1>1, Invariance, PTL

\* The statistics shown, once everything sent is handled, are those of the
\* player shown: on_dialog reads them from the first dialog of a player after
\* the plugin's request, and whoever's it is becomes the player shown, unless he
\* has ID 0 and nobody was assigned yet: then nobody is shown.
THEOREM StatisticsAreOwn == Spec => []OwnStatistics
<1>1. IInv => OwnStatistics
  <2> SUFFICES ASSUME IInv, Quiet, active, ~cut, id # Unassigned PROVE statistics_of = id
    BY DEF OwnStatistics
  <2> QED
    BY QuietHas DEF IInv, StatisticsInv, InSession
<1> QED
  BY <1>1, Invariance, PTL

\* As many dialogs as the user asked for and the server sent are shown: the
\* plugin keeps one for itself only when one more than the user's is to come.
THEOREM DialogsAreShown == Spec => []DialogsShown
<1>1. IInv => DialogsShown
  <2> SUFFICES ASSUME IInv, Quiet, ~cut PROVE owed = 0
    BY DEF DialogsShown
  <2>1. Marks(to_client, Dialogs) = {} /\ Marks(to_server, Automatic) = {}
    BY DEF Quiet, Marks
  <2>2. Many(to_client, Dialogs) = 0 /\ Many(to_server, Automatic) = 0
    BY <2>1, FS_EmptySet DEF Many
  <2>3. owed + WaitsFor <= 0 /\ owed \in Nat /\ WaitsFor \in Nat
    BY <2>2 DEF IInv, StatisticsInv, Covered, WaitsFor, TypeOK
  <2> QED
    BY <2>3
<1> QED
  BY <1>1, Invariance, PTL

\* The camera ends where the plugin saw the player get in or out: the reload it
\* sent on seeing it moves the camera, whoever else was spectated meanwhile.
THEOREM CameraIsMoved == Spec => []CameraFollows
<1>1. IInv => CameraFollows
  BY QuietHas DEF IInv, CameraInv, CameraFollows
<1> QED
  BY <1>1, Invariance, PTL
=============================================================================

------------------------------ MODULE ChatProofs ------------------------------
(***************************************************************************)
(* For any users, channels, loops, messages, crashes and failed calls:     *)
(* types, the order of a mailbox, what becomes of a stored message, how    *)
(* often it is delivered, who has mail waiting; and, for finitely many     *)
(* channels, the counter of a user.                                        *)
(***************************************************************************)
EXTENDS Chat, FiniteSetTheorems, TLAPS

USE ChatAssumption

-----------------------------------------------------------------------------
(* Type correctness.                                                       *)

NetTypes ==
  /\ conn \in [Channels -> ConnStates]
  /\ known \subseteq Users /\ sets \in [Users -> SUBSET Channels]

RedisTypes ==
  /\ ip \in [Channels -> BOOLEAN]
  /\ count \in [Users -> Nat]
  /\ mail \in [Users -> Seq(Msgs)]

\* Where a message is handled there is one.
Messaging == {"route", "write", "getStore", "store"}
LocalTypes ==
  /\ pc \in [Channels -> Places]
  /\ num \in [Channels -> Nat]
  /\ loggedIn \in [Channels -> BOOLEAN] /\ detached \in [Channels -> BOOLEAN]
  /\ text \in [Channels -> Seq(Msgs)]
  /\ msg \in [Channels -> Msgs \cup {NoMsg}]
  /\ \A c \in Channels : pc[c] \in Messaging => msg[c] \in Msgs

UserHistTypes == tangled \subseteq Users /\ cut \subseteq Users /\ late \subseteq Users
MailHistTypes ==
  /\ sent \subseteq Msgs /\ stored \in Seq(Msgs) /\ got \in [Msgs -> 0 .. 2]
  /\ missed \subseteq Msgs /\ unseen \subseteq Msgs /\ unwiped \subseteq Msgs
BoundTypes == crashes \in 0 .. MaxCrashes /\ faults \in 0 .. MaxFaults

Types == NetTypes /\ RedisTypes /\ LocalTypes /\ UserHistTypes /\ MailHistTypes /\ BoundTypes

LEMMA TypesGiveTypeOK == Types => TypeOK
  BY DEF Types, NetTypes, RedisTypes, LocalTypes, UserHistTypes, MailHistTypes, BoundTypes, TypeOK

LEMMA InitTypes == Init => Types
<1> SUFFICES ASSUME Init PROVE Types
  OBVIOUS
<1>1. NetTypes
  BY DEF Init, NetTypes, ConnStates
<1>2. RedisTypes
  BY DEF Init, RedisTypes
<1>3. LocalTypes
  BY DEF Init, LocalTypes, Places, Messaging
<1>4. UserHistTypes /\ MailHistTypes /\ BoundTypes
  BY DEF Init, UserHistTypes, MailHistTypes, BoundTypes
<1> QED BY <1>1, <1>2, <1>3, <1>4 DEF Types

LEMMA NetTyped ==
  ASSUME Types, [Next]_vars PROVE NetTypes'
<1>0. NetTypes /\ \A c \in Channels : UserOf[c] \in Users
  BY DEF Types
<1>1. CASE UNCHANGED netVars
  BY <1>0, <1>1 DEF NetTypes, netVars
<1>2. ASSUME NEW c \in Channels, Connect(c) \/ Disconnect(c) \/ RefuseFrame(c) \/ Inactive(c)
      PROVE  NetTypes'
  <2>1. PICK s \in ConnStates : conn' = [conn EXCEPT ![c] = s]
    BY <1>2 DEF Connect, Disconnect, RefuseFrame, Inactive, ConnStates
  <2>2. UNCHANGED <<known, sets>>
    BY <1>2 DEF Connect, Disconnect, RefuseFrame, Inactive
  <2> QED BY <1>0, <2>1, <2>2 DEF NetTypes
<1>3. ASSUME NEW c \in Channels, PutSet(c) PROVE NetTypes'
  BY <1>0, <1>3 DEF PutSet, NetTypes
<1>4. ASSUME NEW c \in Channels, NEW u \in Users, NEW s \in SUBSET Channels,
             UNCHANGED <<conn, known>>,
             UNCHANGED sets \/ sets' = [sets EXCEPT ![u] = s]
      PROVE  NetTypes'
  BY <1>0, <1>4 DEF NetTypes
<1>5. ASSUME NEW c \in Channels, AddToSet(c) PROVE NetTypes'
  BY <1>0, <1>4, <1>5 DEF AddToSet, NetTypes
<1>6. ASSUME NEW c \in Channels, LeaveMap(c) \/ DropMap(c) PROVE NetTypes'
  BY <1>0, <1>4, <1>6 DEF LeaveMap, DropMap, NetTypes
<1>7. CASE Crash
  BY <1>0, <1>7 DEF Crash, NetTypes, ConnStates
<1>8. ASSUME NEW c \in Channels, HandlerStep(c) \/ RedisFails(c) PROVE NetTypes'
  BY <1>1, <1>3, <1>5, <1>6, <1>8 DEF HandlerStep, GetCount, SetCount, SetIp, Lookup, Greet,
     GetMail, ReplayMail, WipeMail, LeaveGet, LeaveSet, Route, WriteTo, GetStore, StoreMail,
     Stores, Unregister, RedisFails
<1>9. ASSUME NEW c \in Channels, Event(c) PROVE NetTypes'
  BY <1>1, <1>2, <1>9 DEF Event, Token, Offline, Send
<1> QED BY <1>1, <1>7, <1>8, <1>9 DEF Next, vars

LEMMA RedisTyped ==
  ASSUME Types, [Next]_vars PROVE RedisTypes'
<1>0. RedisTypes /\ \A c \in Channels : UserOf[c] \in Users
  BY DEF Types
<1>1. CASE UNCHANGED redisVars
  BY <1>0, <1>1 DEF RedisTypes, redisVars
<1>2. ASSUME NEW c \in Channels, SetIp(c) \/ Offline(c) \/ Unregister(c) PROVE RedisTypes'
  BY <1>0, <1>2 DEF SetIp, Offline, Unregister, RedisTypes
<1>3. ASSUME NEW c \in Channels, SetCount(c) PROVE RedisTypes'
  <2>1. num[c] + 1 \in Nat
    BY DEF Types, LocalTypes
  <2> QED BY <1>0, <1>3, <2>1 DEF SetCount, RedisTypes
<1>4. ASSUME NEW c \in Channels, LeaveSet(c) PROVE RedisTypes'
  <2>1. num[c] \in Nat
    BY DEF Types, LocalTypes
  <2>2. PICK n \in Nat : count' = [count EXCEPT ![UserOf[c]] = n]
    BY <1>4, <2>1 DEF LeaveSet
  <2> QED BY <1>0, <1>4, <2>2 DEF LeaveSet, RedisTypes
<1>5. ASSUME NEW c \in Channels, WipeMail(c) PROVE RedisTypes'
  BY <1>0, <1>5 DEF WipeMail, RedisTypes
<1>6. ASSUME NEW c \in Channels, StoreMail(c) PROVE RedisTypes'
  <2>1. text[c] \in Seq(Msgs) /\ msg[c] \in Msgs
    BY <1>6 DEF StoreMail, At, Types, LocalTypes, Messaging
  <2>2. PICK s \in Seq(Msgs) : s = Append(text[c], msg[c])
    <3>1. PICK t \in Seq(Msgs), m \in Msgs : t = text[c] /\ m = msg[c]
      BY <2>1
    <3>2. Append(t, m) \in Seq(Msgs)
      OBVIOUS
    <3> QED BY <3>1, <3>2
  <2>3. mail' = [mail EXCEPT ![To(c)] = s]
    BY <1>6, <2>2 DEF StoreMail
  <2>4. mail' \in [Users -> Seq(Msgs)]
    BY <1>0, <2>3 DEF RedisTypes
  <2> QED BY <1>0, <1>6, <2>4 DEF StoreMail, Stores, RedisTypes
<1>7. ASSUME NEW c \in Channels, HandlerStep(c) \/ RedisFails(c) PROVE RedisTypes'
  BY <1>1, <1>2, <1>3, <1>4, <1>5, <1>6, <1>7 DEF HandlerStep, GetCount, Lookup, PutSet, AddToSet,
     Greet, GetMail, ReplayMail, LeaveGet, LeaveMap, Route, WriteTo, GetStore, DropMap, RedisFails
<1>8. ASSUME NEW c \in Channels, Event(c) PROVE RedisTypes'
  BY <1>1, <1>2, <1>8 DEF Event, Connect, Disconnect, Token, RefuseFrame, Inactive, Send
<1> QED BY <1>1, <1>7, <1>8 DEF Next, Crash, vars

LEMMA FinishTyped ==
  ASSUME Types, NEW c \in Channels, Finish(c) PROVE LocalTypes'
<1>1. "idle" \in Places /\ "idle" \notin Messaging
  BY DEF Places, Messaging
<1> QED BY <1>1 DEF Finish, Goto, Types, LocalTypes

LEMMA GoesTyped ==
  ASSUME Types, NEW c \in Channels, NEW place \in Places, Goto(c, place), UNCHANGED msg,
         UNCHANGED num \/ \E n \in Nat : num' = [num EXCEPT ![c] = n],
         UNCHANGED loggedIn \/ \E b \in BOOLEAN : loggedIn' = [loggedIn EXCEPT ![c] = b],
         UNCHANGED text \/ \E s \in Seq(Msgs) : text' = [text EXCEPT ![c] = s],
         detached' \in [Channels -> BOOLEAN], place \in Messaging => pc[c] \in Messaging
  PROVE  LocalTypes'
<1>1. LocalTypes
  BY DEF Types
<1>2. /\ pc' \in [Channels -> Places] /\ msg' \in [Channels -> Msgs \cup {NoMsg}]
      /\ \A d \in Channels : pc'[d] \in Messaging => msg'[d] \in Msgs
  BY <1>1 DEF Goto, LocalTypes
<1>3. num' \in [Channels -> Nat]
  <2>1. num \in [Channels -> Nat]
    BY <1>1 DEF LocalTypes
  <2> QED BY <2>1
<1>4. loggedIn' \in [Channels -> BOOLEAN]
  <2>1. loggedIn \in [Channels -> BOOLEAN]
    BY <1>1 DEF LocalTypes
  <2> QED BY <2>1
<1>5. text' \in [Channels -> Seq(Msgs)]
  <2>1. text \in [Channels -> Seq(Msgs)]
    BY <1>1 DEF LocalTypes
  <2> QED BY <2>1
<1> QED BY <1>2, <1>3, <1>4, <1>5 DEF LocalTypes

LEMMA LocalsTyped ==
  ASSUME Types, [Next]_vars PROVE LocalTypes'
<1>0. /\ LocalTypes /\ detached \in [Channels -> BOOLEAN]
      /\ \A c \in Channels : UserOf[c] \in Users /\ count[UserOf[c]] \in Nat
                               /\ mail[UserOf[c]] \in Seq(Msgs)
  BY DEF Types, LocalTypes, RedisTypes
<1>1. CASE UNCHANGED <<pc, localVars>>
  BY <1>0, <1>1 DEF LocalTypes, localVars
<1>2. ASSUME NEW c \in Channels, Token(c) PROVE LocalTypes'
  <2>1. ip[c] \in BOOLEAN /\ "getCount" \in Places \ Messaging
    BY DEF Types, RedisTypes, Places, Messaging
  <2> QED BY <1>0, <1>2, <2>1, GoesTyped DEF Token
<1>3. ASSUME NEW c \in Channels, GetCount(c) PROVE LocalTypes'
  <2>1. PICK place \in Places \ Messaging : Goto(c, place)
    BY <1>3 DEF GetCount, Places, Messaging
  <2> QED BY <1>0, <1>3, <2>1, GoesTyped DEF GetCount
<1>4. ASSUME NEW c \in Channels, LeaveGet(c) PROVE LocalTypes'
  <2>1. PICK place \in Places \ Messaging : Goto(c, place)
    BY <1>4 DEF LeaveGet, Places, Messaging
  <2> QED BY <1>0, <1>4, <2>1, GoesTyped DEF LeaveGet
<1>5. ASSUME NEW c \in Channels, NEW place \in Places, Goto(c, place), UNCHANGED localVars,
             place \in Messaging => pc[c] \in Messaging
      PROVE  LocalTypes'
  BY <1>0, <1>5, GoesTyped DEF localVars
<1>6. ASSUME NEW c \in Channels, SetCount(c) \/ SetIp(c) \/ Lookup(c) PROVE LocalTypes'
  <2>1. PICK place \in Places \ Messaging : Goto(c, place)
    BY <1>6 DEF SetCount, SetIp, Lookup, Places, Messaging
  <2> QED BY <1>5, <1>6, <2>1 DEF SetCount, SetIp, Lookup
<1>7. ASSUME NEW c \in Channels, PutSet(c) PROVE LocalTypes'
  <2>1. "greet" \in Places \ Messaging
    BY DEF Places, Messaging
  <2>2. detached' \in [Channels -> BOOLEAN]
    BY <1>0, <1>7 DEF PutSet
  <2> QED BY <1>7, <2>1, <2>2, GoesTyped DEF PutSet
<1>8. ASSUME NEW c \in Channels, AddToSet(c) \/ ReplayMail(c) \/ Offline(c) \/ Unregister(c)
      PROVE  LocalTypes'
  <2>1. {"greet", "wipe", "leaveGet", "dropMap"} \subseteq Places \ Messaging
    BY DEF Places, Messaging
  <2> QED BY <1>5, <1>8, <2>1 DEF AddToSet, ReplayMail, Offline, Unregister
<1>9. ASSUME NEW c \in Channels, Greet(c) PROVE LocalTypes'
  <2>1. "getMail" \in Places \ Messaging
    BY DEF Places, Messaging
  <2> QED BY <1>5, <1>9, <2>1, FinishTyped DEF Greet
<1>10. ASSUME NEW c \in Channels, GetMail(c) PROVE LocalTypes'
  <2>1. "replay" \in Places \ Messaging
    BY DEF Places, Messaging
  <2> QED BY <1>0, <1>10, <2>1, FinishTyped, GoesTyped DEF GetMail
<1>11. ASSUME NEW c \in Channels, NEW m \in Msgs, Send(c, m) PROVE LocalTypes'
  <2>1. CASE UNCHANGED <<pc, msg>>
    BY <1>1, <1>11, <2>1 DEF Send, localVars
  <2>2. CASE msg' = [msg EXCEPT ![c] = m] /\ Goto(c, "route")
    <3>1. "route" \in Places
      BY DEF Places
    <3> QED BY <1>0, <1>11, <2>2, <3>1 DEF Send, Goto, LocalTypes
  <2> QED BY <1>11, <2>1, <2>2 DEF Send
<1>12. ASSUME NEW c \in Channels, Route(c) PROVE LocalTypes'
  <2>1. PICK place \in Places : Goto(c, place)
    BY <1>12 DEF Route, Places
  <2>2. pc[c] \in Messaging
    BY <1>12 DEF Route, At, Messaging
  <2> QED BY <1>5, <1>12, <2>1, <2>2 DEF Route
<1>13. ASSUME NEW c \in Channels, GetStore(c) PROVE LocalTypes'
  <2>1. "store" \in Places /\ pc[c] \in Messaging
    BY <1>13 DEF GetStore, At, Places, Messaging
  <2>2. mail[To(c)] \in Seq(Msgs)
    BY <2>1 DEF To, Types, LocalTypes, RedisTypes
  <2> QED BY <1>0, <1>13, <2>1, <2>2, GoesTyped DEF GetStore
<1>14. ASSUME NEW c \in Channels, Inactive(c) PROVE LocalTypes'
  <2>1. "unregister" \in Places \ Messaging
    BY DEF Places, Messaging
  <2> QED BY <1>1, <1>5, <1>14, <2>1 DEF Inactive
<1>15. ASSUME NEW c \in Channels, DropMap(c) PROVE LocalTypes'
  <2>1. "dropGet" \in Places \ Messaging
    BY DEF Places, Messaging
  <2> QED BY <1>5, <1>15, <2>1, FinishTyped DEF DropMap
<1>16. ASSUME NEW c \in Channels, LeaveSet(c) PROVE LocalTypes'
  <2>1. "leaveMap" \in Places \ Messaging
    BY DEF Places, Messaging
  <2> QED BY <1>5, <1>16, <2>1, FinishTyped DEF LeaveSet
<1>17. ASSUME NEW c \in Channels,
              WipeMail(c) \/ LeaveMap(c) \/ WriteTo(c) \/ StoreMail(c) \/ RedisFails(c)
       PROVE  LocalTypes'
  BY <1>17, FinishTyped DEF WipeMail, LeaveMap, WriteTo, StoreMail, Stores, RedisFails
<1>18. CASE Crash
  <2>1. "idle" \in Places \ Messaging
    BY DEF Places, Messaging
  <2> QED BY <1>18, <2>1 DEF Crash, LocalTypes
<1> QED
  BY <1>1, <1>2, <1>3, <1>4, <1>6, <1>7, <1>8, <1>9, <1>10, <1>11, <1>12, <1>13, <1>14, <1>15,
     <1>16, <1>17, <1>18 DEF Next, Event, HandlerStep, Connect, Disconnect, RefuseFrame, vars

LEMMA UserHistTyped ==
  ASSUME Types, [Next]_vars PROVE UserHistTypes'
<1>0. UserHistTypes /\ \A c \in Channels : UserOf[c] \in Users
  BY DEF Types
<1>1. ASSUME NEW c \in Channels,
             /\ UNCHANGED tangled \/ tangled' = tangled \cup {UserOf[c]}
             /\ UNCHANGED cut \/ cut' = cut \cup {UserOf[c]}
             /\ UNCHANGED late \/ late' = late \cup {UserOf[c]} \/ late' = late \ {UserOf[c]}
      PROVE  UserHistTypes'
  BY <1>0, <1>1 DEF UserHistTypes
<1>2. ASSUME NEW c \in Channels, GetCount(c) \/ LeaveGet(c) \/ Offline(c) PROVE UserHistTypes'
  BY <1>1, <1>2 DEF GetCount, LeaveGet, Offline, Reckon, mailHist
<1>3. ASSUME NEW c \in Channels, DropMap(c) PROVE UserHistTypes'
  BY <1>1, <1>3 DEF DropMap, mailHist
<1>4. ASSUME NEW c \in Channels, PutSet(c) \/ AddToSet(c) \/ Greet(c) \/ WipeMail(c)
      PROVE  UserHistTypes'
  BY <1>1, <1>4 DEF PutSet, AddToSet, Greet, WipeMail, ComesOnline, LeftWaiting, countHist
<1>5. ASSUME NEW c \in Channels, RedisFails(c) PROVE UserHistTypes'
  BY <1>1, <1>5 DEF RedisFails
<1>6. ASSUME NEW c \in Channels, HandlerStep(c) PROVE UserHistTypes'
  <2>1. CASE UNCHANGED <<tangled, cut, late>>
    BY <1>0, <2>1 DEF UserHistTypes
  <2> QED BY <1>2, <1>3, <1>4, <1>6, <2>1
     DEF HandlerStep, SetCount, SetIp, Lookup, GetMail, ReplayMail, LeaveSet, LeaveMap, Route,
         WriteTo, GetStore, StoreMail, Stores, Unregister, countHist, mailHist
<1>7. ASSUME NEW c \in Channels, Event(c) PROVE UserHistTypes'
  <2>1. CASE UNCHANGED <<tangled, cut, late>>
    BY <1>0, <2>1 DEF UserHistTypes
  <2> QED BY <1>2, <1>7, <2>1
     DEF Event, Connect, Disconnect, Token, RefuseFrame, Inactive, Send, countHist, mailHist
<1>8. CASE UNCHANGED vars \/ Crash
  BY <1>0, <1>8 DEF UserHistTypes, Crash, vars, countHist, mailHist
<1> QED BY <1>5, <1>6, <1>7, <1>8 DEF Next

\* The pieces of a mailbox, or of a copy of one, are messages.
LEMMA PiecesAreMsgs == ASSUME NEW s \in Seq(Msgs) PROVE Pieces(s) \subseteq Msgs
  BY DEF Pieces

LEMMA TextsAreMsgs == ASSUME Types, NEW c \in Channels PROVE Pieces(text[c]) \subseteq Msgs
  BY PiecesAreMsgs DEF Types, LocalTypes

LEMMA BoxesAreMsgs == ASSUME Types, NEW u \in Users PROVE Pieces(mail[u]) \subseteq Msgs
  BY PiecesAreMsgs DEF Types, RedisTypes

LEMMA MailHistTyped ==
  ASSUME Types, [Next]_vars PROVE MailHistTypes'
<1>0. MailHistTypes /\ \A c \in Channels : UserOf[c] \in Users
  BY DEF Types
<1>1. ASSUME UNCHANGED <<sent, stored, got, missed, unseen, unwiped>> PROVE MailHistTypes'
  BY <1>0, <1>1 DEF MailHistTypes
<1>2. ASSUME NEW c \in Channels, NEW m \in Msgs, Send(c, m) PROVE MailHistTypes'
  BY <1>0, <1>2 DEF Send, MailHistTypes
<1>3. ASSUME NEW c \in Channels, NEW ms \in SUBSET Msgs, NEW to,
             Delivered(ms, to), Missed(ms, to), UNCHANGED <<sent, stored, unseen, unwiped>>
      PROVE  MailHistTypes'
  BY <1>0, <1>3 DEF Delivered, Missed, MailHistTypes
<1>4. ASSUME NEW c \in Channels, ReplayMail(c) PROVE MailHistTypes'
  BY <1>3, <1>4, TextsAreMsgs DEF ReplayMail
<1>5. ASSUME NEW c \in Channels, WriteTo(c) PROVE MailHistTypes'
  <2>1. {msg[c]} \subseteq Msgs
    BY <1>5 DEF WriteTo, At, Types, LocalTypes, Messaging
  <2> QED BY <1>1, <1>3, <1>5, <2>1 DEF WriteTo
<1>6. ASSUME NEW c \in Channels, NEW ms \in SUBSET Msgs, unwiped' = unwiped \cup ms,
             UNCHANGED <<sent, stored, got, missed, unseen>>
      PROVE  MailHistTypes'
  BY <1>0, <1>6 DEF MailHistTypes
<1>7. ASSUME NEW c \in Channels, GetMail(c) PROVE MailHistTypes'
  <2> DEFINE again == {m \in Pieces(mail[UserOf[c]]) :
                         \E d \in Channels : Emptying(d) /\ m \in Pieces(text[d])}
  <2>1. again \subseteq Msgs
    BY <1>0, BoxesAreMsgs
  <2>2. CASE UNCHANGED unwiped
    BY <1>1, <1>7, <2>2 DEF GetMail
  <2>3. CASE unwiped' = unwiped \cup again
    <3> HIDE DEF again
    <3> QED BY <1>6, <1>7, <2>1, <2>3 DEF GetMail
  <2> QED BY <1>7, <2>2, <2>3 DEF GetMail
<1>8. ASSUME NEW c \in Channels, WipeMail(c) PROVE MailHistTypes'
  <2> DEFINE back == {m \in Pieces(text[c]) :
                        \E d \in Channels : At(d, "store") /\ m \in Pieces(text[d])}
  <2>1. back \subseteq Msgs
    BY TextsAreMsgs
  <2>2. unwiped' = unwiped \cup back
    BY <1>8 DEF WipeMail
  <2> HIDE DEF back
  <2> QED BY <1>6, <1>8, <2>1, <2>2 DEF WipeMail
<1>9. ASSUME NEW c \in Channels, RedisFails(c) PROVE MailHistTypes'
  <2>1. CASE UNCHANGED unwiped
    BY <1>1, <1>9, <2>1 DEF RedisFails
  <2>2. CASE unwiped' = unwiped \cup Pieces(text[c])
    BY <1>6, <1>9, <2>2, TextsAreMsgs DEF RedisFails
  <2> QED BY <1>9, <2>1, <2>2 DEF RedisFails
<1>10. ASSUME NEW c \in Channels, StoreMail(c) PROVE MailHistTypes'
  <2>1. msg[c] \in Msgs
    BY <1>10 DEF StoreMail, At, Types, LocalTypes, Messaging
  <2>2. PICK m \in Msgs : m = msg[c]
    BY <2>1
  <2>3. stored' = Append(stored, m) /\ (UNCHANGED unseen \/ unseen' = unseen \cup {m})
        /\ UNCHANGED <<sent, got, missed, unwiped>>
    BY <1>10, <2>2 DEF StoreMail, Stores
  <2> QED BY <1>0, <2>3 DEF MailHistTypes
<1>11. CASE Crash
  <2> DEFINE again == UNION {Pieces(text[c]) : c \in {d \in Channels : Emptying(d)}}
  <2>1. again \subseteq Msgs
    BY TextsAreMsgs
  <2>2. unwiped' = unwiped \cup again /\ UNCHANGED <<sent, stored, got, missed, unseen>>
    BY <1>11 DEF Crash
  <2> HIDE DEF again
  <2> QED BY <1>0, <2>1, <2>2 DEF MailHistTypes
<1>12. ASSUME NEW c \in Channels, HandlerStep(c) PROVE MailHistTypes'
  BY <1>1, <1>4, <1>5, <1>7, <1>8, <1>10, <1>12
     DEF HandlerStep, GetCount, SetCount, SetIp, Lookup, PutSet, AddToSet, Greet, LeaveGet, LeaveSet,
         LeaveMap, Route, GetStore, Unregister, DropMap, mailHist
<1>13. ASSUME NEW c \in Channels, Event(c) PROVE MailHistTypes'
  BY <1>1, <1>2, <1>13
     DEF Event, Connect, Disconnect, Token, RefuseFrame, Offline, Inactive, mailHist
<1> QED BY <1>1, <1>9, <1>11, <1>12, <1>13 DEF Next, vars, mailHist

LEMMA BoundsTyped ==
  ASSUME Types, [Next]_vars PROVE BoundTypes'
<1>1. ASSUME NEW c \in Channels, Event(c) PROVE UNCHANGED bounds
  BY <1>1, ZenonT(60)
     DEF Event, Connect, Disconnect, Token, RefuseFrame, Offline, Inactive, Send
<1>2. ASSUME NEW c \in Channels, HandlerStep(c) PROVE UNCHANGED bounds
  BY <1>2, ZenonT(60)
     DEF HandlerStep, GetCount, SetCount, SetIp, Lookup, PutSet, AddToSet, Greet, GetMail, ReplayMail,
         WipeMail, LeaveGet, LeaveSet, LeaveMap, Route, WriteTo, GetStore, StoreMail, Stores,
         Unregister, DropMap, bounds
<1>3. /\ UNCHANGED crashes \/ (crashes < MaxCrashes /\ crashes' = crashes + 1)
      /\ UNCHANGED faults \/ (faults < MaxFaults /\ faults' = faults + 1)
  BY <1>1, <1>2 DEF Next, RedisFails, Crash, vars, bounds
<1> QED BY <1>3 DEF Types, BoundTypes

LEMMA ChatTyped == Spec => []Types
<1>1. Types /\ [Next]_vars => Types'
  BY NetTyped, RedisTyped, LocalsTyped, UserHistTyped, MailHistTyped, BoundsTyped DEF Types
<1> QED BY <1>1, InitTypes, PTL DEF Spec

\* The variables have their types; no interleaving of logins and leaves takes a
\* counter below zero, whatever crashes or fails in between.
THEOREM ChatTypeCorrect == Spec => []TypeOK
  BY ChatTyped, TypesGiveTypeOK, PTL

-----------------------------------------------------------------------------
(* The order of a mailbox.                                                 *)

\* The pieces of s are in t, in the order of s.
Within(s, t) == \A j \in 1 .. Len(s) : \E p \in 1 .. Len(t) : t[p] = s[j]
InOrder(s, t) ==
  \A j, k \in 1 .. Len(s) : j < k =>
    \E p, q \in 1 .. Len(t) : p < q /\ t[p] = s[j] /\ t[q] = s[k]
Listed(s, t) == Within(s, t) /\ InOrder(s, t)

\* Mailboxes, and what handlers have read of them, which they may write back late.
ListedInv == /\ \A u \in Users : Listed(mail[u], stored)
             /\ \A c \in Channels : Listed(text[c], stored)

LEMMA ListedLonger ==
  ASSUME NEW s \in Seq(Msgs), NEW t \in Seq(Msgs), NEW m \in Msgs, Listed(s, t)
  PROVE  Listed(s, Append(t, m))
<1> DEFINE a == Append(t, m)
<1>1. /\ Len(t) \in Nat /\ Len(a) = Len(t) + 1
      /\ \A p \in 1 .. Len(t) : p \in 1 .. Len(a) /\ a[p] = t[p]
  OBVIOUS
<1> HIDE DEF a
<1>2. Within(s, a)
  BY <1>1 DEF Listed, Within
<1>3. InOrder(s, a)
  <2> SUFFICES ASSUME NEW j \in 1 .. Len(s), NEW k \in 1 .. Len(s), j < k
               PROVE  \E p, q \in 1 .. Len(a) : p < q /\ a[p] = s[j] /\ a[q] = s[k]
    BY DEF InOrder
  <2>1. PICK p \in 1 .. Len(t), q \in 1 .. Len(t) : p < q /\ t[p] = s[j] /\ t[q] = s[k]
    BY DEF Listed, InOrder
  <2>2. /\ p \in 1 .. Len(a) /\ a[p] = s[j]
        /\ q \in 1 .. Len(a) /\ a[q] = s[k]
    BY <1>1, <2>1
  <2> QED BY <2>1, <2>2
<1> QED BY <1>2, <1>3 DEF Listed, a

LEMMA ListedAppended ==
  ASSUME NEW s \in Seq(Msgs), NEW t \in Seq(Msgs), NEW m \in Msgs, Listed(s, t)
  PROVE  Listed(Append(s, m), Append(t, m))
<1> DEFINE a == Append(t, m)
           b == Append(s, m)
<1>1. /\ Len(t) \in Nat /\ Len(a) = Len(t) + 1 /\ a[Len(a)] = m
      /\ \A p \in 1 .. Len(t) : p \in 1 .. Len(a) /\ p < Len(a) /\ a[p] = t[p]
  OBVIOUS
<1>2. /\ Len(s) \in Nat /\ Len(b) = Len(s) + 1 /\ b[Len(b)] = m
      /\ \A p \in 1 .. Len(s) : b[p] = s[p]
  OBVIOUS
<1> HIDE DEF a, b
<1>3. Within(b, a)
  <2> SUFFICES ASSUME NEW j \in 1 .. Len(b) PROVE \E p \in 1 .. Len(a) : a[p] = b[j]
    BY DEF Within
  <2>1. CASE j \in 1 .. Len(s)
    <3>1. PICK p \in 1 .. Len(t) : t[p] = s[j]
      BY <2>1 DEF Listed, Within
    <3>2. p \in 1 .. Len(a) /\ a[p] = b[j]
      BY <1>1, <1>2, <2>1, <3>1
    <3> QED BY <3>2
  <2>2. CASE j = Len(b)
    BY <1>1, <1>2, <2>2
  <2> QED BY <1>2, <2>1, <2>2
<1>4. InOrder(b, a)
  <2> SUFFICES ASSUME NEW j \in 1 .. Len(b), NEW k \in 1 .. Len(b), j < k
               PROVE  \E p, q \in 1 .. Len(a) : p < q /\ a[p] = b[j] /\ a[q] = b[k]
    BY DEF InOrder
  <2>1. CASE k \in 1 .. Len(s)
    <3>1. j \in 1 .. Len(s) /\ b[j] = s[j] /\ b[k] = s[k]
      BY <1>2, <2>1
    <3>2. PICK p \in 1 .. Len(t), q \in 1 .. Len(t) : p < q /\ t[p] = s[j] /\ t[q] = s[k]
      BY <2>1, <3>1 DEF Listed, InOrder
    <3> QED BY <1>1, <3>1, <3>2
  <2>2. CASE k = Len(b)
    <3>1. j \in 1 .. Len(s) /\ b[j] = s[j] /\ b[k] = m
      BY <1>2, <2>2
    <3>2. PICK p \in 1 .. Len(t) : t[p] = s[j]
      BY <3>1 DEF Listed, Within
    <3>3. Len(a) \in 1 .. Len(a) /\ a[Len(a)] = b[k]
      BY <1>1, <3>1
    <3>4. p \in 1 .. Len(a) /\ p < Len(a) /\ a[p] = b[j]
      BY <1>1, <3>1, <3>2
    <3> QED BY <3>3, <3>4
  <2>3. k \in 1 .. Len(s) \/ k = Len(b)
    BY <1>2
  <2> QED BY <2>1, <2>2, <2>3
<1> QED BY <1>3, <1>4 DEF Listed, a, b

\* Storing is the only way into a mailbox.
LEMMA StoredGrows ==
  ASSUME Types, [Next]_vars
  PROVE  UNCHANGED stored \/ \E m \in Msgs : stored' = Append(stored, m)
<1>1. ASSUME NEW c \in Channels, StoreMail(c)
      PROVE  stored' = Append(stored, msg[c]) /\ msg[c] \in Msgs
  BY <1>1 DEF StoreMail, Stores, At, Types, LocalTypes, Messaging
<1>2. ASSUME NEW c \in Channels, HandlerStep(c), ~StoreMail(c) PROVE UNCHANGED stored
  BY <1>2, ZenonT(60)
     DEF HandlerStep, GetCount, SetCount, SetIp, Lookup, PutSet, AddToSet, Greet, GetMail, ReplayMail,
         WipeMail, LeaveGet, LeaveSet, LeaveMap, Route, WriteTo, GetStore, Unregister, DropMap,
         mailHist
<1>3. ASSUME NEW c \in Channels, Event(c) PROVE UNCHANGED stored
  BY <1>3, ZenonT(60)
     DEF Event, Connect, Disconnect, Token, RefuseFrame, Offline, Inactive, Send, mailHist
<1>4. CASE UNCHANGED vars \/ Crash \/ \E c \in Channels : RedisFails(c)
  BY <1>4 DEF Crash, RedisFails, vars, mailHist
<1> QED BY <1>1, <1>2, <1>3, <1>4 DEF Next

LEMMA ListedKept ==
  ASSUME Types, ListedInv, [Next]_vars PROVE ListedInv'
<1>0. /\ mail \in [Users -> Seq(Msgs)] /\ text \in [Channels -> Seq(Msgs)] /\ stored \in Seq(Msgs)
      /\ \A c \in Channels : UserOf[c] \in Users
  BY DEF Types, RedisTypes, LocalTypes, MailHistTypes
<1>1. ASSUME NEW s \in Seq(Msgs), Listed(s, stored) PROVE Listed(s, stored')
  BY <1>0, <1>1, StoredGrows, ListedLonger
<1>2. Listed(<<>>, stored')
  BY DEF Listed, Within, InOrder
<1>3. /\ \A u \in Users : Listed(mail[u], stored')
      /\ \A c \in Channels : Listed(text[c], stored')
  BY <1>0, <1>1 DEF ListedInv
\* What is read or wiped was listed.
<1>4. ASSUME \A u \in Users : mail'[u] \in {mail[u], <<>>},
             \A c \in Channels : text'[c] \in {text[c], <<>>} \cup {mail[u] : u \in Users}
      PROVE  ListedInv'
  BY <1>2, <1>3, <1>4 DEF ListedInv
<1>5. CASE UNCHANGED <<mail, text>>
  BY <1>4, <1>5
<1>6. ASSUME NEW c \in Channels, Finish(c), UNCHANGED mail PROVE ListedInv'
  BY <1>0, <1>4, <1>6 DEF Finish
<1>7. ASSUME NEW c \in Channels, GetMail(c) PROVE ListedInv'
  BY <1>0, <1>4, <1>6, <1>7 DEF GetMail, redisVars
<1>8. ASSUME NEW c \in Channels, GetStore(c) PROVE ListedInv'
  <2>1. To(c) \in Users
    BY <1>8 DEF GetStore, At, To, Types, LocalTypes, Messaging
  <2> QED BY <1>0, <1>4, <1>8, <2>1 DEF GetStore, redisVars
<1>9. ASSUME NEW c \in Channels, WipeMail(c) PROVE ListedInv'
  BY <1>0, <1>4, <1>9 DEF WipeMail, Finish
<1>10. ASSUME NEW c \in Channels, StoreMail(c) PROVE ListedInv'
  <2>1. msg[c] \in Msgs /\ stored' = Append(stored, msg[c])
    BY <1>10 DEF StoreMail, Stores, At, Types, LocalTypes, Messaging
  <2>2. Listed(Append(text[c], msg[c]), stored')
    BY <1>0, <2>1, ListedAppended DEF ListedInv
  <2>3. \A u \in Users : mail'[u] = mail[u] \/ mail'[u] = Append(text[c], msg[c])
    BY <1>0, <1>10 DEF StoreMail
  <2>4. \A d \in Channels : text'[d] = text[d] \/ text'[d] = <<>>
    BY <1>0, <1>10 DEF StoreMail, Stores, Finish
  <2> QED BY <1>2, <1>3, <2>2, <2>3, <2>4 DEF ListedInv
<1>11. CASE Crash
  BY <1>0, <1>4, <1>11 DEF Crash, redisVars
<1>12. ASSUME NEW c \in Channels,
              \/ Greet(c) \/ LeaveSet(c) \/ LeaveMap(c) \/ WriteTo(c) \/ DropMap(c)
              \/ RedisFails(c)
       PROVE  ListedInv'
  BY <1>5, <1>6, <1>12 DEF Greet, LeaveSet, LeaveMap, WriteTo, DropMap, RedisFails, redisVars,
     localVars
<1>13. ASSUME NEW c \in Channels, HandlerStep(c) PROVE ListedInv'
  BY <1>5, <1>7, <1>8, <1>9, <1>10, <1>12, <1>13 DEF HandlerStep, GetCount, SetCount, SetIp,
     Lookup, PutSet, AddToSet, ReplayMail, LeaveGet, Route, Unregister, redisVars, localVars
<1>14. ASSUME NEW c \in Channels, Event(c) PROVE ListedInv'
  BY <1>5, <1>14 DEF Event, Connect, Disconnect, Token, RefuseFrame, Offline, Inactive, Send, redisVars,
     localVars
<1> QED BY <1>5, <1>11, <1>12, <1>13, <1>14 DEF Next, vars, redisVars, localVars

\* A mailbox lists messages in the order in which the server stored them,
\* however stores, logins, failures and crashes overlap.
THEOREM MailInOrder == Spec => []MailboxInSendOrder
<1>1. Init => ListedInv
  BY DEF Init, ListedInv, Listed, Within, InOrder
<1>2. Types /\ ListedInv /\ [Next]_vars => ListedInv'
  BY ListedKept
<1>3. ListedInv => MailboxInSendOrder
  BY DEF ListedInv, Listed, InOrder, MailboxInSendOrder
<1> QED BY <1>1, <1>2, <1>3, ChatTyped, PTL DEF Spec

-----------------------------------------------------------------------------
(* What becomes of a stored message.                                       *)

\* Places of a handler that has a copy of a mailbox in hand.
Holding == {"replay", "wipe", "store"}

\* A step that leaves the mailboxes, the copies and the messages' history alone.
MailAside ==
  /\ UNCHANGED <<mail, sent, stored, got, missed, unseen, unwiped>>
  /\ \A d \in Channels :
       /\ pc[d] \in Holding \/ pc'[d] \in Holding =>
            pc'[d] = pc[d] /\ text'[d] = text[d] /\ msg'[d] = msg[d]
       /\ msg'[d] \in {msg[d], NoMsg}

LEMMA FinishAside ==
  ASSUME Types, NEW c \in Channels, Finish(c), pc[c] \notin Holding,
         UNCHANGED <<mail, sent, stored, got, missed, unseen, unwiped>>
  PROVE  MailAside
<1>1. /\ pc \in [Channels -> Places] /\ msg \in [Channels -> Msgs \cup {NoMsg}]
      /\ text \in [Channels -> Seq(Msgs)]
  BY DEF Types, LocalTypes
<1>2. "idle" \notin Holding
  BY DEF Holding
<1> QED BY <1>1, <1>2 DEF Finish, Goto, MailAside

LEMMA GotoAside ==
  ASSUME Types, NEW c \in Channels, NEW place \in Places \ Holding, Goto(c, place),
         pc[c] \notin Holding, UNCHANGED <<msg, text>>,
         UNCHANGED <<mail, sent, stored, got, missed, unseen, unwiped>>
  PROVE  MailAside
<1>1. pc \in [Channels -> Places]
  BY DEF Types, LocalTypes
<1> QED BY <1>1 DEF Goto, MailAside

LEMMA IdleWhenFree == ASSUME NEW c \in Channels, LoopFree(c) PROVE pc[c] = "idle"
  BY DEF LoopFree

\* The steps that matter to a message.
MailStep(c) ==
  \/ \E m \in Msgs : Send(c, m)
  \/ GetMail(c) \/ ReplayMail(c) \/ WipeMail(c)
  \/ WriteTo(c) \/ GetStore(c) \/ StoreMail(c) \/ RedisFails(c)

LEMMA MailSteps ==
  ASSUME Types, [Next]_vars
  PROVE  MailAside \/ Crash \/ \E c \in Channels : MailStep(c)
<1>1. ASSUME UNCHANGED <<pc, text, msg, mail, sent, stored, got, missed, unseen, unwiped>>
      PROVE  MailAside
  BY <1>1 DEF MailAside
<1>2. ASSUME NEW c \in Channels, GetCount(c) \/ SetCount(c) \/ SetIp(c) \/ Lookup(c)
      PROVE  MailAside
  <2>1. PICK place \in Places \ Holding : Goto(c, place)
    BY <1>2 DEF GetCount, SetCount, SetIp, Lookup, Places, Holding
  <2>2. pc[c] \notin Holding
    BY <1>2 DEF GetCount, SetCount, SetIp, Lookup, At, Holding
  <2>3. UNCHANGED <<msg, text, mail, sent, stored, got, missed, unseen, unwiped>>
    BY <1>2, ZenonT(60) DEF GetCount, SetCount, SetIp, Lookup, localVars, redisVars, mailHist
  <2> QED BY <2>1, <2>2, <2>3, GotoAside
<1>3. ASSUME NEW c \in Channels, PutSet(c) \/ AddToSet(c) \/ LeaveGet(c) \/ Route(c) \/ Unregister(c)
      PROVE  MailAside
  <2>1. PICK place \in Places \ Holding : Goto(c, place)
    BY <1>3 DEF PutSet, AddToSet, LeaveGet, Route, Unregister, Places, Holding
  <2>2. pc[c] \notin Holding
    BY <1>3 DEF PutSet, AddToSet, LeaveGet, Route, Unregister, At, Holding
  <2>3. UNCHANGED <<msg, text, mail, sent, stored, got, missed, unseen, unwiped>>
    BY <1>3, ZenonT(60)
       DEF PutSet, AddToSet, LeaveGet, Route, Unregister, localVars, redisVars, mailHist
  <2> QED BY <2>1, <2>2, <2>3, GotoAside
<1>4. ASSUME NEW c \in Channels, Greet(c) \/ LeaveSet(c) \/ LeaveMap(c) \/ DropMap(c)
      PROVE  MailAside
  <2>1. pc[c] \notin Holding
    BY <1>4 DEF Greet, LeaveSet, LeaveMap, DropMap, At, Holding
  <2>2. UNCHANGED <<mail, sent, stored, got, missed, unseen, unwiped>>
    BY <1>4, ZenonT(60) DEF Greet, LeaveSet, LeaveMap, DropMap, redisVars, mailHist
  <2>3. Finish(c) \/ \E place \in Places \ Holding : Goto(c, place) /\ UNCHANGED <<msg, text>>
    <3>1. {"getMail", "leaveMap", "dropGet"} \subseteq Places \ Holding
      BY DEF Places, Holding
    <3> QED BY <1>4, <3>1 DEF Greet, LeaveSet, LeaveMap, DropMap, localVars
  <2> QED BY <2>1, <2>2, <2>3, FinishAside, GotoAside
<1>5. ASSUME NEW c \in Channels, Token(c) \/ Offline(c) \/ Inactive(c) PROVE MailAside
  <2>1. pc[c] \notin Holding
    BY <1>5, IdleWhenFree DEF Token, Offline, Inactive, Readable, Holding
  <2>2. UNCHANGED <<msg, text, mail, sent, stored, got, missed, unseen, unwiped>>
    BY <1>5, ZenonT(60) DEF Token, Offline, Inactive, localVars, redisVars, mailHist
  <2>3. UNCHANGED pc \/ \E place \in Places \ Holding : Goto(c, place)
    BY <1>5 DEF Token, Offline, Inactive, Places, Holding
  <2> QED BY <1>1, <2>1, <2>2, <2>3, GotoAside
<1>6. ASSUME NEW c \in Channels, Connect(c) \/ Disconnect(c) \/ RefuseFrame(c) PROVE MailAside
  BY <1>1, <1>6 DEF Connect, Disconnect, RefuseFrame, localVars, redisVars, mailHist
<1>7. CASE UNCHANGED vars
  BY <1>1, <1>7 DEF vars, localVars, redisVars, mailHist
<1>8. ASSUME NEW c \in Channels, HandlerStep(c) PROVE MailAside \/ MailStep(c)
  BY <1>2, <1>3, <1>4, <1>8 DEF HandlerStep, MailStep
<1>9. ASSUME NEW c \in Channels, Event(c) PROVE MailAside \/ MailStep(c)
  BY <1>5, <1>6, <1>9 DEF Event, MailStep
<1> QED BY <1>7, <1>8, <1>9 DEF Next, MailStep

Box(u) == Pieces(mail[u])
Hand(c) == Pieces(text[c])

\* Nothing more is owed to m: it was replayed, or one of the two accidents hit it.
Safe(m) == got[m] > 0 \/ m \in missed \cup unseen

\* A mailbox and a copy in hand differ in safe messages only.
Agrees(c, u) == /\ \A m \in Box(u) : m \in Hand(c) \/ Safe(m)
                /\ \A m \in Hand(c) : m \in Box(u) \/ Safe(m)
KeptInv ==
  /\ \A c \in Channels, u \in Users : Holds(c, u) => Agrees(c, u)
  /\ \A c \in Channels : At(c, "wipe") => \A m \in Hand(c) : Safe(m)
  /\ \A m \in Pieces(stored) : Waiting(m) \/ Safe(m)

\* What is safe stays so.
LEMMA StaysSafe ==
  ASSUME Types, UNCHANGED got \/ (\E ms, to : Delivered(ms, to)),
         missed \subseteq missed', unseen \subseteq unseen', NEW m \in Msgs, Safe(m)
  PROVE  Safe(m)'
<1>1. CASE got[m] > 0
  <2>1. got'[m] >= got[m] /\ got[m] \in Nat /\ got'[m] \in Nat
    BY DEF Delivered, Types, MailHistTypes
  <2> QED BY <1>1, <2>1 DEF Safe
<1> QED BY <1>1 DEF Safe

LEMMA HoldsMeans ==
  \A c \in Channels, u \in Users :
    /\ Holds(c, u) <=> \/ pc[c] = "store" /\ To(c) = u
                       \/ pc[c] \in {"replay", "wipe"} /\ UserOf[c] = u
    /\ Holds(c, u) => pc[c] \in Holding
  BY DEF Holds, At, Emptying, Holding

LEMMA KeptAside ==
  ASSUME Types, KeptInv, MailAside PROVE KeptInv'
<1>1. \A m : Safe(m)' <=> Safe(m)
  BY DEF MailAside, Safe
<1>2. ASSUME NEW c \in Channels, NEW u \in Users, Holds(c, u)' PROVE Agrees(c, u)'
  <2>1. pc'[c] \in Holding
    BY <1>2 DEF Holds, At, Emptying, Holding
  <2>2. pc'[c] = pc[c] /\ text'[c] = text[c] /\ msg'[c] = msg[c] /\ mail' = mail
    BY <2>1 DEF MailAside
  <2>3. Holds(c, u)
    BY <1>2, <2>2 DEF Holds, At, Emptying, To
  <2> QED BY <1>1, <2>2, <2>3 DEF KeptInv, Agrees, Box, Hand, Pieces
<1>3. ASSUME NEW c \in Channels, At(c, "wipe")' PROVE At(c, "wipe") /\ text'[c] = text[c]
  BY <1>3 DEF MailAside, At, Holding
<1>4. UNCHANGED <<mail, stored>>
  BY DEF MailAside
<1>5. \A c \in Channels : At(c, "wipe")' => \A m \in Hand(c)' : Safe(m)'
  BY <1>1, <1>3 DEF KeptInv, Hand, Pieces
<1>6. \A m \in Pieces(stored)' : Waiting(m)' \/ Safe(m)'
  BY <1>1, <1>4 DEF KeptInv, Pieces, Waiting
<1> QED BY <1>2, <1>5, <1>6 DEF KeptInv

\* A handler ends, its copy is dropped; or all of them do.
LEMMA KeptDropped ==
  ASSUME Types, KeptInv, UNCHANGED <<mail, stored, got, missed, unseen>>,
         \A d \in Channels : pc'[d] \in Holding =>
           pc'[d] = pc[d] /\ text'[d] = text[d] /\ msg'[d] = msg[d]
  PROVE  KeptInv'
<1>1. \A m : Safe(m)' <=> Safe(m)
  BY DEF Safe
<1>2. ASSUME NEW c \in Channels, NEW u \in Users, Holds(c, u)' PROVE Agrees(c, u)'
  <2>1. pc'[c] \in Holding
    BY <1>2 DEF Holds, At, Emptying, Holding
  <2>2. pc'[c] = pc[c] /\ text'[c] = text[c] /\ msg'[c] = msg[c]
    BY <2>1
  <2>3. Holds(c, u)
    BY <1>2, <2>2 DEF Holds, At, Emptying, To
  <2> QED BY <1>1, <2>2, <2>3 DEF KeptInv, Agrees, Box, Hand, Pieces
<1>3. ASSUME NEW c \in Channels, At(c, "wipe")' PROVE At(c, "wipe") /\ text'[c] = text[c]
  BY <1>3 DEF At, Holding
<1> QED BY <1>1, <1>2, <1>3 DEF KeptInv, Hand, Pieces, Waiting

LEMMA FinishDrops ==
  ASSUME Types, NEW c \in Channels, Finish(c)
  PROVE  /\ pc'[c] = "idle"
         /\ \A d \in Channels : pc'[d] \in Holding =>
              d # c /\ pc'[d] = pc[d] /\ text'[d] = text[d] /\ msg'[d] = msg[d]
         /\ \A d \in Channels \ {c} : pc'[d] = pc[d] /\ text'[d] = text[d] /\ msg'[d] = msg[d]
  BY DEF Finish, Goto, Types, LocalTypes, Holding

\* A copy is taken.
LEMMA KeptReads ==
  ASSUME Types, KeptInv, NEW c \in Channels, NEW u \in Users,
         \/ At(c, "getMail") /\ u = UserOf[c] /\ Goto(c, "replay")
         \/ At(c, "getStore") /\ u = To(c) /\ Goto(c, "store"),
         text' = [text EXCEPT ![c] = mail[u]], UNCHANGED msg,
         UNCHANGED <<mail, stored, got, missed, unseen>>
  PROVE  KeptInv'
<1>0. pc \in [Channels -> Places] /\ text \in [Channels -> Seq(Msgs)]
  BY DEF Types, LocalTypes
<1>1. \A m : Safe(m)' <=> Safe(m)
  BY DEF Safe
<1>2. /\ pc'[c] \in {"replay", "store"} /\ text'[c] = mail[u]
      /\ \A d \in Channels \ {c} : pc'[d] = pc[d] /\ text'[d] = text[d]
  BY <1>0 DEF Goto
<1>3. ASSUME NEW d \in Channels, NEW v \in Users, Holds(d, v)' PROVE Agrees(d, v)'
  <2>1. CASE d = c
    <3>1. v = u
      BY <1>0, <1>3, <2>1 DEF Holds, At, Emptying, To, Goto
    <3> QED BY <1>2, <2>1, <3>1 DEF Agrees, Box, Hand, Pieces
  <2>2. CASE d # c
    <3>1. Holds(d, v)
      BY <1>2, <1>3, <2>2 DEF Holds, At, Emptying, To
    <3> QED BY <1>1, <1>2, <2>2, <3>1 DEF KeptInv, Agrees, Box, Hand, Pieces
  <2> QED BY <2>1, <2>2
<1>4. ASSUME NEW d \in Channels, At(d, "wipe")' PROVE At(d, "wipe") /\ text'[d] = text[d]
  BY <1>2, <1>4 DEF At
<1> QED BY <1>1, <1>3, <1>4 DEF KeptInv, Hand, Pieces, Waiting

\* The copy is replayed.
LEMMA KeptReplays ==
  ASSUME Types, KeptInv, NEW c \in Channels, ReplayMail(c),
         conn[c] \in {"open", "gone", "closing"}
  PROVE  KeptInv'
<1>0. /\ pc \in [Channels -> Places] /\ At(c, "replay") /\ Goto(c, "wipe")
      /\ UNCHANGED <<text, msg, mail, stored, unseen>>
      /\ Delivered(Hand(c), {c}) /\ Missed(Hand(c), {c})
  BY DEF ReplayMail, Hand, Types, LocalTypes, localVars, redisVars
<1>1. ASSUME NEW m \in Msgs, Safe(m) PROVE Safe(m)'
  BY <1>0, <1>1, StaysSafe DEF Missed
<1>2. ASSUME NEW m \in Hand(c) PROVE Safe(m)'
  <2>1. m \in Msgs
    BY TextsAreMsgs DEF Hand
  <2>2. CASE conn[c] = "open"
    <3>1. got'[m] = IF got[m] < 2 THEN got[m] + 1 ELSE got[m]
      BY <1>0, <1>2, <2>1, <2>2 DEF Delivered
    <3>2. got[m] \in 0 .. 2
      BY <2>1 DEF Types, MailHistTypes
    <3> QED BY <3>1, <3>2 DEF Safe
  <2>3. CASE conn[c] # "open"
    <3>1. m \in missed'
      BY <1>0, <1>2, <2>3 DEF Missed, Dying
    <3> QED BY <3>1 DEF Safe
  <2> QED BY <2>2, <2>3
<1>3. /\ pc'[c] = "wipe"
      /\ \A d \in Channels \ {c} : pc'[d] = pc[d]
  BY <1>0 DEF Goto
<1>4. ASSUME NEW d \in Channels, NEW u \in Users, Holds(d, u)' PROVE Agrees(d, u)'
  <2>1. Holds(d, u)
    BY <1>0, <1>3, <1>4 DEF Holds, At, Emptying, To
  <2>2. Box(u) \subseteq Msgs /\ Hand(d) \subseteq Msgs
    BY BoxesAreMsgs, TextsAreMsgs DEF Box, Hand
  <2>3. Box(u)' = Box(u) /\ Hand(d)' = Hand(d)
    BY <1>0 DEF Box, Hand, Pieces
  <2> QED BY <1>1, <2>1, <2>2, <2>3 DEF KeptInv, Agrees
<1>5. ASSUME NEW d \in Channels, At(d, "wipe")', NEW m \in Hand(d)' PROVE Safe(m)'
  <2>1. m \in Hand(d)
    BY <1>0, <1>5 DEF Hand, Pieces
  <2>2. CASE d = c
    BY <1>2, <2>1, <2>2
  <2>3. CASE d # c
    <3>1. Safe(m)
      BY <1>3, <1>5, <2>1, <2>3 DEF KeptInv, At
    <3> QED BY <1>1, <2>1, <3>1, TextsAreMsgs DEF Hand
  <2> QED BY <2>2, <2>3
<1>6. ASSUME NEW m \in Pieces(stored)' PROVE Waiting(m)' \/ Safe(m)'
  <2>1. m \in Pieces(stored) /\ m \in Msgs
    BY <1>0, <1>6, PiecesAreMsgs DEF Pieces, Types, MailHistTypes
  <2> QED BY <1>0, <1>1, <2>1 DEF KeptInv, Waiting
<1> QED BY <1>4, <1>5, <1>6 DEF KeptInv

\* The mailbox is deleted.
LEMMA KeptWipes ==
  ASSUME Types, KeptInv, NEW c \in Channels, WipeMail(c) PROVE KeptInv'
<1>0. /\ UserOf[c] \in Users /\ mail \in [Users -> Seq(Msgs)] /\ At(c, "wipe")
      /\ mail' = [mail EXCEPT ![UserOf[c]] = <<>>] /\ Finish(c)
      /\ UNCHANGED <<stored, got, missed, unseen>>
  BY DEF WipeMail, Types, RedisTypes
<1>1. \A m : Safe(m)' <=> Safe(m)
  BY <1>0 DEF Safe
\* Everything that was in it is safe.
<1>2. ASSUME NEW m \in Box(UserOf[c]) PROVE Safe(m)
  <2>1. Holds(c, UserOf[c])
    BY <1>0 DEF Holds, At, Emptying
  <2> QED BY <1>0, <1>2, <2>1 DEF KeptInv, Agrees
<1>3. /\ Box(UserOf[c])' = {}
      /\ \A u \in Users \ {UserOf[c]} : Box(u)' = Box(u)
  BY <1>0 DEF Box, Pieces
<1>4. ASSUME NEW d \in Channels, NEW u \in Users, Holds(d, u)' PROVE Agrees(d, u)'
  <2>1. pc'[d] \in Holding
    BY <1>4 DEF Holds, At, Emptying, Holding
  <2>2. pc'[d] = pc[d] /\ text'[d] = text[d] /\ msg'[d] = msg[d]
    BY <1>0, <2>1, FinishDrops
  <2>3. Agrees(d, u) /\ Hand(d)' = Hand(d)
    BY <1>4, <2>2 DEF Holds, At, Emptying, To, KeptInv, Hand, Pieces
  <2>4. CASE u = UserOf[c]
    BY <1>1, <1>2, <1>3, <2>3, <2>4 DEF Agrees
  <2>5. CASE u # UserOf[c]
    <3>1. Box(u)' = Box(u)
      BY <1>3, <2>5
    <3> QED BY <1>1, <2>3, <3>1 DEF Agrees
  <2> QED BY <2>4, <2>5
<1>5. ASSUME NEW d \in Channels, At(d, "wipe")' PROVE At(d, "wipe") /\ Hand(d)' = Hand(d)
  <2>1. pc'[d] \in Holding
    BY <1>5 DEF At, Holding
  <2> QED BY <1>0, <1>5, <2>1, FinishDrops DEF At, Hand, Pieces
<1>6. ASSUME NEW m \in Pieces(stored)' PROVE Waiting(m)' \/ Safe(m)'
  <2>1. m \in Pieces(stored) /\ m \in Msgs
    BY <1>0, <1>6, PiecesAreMsgs DEF Pieces, Types, MailHistTypes
  <2>2. CASE Safe(m)
    BY <1>1, <2>2
  <2>3. CASE m \in Box(Recipient[m])
    <3>1. CASE Recipient[m] = UserOf[c]
      BY <1>1, <1>2, <2>3, <3>1
    <3>2. CASE Recipient[m] # UserOf[c]
      BY <1>3, <2>1, <2>3, <3>2 DEF Waiting, Box
    <3> QED BY <3>1, <3>2
  <2> QED BY <2>1, <2>2, <2>3 DEF KeptInv, Waiting, Box
<1> QED BY <1>1, <1>4, <1>5, <1>6 DEF KeptInv

LEMMA Appended ==
  ASSUME NEW s \in Seq(Msgs), NEW m \in Msgs PROVE Pieces(Append(s, m)) = Pieces(s) \cup {m}
<1> DEFINE a == Append(s, m)
<1>1. /\ Len(s) \in Nat /\ Len(a) = Len(s) + 1 /\ a[Len(a)] = m
      /\ \A k \in 1 .. Len(s) : a[k] = s[k]
  OBVIOUS
<1> HIDE DEF a
<1>2. Pieces(a) \subseteq Pieces(s) \cup {m}
  BY <1>1 DEF Pieces
<1>3. Pieces(s) \cup {m} \subseteq Pieces(a)
  BY <1>1 DEF Pieces
<1> QED BY <1>2, <1>3 DEF a

\* What storing does: the copy and the message become the mailbox.
LEMMA StoringMeans ==
  ASSUME Types, NEW c \in Channels, StoreMail(c)
  PROVE  msg[c] \in Msgs /\ To(c) \in Users
  BY DEF StoreMail, At, To, Types, LocalTypes, Messaging

LEMMA MailStored ==
  ASSUME Types, NEW c \in Channels, StoreMail(c),
         NEW m \in Msgs, m = msg[c], NEW u \in Users, u = To(c)
  PROVE  /\ Finish(c)
         /\ Box(u)' = Hand(c) \cup {m} /\ \A v \in Users \ {u} : Box(v)' = Box(v)
         /\ Pieces(stored)' = Pieces(stored) \cup {m}
<1>1. mail \in [Users -> Seq(Msgs)] /\ text[c] \in Seq(Msgs) /\ stored \in Seq(Msgs)
  BY DEF Types, RedisTypes, LocalTypes, MailHistTypes
<1>2. mail' = [mail EXCEPT ![u] = Append(text[c], m)] /\ stored' = Append(stored, m) /\ Finish(c)
  BY DEF StoreMail, Stores
<1>3. Pieces(mail'[u]) = Pieces(text[c]) \cup {m} /\ \A v \in Users \ {u} : mail'[v] = mail[v]
  BY <1>1, <1>2, Appended
<1>4. Pieces(stored') = Pieces(stored) \cup {m}
  BY <1>1, <1>2, Appended
<1>5. /\ \A v \in Users : Box(v)' = Pieces(mail'[v]) /\ Box(v) = Pieces(mail[v])
      /\ Hand(c) = Pieces(text[c]) /\ Pieces(stored)' = Pieces(stored')
  BY DEF Box, Hand, Pieces
<1> QED BY <1>2, <1>3, <1>4, <1>5

\* The copy is written back, with the message behind it.
LEMMA KeptStores ==
  ASSUME Types, KeptInv, NEW c \in Channels, StoreMail(c) PROVE KeptInv'
<1>0. PICK m \in Msgs, u \in Users : m = msg[c] /\ u = To(c)
  BY StoringMeans
<1>1. /\ Box(u)' = Hand(c) \cup {m} /\ \A v \in Users \ {u} : Box(v)' = Box(v)
      /\ Pieces(stored)' = Pieces(stored) \cup {m}
      /\ Finish(c)
  BY <1>0, MailStored
<1>2. /\ UNCHANGED <<got, missed>> /\ At(c, "store")
      /\ unseen' = IF \E d \in Channels \ {c} : Holds(d, u) THEN unseen \cup {m} ELSE unseen
  BY <1>0 DEF StoreMail, Stores
<1>3. \A x : Safe(x) => Safe(x)'
  BY <1>2 DEF Safe
<1>4. Agrees(c, u)
  BY <1>0, <1>2 DEF Holds, KeptInv
<1>5. ASSUME NEW d \in Channels, NEW v \in Users, Holds(d, v)' PROVE Agrees(d, v)'
  <2>1. pc'[d] \in Holding
    BY <1>5 DEF Holds, At, Emptying, Holding
  <2>2. d # c /\ pc'[d] = pc[d] /\ text'[d] = text[d] /\ msg'[d] = msg[d]
    BY <1>1, <2>1, FinishDrops
  <2>3. Holds(d, v) /\ Hand(d)' = Hand(d)
    BY <1>5, <2>2 DEF Holds, At, Emptying, To, Hand, Pieces
  <2>4. Agrees(d, v)
    BY <2>3 DEF KeptInv
  <2>5. CASE v = u
    <3>1. Safe(m)'
      BY <1>2, <2>2, <2>3, <2>5 DEF Safe
    <3> QED BY <1>1, <1>3, <1>4, <2>3, <2>4, <2>5, <3>1 DEF Agrees
  <2>6. CASE v # u
    <3>1. Box(v)' = Box(v)
      BY <1>1, <2>6
    <3> QED BY <1>3, <2>3, <2>4, <3>1 DEF Agrees
  <2> QED BY <2>5, <2>6
<1>6. ASSUME NEW d \in Channels, At(d, "wipe")' PROVE At(d, "wipe") /\ Hand(d)' = Hand(d)
  <2>1. pc'[d] \in Holding
    BY <1>6 DEF At, Holding
  <2> QED BY <1>1, <1>6, <2>1, FinishDrops DEF At, Hand, Pieces
<1>7. ASSUME NEW x \in Pieces(stored)' PROVE Waiting(x)' \/ Safe(x)'
  <2>1. /\ x \in Pieces(stored) \cup {m} /\ x \in Msgs
        /\ Waiting(x) <=> x \in Box(Recipient[x])
        /\ Waiting(x)' <=> x \in Box(Recipient[x])'
    BY <1>1, <1>7, PiecesAreMsgs DEF Waiting, Box, Types, MailHistTypes
  <2>2. CASE x = m
    <3>1. Recipient[x] = u
      BY <1>0, <2>2 DEF To
    <3> QED BY <1>1, <2>1, <2>2, <3>1
  <2>3. CASE Recipient[x] # u
    <3>1. Box(Recipient[x])' = Box(Recipient[x])
      BY <1>1, <2>1, <2>3
    <3>2. x # m
      BY <1>0, <2>3 DEF To
    <3> QED BY <1>3, <2>1, <3>1, <3>2 DEF KeptInv
  <2>4. CASE x # m /\ Recipient[x] = u
    <3>1. x \in Box(u) \/ Safe(x)
      BY <2>1, <2>4 DEF KeptInv
    <3>2. x \in Hand(c) \/ Safe(x)
      BY <1>4, <3>1 DEF Agrees
    <3> QED BY <1>1, <1>3, <2>1, <2>4, <3>2
  <2> QED BY <2>2, <2>3, <2>4
<1> QED BY <1>3, <1>5, <1>6, <1>7 DEF KeptInv

\* Only channelInactive runs for a channel that has ended.
Ending == {"unregister", "dropMap", "dropGet", "dropSet"}
AliveInv == \A c \in Channels :
  pc[c] # "idle" /\ pc[c] \notin Ending => conn[c] \in {"open", "gone"}

LEMMA AliveAtFirst == ASSUME Init PROVE AliveInv
  BY DEF Init, AliveInv

LEMMA AliveKept ==
  ASSUME Types, AliveInv, [Next]_vars PROVE AliveInv'
<1>0. pc \in [Channels -> Places] /\ conn \in [Channels -> ConnStates]
  BY DEF Types, LocalTypes, NetTypes
<1>1. ASSUME NEW c \in Channels, UNCHANGED conn, \A d \in Channels \ {c} : pc'[d] = pc[d],
             \/ pc'[c] \in {"idle"} \cup Ending \/ conn[c] \in {"open", "gone"}
             \/ (pc[c] # "idle" /\ pc[c] \notin Ending)
      PROVE  AliveInv'
  BY <1>0, <1>1 DEF AliveInv
<1>2. ASSUME NEW c \in Channels, HandlerStep(c) \/ RedisFails(c) PROVE AliveInv'
  <2>1. UNCHANGED conn
    BY <1>2, ZenonT(60)
       DEF HandlerStep, GetCount, SetCount, SetIp, Lookup, PutSet, AddToSet, Greet, GetMail, ReplayMail,
           WipeMail, LeaveGet, LeaveSet, LeaveMap, Route, WriteTo, GetStore, StoreMail, Stores,
           Unregister, DropMap, RedisFails, netVars
  <2>2. PICK place : Goto(c, place)
    BY <1>2, ZenonT(60)
       DEF HandlerStep, GetCount, SetCount, SetIp, Lookup, PutSet, AddToSet, Greet, GetMail, ReplayMail,
           WipeMail, LeaveGet, LeaveSet, LeaveMap, Route, WriteTo, GetStore, StoreMail, Stores,
           Unregister, DropMap, RedisFails, Finish
  <2>3. /\ \A d \in Channels \ {c} : pc'[d] = pc[d]
        /\ pc'[c] = place
    BY <1>0, <2>2 DEF Goto
  <2>4. CASE pc[c] \in Ending
    <3>1. Finish(c) \/ Goto(c, "dropMap") \/ Goto(c, "dropGet") \/ Goto(c, "dropSet")
      BY <1>2, <2>4
         DEF HandlerStep, GetCount, SetCount, SetIp, Lookup, PutSet, AddToSet, Greet, GetMail,
             ReplayMail, WipeMail, LeaveGet, LeaveSet, LeaveMap, Route, WriteTo, GetStore, StoreMail,
             Stores, Unregister, DropMap, RedisFails, At, Ending
    <3>2. pc'[c] = "idle" \/ pc'[c] \in Ending
      BY <1>0, <3>1 DEF Finish, Goto, Ending
    <3> QED BY <1>1, <2>1, <2>3, <3>2
  <2>5. pc[c] # "idle"
    BY <1>2, ZenonT(60)
       DEF HandlerStep, GetCount, SetCount, SetIp, Lookup, PutSet, AddToSet, Greet, GetMail, ReplayMail,
           WipeMail, LeaveGet, LeaveSet, LeaveMap, Route, WriteTo, GetStore, StoreMail, Unregister,
           DropMap, RedisFails, At
  <2> QED BY <1>1, <2>1, <2>3, <2>4, <2>5
<1>3. ASSUME NEW c \in Channels, Token(c) \/ Offline(c) \/ \E m \in Msgs : Send(c, m)
      PROVE  AliveInv'
  <2>1. conn[c] \in {"open", "gone"} /\ UNCHANGED conn
    BY <1>3 DEF Token, Offline, Send, Readable, netVars
  <2>2. \A d \in Channels \ {c} : pc'[d] = pc[d]
    BY <1>0, <1>3 DEF Token, Offline, Send, Goto
  <2> QED BY <1>1, <2>1, <2>2
<1>4. ASSUME NEW c \in Channels, Connect(c) \/ Disconnect(c) PROVE AliveInv'
  BY <1>0, <1>4 DEF Connect, Disconnect, AliveInv
<1>5. ASSUME NEW c \in Channels, RefuseFrame(c) \/ Inactive(c) PROVE AliveInv'
  <2>1. pc[c] = "idle" /\ \A d \in Channels \ {c} : conn'[d] = conn[d]
    BY <1>0, <1>5, IdleWhenFree DEF RefuseFrame, Inactive, Readable
  <2>2. UNCHANGED pc \/ Goto(c, "unregister")
    BY <1>5 DEF RefuseFrame, Inactive
  <2>3. \A d \in Channels \ {c} : pc'[d] = pc[d]
    BY <1>0, <2>2 DEF Goto
  <2>4. pc'[c] = "idle" \/ pc'[c] \in Ending
    BY <1>0, <2>1, <2>2 DEF Goto, Ending
  <2> QED BY <2>1, <2>3, <2>4 DEF AliveInv
<1>6. CASE Crash
  BY <1>6 DEF Crash, AliveInv
<1>7. CASE UNCHANGED vars
  BY <1>7 DEF vars, netVars, AliveInv
<1> QED BY <1>2, <1>3, <1>4, <1>5, <1>6, <1>7 DEF Next, Event

LEMMA KeptKept ==
  ASSUME Types, AliveInv, KeptInv, [Next]_vars PROVE KeptInv'
<1>1. ASSUME NEW c \in Channels, MailStep(c) PROVE KeptInv'
  <2>0. pc \in [Channels -> Places] /\ msg \in [Channels -> Msgs \cup {NoMsg}]
    BY DEF Types, LocalTypes
  <2>1. ASSUME NEW m \in Msgs, Send(c, m) PROVE KeptInv'
    <3>1. pc[c] = "idle" /\ UNCHANGED <<mail, text, stored, got, missed, unseen>>
      BY <2>1, IdleWhenFree DEF Send, Readable, redisVars
    <3>2. \A d \in Channels : pc'[d] \in Holding => pc'[d] = pc[d] /\ msg'[d] = msg[d]
      BY <2>0, <2>1 DEF Send, Goto, Holding
    <3> QED BY <3>1, <3>2, KeptDropped
  <2>2. ASSUME GetMail(c) PROVE KeptInv'
    <3>1. CASE Finish(c) /\ UNCHANGED unwiped
      BY <2>2, <3>1, FinishDrops, KeptDropped DEF GetMail, redisVars
    <3>2. CASE text' = [text EXCEPT ![c] = mail[UserOf[c]]] /\ Goto(c, "replay") /\ UNCHANGED msg
      BY <2>2, <3>2, KeptReads DEF GetMail, redisVars
    <3> QED BY <2>2, <3>1, <3>2 DEF GetMail
  <2>3. ASSUME WriteTo(c) PROVE KeptInv'
    <3>1. Finish(c) /\ pc[c] = "write" /\ UNCHANGED <<mail, stored, unseen>>
          /\ (UNCHANGED got \/ \E ms, to : Delivered(ms, to)) /\ missed \subseteq missed'
      BY <2>3 DEF WriteTo, At, Missed, redisVars
    <3>2. \A x \in Msgs : Safe(x) => Safe(x)'
      BY <3>1, StaysSafe
    <3>3. ASSUME NEW d \in Channels, NEW v \in Users, Holds(d, v)' PROVE Agrees(d, v)'
      <4>1. pc'[d] \in Holding
        BY <3>3 DEF Holds, At, Emptying, Holding
      <4>2. pc'[d] = pc[d] /\ text'[d] = text[d] /\ msg'[d] = msg[d]
        BY <3>1, <4>1, FinishDrops
      <4>3. Agrees(d, v) /\ Hand(d)' = Hand(d) /\ Box(v)' = Box(v)
        BY <3>1, <3>3, <4>2 DEF Holds, At, Emptying, To, KeptInv, Hand, Box, Pieces
      <4>4. Box(v) \subseteq Msgs /\ Hand(d) \subseteq Msgs
        BY BoxesAreMsgs, TextsAreMsgs DEF Box, Hand
      <4> QED BY <3>2, <4>3, <4>4 DEF Agrees
    <3>4. ASSUME NEW d \in Channels, At(d, "wipe")', NEW x \in Hand(d)' PROVE Safe(x)'
      <4>1. pc'[d] \in Holding
        BY <3>4 DEF At, Holding
      <4>2. At(d, "wipe") /\ x \in Hand(d)
        BY <3>1, <3>4, <4>1, FinishDrops DEF At, Hand, Pieces
      <4> QED BY <3>2, <4>2, TextsAreMsgs DEF KeptInv, Hand
    <3>5. ASSUME NEW x \in Pieces(stored)' PROVE Waiting(x)' \/ Safe(x)'
      <4>1. x \in Pieces(stored) /\ x \in Msgs
        BY <3>1, <3>5, PiecesAreMsgs DEF Pieces, Types, MailHistTypes
      <4> QED BY <3>1, <3>2, <4>1 DEF KeptInv, Waiting
    <3> QED BY <3>3, <3>4, <3>5 DEF KeptInv
  <2>4. ASSUME GetStore(c) PROVE KeptInv'
    <3>1. To(c) \in Users
      BY <2>4 DEF GetStore, At, To, Types, LocalTypes, Messaging
    <3> QED BY <2>4, <3>1, KeptReads DEF GetStore, redisVars, mailHist
  <2>5. ASSUME RedisFails(c) PROVE KeptInv'
    BY <2>5, FinishDrops, KeptDropped DEF RedisFails, redisVars
  <2>6. ASSUME ReplayMail(c) PROVE KeptInv'
    BY <2>6, KeptReplays DEF ReplayMail, At, AliveInv, Ending
  <2> QED BY <1>1, <2>1, <2>2, <2>3, <2>4, <2>5, <2>6, KeptWipes, KeptStores DEF MailStep
<1>2. CASE Crash
  <2>1. /\ UNCHANGED <<mail, stored, got, missed, unseen>>
        /\ \A d \in Channels : pc'[d] \notin Holding
    BY <1>2 DEF Crash, redisVars, Holding
  <2> QED BY <2>1, KeptDropped
<1> QED BY <1>1, <1>2, MailSteps, KeptAside

LEMMA MailInv == Spec => [](Types /\ AliveInv /\ KeptInv)
<1>1. Init => KeptInv
  BY DEF Init, KeptInv, Holds, At, Emptying, Pieces
<1>2. Types /\ AliveInv /\ KeptInv /\ [Next]_vars => AliveInv' /\ KeptInv'
  BY AliveKept, KeptKept
<1> QED BY <1>1, <1>2, AliveAtFirst, ChatTyped, PTL DEF Spec

\* On any loops, whatever crashes, fails or breaks off: what was put in a mailbox is
\* there until it is written to a connection of the recipient, or was stored while
\* another handler held the mailbox, or went to a connection that had just been left.
THEOREM StoredMailIsKept == Spec => []StoredIsKept
<1>1. Types /\ KeptInv => StoredIsKept
  BY DEF KeptInv, StoredIsKept, Safe
<1> QED BY <1>1, MailInv, PTL

-----------------------------------------------------------------------------
(* How often a message is delivered.                                       *)

\* A message in somebody's hand is new: neither stored nor delivered.
FreshInv ==
  /\ Pieces(stored) \subseteq sent
  /\ \A u \in Users : Box(u) \subseteq Pieces(stored)
  /\ \A c \in Channels : pc[c] \in Holding => Hand(c) \subseteq Pieces(stored)
  /\ \A c \in Channels : pc[c] \in Messaging =>
       msg[c] \in sent /\ msg[c] \notin Pieces(stored) /\ got[msg[c]] = 0
  /\ \A c, d \in Channels :
       pc[c] \in Messaging /\ pc[d] \in Messaging /\ msg[c] = msg[d] => c = d
  /\ \A m \in Msgs \ sent : got[m] = 0

\* A mailbox holds messages to its owner.
RightInv ==
  /\ \A u \in Users : \A m \in Box(u) : Recipient[m] = u
  /\ \A c \in Channels, u \in Users : Holds(c, u) => \A m \in Hand(c) : Recipient[m] = u

Replays(c, m) == pc[c] \in {"replay", "wipe"} /\ m \in Hand(c)
InWipe(m) == \E d \in Channels : pc[d] = "wipe" /\ m \in Hand(d)

\* Delivered once, m is in a mailbox, or in the copy of a sender, only until the
\* login that replayed it has deleted it; one login at a time has m in hand.
Once(m) ==
  /\ got[m] <= 1
  /\ got[m] >= 1 => \A u \in Users : m \in Box(u) => InWipe(m)
  /\ \A c, d \in Channels : Replays(c, m) /\ Replays(d, m) => c = d
  /\ \A c \in Channels : pc[c] = "replay" /\ m \in Hand(c) => got[m] = 0
  /\ \A c \in Channels : pc[c] = "store" /\ m \in Hand(c) /\ got[m] >= 1 => InWipe(m)

OnceInv == \A m \in Msgs \ unwiped : Once(m)

LEMMA OthersStay ==
  ASSUME Types, NEW c \in Channels, MailStep(c)
  PROVE  \A d \in Channels \ {c} : pc'[d] = pc[d] /\ text'[d] = text[d] /\ msg'[d] = msg[d]
<1>0. /\ pc \in [Channels -> Places] /\ msg \in [Channels -> Msgs \cup {NoMsg}]
      /\ text \in [Channels -> Seq(Msgs)]
  BY DEF Types, LocalTypes
<1>1. CASE Finish(c)
  BY <1>1, FinishDrops
<1>2. CASE \E place : /\ Goto(c, place) /\ UNCHANGED msg
                      /\ UNCHANGED text \/ \E s : text' = [text EXCEPT ![c] = s]
  BY <1>0, <1>2 DEF Goto
<1>3. CASE \E m \in Msgs : Send(c, m)
  <2>1. UNCHANGED text
    BY <1>3 DEF Send
  <2>2. UNCHANGED <<pc, msg>> \/ \E m : msg' = [msg EXCEPT ![c] = m] /\ Goto(c, "route")
    BY <1>3 DEF Send
  <2> QED BY <1>0, <2>1, <2>2 DEF Goto
<1> QED BY <1>1, <1>2, <1>3
   DEF MailStep, GetMail, ReplayMail, WipeMail, WriteTo, GetStore, StoreMail, Stores, RedisFails,
       localVars

\* Hands, of those whose copies stay.
LEMMA SameHand ==
  ASSUME NEW d \in Channels, text'[d] = text[d] PROVE Hand(d)' = Hand(d)
  BY DEF Hand, Pieces

LEMMA SameBox == ASSUME UNCHANGED mail PROVE \A u \in Users : Box(u)' = Box(u)
  BY DEF Box, Pieces

LEMMA SameStored == ASSUME UNCHANGED stored PROVE Pieces(stored)' = Pieces(stored)
  BY DEF Pieces

\* The four places are apart from those where a mailbox is emptied.
LEMMA PlacesApart ==
  /\ "idle" \notin Holding /\ "idle" \notin Messaging
  /\ "store" \in Holding /\ "replay" \in Holding /\ "wipe" \in Holding
  /\ "store" \in Messaging /\ "replay" \notin Messaging /\ "wipe" \notin Messaging
  /\ "route" \in Messaging /\ "write" \in Messaging /\ "getStore" \in Messaging
  /\ "route" \notin Holding /\ "write" \notin Holding /\ "getStore" \notin Holding
  /\ "getMail" \notin Holding /\ "getMail" \notin Messaging
  BY DEF Holding, Messaging

\* Who is on the way with a message was already, unless it was just sent.
LEMMA MessagingKept ==
  ASSUME Types, [Next]_vars, NEW c \in Channels, pc'[c] \in Messaging,
         \A m \in Msgs : ~Send(c, m)
  PROVE  pc[c] \in Messaging /\ msg'[c] = msg[c]
<1>0. pc \in [Channels -> Places] /\ msg \in [Channels -> Msgs \cup {NoMsg}]
  BY DEF Types, LocalTypes
<1>1. ASSUME NEW d \in Channels, d # c, HandlerStep(d) \/ RedisFails(d)
      PROVE  pc'[c] = pc[c] /\ msg'[c] = msg[c]
  <2>1. Finish(d) \/ \E place : Goto(d, place) /\ UNCHANGED msg
    BY <1>1, ZenonT(60)
       DEF HandlerStep, GetCount, SetCount, SetIp, Lookup, PutSet, AddToSet, Greet, GetMail, ReplayMail,
           WipeMail, LeaveGet, LeaveSet, LeaveMap, Route, WriteTo, GetStore, StoreMail, Stores,
           Unregister, DropMap, RedisFails, localVars
  <2> QED BY <1>0, <1>1, <2>1 DEF Finish, Goto
<1>2. ASSUME NEW d \in Channels, d # c, Event(d) PROVE pc'[c] = pc[c] /\ msg'[c] = msg[c]
  <2>1. \/ UNCHANGED <<pc, msg>>
        \/ \E place : Goto(d, place) /\ (UNCHANGED msg \/ \E m : msg' = [msg EXCEPT ![d] = m])
    BY <1>2, ZenonT(60)
       DEF Event, Connect, Disconnect, Token, RefuseFrame, Offline, Inactive, Send, localVars
  <2> QED BY <1>0, <1>2, <2>1 DEF Goto
<1>3. ASSUME HandlerStep(c) \/ RedisFails(c) PROVE pc[c] \in Messaging /\ msg'[c] = msg[c]
  <2>1. ASSUME NEW place, Goto(c, place) PROVE pc'[c] = place
    BY <1>0, <2>1 DEF Goto
  <2>2. CASE \/ GetCount(c) \/ SetCount(c) \/ SetIp(c) \/ Lookup(c) \/ PutSet(c) \/ AddToSet(c)
             \/ Greet(c) \/ GetMail(c) \/ ReplayMail(c) \/ WipeMail(c)
    BY <2>1, <2>2 DEF GetCount, SetCount, SetIp, Lookup, PutSet, AddToSet, Greet, GetMail,
       ReplayMail, WipeMail, Finish, Messaging
  <2>3. CASE \/ LeaveGet(c) \/ LeaveSet(c) \/ LeaveMap(c) \/ WriteTo(c) \/ StoreMail(c)
             \/ Unregister(c) \/ DropMap(c) \/ RedisFails(c)
    BY <2>1, <2>3 DEF LeaveGet, LeaveSet, LeaveMap, WriteTo, StoreMail, Stores, Unregister,
       DropMap, RedisFails, Finish, Messaging
  <2>4. CASE Route(c) \/ GetStore(c)
    BY <2>4 DEF Route, GetStore, At, Messaging, localVars
  <2> QED BY <1>3, <2>2, <2>3, <2>4 DEF HandlerStep
<1>4. ASSUME Event(c) PROVE pc[c] \in Messaging /\ msg'[c] = msg[c]
  <2>1. \/ UNCHANGED <<pc, msg>>
        \/ Goto(c, "getCount") \/ Goto(c, "leaveGet") \/ Goto(c, "unregister")
    BY <1>4, ZenonT(60)
       DEF Event, Connect, Disconnect, Token, RefuseFrame, Offline, Inactive, localVars
  <2> QED BY <1>0, <2>1 DEF Goto, Messaging
<1>5. CASE Crash
  BY <1>5 DEF Crash, Messaging
<1>6. CASE UNCHANGED vars
  BY <1>6 DEF vars, localVars
<1> QED BY <1>1, <1>2, <1>3, <1>4, <1>5, <1>6 DEF Next

\* What a step of c on a mailbox does to the copies of others.
LEMMA OthersHold ==
  ASSUME Types, NEW c \in Channels, MailStep(c), NEW d \in Channels \ {c}, NEW u \in Users
  PROVE  /\ pc'[d] = pc[d] /\ Hand(d)' = Hand(d)
         /\ Holds(d, u)' <=> Holds(d, u)
<1>1. pc'[d] = pc[d] /\ text'[d] = text[d] /\ msg'[d] = msg[d]
  BY OthersStay
<1> QED BY <1>1, SameHand DEF Holds, At, Emptying, To

\* c takes a copy.
LEMMA Reading ==
  ASSUME Types, NEW c \in Channels, NEW u \in Users,
         \/ GetMail(c) /\ mail[UserOf[c]] # <<>> /\ u = UserOf[c]
         \/ GetStore(c) /\ u = To(c)
  PROVE  /\ pc'[c] = IF GetMail(c) THEN "replay" ELSE "store"
         /\ Hand(c)' = Box(u) /\ Box(u)' = Box(u)
         /\ UNCHANGED <<mail, msg, sent, stored, got>>
         /\ \A v \in Users : Holds(c, v)' => v = u
<1>0. pc \in [Channels -> Places] /\ text \in [Channels -> Seq(Msgs)]
  BY DEF Types, LocalTypes
<1>1. /\ text' = [text EXCEPT ![c] = mail[u]] /\ UNCHANGED <<mail, msg, sent, stored, got>>
      /\ pc' = [pc EXCEPT ![c] = IF GetMail(c) THEN "replay" ELSE "store"]
      /\ GetMail(c) => u = UserOf[c]
      /\ ~GetMail(c) => u = To(c)
  BY DEF GetMail, GetStore, Goto, At, redisVars, mailHist
<1>2. pc'[c] = (IF GetMail(c) THEN "replay" ELSE "store") /\ text'[c] = mail[u]
  BY <1>0, <1>1
<1>3. Hand(c)' = Box(u) /\ Box(u)' = Box(u)
  BY <1>1, <1>2 DEF Hand, Box, Pieces
<1>4. ASSUME NEW v \in Users, Holds(c, v)' PROVE v = u
  BY <1>1, <1>2, <1>4 DEF Holds, At, Emptying, To
<1> QED BY <1>1, <1>2, <1>3, <1>4

LEMMA RightKept ==
  ASSUME Types, RightInv, [Next]_vars PROVE RightInv'
<1>1. ASSUME \A u \in Users : Box(u)' \subseteq Box(u),
             \A d \in Channels, u \in Users : Holds(d, u)' => Holds(d, u) /\ Hand(d)' = Hand(d)
      PROVE  RightInv'
  BY <1>1 DEF RightInv
<1>2. CASE MailAside \/ Crash
  <2>1. UNCHANGED mail
    BY <1>2 DEF MailAside, Crash, redisVars
  <2>2. ASSUME NEW d \in Channels, NEW u \in Users, Holds(d, u)'
        PROVE  Holds(d, u) /\ Hand(d)' = Hand(d)
    <3>1. pc'[d] \in Holding
      BY <2>2 DEF Holds, At, Emptying, Holding
    <3>2. pc'[d] = pc[d] /\ text'[d] = text[d] /\ msg'[d] = msg[d]
      BY <1>2, <3>1 DEF MailAside, Crash, Holding
    <3> QED BY <2>2, <3>2, SameHand DEF Holds, At, Emptying, To
  <2> QED BY <1>1, <2>1, <2>2, SameBox
<1>3. ASSUME NEW c \in Channels, MailStep(c) PROVE RightInv'
  <2>0. /\ UserOf[c] \in Users /\ mail \in [Users -> Seq(Msgs)] /\ pc \in [Channels -> Places]
    BY DEF Types, RedisTypes, LocalTypes
  <2>1. ASSUME UNCHANGED mail \/ WipeMail(c), pc'[c] \notin Holding PROVE RightInv'
    <3>0. ASSUME NEW u \in Users PROVE mail'[u] = mail[u] \/ mail'[u] = <<>>
      <4>1. mail' = mail \/ mail' = [mail EXCEPT ![UserOf[c]] = <<>>]
        BY <2>1 DEF WipeMail
      <4> QED BY <2>0, <4>1
    <3>1. \A u \in Users : Box(u)' \subseteq Box(u)
      BY <3>0 DEF Box, Pieces
    <3>2. ASSUME NEW d \in Channels, NEW u \in Users, Holds(d, u)'
          PROVE  Holds(d, u) /\ Hand(d)' = Hand(d)
      <4>1. d # c
        BY <2>1, <3>2 DEF Holds, At, Emptying, Holding
      <4> QED BY <1>3, <3>2, <4>1, OthersHold
    <3> QED BY <1>1, <3>1, <3>2
  <2>2. ASSUME NEW u \in Users, UNCHANGED mail, Hand(c)' = Box(u), \A v \in Users : Holds(c, v)' => v = u
        PROVE  RightInv'
    <3>1. \A v \in Users : Box(v)' = Box(v)
      BY <2>2, SameBox
    <3>2. ASSUME NEW d \in Channels, NEW v \in Users, Holds(d, v)', NEW m \in Hand(d)'
          PROVE  Recipient[m] = v
      <4>1. CASE d = c
        BY <2>2, <3>2, <4>1 DEF RightInv
      <4>2. CASE d # c
        BY <1>3, <3>2, <4>2, OthersHold DEF RightInv
      <4> QED BY <4>1, <4>2
    <3> QED BY <3>1, <3>2 DEF RightInv
  <2>3. ASSUME NEW m \in Msgs, Send(c, m) PROVE RightInv'
    <3>1. pc'[c] \notin Holding /\ UNCHANGED mail
      BY <2>0, <2>3, IdleWhenFree, PlacesApart DEF Send, Readable, Goto, redisVars
    <3> QED BY <2>1, <3>1
  <2>4. ASSUME GetMail(c) PROVE RightInv'
    <3>1. CASE mail[UserOf[c]] = <<>>
      <4>1. Finish(c) /\ UNCHANGED mail
        BY <2>4, <3>1 DEF GetMail, redisVars
      <4> QED BY <2>1, <4>1, FinishDrops, PlacesApart
    <3>2. CASE mail[UserOf[c]] # <<>>
      BY <2>0, <2>2, <2>4, <3>2, Reading
    <3> QED BY <3>1, <3>2
  <2>5. ASSUME GetStore(c) PROVE RightInv'
    <3>1. PICK u \in Users : u = To(c)
      BY <2>5 DEF GetStore, At, To, Types, LocalTypes, Messaging
    <3> QED BY <2>2, <2>5, <3>1, Reading
  <2>6. ASSUME ReplayMail(c) PROVE RightInv'
    <3>1. /\ pc[c] = "replay" /\ pc'[c] = "wipe" /\ UNCHANGED <<mail, text, msg>>
      BY <2>0, <2>6 DEF ReplayMail, At, Goto, localVars, redisVars
    <3>2. ASSUME NEW d \in Channels, NEW u \in Users, Holds(d, u)'
          PROVE  Holds(d, u) /\ Hand(d)' = Hand(d)
      <4>1. CASE d = c
        BY <3>1, <3>2, <4>1, SameHand DEF Holds, At, Emptying
      <4>2. CASE d # c
        BY <1>3, <3>2, <4>2, OthersHold
      <4> QED BY <4>1, <4>2
    <3> QED BY <1>1, <3>1, <3>2, SameBox
  <2>7. ASSUME WipeMail(c) PROVE RightInv'
    <3>1. Finish(c)
      BY <2>7 DEF WipeMail
    <3> QED BY <2>1, <2>7, <3>1, FinishDrops, PlacesApart
  <2>8. ASSUME WriteTo(c) \/ RedisFails(c) PROVE RightInv'
    <3>1. Finish(c) /\ UNCHANGED mail
      BY <2>8 DEF WriteTo, RedisFails, redisVars
    <3> QED BY <2>1, <3>1, FinishDrops, PlacesApart
  <2>9. ASSUME StoreMail(c) PROVE RightInv'
    <3>0. PICK m \in Msgs, u \in Users : m = msg[c] /\ u = To(c)
      BY <2>9, StoringMeans
    <3>1. /\ Box(u)' = Hand(c) \cup {m} /\ \A v \in Users \ {u} : Box(v)' = Box(v)
          /\ Finish(c)
      BY <2>9, <3>0, MailStored
    <3>2. Holds(c, u) /\ Recipient[m] = u
      BY <2>9, <3>0 DEF StoreMail, Holds, To
    <3>3. ASSUME NEW v \in Users, NEW x \in Box(v)' PROVE Recipient[x] = v
      BY <3>1, <3>2, <3>3 DEF RightInv
    <3>4. ASSUME NEW d \in Channels, NEW v \in Users, Holds(d, v)'
          PROVE  Holds(d, v) /\ Hand(d)' = Hand(d)
      <4>1. pc'[d] \in Holding
        BY <3>4 DEF Holds, At, Emptying, Holding
      <4>2. d # c
        BY <3>1, <4>1, FinishDrops
      <4> QED BY <1>3, <3>4, <4>2, OthersHold
    <3> QED BY <3>3, <3>4 DEF RightInv
  <2> QED BY <1>3, <2>3, <2>4, <2>5, <2>6, <2>7, <2>8, <2>9 DEF MailStep
<1> QED BY <1>2, <1>3, MailSteps

LEMMA FreshStep ==
  ASSUME Types, FreshInv, [Next]_vars, UNCHANGED <<sent, stored>>,
         \A c \in Channels, m \in Msgs : ~Send(c, m),
         \A u \in Users : Box(u)' \subseteq Pieces(stored),
         \A c \in Channels : pc'[c] \in Holding => Hand(c)' \subseteq Pieces(stored),
         \A m \in Msgs : \/ got'[m] = got[m] \/ m \in Pieces(stored)
                         \/ \E c \in Channels : /\ pc[c] \in Messaging /\ msg[c] = m
                                                /\ pc'[c] \notin Messaging
  PROVE  FreshInv'
<1>1. Pieces(stored)' = Pieces(stored)
  BY SameStored
<1>2. ASSUME NEW c \in Channels, pc'[c] \in Messaging
      PROVE  /\ pc[c] \in Messaging /\ msg'[c] = msg[c] /\ msg[c] \in Msgs
             /\ msg[c] \in sent /\ msg[c] \notin Pieces(stored) /\ got'[msg[c]] = 0
  <2>1. pc[c] \in Messaging /\ msg'[c] = msg[c] /\ msg[c] \in Msgs
    BY <1>2, MessagingKept DEF Types, LocalTypes
  <2>2. msg[c] \in sent /\ msg[c] \notin Pieces(stored) /\ got[msg[c]] = 0
    BY <2>1 DEF FreshInv
  <2>3. got'[msg[c]] = got[msg[c]]
    BY <1>2, <2>1, <2>2 DEF FreshInv
  <2> QED BY <2>1, <2>2, <2>3
<1>3. ASSUME NEW m \in Msgs \ sent PROVE got'[m] = 0
  <2>1. got[m] = 0 /\ m \notin Pieces(stored)
    BY <1>3 DEF FreshInv
  <2>2. \A c \in Channels : pc[c] \in Messaging => msg[c] # m
    BY <1>3 DEF FreshInv
  <2> QED BY <2>1, <2>2
<1>4. \A c \in Channels : pc'[c] \in Messaging =>
        msg'[c] \in sent' /\ msg'[c] \notin Pieces(stored)' /\ got'[msg'[c]] = 0
  BY <1>1, <1>2
<1>5. \A c, d \in Channels :
        pc'[c] \in Messaging /\ pc'[d] \in Messaging /\ msg'[c] = msg'[d] => c = d
  BY <1>2 DEF FreshInv
<1> QED BY <1>1, <1>3, <1>4, <1>5 DEF FreshInv

LEMMA FreshKept ==
  ASSUME Types, FreshInv, [Next]_vars PROVE FreshInv'
<1>0. /\ pc \in [Channels -> Places] /\ msg \in [Channels -> Msgs \cup {NoMsg}]
      /\ mail \in [Users -> Seq(Msgs)] /\ got \in [Msgs -> 0 .. 2]
      /\ \A c \in Channels : UserOf[c] \in Users
  BY DEF Types, RedisTypes, LocalTypes, MailHistTypes
<1>1. ASSUME NEW c \in Channels, NEW m \in Msgs, Send(c, m) PROVE FreshInv'
  <2>1. /\ pc[c] = "idle" /\ m \notin sent /\ sent' = sent \cup {m}
        /\ UNCHANGED <<mail, text, stored, got>>
        /\ \/ UNCHANGED <<pc, msg>>
           \/ msg' = [msg EXCEPT ![c] = m] /\ pc' = [pc EXCEPT ![c] = "route"]
    BY <1>1, IdleWhenFree DEF Send, Readable, Goto, redisVars
  <2>2. /\ \A u \in Users : Box(u)' = Box(u)
        /\ \A d \in Channels : Hand(d)' = Hand(d)
        /\ Pieces(stored)' = Pieces(stored)
    BY <2>1, SameBox, SameHand, SameStored
  <2>3. m \notin Pieces(stored) /\ got[m] = 0 /\ \A d \in Channels : pc[d] \in Messaging => msg[d] # m
    BY <2>1 DEF FreshInv
  <2>4. ASSUME NEW d \in Channels, pc'[d] \in Messaging
        PROVE  \/ d = c /\ msg'[d] = m /\ pc[c] \notin Messaging
               \/ pc[d] \in Messaging /\ msg'[d] = msg[d]
    BY <1>0, <2>1, <2>4, PlacesApart
  <2>5. \A d \in Channels : pc'[d] \in Messaging =>
          msg'[d] \in sent' /\ msg'[d] \notin Pieces(stored)' /\ got'[msg'[d]] = 0
    BY <2>1, <2>2, <2>3, <2>4 DEF FreshInv
  <2>6. \A d, e \in Channels :
          pc'[d] \in Messaging /\ pc'[e] \in Messaging /\ msg'[d] = msg'[e] => d = e
    BY <2>3, <2>4 DEF FreshInv
  <2>7. \A d \in Channels : pc'[d] \in Holding => pc[d] \in Holding
    BY <1>0, <2>1, PlacesApart
  <2> QED BY <2>1, <2>2, <2>5, <2>6, <2>7 DEF FreshInv
<1>2. ASSUME NEW c \in Channels, StoreMail(c) PROVE FreshInv'
  <2>0. PICK m \in Msgs, u \in Users : m = msg[c] /\ u = To(c)
    BY <1>2, StoringMeans
  <2>1. /\ Box(u)' = Hand(c) \cup {m} /\ \A v \in Users \ {u} : Box(v)' = Box(v)
        /\ Pieces(stored)' = Pieces(stored) \cup {m} /\ Finish(c)
    BY <1>2, <2>0, MailStored
  <2>2. pc[c] = "store" /\ UNCHANGED <<sent, got>>
    BY <1>2 DEF StoreMail, Stores, At
  <2>3. m \in sent /\ Hand(c) \subseteq Pieces(stored)
    BY <2>0, <2>2, PlacesApart DEF FreshInv
  <2>4. ASSUME NEW d \in Channels, pc'[d] # "idle"
        PROVE  d # c /\ pc'[d] = pc[d] /\ msg'[d] = msg[d] /\ Hand(d)' = Hand(d)
    BY <2>1, <2>4, FinishDrops, SameHand
  <2>5. ASSUME NEW d \in Channels, pc'[d] \in Messaging
        PROVE  /\ d # c /\ pc[d] \in Messaging /\ msg'[d] = msg[d]
               /\ msg[d] # m /\ msg[d] \in sent /\ msg[d] \notin Pieces(stored) /\ got[msg[d]] = 0
    BY <2>0, <2>2, <2>4, <2>5, PlacesApart DEF FreshInv
  <2>6. \A d \in Channels : pc'[d] \in Messaging =>
          msg'[d] \in sent' /\ msg'[d] \notin Pieces(stored)' /\ got'[msg'[d]] = 0
    BY <2>1, <2>2, <2>5
  <2>7. \A d, e \in Channels :
          pc'[d] \in Messaging /\ pc'[e] \in Messaging /\ msg'[d] = msg'[e] => d = e
    BY <2>5 DEF FreshInv
  <2>8. \A d \in Channels : pc'[d] \in Holding => Hand(d)' \subseteq Pieces(stored)'
    BY <2>1, <2>4, PlacesApart DEF FreshInv
  <2>9. Pieces(stored)' \subseteq sent' /\ \A v \in Users : Box(v)' \subseteq Pieces(stored)'
    BY <2>1, <2>2, <2>3 DEF FreshInv
  <2> QED BY <2>2, <2>6, <2>7, <2>8, <2>9 DEF FreshInv
<1>3. CASE Crash
  <2>1. UNCHANGED <<mail, sent, stored, got>> /\ \A d \in Channels : pc'[d] = "idle"
    BY <1>3 DEF Crash, redisVars
  <2>2. /\ \A u \in Users : Box(u)' = Box(u)
        /\ Pieces(stored)' = Pieces(stored)
    BY <2>1, SameBox, SameStored
  <2> QED BY <2>1, <2>2, PlacesApart DEF FreshInv
<1>4. ASSUME UNCHANGED sent PROVE \A c \in Channels, m \in Msgs : ~Send(c, m)
  BY <1>4 DEF Send
<1>5. CASE MailAside
  <2>1. UNCHANGED <<mail, sent, stored, got>>
    BY <1>5 DEF MailAside
  <2>2. ASSUME NEW c \in Channels, pc'[c] \in Holding PROVE Hand(c)' \subseteq Pieces(stored)
    BY <1>5, <2>2, SameHand DEF MailAside, FreshInv
  <2>3. \A u \in Users : Box(u)' \subseteq Pieces(stored)
    BY <2>1, SameBox DEF FreshInv
  <2> QED BY <1>4, <2>1, <2>2, <2>3, FreshStep
<1>6. ASSUME NEW c \in Channels, MailStep(c), ~StoreMail(c), \A m \in Msgs : ~Send(c, m)
      PROVE  FreshInv'
  <2>1. UNCHANGED <<sent, stored>>
    BY <1>6 DEF MailStep, GetMail, ReplayMail, WipeMail, WriteTo, GetStore, RedisFails, mailHist
  <2>2. \A u \in Users : Box(u)' \subseteq Pieces(stored)
    <3>1. UNCHANGED mail \/ mail' = [mail EXCEPT ![UserOf[c]] = <<>>]
      BY <1>6 DEF MailStep, GetMail, ReplayMail, WipeMail, WriteTo, GetStore, RedisFails, redisVars
    <3>2. \A u \in Users : mail'[u] = mail[u] \/ mail'[u] = <<>>
      BY <1>0, <3>1
    <3>3. \A u \in Users : Box(u)' \subseteq Box(u)
      BY <3>2 DEF Box, Pieces
    <3> QED BY <3>3 DEF FreshInv
  <2>3. pc'[c] \in Holding => Hand(c)' \subseteq Pieces(stored)
    <3>1. CASE Finish(c)
      BY <3>1, FinishDrops, PlacesApart
    <3>2. CASE ReplayMail(c)
      BY <3>2, SameHand, PlacesApart DEF ReplayMail, At, localVars, FreshInv
    <3>3. CASE GetMail(c) /\ mail[UserOf[c]] # <<>>
      BY <1>0, <3>3, Reading DEF FreshInv
    <3>4. CASE GetStore(c)
      <4>1. PICK u \in Users : u = To(c)
        BY <3>4 DEF GetStore, At, To, Types, LocalTypes, Messaging
      <4> QED BY <3>4, <4>1, Reading DEF FreshInv
    <3> QED BY <1>6, <3>1, <3>2, <3>3, <3>4 DEF MailStep, GetMail, WipeMail, WriteTo, RedisFails
  <2>4. \A d \in Channels : pc'[d] \in Holding => Hand(d)' \subseteq Pieces(stored)
    <3> SUFFICES ASSUME NEW d \in Channels \ {c}, pc'[d] \in Holding
                 PROVE  Hand(d)' \subseteq Pieces(stored)
      BY <2>3
    <3> QED BY <1>6, OthersStay, SameHand DEF FreshInv
  <2>5. ASSUME NEW m \in Msgs
        PROVE  \/ got'[m] = got[m] \/ m \in Pieces(stored)
               \/ \E d \in Channels : pc[d] \in Messaging /\ msg[d] = m /\ pc'[d] \notin Messaging
    <3>1. CASE ReplayMail(c)
      <4>1. got'[m] = got[m] \/ m \in Hand(c)
        BY <1>0, <3>1 DEF ReplayMail, Delivered, Hand
      <4>2. Hand(c) \subseteq Pieces(stored)
        BY <3>1, PlacesApart DEF ReplayMail, At, FreshInv
      <4> QED BY <4>1, <4>2
    <3>2. CASE WriteTo(c)
      <4>1. got'[m] = got[m] \/ m = msg[c]
        BY <1>0, <3>2 DEF WriteTo, Delivered
      <4>2. pc[c] \in Messaging /\ pc'[c] \notin Messaging
        BY <3>2, FinishDrops, PlacesApart DEF WriteTo, At
      <4> QED BY <4>1, <4>2
    <3> QED BY <1>6, <3>1, <3>2 DEF MailStep, GetMail, WipeMail, GetStore, RedisFails, mailHist
  <2>6. \A d \in Channels, m \in Msgs : ~Send(d, m)
    BY <1>4, <2>1
  <2> QED BY <2>1, <2>2, <2>4, <2>5, <2>6, FreshStep
<1> QED BY <1>1, <1>2, <1>3, <1>5, <1>6, MailSteps

\* What Once comes to after a step.
LEMMA OnceFrom ==
  ASSUME NEW m \in Msgs, got'[m] <= 1,
         got'[m] >= 1 => \A u \in Users : m \in Box(u)' => InWipe(m)',
         \A c, d \in Channels : Replays(c, m)' /\ Replays(d, m)' => c = d,
         \A c \in Channels : pc'[c] = "replay" /\ m \in Hand(c)' => got'[m] = 0,
         \A c \in Channels : pc'[c] = "store" /\ m \in Hand(c)' /\ got'[m] >= 1 => InWipe(m)'
  PROVE  Once(m)'
  BY DEF Once, Replays

LEMMA OnceAside ==
  ASSUME Types, OnceInv, MailAside PROVE OnceInv'
<1>1. UNCHANGED <<mail, got, unwiped>>
  BY DEF MailAside
<1>2. /\ \A u \in Users : Box(u)' = Box(u)
      /\ \A d \in Channels : pc[d] \in Holding \/ pc'[d] \in Holding =>
           pc'[d] = pc[d] /\ Hand(d)' = Hand(d)
  BY <1>1, SameBox, SameHand DEF MailAside
<1>3. \A m \in Msgs : InWipe(m) => InWipe(m)'
  BY <1>2, PlacesApart DEF InWipe
<1>4. \A d \in Channels : pc'[d] \in {"replay", "wipe", "store"} =>
        pc'[d] = pc[d] /\ Hand(d)' = Hand(d)
  BY <1>2 DEF Holding
<1>5. ASSUME NEW m \in Msgs, Once(m) PROVE Once(m)'
  BY <1>1, <1>2, <1>3, <1>4, <1>5, OnceFrom DEF Once, Replays
<1> QED BY <1>1, <1>5 DEF OnceInv

\* c ends, having nothing in hand that was replayed but not wiped, or is marked.
LEMMA OnceEnds ==
  ASSUME Types, OnceInv, NEW c \in Channels, MailStep(c), Finish(c), UNCHANGED <<mail, got>>,
         unwiped \subseteq unwiped', pc[c] = "wipe" => Hand(c) \subseteq unwiped'
  PROVE  OnceInv'
<1>1. /\ \A u \in Users : Box(u)' = Box(u)
      /\ pc'[c] = "idle"
      /\ \A d \in Channels \ {c} : pc'[d] = pc[d] /\ Hand(d)' = Hand(d)
  BY SameBox, OthersStay, SameHand, FinishDrops
<1>2. ASSUME NEW m \in Msgs \ unwiped' PROVE Once(m)'
  <2>1. Once(m)
    BY <1>2 DEF OnceInv
  <2>2. InWipe(m) => InWipe(m)'
    BY <1>1, <1>2 DEF InWipe
  <2> QED BY <1>1, <2>1, <2>2 DEF Once, Replays
<1> QED BY <1>2 DEF OnceInv

LEMMA OnceKept ==
  ASSUME Types, FreshInv, RightInv, OnceInv, [Next]_vars PROVE OnceInv'
<1>0. /\ pc \in [Channels -> Places] /\ msg \in [Channels -> Msgs \cup {NoMsg}]
      /\ mail \in [Users -> Seq(Msgs)] /\ got \in [Msgs -> 0 .. 2]
      /\ \A c \in Channels : UserOf[c] \in Users
  BY DEF Types, RedisTypes, LocalTypes, MailHistTypes
<1>1. ASSUME NEW c \in Channels, NEW m \in Msgs, Send(c, m) PROVE OnceInv'
  <2>1. /\ pc[c] \notin Holding /\ pc'[c] \notin Holding
        /\ UNCHANGED <<mail, got, unwiped>>
    BY <1>0, <1>1, IdleWhenFree, PlacesApart DEF Send, Readable, Goto, redisVars
  <2>2. MailStep(c)
    BY <1>1 DEF MailStep
  <2>3. /\ \A u \in Users : Box(u)' = Box(u)
        /\ \A d \in Channels \ {c} : pc'[d] = pc[d] /\ Hand(d)' = Hand(d)
    BY <2>1, <2>2, SameBox, OthersStay, SameHand
  <2>4. \A x \in Msgs : InWipe(x) => InWipe(x)'
    BY <2>1, <2>3, PlacesApart DEF InWipe
  <2>5. ASSUME NEW x \in Msgs, Once(x) PROVE Once(x)'
    BY <2>1, <2>3, <2>4, <2>5, PlacesApart DEF Once, Replays
  <2> QED BY <2>1, <2>5 DEF OnceInv
<1>2. ASSUME NEW c \in Channels, GetMail(c) PROVE OnceInv'
  <2>0. MailStep(c) /\ pc[c] = "getMail" /\ UNCHANGED <<mail, got>>
    BY <1>2 DEF MailStep, GetMail, At, redisVars
  <2>1. CASE mail[UserOf[c]] = <<>>
    <3>1. Finish(c) /\ UNCHANGED unwiped
      BY <1>2, <2>1 DEF GetMail
    <3> QED BY <2>0, <3>1, OnceEnds
  <2>2. CASE mail[UserOf[c]] # <<>>
    <3>1. PICK u \in Users : u = UserOf[c]
      BY <1>0
    <3>2. /\ pc'[c] = "replay" /\ Hand(c)' = Box(u)
          /\ \A v \in Users : Box(v)' = Box(v)
          /\ \A d \in Channels \ {c} : pc'[d] = pc[d] /\ Hand(d)' = Hand(d)
      BY <1>2, <2>0, <2>2, <3>1, Reading, SameBox, OthersStay, SameHand
    <3>3. unwiped' = unwiped \cup {m \in Box(u) :
             \E d \in Channels : pc[d] \in {"replay", "wipe"} /\ m \in Hand(d)}
      BY <1>2, <2>2, <3>1 DEF GetMail, Box, Hand, Emptying
    <3>4. ASSUME NEW m \in Msgs \ unwiped' PROVE Once(m)'
      <4>1. Once(m)
        BY <3>3, <3>4 DEF OnceInv
      <4>2. InWipe(m) => InWipe(m)'
        BY <2>0, <3>2 DEF InWipe
      <4>3. m \in Box(u) => \A d \in Channels : pc[d] \in {"replay", "wipe"} => m \notin Hand(d)
        BY <3>3, <3>4
      <4>4. m \in Box(u) => got[m] = 0
        <5>1. got[m] \in 0 .. 2 /\ (got[m] >= 1 => \A v \in Users : m \in Box(v) => InWipe(m))
          BY <1>0, <3>4, <4>1 DEF Once
        <5>2. m \in Box(u) => ~InWipe(m)
          BY <4>3 DEF InWipe
        <5>3. m \in Box(u) => ~(got[m] >= 1)
          BY <3>1, <1>0, <5>1, <5>2
        <5> QED BY <5>1, <5>3
      <4>5. \A d, e \in Channels : Replays(d, m)' /\ Replays(e, m)' => d = e
        BY <3>2, <4>1, <4>3 DEF Once, Replays
      <4>6. \A d \in Channels : pc'[d] = "replay" /\ m \in Hand(d)' => got'[m] = 0
        BY <2>0, <3>2, <4>1, <4>4 DEF Once, Replays
      <4>7. \A d \in Channels : pc'[d] = "store" /\ m \in Hand(d)' /\ got'[m] >= 1 => InWipe(m)'
        BY <2>0, <3>2, <4>1, <4>2 DEF Once, Replays
      <4>8. got'[m] <= 1 /\ (got'[m] >= 1 => \A v \in Users : m \in Box(v)' => InWipe(m)')
        BY <2>0, <3>2, <4>1, <4>2 DEF Once, Replays
      <4> QED BY <4>5, <4>6, <4>7, <4>8 DEF Once, Replays
    <3> QED BY <3>4 DEF OnceInv
  <2> QED BY <2>1, <2>2
<1>3. ASSUME NEW c \in Channels, ReplayMail(c) PROVE OnceInv'
  <2>1. /\ MailStep(c) /\ pc[c] = "replay" /\ pc'[c] = "wipe" /\ UNCHANGED <<mail, text, unwiped>>
        /\ Delivered(Hand(c), {c})
    BY <1>0, <1>3 DEF MailStep, ReplayMail, At, Goto, localVars, redisVars, Hand
  <2>2. /\ \A u \in Users : Box(u)' = Box(u)
        /\ \A d \in Channels : Hand(d)' = Hand(d)
        /\ \A d \in Channels \ {c} : pc'[d] = pc[d]
    BY <2>1, SameBox, SameHand, OthersStay
  <2>3. ASSUME NEW m \in Msgs \ unwiped PROVE Once(m)'
    <3>1. Once(m)
      BY <2>3 DEF OnceInv
    <3>2. InWipe(m) => InWipe(m)'
      BY <2>1, <2>2 DEF InWipe
    <3>3. CASE m \in Hand(c)
      <4>1. got[m] = 0 /\ \A d \in Channels : pc[d] \in {"replay", "wipe"} /\ m \in Hand(d) => d = c
        BY <2>1, <3>1, <3>3 DEF Once, Replays
      <4>2. InWipe(m)'
        BY <2>1, <2>2, <3>3 DEF InWipe
      <4>3. got'[m] \in {0, 1}
        BY <1>0, <2>1, <4>1 DEF Delivered
      <4> QED BY <2>1, <2>2, <4>1, <4>2, <4>3 DEF Once, Replays
    <3>4. CASE m \notin Hand(c)
      <4>1. got'[m] = got[m]
        BY <1>0, <2>1, <3>4 DEF Delivered
      <4> QED BY <2>1, <2>2, <3>1, <3>2, <3>4, <4>1 DEF Once, Replays
    <3> QED BY <3>3, <3>4
  <2> QED BY <2>1, <2>3 DEF OnceInv
<1>4. ASSUME NEW c \in Channels, WipeMail(c) PROVE OnceInv'
  <2>0. PICK u \in Users : u = UserOf[c]
    BY <1>0
  <2>1. /\ MailStep(c) /\ pc[c] = "wipe" /\ Finish(c) /\ UNCHANGED got
        /\ mail' = [mail EXCEPT ![u] = <<>>]
        /\ unwiped' = unwiped \cup {m \in Hand(c) :
             \E d \in Channels : pc[d] = "store" /\ m \in Hand(d)}
    BY <1>4, <2>0 DEF MailStep, WipeMail, At, Hand
  <2>2. /\ Box(u)' = {} /\ \A v \in Users \ {u} : Box(v)' = Box(v)
        /\ pc'[c] = "idle" /\ \A d \in Channels \ {c} : pc'[d] = pc[d] /\ Hand(d)' = Hand(d)
    <3>1. mail'[u] = <<>> /\ \A v \in Users \ {u} : mail'[v] = mail[v]
      BY <1>0, <2>1
    <3>2. Box(u)' = {} /\ \A v \in Users \ {u} : Box(v)' = Box(v)
      BY <3>1 DEF Box, Pieces
    <3> QED BY <2>1, <3>2, OthersStay, SameHand, FinishDrops
  <2>3. \A m \in Hand(c) : Recipient[m] = u
    BY <2>0, <2>1 DEF RightInv, Holds, Emptying
  <2>4. ASSUME NEW m \in Msgs \ unwiped' PROVE Once(m)'
    <3>1. Once(m)
      BY <2>1, <2>4 DEF OnceInv
    <3>2. m \in Hand(c) => \A d \in Channels : pc[d] = "store" => m \notin Hand(d)
      BY <2>1, <2>4
    <3>3. InWipe(m) /\ m \notin Hand(c) => InWipe(m)'
      BY <2>2 DEF InWipe
    <3>4. ASSUME NEW v \in Users, m \in Box(v)', got[m] >= 1 PROVE InWipe(m)'
      <4>1. v # u /\ m \in Box(v)
        BY <2>2, <3>4
      <4>2. m \notin Hand(c)
        BY <2>3, <4>1 DEF RightInv
      <4> QED BY <3>1, <3>3, <3>4, <4>1, <4>2 DEF Once, Replays
    <3>5. ASSUME NEW d \in Channels, pc'[d] = "store", m \in Hand(d)', got[m] >= 1 PROVE InWipe(m)'
      BY <2>2, <3>1, <3>2, <3>3, <3>5 DEF Once, Replays
    <3> QED BY <2>1, <2>2, <3>1, <3>4, <3>5 DEF Once, Replays
  <2> QED BY <2>4 DEF OnceInv
<1>5. ASSUME NEW c \in Channels, WriteTo(c) PROVE OnceInv'
  <2>1. /\ MailStep(c) /\ pc[c] = "write" /\ Finish(c) /\ UNCHANGED <<mail, unwiped>>
        /\ \A m \in Msgs : got'[m] # got[m] => m = msg[c] /\ got'[m] = got[m] + 1
    BY <1>0, <1>5 DEF MailStep, WriteTo, At, redisVars, Delivered
  <2>2. /\ \A u \in Users : Box(u)' = Box(u)
        /\ pc'[c] = "idle"
        /\ \A d \in Channels \ {c} : pc'[d] = pc[d] /\ Hand(d)' = Hand(d)
    BY <2>1, SameBox, OthersStay, SameHand, FinishDrops
  <2>3. /\ msg[c] \notin Pieces(stored) /\ got[msg[c]] = 0
    BY <2>1, PlacesApart DEF FreshInv
  <2>4. ASSUME NEW m \in Msgs \ unwiped PROVE Once(m)'
    <3>1. Once(m)
      BY <2>4 DEF OnceInv
    <3>2. InWipe(m) => InWipe(m)'
      BY <2>1, <2>2 DEF InWipe
    <3>3. CASE got'[m] = got[m]
      BY <2>1, <2>2, <3>1, <3>2, <3>3 DEF Once, Replays
    <3>4. CASE got'[m] # got[m]
      <4>1. m = msg[c] /\ got'[m] = 1
        BY <2>1, <2>3, <3>4
      <4>2. /\ \A u \in Users : m \notin Box(u)'
            /\ \A d \in Channels : pc'[d] \in Holding => m \notin Hand(d)'
        BY <2>2, <2>3, <4>1, PlacesApart DEF FreshInv
      <4> QED BY <4>1, <4>2, PlacesApart DEF Once, Replays
    <3> QED BY <3>3, <3>4
  <2> QED BY <2>1, <2>4 DEF OnceInv
<1>6. ASSUME NEW c \in Channels, GetStore(c) PROVE OnceInv'
  <2>0. PICK u \in Users : u = To(c)
    BY <1>6 DEF GetStore, At, To, Types, LocalTypes, Messaging
  <2>1. MailStep(c) /\ pc[c] = "getStore" /\ UNCHANGED <<mail, got, unwiped>>
    BY <1>6 DEF MailStep, GetStore, At, redisVars, mailHist
  <2>2. ~GetMail(c)
    BY <2>1 DEF GetMail, At
  <2>3. /\ pc'[c] = "store" /\ Hand(c)' = Box(u)
        /\ \A v \in Users : Box(v)' = Box(v)
        /\ \A d \in Channels \ {c} : pc'[d] = pc[d] /\ Hand(d)' = Hand(d)
    BY <1>6, <2>0, <2>1, <2>2, Reading, SameBox, OthersStay, SameHand
  <2>4. ASSUME NEW m \in Msgs \ unwiped PROVE Once(m)'
    <3>1. Once(m)
      BY <2>4 DEF OnceInv
    <3>2. InWipe(m) => InWipe(m)'
      BY <2>1, <2>3 DEF InWipe
    <3> QED BY <2>1, <2>3, <3>1, <3>2 DEF Once, Replays
  <2> QED BY <2>1, <2>4 DEF OnceInv
<1>7. ASSUME NEW c \in Channels, StoreMail(c) PROVE OnceInv'
  <2>0. PICK m \in Msgs, u \in Users : m = msg[c] /\ u = To(c)
    BY <1>7, StoringMeans
  <2>1. /\ Box(u)' = Hand(c) \cup {m} /\ \A v \in Users \ {u} : Box(v)' = Box(v) /\ Finish(c)
    BY <1>7, <2>0, MailStored
  <2>2. MailStep(c) /\ pc[c] = "store" /\ UNCHANGED <<got, unwiped>>
    BY <1>7 DEF MailStep, StoreMail, Stores, At
  <2>3. pc'[c] = "idle" /\ \A d \in Channels \ {c} : pc'[d] = pc[d] /\ Hand(d)' = Hand(d)
    <3>1. Finish(c)
      BY <1>7 DEF StoreMail, Stores
    <3> QED BY <2>2, <3>1, OthersStay, SameHand, FinishDrops
  <2>4. got[m] = 0
    BY <2>0, <2>2, PlacesApart DEF FreshInv
  <2>5. ASSUME NEW x \in Msgs \ unwiped PROVE Once(x)'
    <3>1. Once(x)
      BY <2>5 DEF OnceInv
    <3>2. InWipe(x) => InWipe(x)'
      BY <2>2, <2>3 DEF InWipe
    <3>3. ASSUME NEW v \in Users, x \in Box(v)', got[x] >= 1 PROVE InWipe(x)'
      <4>1. CASE v = u
        <5>1. x \in Hand(c)
          BY <2>1, <2>4, <3>3, <4>1
        <5> QED BY <2>2, <3>1, <3>2, <3>3, <5>1 DEF Once, Replays
      <4>2. CASE v # u
        BY <2>1, <3>1, <3>2, <3>3, <4>2 DEF Once, Replays
      <4> QED BY <4>1, <4>2
    <3> QED BY <2>2, <2>3, <3>1, <3>2, <3>3 DEF Once, Replays
  <2> QED BY <2>2, <2>5 DEF OnceInv
<1>8. ASSUME NEW c \in Channels, RedisFails(c) PROVE OnceInv'
  <2>1. MailStep(c) /\ Finish(c) /\ UNCHANGED <<mail, got>>
    BY <1>8 DEF MailStep, RedisFails, redisVars
  <2>2. unwiped \subseteq unwiped' /\ (pc[c] = "wipe" => Hand(c) \subseteq unwiped')
    BY <1>8 DEF RedisFails, At, Hand
  <2> QED BY <2>1, <2>2, OnceEnds
<1>9. CASE Crash
  <2>1. UNCHANGED <<mail, got>> /\ \A d \in Channels : pc'[d] = "idle"
    BY <1>9 DEF Crash, redisVars
  <2>2. \A u \in Users : Box(u)' = Box(u)
    BY <2>1, SameBox
  <2>3. /\ unwiped \subseteq unwiped'
        /\ \A d \in Channels : pc[d] = "wipe" => Hand(d) \subseteq unwiped'
    BY <1>9 DEF Crash, Emptying, Hand
  <2>4. ASSUME NEW m \in Msgs \ unwiped' PROVE Once(m)'
    <3>1. Once(m) /\ ~InWipe(m)
      BY <2>3, <2>4 DEF OnceInv, InWipe
    <3> QED BY <2>1, <2>2, <3>1 DEF Once, Replays
  <2> QED BY <2>4 DEF OnceInv
<1> QED
  BY <1>1, <1>2, <1>3, <1>4, <1>5, <1>6, <1>7, <1>8, <1>9, MailSteps, OnceAside DEF MailStep

LEMMA ReplayInv == Spec => [](Types /\ FreshInv /\ RightInv /\ OnceInv)
<1>1. ASSUME Init PROVE FreshInv /\ RightInv /\ OnceInv
  <2>1. /\ \A u \in Users : Box(u) = {}
        /\ \A c \in Channels : pc[c] = "idle" /\ Hand(c) = {}
        /\ Pieces(stored) = {} /\ \A m \in Msgs : got[m] = 0
    BY <1>1 DEF Init, Box, Hand, Pieces
  <2> QED BY <2>1, PlacesApart DEF FreshInv, RightInv, OnceInv, Once, Replays
<1>2. Types /\ FreshInv /\ RightInv /\ OnceInv /\ [Next]_vars => FreshInv' /\ RightInv' /\ OnceInv'
  BY FreshKept, RightKept, OnceKept
<1> QED BY <1>1, <1>2, ChatTyped, PTL DEF Spec

\* On any loops, whatever crashes, fails or breaks off: a message is delivered a second
\* time only after one of the four accidents that `unwiped` records.
THEOREM DeliveredOnceUnlessUnwiped == Spec => []DeliveredOnce
<1>1. Types /\ OnceInv => DeliveredOnce
  BY DEF OnceInv, Once, DeliveredOnce, Types, MailHistTypes
<1> QED BY <1>1, ReplayInv, PTL

-----------------------------------------------------------------------------
(* Who has mail waiting.                                                   *)

\* Places from where a login looks at, or empties, the mailbox.
Greeting == {"greet", "getMail", "replay", "wipe"}

AwayInv ==
  \A u \in Users : sets[u] # {} /\ u \notin late =>
    /\ ~Storing(u)
    /\ mail[u] # <<>> => \E c \in Channels : UserOf[c] = u /\ pc[c] \in Greeting

\* A handler starts on a free loop.
LEMMA EventGoes ==
  ASSUME NEW c \in Channels, Event(c)
  PROVE  UNCHANGED pc \/ (pc[c] = "idle" /\ \E place : Goto(c, place))
<1>1. CASE Connect(c) \/ Disconnect(c) \/ RefuseFrame(c)
  BY <1>1 DEF Connect, Disconnect, RefuseFrame
<1>2. CASE Token(c) \/ Offline(c) \/ Inactive(c) \/ \E m \in Msgs : Send(c, m)
  <2>1. pc[c] = "idle"
    BY <1>2, IdleWhenFree DEF Token, Offline, Inactive, Send, Readable
  <2>2. UNCHANGED pc \/ \E place : Goto(c, place)
    BY <1>2 DEF Token, Offline, Inactive, Send
  <2> QED BY <2>1, <2>2
<1> QED BY <1>1, <1>2 DEF Event

\* A sender starts to store for u only when nobody is in the set of u.
LEMMA StoringFrom ==
  ASSUME Types, [Next]_vars, NEW u \in Users, Storing(u)', sets'[u] # {} PROVE Storing(u)
<1>0. pc \in [Channels -> Places] /\ msg \in [Channels -> Msgs \cup {NoMsg}]
  BY DEF Types, LocalTypes
<1>1. PICK d \in Channels : pc'[d] \in {"getStore", "store"} /\ To(d)' = u
  BY DEF Storing
<1>2. ASSUME pc[d] \in {"getStore", "store"}, msg'[d] = msg[d] PROVE Storing(u)
  BY <1>1, <1>2 DEF Storing, To
<1>3. CASE \E c \in Channels, m \in Msgs : Send(c, m)
  <2>1. PICK c \in Channels, m \in Msgs : Send(c, m)
    BY <1>3
  <2>2. UNCHANGED <<pc, msg>> \/ (msg' = [msg EXCEPT ![c] = m] /\ Goto(c, "route"))
    BY <2>1 DEF Send
  <2> QED BY <1>0, <1>1, <1>2, <2>2 DEF Goto
<1>4. CASE \A c \in Channels, m \in Msgs : ~Send(c, m)
  <2>1. pc[d] \in Messaging /\ msg'[d] = msg[d]
    BY <1>1, <1>4, MessagingKept DEF Messaging
  <2>2. CASE pc[d] \in {"route", "write"}
    <3>1. pc'[d] # pc[d] /\ pc'[d] # "idle" /\ pc[d] # "idle"
      BY <1>1, <2>2
    <3>2. ASSUME NEW c \in Channels, Event(c) PROVE FALSE
      BY <1>0, <1>4, <3>1, <3>2, EventGoes DEF Goto
    <3>3. \A c \in Channels : ~Event(c)
      BY <3>2
    <3>4. ~Crash /\ ~UNCHANGED vars
      BY <3>1 DEF Crash, vars
    <3>5. \A c \in Channels : HandlerStep(c) \/ RedisFails(c) => Finish(c) \/ \E place : Goto(c, place)
      BY ZenonT(60)
         DEF HandlerStep, GetCount, SetCount, SetIp, Lookup, PutSet, AddToSet, Greet, GetMail,
             ReplayMail, WipeMail, LeaveGet, LeaveSet, LeaveMap, Route, WriteTo, GetStore, StoreMail,
             Stores, Unregister, DropMap, RedisFails
    <3>6. HandlerStep(d) \/ RedisFails(d)
      BY <1>0, <3>1, <3>3, <3>4, <3>5 DEF Next, Finish, Goto
    <3>7. Route(d) \/ WriteTo(d)
      BY <2>2, <3>6
         DEF HandlerStep, GetCount, SetCount, SetIp, Lookup, PutSet, AddToSet, Greet, GetMail,
             ReplayMail, WipeMail, LeaveGet, LeaveSet, LeaveMap, GetStore, StoreMail,
             Unregister, DropMap, RedisFails, At
    <3>8. Route(d)
      BY <3>1, <3>7, FinishDrops DEF WriteTo
    <3>9. sets[To(d)] = {} /\ UNCHANGED <<sets, msg>>
      BY <1>0, <1>1, <3>8 DEF Route, Goto, At, netVars, localVars
    <3> QED BY <1>1, <3>9 DEF To
  <2> QED BY <1>2, <2>1, <2>2 DEF Messaging
<1> QED BY <1>3, <1>4

LEMMA AwayQuiet ==
  ASSUME Types, AwayInv, [Next]_vars, late \subseteq late',
         \A u \in Users : sets'[u] \subseteq sets[u],
         \A u \in Users : mail'[u] # <<>> => mail[u] # <<>> \/ Storing(u),
         \A d \in Channels : pc[d] \in Greeting =>
           \/ pc'[d] \in Greeting
           \/ mail[UserOf[d]] # <<>> => UserOf[d] \in late'
  PROVE  AwayInv'
<1> SUFFICES ASSUME NEW u \in Users, sets'[u] # {}, u \notin late'
             PROVE  /\ ~Storing(u)'
                    /\ mail'[u] # <<>> => \E c \in Channels : UserOf[c] = u /\ pc'[c] \in Greeting
  BY DEF AwayInv
<1>1. sets[u] # {} /\ u \notin late
  OBVIOUS
<1>2. /\ ~Storing(u)
      /\ mail[u] # <<>> => \E c \in Channels : UserOf[c] = u /\ pc[c] \in Greeting
  BY <1>1 DEF AwayInv
<1>3. ~Storing(u)'
  BY <1>2, StoringFrom
<1>4. ASSUME mail'[u] # <<>> PROVE \E c \in Channels : UserOf[c] = u /\ pc'[c] \in Greeting
  <2>1. mail[u] # <<>>
    BY <1>2, <1>4
  <2>2. PICK c \in Channels : UserOf[c] = u /\ pc[c] \in Greeting
    BY <1>2, <2>1
  <2> QED BY <2>1, <2>2
<1> QED BY <1>3, <1>4

LEMMA AwayKept ==
  ASSUME Types, AwayInv, [Next]_vars PROVE AwayInv'
<1>0. /\ pc \in [Channels -> Places] /\ sets \in [Users -> SUBSET Channels]
      /\ mail \in [Users -> Seq(Msgs)] /\ \A c \in Channels : UserOf[c] \in Users
  BY DEF Types, NetTypes, RedisTypes, LocalTypes
<1>1. ASSUME NEW c \in Channels, pc[c] \notin Greeting,
             Finish(c) \/ (\E place : Goto(c, place)) \/ UNCHANGED pc
      PROVE  \A d \in Channels : pc[d] \in Greeting => pc'[d] \in Greeting
  BY <1>0, <1>1 DEF Finish, Goto
<1>2. ASSUME NEW c \in Channels, PutSet(c) \/ AddToSet(c) PROVE AwayInv'
  <2>1. /\ pc[c] \in {"put", "add"} /\ Goto(c, "greet") /\ UNCHANGED mail
        /\ \A v \in Users \ {UserOf[c]} : sets'[v] = sets[v]
        /\ ComesOnline(UserOf[c])
    BY <1>0, <1>2 DEF PutSet, AddToSet, At, redisVars
  <2>2. /\ pc'[c] \in Greeting /\ \A d \in Channels : pc[d] \in Greeting => pc'[d] \in Greeting
        /\ late \subseteq late' /\ (Storing(UserOf[c]) => UserOf[c] \in late')
    BY <1>0, <2>1 DEF Goto, Greeting, ComesOnline
  <2>3. ASSUME NEW u \in Users, sets'[u] # {}, u \notin late'
        PROVE  /\ ~Storing(u)'
               /\ mail'[u] # <<>> => \E d \in Channels : UserOf[d] = u /\ pc'[d] \in Greeting
    <3>1. CASE u = UserOf[c]
      <4>1. ~Storing(u)'
        BY <2>2, <2>3, <3>1, StoringFrom
      <4> QED BY <2>2, <3>1, <4>1
    <3>2. CASE u # UserOf[c]
      <4>1. /\ ~Storing(u)
            /\ mail[u] # <<>> => \E d \in Channels : UserOf[d] = u /\ pc[d] \in Greeting
        BY <2>1, <2>2, <2>3, <3>2 DEF AwayInv
      <4>2. ~Storing(u)'
        BY <2>3, <4>1, StoringFrom
      <4> QED BY <2>1, <2>2, <4>1, <4>2
    <3> QED BY <3>1, <3>2
  <2> QED BY <2>3 DEF AwayInv
<1>3. ASSUME NEW c \in Channels, Greet(c) \/ GetMail(c) \/ ReplayMail(c) PROVE AwayInv'
  <2>1. UNCHANGED <<sets, mail>> /\ late \subseteq late'
    BY <1>3 DEF Greet, GetMail, ReplayMail, netVars, redisVars, LeftWaiting
  <2>2. \/ \E place \in Greeting : Goto(c, place)
        \/ Finish(c) /\ (mail[UserOf[c]] # <<>> => UserOf[c] \in late')
    BY <1>3 DEF Greet, GetMail, ReplayMail, LeftWaiting, Greeting
  <2>3. \A d \in Channels : pc[d] \in Greeting =>
           \/ pc'[d] \in Greeting
           \/ mail[UserOf[d]] # <<>> => UserOf[d] \in late'
    BY <1>0, <2>2 DEF Goto, Finish
  <2> QED BY <2>1, <2>3, AwayQuiet
<1>4. ASSUME NEW c \in Channels, WipeMail(c) PROVE AwayInv'
  <2>0. PICK u \in Users : u = UserOf[c]
    BY <1>0
  <2>1. /\ UNCHANGED sets /\ mail' = [mail EXCEPT ![u] = <<>>] /\ Finish(c)
        /\ late' = IF Storing(u) THEN late ELSE late \ {u}
    BY <1>4, <2>0 DEF WipeMail, netVars
  <2>2. ASSUME NEW v \in Users, sets'[v] # {}, v \notin late'
        PROVE  /\ ~Storing(v)'
               /\ mail'[v] # <<>> => \E d \in Channels : UserOf[d] = v /\ pc'[d] \in Greeting
    <3>1. CASE v = u
      <4>1. ~Storing(u)
        BY <2>1, <2>2, <3>1 DEF AwayInv
      <4> QED BY <1>0, <2>1, <2>2, <3>1, <4>1, StoringFrom
    <3>2. CASE v # u
      <4>1. /\ ~Storing(v)
            /\ mail[v] # <<>> => \E d \in Channels : UserOf[d] = v /\ pc[d] \in Greeting
        BY <2>1, <2>2, <3>2 DEF AwayInv
      <4>2. \A d \in Channels : UserOf[d] = v => pc'[d] = pc[d]
        BY <1>0, <2>0, <2>1, <3>2 DEF Finish, Goto
      <4>3. mail'[v] = mail[v] /\ ~Storing(v)'
        BY <1>0, <2>1, <2>2, <3>2, <4>1, StoringFrom
      <4> QED BY <4>1, <4>2, <4>3
    <3> QED BY <3>1, <3>2
  <2> QED BY <2>2 DEF AwayInv
<1>5. ASSUME NEW c \in Channels, StoreMail(c) PROVE AwayInv'
  <2>1. pc[c] = "store" /\ UNCHANGED <<sets, late>> /\ Finish(c)
    BY <1>5 DEF StoreMail, Stores, At, netVars
  <2>2. \A u \in Users : mail'[u] # <<>> => mail[u] # <<>> \/ Storing(u)
    <3>1. PICK u \in Users : u = To(c)
      BY <2>1 DEF To, Types, LocalTypes, Messaging
    <3>2. Storing(u)
      BY <2>1, <3>1 DEF Storing
    <3>3. mail' = [mail EXCEPT ![u] = Append(text[c], msg[c])]
      BY <1>5, <3>1 DEF StoreMail
    <3> QED BY <1>0, <3>2, <3>3
  <2>3. pc[c] \notin Greeting
    BY <2>1 DEF Greeting
  <2> QED BY <1>1, <2>1, <2>2, <2>3, AwayQuiet
<1>6. ASSUME NEW c \in Channels, RedisFails(c) PROVE AwayInv'
  <2>1. UNCHANGED <<sets, mail>> /\ late \subseteq late' /\ Finish(c)
    BY <1>6 DEF RedisFails, netVars, redisVars
  <2>2. pc[c] \in Greeting => (mail[UserOf[c]] # <<>> => UserOf[c] \in late')
    BY <1>6 DEF RedisFails, Greeting
  <2>3. \A d \in Channels : pc[d] \in Greeting =>
           \/ pc'[d] \in Greeting
           \/ mail[UserOf[d]] # <<>> => UserOf[d] \in late'
    BY <1>0, <2>1, <2>2 DEF Finish, Goto
  <2> QED BY <2>1, <2>3, AwayQuiet
<1>7. ASSUME NEW c \in Channels, LeaveMap(c) \/ DropMap(c) PROVE AwayInv'
  <2>1. /\ pc[c] \notin Greeting /\ (Finish(c) \/ \E place : Goto(c, place))
        /\ UNCHANGED <<mail, late>>
    BY <1>7 DEF LeaveMap, DropMap, At, Greeting, redisVars, mailHist
  <2>2. UNCHANGED sets \/ \E u \in Users : sets' = [sets EXCEPT ![u] = sets[u] \ {c}]
    BY <1>0, <1>7 DEF LeaveMap, DropMap
  <2>3. ASSUME NEW v \in Users PROVE sets'[v] \subseteq sets[v]
    <3>1. CASE UNCHANGED sets
      BY <3>1
    <3>2. ASSUME NEW u \in Users, sets' = [sets EXCEPT ![u] = sets[u] \ {c}]
          PROVE  sets'[v] \subseteq sets[v]
      <4>1. sets'[v] = IF v = u THEN sets[u] \ {c} ELSE sets[v]
        BY <1>0, <3>2
      <4> QED BY <4>1
    <3> QED BY <2>2, <3>1, <3>2
  <2>4. \A d \in Channels : pc[d] \in Greeting => pc'[d] \in Greeting
    BY <1>1, <2>1
  <2> QED BY <2>1, <2>3, <2>4, AwayQuiet
<1>8. CASE Crash
  BY <1>8 DEF Crash, AwayInv
<1>9. ASSUME NEW c \in Channels, UNCHANGED <<sets, mail, late>>, pc[c] \notin Greeting,
             Finish(c) \/ (\E place : Goto(c, place)) \/ UNCHANGED pc
      PROVE  AwayInv'
  BY <1>1, <1>9, AwayQuiet
<1>10. ASSUME NEW c \in Channels,
              \/ GetCount(c) \/ SetCount(c) \/ SetIp(c) \/ Lookup(c) \/ LeaveGet(c) \/ LeaveSet(c)
              \/ Route(c) \/ WriteTo(c) \/ GetStore(c) \/ Unregister(c)
       PROVE  AwayInv'
  <2>1. UNCHANGED <<sets, mail, late>> /\ (Finish(c) \/ \E place : Goto(c, place))
    BY <1>10, ZenonT(60)
       DEF GetCount, SetCount, SetIp, Lookup, LeaveGet, LeaveSet, Route, WriteTo, GetStore, Unregister,
           netVars, redisVars, mailHist
  <2>2. pc[c] \notin Greeting
    BY <1>10 DEF GetCount, SetCount, SetIp, Lookup, LeaveGet, LeaveSet, Route, WriteTo, GetStore,
       Unregister, At, Greeting
  <2> QED BY <1>9, <2>1, <2>2
<1>11. ASSUME NEW c \in Channels, Event(c) PROVE AwayInv'
  <2>1. UNCHANGED <<sets, mail, late>>
    BY <1>11, ZenonT(60)
       DEF Event, Connect, Disconnect, Token, RefuseFrame, Offline, Inactive, Send, netVars, redisVars,
           mailHist
  <2>2. CASE UNCHANGED pc
    BY <2>1, <2>2, AwayQuiet
  <2>3. CASE pc[c] = "idle" /\ \E place : Goto(c, place)
    BY <1>9, <2>1, <2>3 DEF Greeting
  <2> QED BY <1>11, <2>2, <2>3, EventGoes
<1>12. CASE UNCHANGED vars
  BY <1>12, AwayQuiet DEF vars, netVars, redisVars, mailHist
<1> QED
  BY <1>2, <1>3, <1>4, <1>5, <1>6, <1>7, <1>8, <1>10, <1>11, <1>12 DEF Next, HandlerStep

\* On any loops, whatever crashes, fails or breaks off: mail waits for somebody online
\* only if they came online while it was being stored, or their login was cut short.
THEOREM MailWaitsForAbsent == Spec => []MailboxOnlyWhenAway
<1>1. Init => AwayInv
  BY DEF Init, AwayInv
<1>2. Types /\ AwayInv /\ [Next]_vars => AwayInv'
  BY AwayKept
<1>3. Types /\ AwayInv => MailboxOnlyWhenAway
  <2> SUFFICES ASSUME Types, AwayInv, NEW u \in Users, mail[u] # <<>>, sets[u] # {}, Quiet(u)
               PROVE  u \in late
    BY DEF MailboxOnlyWhenAway
  <2> QED BY DEF AwayInv, Quiet, ChannelsOf, Greeting
<1> QED BY <1>1, <1>2, <1>3, ChatTyped, PTL DEF Spec

-----------------------------------------------------------------------------
(* The counter of a user, for finitely many channels.                      *)

\* Places at which the counter counts an address not yet, or no longer, registered.
Owing == {"firstIp", "leaveGet", "leaveSet", "dropMap", "dropGet", "dropSet"}

\* The counter stands for c; the process can still take it down for c.
Carried(c) == (ip[c] /\ pc[c] # "nextCount") \/ pc[c] \in Owing
Live(c) == Carried(c) /\ (conn[c] # "closed" \/ pc[c] # "idle")
CarriedOf(u) == {c \in ChannelsOf(u) : Carried(c)}
LiveOf(u) == {c \in ChannelsOf(u) : Live(c)}

Balanced(u) ==
  /\ count[u] >= Cardinality(LiveOf(u))
  /\ u \notin cut /\ crashes = 0 => count[u] = Cardinality(CarriedOf(u))
  /\ \A c \in ChannelsOf(u) : Reckons(c) => num[c] = count[u]
  /\ \A c, d \in ChannelsOf(u) : Reckons(c) /\ Reckons(d) => c = d

\* What a handler knows of its address and of the counter it has read.
Knows(c) ==
  /\ conn[c] = "new" => pc[c] = "idle" /\ ~ip[c]
  /\ pc[c] = "getCount" => loggedIn[c] = ip[c]
  /\ pc[c] \in (Owing \ {"firstIp"}) \cup {"nextIp"} => ~ip[c]
  /\ pc[c] \in {"firstCount", "firstIp"} => ~ip[c] \/ UserOf[c] \in tangled
  /\ pc[c] = "firstCount" => num[c] = 0
  /\ pc[c] \in {"unregister", "nextCount"} => ip[c]

CountInv == /\ \A c \in Channels : Knows(c)
            /\ \A u \in Users \ tangled : Balanced(u)

LEMMA FiniteOf ==
  ASSUME IsFiniteSet(Channels), NEW u \in Users
  PROVE  /\ IsFiniteSet(CarriedOf(u)) /\ Cardinality(CarriedOf(u)) \in Nat
         /\ IsFiniteSet(LiveOf(u)) /\ Cardinality(LiveOf(u)) \in Nat
<1>1. CarriedOf(u) \in SUBSET Channels /\ LiveOf(u) \in SUBSET Channels
  BY DEF CarriedOf, LiveOf, ChannelsOf
<1> QED BY <1>1, FS_Subset, FS_CardinalityType

LEMMA CountInvGives ==
  ASSUME Types, IsFiniteSet(Channels), CountInv
  PROVE  CountIsRegistered /\ CountCoversOpen
<1>1. ASSUME NEW u \in Users, Quiet(u) PROVE Registered(u) = CarriedOf(u)
  BY <1>1 DEF Quiet, Registered, CarriedOf, Carried, Owing, ChannelsOf
<1>2. CountIsRegistered
  BY <1>1 DEF CountIsRegistered, CountInv, Balanced
<1>3. ASSUME NEW u \in Users \ tangled, Quiet(u)
      PROVE  count[u] >= Cardinality({c \in Registered(u) : conn[c] = "open"})
  <2>1. PICK S : S = {c \in Registered(u) : conn[c] = "open"}
    OBVIOUS
  <2>2. S \in SUBSET LiveOf(u)
    BY <1>3, <2>1 DEF Quiet, Registered, LiveOf, Live, Carried, ChannelsOf
  <2>3. /\ Cardinality(S) \in Nat /\ Cardinality(S) <= Cardinality(LiveOf(u))
        /\ Cardinality(LiveOf(u)) \in Nat
    BY <2>2, FiniteOf, FS_Subset, FS_CardinalityType
  <2>4. count[u] \in Nat /\ count[u] >= Cardinality(LiveOf(u))
    BY DEF CountInv, Balanced, Types, RedisTypes
  <2> QED BY <2>1, <2>3, <2>4
<1> QED BY <1>2, <1>3 DEF CountCoversOpen

LEMMA CountInvAtFirst ==
  ASSUME Init PROVE CountInv
<1>1. \A c \in Channels : Knows(c)
  BY DEF Init, Knows, Owing
<1>2. ASSUME NEW u \in Users PROVE Balanced(u)
  <2>1. CarriedOf(u) = {} /\ LiveOf(u) = {}
    BY DEF Init, CarriedOf, LiveOf, Live, Carried, Owing, ChannelsOf
  <2> QED BY <2>1, FS_EmptySet DEF Init, Balanced, Reckons, ChannelsOf
<1> QED BY <1>1, <1>2 DEF CountInv

\* Two sets that differ in c at most.
LEMMA OneApart ==
  ASSUME NEW S, NEW T, NEW c, IsFiniteSet(S), T \ {c} = S \ {c}
  PROVE  /\ (c \in S <=> c \in T) => Cardinality(T) = Cardinality(S)
         /\ c \notin S /\ c \in T => Cardinality(T) = Cardinality(S) + 1
         /\ c \in S /\ c \notin T => Cardinality(T) = Cardinality(S) - 1
<1>1. CASE c \in S <=> c \in T
  <2>1. \A x : x \in S <=> x \in T
    BY <1>1
  <2>2. T = S
    BY <2>1
  <2> QED BY <1>1, <2>2
<1>2. CASE c \notin S /\ c \in T
  <2>1. T = S \cup {c}
    BY <1>2
  <2> QED BY <1>2, <2>1, FS_AddElement
<1>3. CASE c \in S /\ c \notin T
  <2>1. T = S \ {c}
    BY <1>3
  <2> QED BY <1>3, <2>1, FS_RemoveElement
<1> QED BY <1>1, <1>2, <1>3

\* What a step of c leaves to the other channels and users.
Only(c) ==
  /\ \A d \in Channels \ {c} : /\ pc'[d] = pc[d] /\ conn'[d] = conn[d] /\ ip'[d] = ip[d]
                               /\ loggedIn'[d] = loggedIn[d] /\ num'[d] = num[d]
  /\ \A u \in Users \ {UserOf[c]} : count'[u] = count[u]
  /\ tangled \subseteq tangled' /\ cut \subseteq cut' /\ UNCHANGED crashes

\* How a step of c moves the counter and what it stands for.
Shifts(c) ==
  /\ Reckons(c)' =>
       /\ num'[c] = count'[UserOf[c]]
       /\ Reckons(c) \/ \A d \in Channels \ {c} : UserOf[d] = UserOf[c] => ~Reckons(d)
  /\ \/ /\ count'[UserOf[c]] = count[UserOf[c]]
        /\ (Carried(c)' <=> Carried(c)) /\ (Live(c)' => Live(c))
     \/ /\ count'[UserOf[c]] = count[UserOf[c]] /\ UserOf[c] \in cut'
        /\ Carried(c) /\ ~Carried(c)'
     \/ /\ count'[UserOf[c]] = count[UserOf[c]] + 1 /\ Reckons(c)
        /\ ~Carried(c) /\ Carried(c)'
     \/ /\ count'[UserOf[c]] = count[UserOf[c]] - 1 /\ Reckons(c)
        /\ Live(c) /\ ~Carried(c)'

\* So much remains to be shown of each action.
LEMMA StepCounts ==
  ASSUME Types, IsFiniteSet(Channels), CountInv, NEW c \in Channels, Only(c), Knows(c)',
         UserOf[c] \notin tangled' => Shifts(c)
  PROVE  CountInv'
<1>0. /\ \A d \in Channels : UserOf[d] \in Users
      /\ \A u \in Users : count[u] \in Nat
      /\ tangled \subseteq tangled' /\ cut \subseteq cut' /\ UNCHANGED crashes
  BY DEF Types, RedisTypes, Only
<1>1. ASSUME NEW d \in Channels PROVE Knows(d)'
  BY <1>0, <1>1 DEF Only, CountInv, Knows
<1>2. ASSUME NEW d \in Channels \ {c}
      PROVE  (Carried(d)' <=> Carried(d)) /\ (Live(d)' <=> Live(d)) /\ (Reckons(d)' <=> Reckons(d))
  BY <1>2 DEF Only, Live, Carried, Reckons
<1>3. ASSUME NEW u \in Users \ tangled', u # UserOf[c] PROVE Balanced(u)'
  <2>1. c \notin ChannelsOf(u) /\ ChannelsOf(u)' = ChannelsOf(u) /\ ChannelsOf(u) \subseteq Channels
    BY <1>3 DEF ChannelsOf
  <2>2. CarriedOf(u)' = CarriedOf(u) /\ LiveOf(u)' = LiveOf(u)
    BY <1>2, <2>1 DEF CarriedOf, LiveOf
  <2>3. count'[u] = count[u] /\ Balanced(u)
    BY <1>0, <1>3 DEF Only, CountInv
  <2>4. \A d \in ChannelsOf(u) : num'[d] = num[d] /\ (Reckons(d)' <=> Reckons(d))
    BY <1>2, <2>1 DEF Only
  <2> QED BY <1>0, <2>1, <2>2, <2>3, <2>4 DEF Balanced
<1>4. ASSUME UserOf[c] \notin tangled' PROVE Balanced(UserOf[c])'
  <2>0. PICK u \in Users : u = UserOf[c]
    BY <1>0
  <2>1. Shifts(c) /\ Balanced(u) /\ count[u] \in Nat
    BY <1>0, <1>4, <2>0 DEF CountInv
  <2>2. /\ CarriedOf(u)' \ {c} = CarriedOf(u) \ {c}
        /\ LiveOf(u)' \ {c} = LiveOf(u) \ {c}
    BY <1>2 DEF CarriedOf, LiveOf, ChannelsOf
  <2>3. /\ c \in CarriedOf(u) <=> Carried(c)
        /\ c \in CarriedOf(u)' <=> Carried(c)'
        /\ c \in LiveOf(u) <=> Live(c)
        /\ c \in LiveOf(u)' <=> Live(c)'
    BY <2>0 DEF CarriedOf, LiveOf, ChannelsOf
  <2>4. Live(c)' => Carried(c)'
    BY DEF Live
  <2>5. PICK S, T, V, W : /\ S = CarriedOf(u) /\ T = CarriedOf(u)' /\ V = LiveOf(u) /\ W = LiveOf(u)'
    OBVIOUS
  <2>6. /\ IsFiniteSet(S) /\ IsFiniteSet(V) /\ T \ {c} = S \ {c} /\ W \ {c} = V \ {c}
        /\ Cardinality(S) \in Nat /\ Cardinality(V) \in Nat
    BY <2>2, <2>5, FiniteOf
  <2>7. /\ (c \in S <=> c \in T) => Cardinality(T) = Cardinality(S)
        /\ c \notin S /\ c \in T => Cardinality(T) = Cardinality(S) + 1
        /\ c \in S /\ c \notin T => Cardinality(T) = Cardinality(S) - 1
    BY <2>6, OneApart
  <2>8. /\ (c \in V <=> c \in W) => Cardinality(W) = Cardinality(V)
        /\ c \notin V /\ c \in W => Cardinality(W) = Cardinality(V) + 1
        /\ c \in V /\ c \notin W => Cardinality(W) = Cardinality(V) - 1
    BY <2>6, OneApart
  <2>9. /\ count[u] >= Cardinality(V)
        /\ u \notin cut /\ crashes = 0 => count[u] = Cardinality(S)
    BY <2>1, <2>5 DEF Balanced
  <2>10. /\ \/ count'[u] = count[u] /\ (c \in T <=> c \in S) /\ (c \in W => c \in V)
            \/ count'[u] = count[u] /\ u \in cut' /\ c \in S /\ c \notin T
            \/ count'[u] = count[u] + 1 /\ c \notin S /\ c \in T
            \/ count'[u] = count[u] - 1 /\ c \in V /\ c \notin T
         /\ (c \in V => c \in S) /\ (c \in W => c \in T)
    BY <2>0, <2>1, <2>3, <2>4, <2>5 DEF Shifts, Live
  <2>11. /\ count'[u] >= Cardinality(W)
         /\ u \notin cut' /\ crashes' = 0 => count'[u] = Cardinality(T)
    BY <1>0, <2>1, <2>6, <2>7, <2>8, <2>9, <2>10
  <2>12. \A d \in ChannelsOf(u) \ {c} : d \in Channels \ {c} /\ UserOf[d] = UserOf[c]
    BY <2>0 DEF ChannelsOf
  <2>13. \A d \in ChannelsOf(u) \ {c} : Reckons(d)' =>
           Reckons(d) /\ num'[d] = num[d] /\ num[d] = count[u]
    BY <1>2, <2>1, <2>12 DEF Only, Balanced
  <2>14. c \in ChannelsOf(u) /\ ChannelsOf(u)' = ChannelsOf(u)
    BY <2>0 DEF ChannelsOf
  <2>15. \A d \in ChannelsOf(u) \ {c} : Reckons(d)' => ~Reckons(c) /\ ~Reckons(c)'
    BY <2>1, <2>12, <2>13, <2>14 DEF Shifts, Balanced
  <2>16. \A d \in ChannelsOf(u) \ {c} : Reckons(d)' => count'[u] = count[u]
    BY <2>0, <2>1, <2>15 DEF Shifts
  <2>17. \A d \in ChannelsOf(u) : Reckons(d)' => num'[d] = count'[u]
    BY <2>0, <2>1, <2>13, <2>16 DEF Shifts
  <2>18. \A d, e \in ChannelsOf(u) : Reckons(d)' /\ Reckons(e)' => d = e
    BY <2>1, <2>13, <2>15 DEF Balanced
  <2> QED BY <2>0, <2>5, <2>11, <2>14, <2>17, <2>18 DEF Balanced
<1> QED BY <1>1, <1>3, <1>4 DEF CountInv

\* g is f, but for its value at c.
Alters(f, g, c) == g = f \/ \E v : g = [f EXCEPT ![c] = v]

LEMMA StepsAlone ==
  ASSUME Types, NEW c \in Channels, Event(c) \/ HandlerStep(c) \/ RedisFails(c)
  PROVE  Only(c)
<1>1. Alters(pc, pc', c) /\ Alters(num, num', c) /\ Alters(loggedIn, loggedIn', c)
  <2>1. CASE Finish(c)
    BY <2>1 DEF Finish, Goto, Alters
  <2>2. CASE UNCHANGED localVars
    <3>1. UNCHANGED pc \/ \E place : Goto(c, place)
      BY <2>2, ZenonT(60)
         DEF Event, HandlerStep, RedisFails, Connect, Disconnect, Token, RefuseFrame, Offline, Inactive, Send,
             GetCount, SetCount, SetIp, Lookup, PutSet, AddToSet, Greet, GetMail, ReplayMail,
             WipeMail, LeaveGet, LeaveSet, LeaveMap, Route, WriteTo, GetStore, StoreMail, Stores,
             Unregister, DropMap, Finish
    <3> QED BY <2>2, <3>1 DEF localVars, Goto, Alters
  <2>3. CASE \/ Token(c) \/ GetCount(c) \/ LeaveGet(c) \/ PutSet(c) \/ GetMail(c) \/ GetStore(c)
             \/ \E m \in Msgs : Send(c, m)
    <3>1. CASE Token(c) \/ GetCount(c) \/ LeaveGet(c) \/ PutSet(c) \/ GetStore(c)
      BY <3>1 DEF Token, GetCount, LeaveGet, PutSet, GetStore, Goto, Alters
    <3>2. CASE GetMail(c)
      BY <2>1, <3>2 DEF GetMail, Goto, Alters
    <3>3. CASE \E m \in Msgs : Send(c, m)
      BY <3>3 DEF Send, Goto, Alters
    <3> QED BY <2>3, <3>1, <3>2, <3>3
  <2>4. ASSUME Event(c) PROVE UNCHANGED localVars \/ Token(c) \/ \E m \in Msgs : Send(c, m)
    BY <2>4 DEF Event, Connect, Disconnect, RefuseFrame, Offline, Inactive
  <2>5. ASSUME HandlerStep(c) \/ RedisFails(c)
        PROVE  \/ UNCHANGED localVars \/ Finish(c)
               \/ GetCount(c) \/ LeaveGet(c) \/ PutSet(c) \/ GetMail(c) \/ GetStore(c)
    BY <2>5 DEF HandlerStep, RedisFails, SetCount, SetIp, Lookup, AddToSet, Greet, ReplayMail,
       WipeMail, LeaveSet, LeaveMap, Route, WriteTo, StoreMail, Stores, Unregister, DropMap
  <2> QED BY <2>1, <2>2, <2>3, <2>4, <2>5
<1>2. Alters(conn, conn', c) /\ Alters(ip, ip', c) /\ Alters(count, count', UserOf[c])
  <2>1. CASE UNCHANGED <<conn, ip, count>>
    BY <2>1 DEF Alters
  <2>2. ASSUME Event(c)
        PROVE  Alters(conn, conn', c) /\ Alters(ip, ip', c) /\ Alters(count, count', UserOf[c])
    BY <2>2 DEF Event, Connect, Disconnect, Token, RefuseFrame, Offline, Inactive, Send, netVars,
       redisVars, Alters
  <2>3. CASE SetCount(c) \/ SetIp(c) \/ LeaveSet(c) \/ Unregister(c)
    BY <2>3 DEF SetCount, SetIp, LeaveSet, Unregister, netVars, Alters
  <2>4. ASSUME HandlerStep(c) \/ RedisFails(c)
        PROVE  \/ UNCHANGED <<conn, ip, count>>
               \/ SetCount(c) \/ SetIp(c) \/ LeaveSet(c) \/ Unregister(c)
    BY <2>4 DEF HandlerStep, RedisFails, GetCount, Lookup, PutSet, AddToSet, Greet, GetMail, ReplayMail,
       WipeMail, LeaveGet, LeaveMap, Route, WriteTo, GetStore, StoreMail, Stores, DropMap, netVars,
       redisVars
  <2> QED BY <2>1, <2>2, <2>3, <2>4
<1>3. tangled \subseteq tangled' /\ cut \subseteq cut' /\ UNCHANGED crashes
  <2>1. ASSUME Event(c) PROVE tangled \subseteq tangled' /\ cut \subseteq cut' /\ UNCHANGED crashes
    BY <2>1 DEF Event, Connect, Disconnect, Token, RefuseFrame, Offline, Inactive, Send, countHist, bounds
  <2>2. ASSUME HandlerStep(c)
        PROVE  tangled \subseteq tangled' /\ cut \subseteq cut' /\ UNCHANGED crashes
    <3>1. CASE UNCHANGED <<countHist, bounds>>
      BY <3>1 DEF countHist, bounds
    <3>2. CASE GetCount(c) \/ LeaveGet(c) \/ DropMap(c)
      BY <3>2 DEF GetCount, LeaveGet, DropMap, Reckon, bounds
    <3> QED BY <2>2, <3>1, <3>2
       DEF HandlerStep, SetCount, SetIp, Lookup, PutSet, AddToSet, Greet, GetMail, ReplayMail, WipeMail,
           LeaveSet, LeaveMap, Route, WriteTo, GetStore, StoreMail, Stores, Unregister
  <2> QED BY <2>1, <2>2 DEF RedisFails
<1>4. /\ pc \in [Channels -> Places] /\ num \in [Channels -> Nat]
      /\ loggedIn \in [Channels -> BOOLEAN] /\ conn \in [Channels -> ConnStates]
      /\ ip \in [Channels -> BOOLEAN] /\ count \in [Users -> Nat]
  BY DEF Types, NetTypes, RedisTypes, LocalTypes
<1>5. /\ \A d \in Channels \ {c} : pc'[d] = pc[d] /\ num'[d] = num[d] /\ loggedIn'[d] = loggedIn[d]
      /\ \A d \in Channels \ {c} : conn'[d] = conn[d] /\ ip'[d] = ip[d]
      /\ \A u \in Users \ {UserOf[c]} : count'[u] = count[u]
  BY <1>1, <1>2, <1>4 DEF Alters
<1> QED BY <1>3, <1>5 DEF Only

\* A step that neither counts nor registers, and leads from a place to another at which
\* nothing is known of the counter.
LEMMA PassCounts ==
  ASSUME Types, IsFiniteSet(Channels), CountInv, NEW c \in Channels,
         Event(c) \/ HandlerStep(c) \/ RedisFails(c), UNCHANGED <<ip, count>>,
         conn'[c] # conn[c] => conn'[c] \notin {"new", "closed"} /\ conn[c] # "closed" /\ pc'[c] = pc[c],
         pc'[c] \in {"idle", "lookup", "put", "add", "greet", "getMail", "replay", "wipe", "leaveMap",
                     "route", "write", "getStore", "store"},
         pc[c] \in {"nextCount"} \cup Owing => UserOf[c] \in tangled' /\ pc[c] # "idle",
         pc[c] = "idle" => conn[c] \notin {"new", "closed"} \/ pc'[c] = "idle"
  PROVE  CountInv'
<1>1. Only(c) /\ Knows(c)
  BY StepsAlone DEF CountInv
<1>2. Knows(c)'
  BY <1>1 DEF Knows, Owing
<1>3. ~Reckons(c)'
  BY DEF Reckons
<1>4. ASSUME pc[c] \notin {"nextCount"} \cup Owing
      PROVE  (Carried(c)' <=> Carried(c)) /\ (Live(c)' => Live(c))
  BY <1>4 DEF Carried, Live, Owing
<1>5. UserOf[c] \notin tangled' => Shifts(c)
  BY <1>3, <1>4 DEF Shifts
<1> QED BY <1>1, <1>2, <1>5, StepCounts

LEMMA PlainSteps ==
  ASSUME Types, IsFiniteSet(Channels), CountInv, NEW c \in Channels,
         \/ Lookup(c) \/ PutSet(c) \/ AddToSet(c) \/ Greet(c) \/ GetMail(c) \/ ReplayMail(c)
         \/ WipeMail(c) \/ LeaveMap(c) \/ Route(c) \/ WriteTo(c) \/ GetStore(c) \/ StoreMail(c)
  PROVE  CountInv'
<1>0. pc \in [Channels -> Places]
  BY DEF Types, LocalTypes
<1>1. pc[c] \notin {"idle", "nextCount"} \cup Owing
  BY DEF Lookup, PutSet, AddToSet, Greet, GetMail, ReplayMail, WipeMail, LeaveMap, Route, WriteTo,
     GetStore, StoreMail, At, Owing
<1>2. UNCHANGED <<conn, ip, count>>
  BY DEF Lookup, PutSet, AddToSet, Greet, GetMail, ReplayMail, WipeMail, LeaveMap, Route, WriteTo,
     GetStore, StoreMail, Stores, netVars, redisVars
<1>3. PICK p \in {"put", "add", "greet", "getMail", "replay", "wipe", "write", "getStore", "store",
                  "idle"} : Goto(c, p)
  BY DEF Lookup, PutSet, AddToSet, Greet, GetMail, ReplayMail, WipeMail, LeaveMap, Route, WriteTo,
     GetStore, StoreMail, Stores, Finish
<1>4. pc'[c] = p
  BY <1>0, <1>3 DEF Goto
<1> QED BY <1>1, <1>2, <1>3, <1>4, PassCounts DEF HandlerStep

\* Connect, Disconnect, RefuseFrame, and a message.
LEMMA OutsideSteps ==
  ASSUME Types, IsFiniteSet(Channels), CountInv, NEW c \in Channels,
         Connect(c) \/ Disconnect(c) \/ RefuseFrame(c) \/ \E m \in Msgs : Send(c, m)
  PROVE  CountInv'
<1>0. pc \in [Channels -> Places] /\ conn \in [Channels -> ConnStates] /\ Event(c)
  BY DEF Types, LocalTypes, NetTypes, Event
<1>1. UNCHANGED <<ip, count>>
  BY DEF Connect, Disconnect, RefuseFrame, Send, redisVars
<1>2. CASE \E m \in Msgs : Send(c, m)
  <2>1. /\ pc[c] = "idle" /\ conn[c] \in {"open", "gone"} /\ UNCHANGED conn
        /\ UNCHANGED pc \/ pc' = [pc EXCEPT ![c] = "route"]
    BY <1>2, IdleWhenFree DEF Send, Readable, netVars, Goto
  <2>2. pc'[c] \in {"idle", "route"}
    BY <1>0, <2>1
  <2>3. pc[c] \notin {"nextCount"} \cup Owing
    BY <2>1 DEF Owing
  <2> QED BY <1>0, <1>1, <2>1, <2>2, <2>3, PassCounts
<1>3. CASE Connect(c) \/ Disconnect(c) \/ RefuseFrame(c)
  <2>1. /\ UNCHANGED <<pc, num, loggedIn, tangled>> /\ conn[c] # "closed"
        /\ conn'[c] \in {"open", "gone", "closing"}
    BY <1>0, <1>3 DEF Connect, Disconnect, RefuseFrame, Readable, localVars, countHist
  <2>2. Only(c) /\ Knows(c)
    BY <1>0, StepsAlone DEF CountInv
  <2>3. Knows(c)'
    BY <1>1, <2>1, <2>2 DEF Knows
  <2>4. /\ Carried(c)' <=> Carried(c)
        /\ Live(c)' => Live(c)
        /\ Reckons(c)' <=> Reckons(c)
    BY <1>1, <2>1 DEF Carried, Live, Reckons
  <2>5. ASSUME UserOf[c] \notin tangled' PROVE Shifts(c)
    <3>1. Balanced(UserOf[c]) /\ c \in ChannelsOf(UserOf[c])
      BY <2>2, <2>5 DEF Only, CountInv, ChannelsOf, Types
    <3> QED BY <1>1, <2>1, <2>4, <3>1 DEF Shifts, Balanced
  <2> QED BY <2>2, <2>3, <2>5, StepCounts
<1> QED BY <1>2, <1>3

\* The steps that read the address or the counter.
LEMMA ReadSteps ==
  ASSUME Types, IsFiniteSet(Channels), CountInv, NEW c \in Channels,
         Token(c) \/ GetCount(c) \/ LeaveGet(c)
  PROVE  CountInv'
<1>0. /\ pc \in [Channels -> Places] /\ num \in [Channels -> Nat] /\ ip \in [Channels -> BOOLEAN]
      /\ loggedIn \in [Channels -> BOOLEAN] /\ UserOf[c] \in Users /\ count[UserOf[c]] \in Nat
  BY DEF Types, LocalTypes, RedisTypes
<1>1. Only(c) /\ Knows(c)
  BY StepsAlone DEF Event, HandlerStep, CountInv
<1>2. UNCHANGED <<conn, ip, count>>
  BY DEF Token, GetCount, LeaveGet, netVars, redisVars
<1>3. CASE Token(c)
  <2>1. /\ pc' = [pc EXCEPT ![c] = "getCount"] /\ loggedIn' = [loggedIn EXCEPT ![c] = ip[c]]
        /\ UNCHANGED num /\ pc[c] = "idle" /\ conn[c] \in {"open", "gone"}
    BY <1>3, IdleWhenFree DEF Token, Readable, Goto
  <2>2. pc'[c] = "getCount" /\ loggedIn'[c] = ip[c]
    BY <1>0, <2>1
  <2>3. Knows(c)'
    BY <1>1, <1>2, <2>1, <2>2 DEF Knows, Owing
  <2>4. Shifts(c)
    BY <1>2, <2>1, <2>2 DEF Shifts, Carried, Live, Reckons, Owing
  <2> QED BY <1>1, <2>3, <2>4, StepCounts
<1>4. CASE GetCount(c)
  <2>1. PICK p \in {"firstCount", "nextIp", "lookup"} :
          /\ pc' = [pc EXCEPT ![c] = p] /\ pc[c] = "getCount"
          /\ num' = [num EXCEPT ![c] = count[UserOf[c]]]
          /\ p = "firstCount" => count[UserOf[c]] = 0
          /\ p = "nextIp" => ~loggedIn[c]
          /\ p \in {"firstCount", "nextIp"} => Reckon(c)
    BY <1>4 DEF GetCount, At, Goto
  <2>2. pc'[c] = p /\ num'[c] = count[UserOf[c]]
    BY <1>0, <2>1
  <2>3. tangled \subseteq tangled' /\ conn[c] # "new"
    BY <1>1, <2>1 DEF Only, Knows
  <2>4. p = "firstCount" => ~ip[c] \/ UserOf[c] \in tangled
    <3> SUFFICES ASSUME p = "firstCount", ip[c], UserOf[c] \notin tangled PROVE FALSE
      BY <1>0
    <3>1. count[UserOf[c]] >= Cardinality(LiveOf(UserOf[c])) /\ count[UserOf[c]] = 0
      BY <1>0, <2>1 DEF CountInv, Balanced
    <3>2. c \in LiveOf(UserOf[c])
      BY <2>1 DEF LiveOf, Live, Carried, ChannelsOf
    <3>3. Cardinality(LiveOf(UserOf[c])) # 0
      BY <1>0, <3>2, FiniteOf, FS_EmptySet
    <3>4. Cardinality(LiveOf(UserOf[c])) \in Nat
      BY <1>0, FiniteOf
    <3> QED BY <3>1, <3>3, <3>4
  <2>5. p = "nextIp" => ~ip[c]
    BY <1>0, <1>1, <2>1 DEF Knows
  <2>6. Knows(c)'
    BY <1>2, <2>1, <2>2, <2>3, <2>4, <2>5 DEF Knows, Owing
  <2>7. ASSUME UserOf[c] \notin tangled', Reckons(c)'
        PROVE  \A d \in Channels \ {c} : UserOf[d] = UserOf[c] => ~Reckons(d)
    <3>1. Reckon(c)
      BY <2>1, <2>2, <2>7 DEF Reckons
    <3> QED BY <2>7, <3>1 DEF Reckon
  <2>8. (Carried(c)' <=> Carried(c)) /\ (Live(c)' => Live(c))
    BY <1>2, <2>1, <2>2 DEF Carried, Live, Owing
  <2>9. UserOf[c] \notin tangled' => Shifts(c)
    BY <1>2, <2>2, <2>7, <2>8 DEF Shifts
  <2> QED BY <1>1, <2>6, <2>9, StepCounts
<1>5. CASE LeaveGet(c)
  <2>1. PICK p \in {"leaveSet", "dropSet"} :
          /\ pc' = [pc EXCEPT ![c] = p] /\ pc[c] \in {"leaveGet", "dropGet"}
          /\ num' = [num EXCEPT ![c] = count[UserOf[c]]] /\ Reckon(c)
    BY <1>5 DEF LeaveGet, At, Goto
  <2>2. pc'[c] = p /\ num'[c] = count[UserOf[c]]
    BY <1>0, <2>1
  <2>3. Knows(c)'
    BY <1>1, <1>2, <2>1, <2>2 DEF Knows, Owing
  <2>4. UserOf[c] \notin tangled' => \A d \in Channels \ {c} : UserOf[d] = UserOf[c] => ~Reckons(d)
    BY <2>1 DEF Reckon
  <2>5. (Carried(c)' <=> Carried(c)) /\ (Live(c)' => Live(c))
    BY <1>2, <2>1, <2>2 DEF Carried, Live, Owing
  <2>6. UserOf[c] \notin tangled' => Shifts(c)
    BY <1>2, <2>2, <2>4, <2>5 DEF Shifts
  <2> QED BY <1>1, <2>3, <2>6, StepCounts
<1> QED BY <1>3, <1>4, <1>5

\* The steps that write the counter.
LEMMA CountingSteps ==
  ASSUME Types, IsFiniteSet(Channels), CountInv, NEW c \in Channels, SetCount(c) \/ LeaveSet(c)
  PROVE  CountInv'
<1>0. /\ pc \in [Channels -> Places] /\ count \in [Users -> Nat] /\ UserOf[c] \in Users
      /\ num[c] \in Nat /\ ip \in [Channels -> BOOLEAN]
  BY DEF Types, LocalTypes, RedisTypes
<1>1. Only(c) /\ Knows(c)
  BY StepsAlone DEF HandlerStep, CountInv
<1>2. UNCHANGED <<conn, ip, tangled>>
  BY DEF SetCount, LeaveSet, netVars, countHist
<1>3. ASSUME UserOf[c] \notin tangled'
      PROVE  /\ num[c] = count[UserOf[c]]
             /\ Live(c) => count[UserOf[c]] >= 1
  <2>1. /\ Balanced(UserOf[c]) /\ Reckons(c) /\ c \in ChannelsOf(UserOf[c])
    BY <1>0, <1>2, <1>3 DEF CountInv, SetCount, LeaveSet, Reckons, ChannelsOf, At
  <2>2. ASSUME Live(c) PROVE count[UserOf[c]] >= 1
    <3>1. c \in LiveOf(UserOf[c])
      BY <2>1, <2>2 DEF LiveOf
    <3>2. Cardinality(LiveOf(UserOf[c])) \in Nat /\ Cardinality(LiveOf(UserOf[c])) # 0
      BY <1>0, <3>1, FiniteOf, FS_EmptySet
    <3> QED BY <1>0, <2>1, <3>2 DEF Balanced
  <2> QED BY <2>1, <2>2 DEF Balanced
<1>4. CASE SetCount(c)
  <2>1. PICK p \in {"firstIp", "lookup"} :
          /\ pc' = [pc EXCEPT ![c] = p] /\ p = (IF pc[c] = "firstCount" THEN "firstIp" ELSE "lookup")
          /\ count' = [count EXCEPT ![UserOf[c]] = num[c] + 1]
          /\ pc[c] \in {"firstCount", "nextCount"}
    BY <1>4 DEF SetCount, At, Goto
  <2>2. pc'[c] = p /\ count'[UserOf[c]] = num[c] + 1
    BY <1>0, <2>1
  <2>3. Knows(c)'
    BY <1>1, <1>2, <2>1, <2>2 DEF Knows, Owing
  <2>4. ASSUME UserOf[c] \notin tangled' PROVE Shifts(c)
    <3>1. ~Carried(c) /\ Carried(c)'
      BY <1>1, <1>2, <2>1, <2>2, <2>4 DEF Knows, Carried, Owing
    <3>2. Reckons(c) /\ ~Reckons(c)'
      BY <2>1, <2>2 DEF Reckons
    <3> QED BY <1>3, <2>2, <2>4, <3>1, <3>2 DEF Shifts
  <2> QED BY <1>1, <2>3, <2>4, StepCounts
<1>5. CASE LeaveSet(c)
  <2>1. /\ pc[c] \in {"leaveSet", "dropSet"}
        /\ \E p \in {"leaveMap", "idle"} : pc' = [pc EXCEPT ![c] = p]
        /\ count' = [count EXCEPT ![UserOf[c]] = IF num[c] > 1 THEN num[c] - 1 ELSE 0]
    BY <1>0, <1>5 DEF LeaveSet, Finish, Goto
  <2>2. pc'[c] \in {"leaveMap", "idle"}
        /\ count'[UserOf[c]] = (IF num[c] > 1 THEN num[c] - 1 ELSE 0)
    BY <1>0, <2>1
  <2>3. ~ip[c] /\ conn[c] # "new"
    BY <1>1, <2>1 DEF Knows, Owing
  <2>4. Knows(c)'
    BY <1>2, <2>2, <2>3 DEF Knows, Owing
  <2>5. ASSUME UserOf[c] \notin tangled' PROVE Shifts(c)
    <3>1. Live(c) /\ ~Carried(c)'
      BY <1>2, <2>1, <2>2, <2>3 DEF Live, Carried, Owing
    <3>2. Reckons(c) /\ ~Reckons(c)'
      BY <2>1, <2>2 DEF Reckons
    <3>3. count[UserOf[c]] \in Nat /\ num[c] = count[UserOf[c]] /\ count[UserOf[c]] >= 1
      BY <1>0, <1>3, <2>5, <3>1
    <3>4. count'[UserOf[c]] = count[UserOf[c]] - 1
      BY <2>2, <3>3
    <3> QED BY <3>1, <3>2, <3>4 DEF Shifts
  <2> QED BY <1>1, <2>4, <2>5, StepCounts
<1> QED BY <1>4, <1>5

\* The steps that register, unregister or end a connection.
LEMMA RegisteringSteps ==
  ASSUME Types, IsFiniteSet(Channels), CountInv, NEW c \in Channels,
         SetIp(c) \/ Offline(c) \/ Inactive(c) \/ Unregister(c) \/ DropMap(c)
  PROVE  CountInv'
<1>0. /\ pc \in [Channels -> Places] /\ ip \in [Channels -> BOOLEAN] /\ conn \in [Channels -> ConnStates]
  BY DEF Types, LocalTypes, RedisTypes, NetTypes
<1>1. Only(c) /\ Knows(c)
  BY StepsAlone DEF Event, HandlerStep, CountInv
<1>2. UNCHANGED count
  BY DEF SetIp, Offline, Inactive, Unregister, DropMap, redisVars
<1>3. ASSUME (Reckons(c)' => Reckons(c) /\ num'[c] = num[c]) \/ ~Reckons(c)',
             UserOf[c] \notin tangled', (Carried(c)' <=> Carried(c)) /\ (Live(c)' => Live(c))
      PROVE  Shifts(c)
  <2>1. Balanced(UserOf[c]) /\ c \in ChannelsOf(UserOf[c])
    BY <1>1, <1>3 DEF Only, CountInv, ChannelsOf, Types
  <2> QED BY <1>2, <1>3, <2>1 DEF Shifts, Balanced
<1>4. CASE SetIp(c)
  <2>1. /\ ip' = [ip EXCEPT ![c] = TRUE] /\ UNCHANGED <<conn, num, loggedIn>>
        /\ pc[c] \in {"firstIp", "nextIp"}
        /\ pc' = [pc EXCEPT ![c] = IF pc[c] = "nextIp" THEN "nextCount" ELSE "lookup"]
    BY <1>4 DEF SetIp, Goto, At, netVars, localVars
  <2>2. ip'[c] /\ pc'[c] = IF pc[c] = "nextIp" THEN "nextCount" ELSE "lookup"
    BY <1>0, <2>1
  <2>3. Knows(c)'
    <3>1. conn'[c] # "new" /\ pc'[c] \in {"nextCount", "lookup"} /\ ip'[c]
      BY <1>1, <2>1, <2>2 DEF Knows
    <3> QED BY <3>1 DEF Knows, Owing
  <2>4. /\ Carried(c)' <=> Carried(c)
        /\ Live(c)' => Live(c)
        /\ Reckons(c)' => Reckons(c)
    BY <1>1, <2>1, <2>2 DEF Knows, Carried, Live, Reckons, Owing
  <2> QED BY <1>1, <1>3, <2>1, <2>3, <2>4, StepCounts
<1>5. CASE Offline(c)
  <2>1. /\ ip' = [ip EXCEPT ![c] = FALSE] /\ UNCHANGED <<conn, num, loggedIn>>
        /\ pc[c] = "idle" /\ pc' = [pc EXCEPT ![c] = "leaveGet"] /\ conn[c] \in {"open", "gone"}
        /\ UserOf[c] \notin tangled' => ip[c]
    BY <1>5, IdleWhenFree DEF Offline, Readable, Goto, netVars, localVars
  <2>2. ~ip'[c] /\ pc'[c] = "leaveGet"
    BY <1>0, <2>1
  <2>3. Knows(c)'
    BY <2>1, <2>2 DEF Knows
  <2>4. ASSUME UserOf[c] \notin tangled'
        PROVE  /\ Carried(c)' <=> Carried(c)
               /\ Live(c)' => Live(c)
               /\ ~Reckons(c)'
    BY <2>1, <2>2, <2>4 DEF Carried, Live, Reckons, Owing
  <2> QED BY <1>1, <1>3, <2>3, <2>4, StepCounts
<1>6. CASE Inactive(c)
  <2>1. /\ conn' = [conn EXCEPT ![c] = "closed"] /\ conn[c] \in {"gone", "closing"} /\ pc[c] = "idle"
        /\ UNCHANGED <<ip, num, loggedIn>>
        /\ pc' = [pc EXCEPT ![c] = IF ip[c] THEN "unregister" ELSE "idle"]
    <3>1. UNCHANGED pc /\ pc[c] = "idle" => pc' = [pc EXCEPT ![c] = "idle"]
      BY <1>0
    <3> QED BY <1>6, <3>1, IdleWhenFree DEF Inactive, Goto, redisVars, localVars
  <2>2. conn'[c] = "closed" /\ pc'[c] = IF ip[c] THEN "unregister" ELSE "idle"
    BY <1>0, <2>1
  <2>3. Knows(c)'
    BY <2>1, <2>2 DEF Knows, Owing
  <2>4. /\ Carried(c)' <=> Carried(c)
        /\ Live(c)' => Live(c)
        /\ ~Reckons(c)'
    BY <2>1, <2>2 DEF Carried, Live, Reckons, Owing
  <2> QED BY <1>1, <1>3, <2>3, <2>4, StepCounts
<1>7. CASE Unregister(c)
  <2>1. /\ ip' = [ip EXCEPT ![c] = FALSE] /\ UNCHANGED <<conn, num, loggedIn>>
        /\ pc[c] = "unregister" /\ pc' = [pc EXCEPT ![c] = "dropMap"]
    BY <1>7 DEF Unregister, At, Goto, netVars, localVars
  <2>2. ~ip'[c] /\ pc'[c] = "dropMap" /\ ip[c]
    BY <1>0, <1>1, <2>1 DEF Knows
  <2>3. Knows(c)'
    BY <1>1, <2>1, <2>2 DEF Knows
  <2>4. /\ Carried(c)' <=> Carried(c)
        /\ Live(c)' => Live(c)
        /\ ~Reckons(c)'
    BY <2>1, <2>2 DEF Carried, Live, Reckons, Owing
  <2> QED BY <1>1, <1>3, <2>3, <2>4, StepCounts
<1>8. CASE DropMap(c)
  <2>1. /\ UNCHANGED <<conn, ip>> /\ pc[c] = "dropMap"
        /\ \/ pc' = [pc EXCEPT ![c] = "dropGet"]
           \/ pc' = [pc EXCEPT ![c] = "idle"] /\ cut' = cut \cup {UserOf[c]}
    BY <1>8 DEF DropMap, At, Goto, Finish, redisVars
  <2>2. pc'[c] = "dropGet" \/ (pc'[c] = "idle" /\ UserOf[c] \in cut')
    BY <1>0, <2>1
  <2>3. ~ip[c] /\ conn[c] # "new"
    BY <1>1, <2>1 DEF Knows, Owing
  <2>4. Knows(c)' /\ ~Reckons(c)' /\ Carried(c)
    BY <2>1, <2>2, <2>3 DEF Knows, Owing, Reckons, Carried
  <2>5. CASE pc'[c] = "dropGet"
    <3>1. (Carried(c)' <=> Carried(c)) /\ (Live(c)' => Live(c))
      BY <2>1, <2>5 DEF Carried, Live, Owing
    <3> QED BY <1>1, <1>3, <2>4, <3>1, StepCounts
  <2>6. CASE pc'[c] = "idle" /\ UserOf[c] \in cut'
    <3>1. ~Carried(c)'
      BY <2>1, <2>3, <2>6 DEF Carried, Owing
    <3>2. Shifts(c)
      BY <1>2, <2>4, <2>6, <3>1 DEF Shifts
    <3> QED BY <1>1, <2>4, <3>2, StepCounts
  <2> QED BY <2>2, <2>5, <2>6
<1> QED BY <1>4, <1>5, <1>6, <1>7, <1>8

\* A handler breaks off: what it owed stays counted, and is marked.
LEMMA FailCounts ==
  ASSUME Types, IsFiniteSet(Channels), CountInv, NEW c \in Channels, RedisFails(c)
  PROVE  CountInv'
<1>0. pc \in [Channels -> Places]
  BY DEF Types, LocalTypes
<1>1. Only(c) /\ Knows(c)
  BY StepsAlone DEF CountInv
<1>2. /\ UNCHANGED <<conn, ip, count>> /\ pc[c] # "idle" /\ pc' = [pc EXCEPT ![c] = "idle"]
      /\ pc[c] = "nextCount" => UserOf[c] \in tangled'
      /\ pc[c] \in LeavesAddress => UserOf[c] \in cut'
  BY DEF RedisFails, Finish, Goto, At, netVars, redisVars
<1>3. pc'[c] = "idle"
  BY <1>0, <1>2
<1>4. Knows(c)' /\ ~Reckons(c)'
  BY <1>1, <1>2, <1>3 DEF Knows, Owing, Reckons
<1>5. ASSUME UserOf[c] \notin tangled' PROVE Shifts(c)
  <2>1. pc[c] # "nextCount"
    BY <1>2, <1>5
  <2>2. CASE pc[c] \in Owing
    <3>1. Carried(c) /\ UserOf[c] \in cut'
      BY <1>2, <2>2 DEF Carried, Owing, LeavesAddress
    <3>2. ~Carried(c)'
      <4>1. ~ip[c]
        BY <1>1, <1>5, <2>2 DEF Knows, Owing, Only
      <4> QED BY <1>2, <1>3, <4>1 DEF Carried, Owing
    <3> QED BY <1>2, <1>4, <3>1, <3>2 DEF Shifts
  <2>3. CASE pc[c] \notin Owing
    <3>1. (Carried(c)' <=> Carried(c)) /\ (Live(c)' => Live(c))
      BY <1>2, <1>3, <2>1, <2>3 DEF Carried, Live, Owing
    <3> QED BY <1>2, <1>4, <3>1 DEF Shifts
  <2> QED BY <2>2, <2>3
<1> QED BY <1>1, <1>4, <1>5, StepCounts

\* The connections that die with the process stay counted.
LEMMA CrashCounts ==
  ASSUME Types, IsFiniteSet(Channels), CountInv, Crash PROVE CountInv'
<1>0. /\ \A c \in Channels : /\ pc'[c] = "idle" /\ ip'[c] = ip[c]
                             /\ conn'[c] = IF conn[c] = "new" THEN "new" ELSE "closed"
      /\ UNCHANGED <<count, tangled>> /\ crashes' # 0
  <2>1. crashes' = crashes + 1 /\ crashes \in Nat
    BY DEF Crash, Types, BoundTypes
  <2> QED BY <2>1 DEF Crash, redisVars, countHist
<1>1. \A c \in Channels : Knows(c)'
  BY <1>0 DEF CountInv, Knows, Owing
<1>2. ASSUME NEW u \in Users PROVE Balanced(u)'
  <2>1. LiveOf(u)' = {}
    BY <1>0 DEF LiveOf, Live, Carried, ChannelsOf, CountInv, Knows, Owing
  <2>2. Cardinality(LiveOf(u)') = 0 /\ count'[u] \in Nat
    BY <1>0, <2>1, FS_EmptySet DEF Types, RedisTypes
  <2> QED BY <1>0, <2>2 DEF Balanced, Reckons, ChannelsOf
<1> QED BY <1>1, <1>2 DEF CountInv

LEMMA CountInvKept ==
  ASSUME Types, IsFiniteSet(Channels), CountInv, [Next]_vars PROVE CountInv'
<1>1. ASSUME NEW c \in Channels, HandlerStep(c) PROVE CountInv'
  BY <1>1, PlainSteps, ReadSteps, CountingSteps, RegisteringSteps DEF HandlerStep
<1>2. ASSUME NEW c \in Channels, Event(c) PROVE CountInv'
  BY <1>2, OutsideSteps, ReadSteps, RegisteringSteps DEF Event
<1>3. CASE UNCHANGED vars
  <2>1. UNCHANGED <<conn, ip, pc, count, num, loggedIn, tangled, cut, crashes>>
    BY <1>3 DEF vars, netVars, redisVars, localVars, countHist, bounds
  <2>2. \A u \in Users : LiveOf(u)' = LiveOf(u) /\ CarriedOf(u)' = CarriedOf(u)
    BY <2>1 DEF LiveOf, CarriedOf, Live, Carried, ChannelsOf
  <2> QED BY <2>1, <2>2 DEF CountInv, Knows, Balanced, ChannelsOf, Reckons
<1> QED BY <1>1, <1>2, <1>3, CrashCounts, FailCounts DEF Next

LEMMA CountAlways == ASSUME IsFiniteSet(Channels) PROVE Spec => [](Types /\ CountInv)
<1>1. Init => CountInv
  BY CountInvAtFirst
<1>2. Types /\ CountInv /\ [Next]_vars => CountInv'
  BY CountInvKept
<1> QED BY <1>1, <1>2, ChatTyped, PTL DEF Spec

\* On any loops, with failed calls and OFFLINE frames in any order: until the server
\* dies, between handlers the counter of a user is the number of registered addresses,
\* unless two handlers of that user had it in hand at once, an OFFLINE came from an
\* unregistered address, or a handler broke off between number and address.
THEOREM CountRegistered == ASSUME IsFiniteSet(Channels) PROVE Spec => []CountIsRegistered
<1>1. Types /\ CountInv => CountIsRegistered
  BY CountInvGives
<1> QED BY <1>1, CountAlways, PTL

\* After crashes and broken leaves too, a user's counter is never below the number of
\* registered open connections, with the first two of these exceptions and a failed set.
THEOREM CountCovers == ASSUME IsFiniteSet(Channels) PROVE Spec => []CountCoversOpen
<1>1. Types /\ CountInv => CountCoversOpen
  BY CountInvGives
<1> QED BY <1>1, CountAlways, PTL
=============================================================================

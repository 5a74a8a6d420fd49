---------------------------- MODULE AccountsProofs ----------------------------
(***************************************************************************)
(* For any users and any number of requests and faults: the types of       *)
(* Accounts and the row locks of its transactions, sessions have a time to *)
(* live, the status is the one promised, a locked user is out, and a user  *)
(* with a session is shown online.                                         *)
(***************************************************************************)
EXTENDS Accounts, TLAPS

USE HoldersAssumption, FaultsAssumption

-----------------------------------------------------------------------------
(* Type correctness.                                                       *)

RowTypes ==
  /\ rows \in [Users -> Nat]
  /\ status \in [Users -> {"NORMAL", "LOCKED"}]
  /\ online \in [Users -> BOOLEAN]
  /\ session \in [Users -> Sessions]
  /\ holder \in [Users -> Threads \cup {Free, Stuck}]

ThreadTypes ==
  /\ pc \in [Threads -> Places]
  /\ who \in [Threads -> Users \cup {NoUser}]
  /\ inTx \in [Threads -> BOOLEAN]
  /\ prior \in [Threads -> [status : {"NORMAL", "LOCKED"}, online : BOOLEAN,
                         second : BOOLEAN]]

HistTypes ==
  /\ touched \in [Threads -> BOOLEAN] /\ crossed \in [Threads -> BOOLEAN]
  /\ mixed \in [Users -> BOOLEAN] /\ left \in [Users -> BOOLEAN]
  /\ promised \in [Users -> {"NORMAL", "LOCKED"}]
  /\ tainted \in [Threads -> BOOLEAN] /\ doubtful \in [Users -> BOOLEAN]
  /\ faults \in 0 .. MaxFaults

TxPlaces == LogoutPlaces \cup {"commit", "rollback"}

\* A request at work is about a user; a transaction is where lockAccount can be,
\* and these places are in a transaction; it holds the row of its user.
AtWork ==
  \A t \in Threads :
    /\ pc[t] # "idle" => who[t] \in Users
    /\ inTx[t] => pc[t] \in TxPlaces /\ holder[who[t]] = t
    /\ pc[t] \in {"outLook", "commit", "rollback"} => inTx[t]

Types == RowTypes /\ ThreadTypes /\ HistTypes /\ AtWork

LEMMA TypesGiveTypeOK == Types => TypeOK
  BY DEF Types, RowTypes, ThreadTypes, HistTypes, AtWork, TypeOK

LEMMA InitTypes == Init => Types
  BY DEF Init, Types, RowTypes, ThreadTypes, HistTypes, AtWork, Sessions, Places, NoPrior

LEMMA RowsTyped ==
  ASSUME Types, [Next]_vars PROVE RowTypes'
<1> USE DEF Types, RowTypes, ThreadTypes, AtWork, Sessions, Timed, rowVars
<1>1. CASE \E t \in Threads, u \in Users : Request(t, u)
  <2>1. PICK t \in Threads, u \in Users : Request(t, u)
    BY <1>1
  <2>2. CASE LockWrite(t, u)
    <3>1. holder' \in [Users -> Threads \cup {Free, Stuck}]
      BY <2>2 DEF LockWrite
    <3>2. status' \in [Users -> {"NORMAL", "LOCKED"}]
      BY <2>2 DEF LockWrite
    <3> QED BY <2>2, <3>1, <3>2 DEF LockWrite
  <2> QED BY <2>1, <2>2 DEF Request, RegisterCheck, LoginRead, GatewayGet, LogoutLook,
             UnlockBegin
<1>2. CASE \E t \in Threads : Work(t)
  <2>1. PICK t \in Threads : Work(t)
    BY <1>2
  <2>2. CASE RegisterInsert(t)
    BY <2>2 DEF RegisterInsert, At
  <2>3. CASE LoginUpdate(t)
    BY <2>3 DEF LoginUpdate, At
  <2>8. CASE LogoutUpdate(t)
    BY <2>8 DEF LogoutUpdate, At
  <2>4. CASE LoginSet(t) \/ LogoutDelete(t)
    BY <2>4 DEF LoginSet, LogoutDelete, At
  <2>7. CASE LoginExpire(t) \/ GatewayRenew(t)
    BY <2>7 DEF LoginExpire, GatewayRenew, At
  <2>5. CASE Commit(t) \/ UnlockAnswer(t)
    BY <2>5 DEF Commit, UnlockAnswer, At
  <2>9. CASE UnlockTask(t)
    BY <2>9 DEF UnlockTask, At
  <2>6. CASE Rollback(t)
    <3>1. prior[t].status \in {"NORMAL", "LOCKED"} /\ prior[t].online \in BOOLEAN
      OBVIOUS
    <3>2. status' \in [Users -> {"NORMAL", "LOCKED"}]
      BY <2>6, <3>1 DEF Rollback
    <3>3. online' \in [Users -> BOOLEAN]
      BY <2>6, <3>1 DEF Rollback, BackOnline
    <3>4. holder' \in [Users -> Threads \cup {Free, Stuck}]
      BY <2>6 DEF Rollback
    <3> QED BY <2>6, <3>2, <3>3, <3>4 DEF Rollback
  <2> QED BY <2>1, <2>2, <2>3, <2>4, <2>5, <2>6, <2>7, <2>8, <2>9 DEF Work
<1>3. CASE \E t \in Threads : Dies(t)
  BY <1>3 DEF Dies
<1>4. CASE \E u \in Users : SessionExpires(u)
  BY <1>4 DEF SessionExpires
<1>5. CASE UNCHANGED vars
  BY <1>5 DEF vars
<1> QED BY <1>1, <1>2, <1>3, <1>4, <1>5 DEF Next

LEMMA PlacesTyped ==
  ASSUME Types, [Next]_vars
  PROVE  /\ pc' \in [Threads -> Places] /\ who' \in [Threads -> Users \cup {NoUser}]
         /\ inTx' \in [Threads -> BOOLEAN]
<1> DEFINE OK == /\ pc \in [Threads -> Places] /\ who \in [Threads -> Users \cup {NoUser}]
                 /\ inTx \in [Threads -> BOOLEAN]
<1>1. OK
  BY DEF Types, ThreadTypes
<1>2. ASSUME NEW t \in Threads, NEW u \in Users, Request(t, u) PROVE OK'
  <2>1. CASE LockWrite(t, u)
    BY <1>1, <2>1 DEF LockWrite, Begin, Places, LogoutPlaces
  <2>2. CASE LogoutLook(t, u)
    BY <1>1, <2>2 DEF LogoutLook, Begin, Places, LogoutPlaces
  <2>3. CASE RegisterCheck(t, u) \/ LoginRead(t, u) \/ GatewayGet(t, u)
    BY <1>1, <2>3 DEF RegisterCheck, LoginRead, GatewayGet, Begin, Places, LoginPlaces
  <2>4. CASE UnlockBegin(t, u)
    BY <1>1, <2>4 DEF UnlockBegin, Begin, Places, UnlockPlaces
  <2> QED BY <1>2, <2>1, <2>2, <2>3, <2>4 DEF Request
<1>3. ASSUME NEW t \in Threads, Finish(t) PROVE OK'
  BY <1>1, <1>3 DEF Finish, Places
<1>4. ASSUME NEW t \in Threads, NEW p \in Places, Goto(t, p) PROVE OK'
  BY <1>1, <1>4 DEF Goto
<1>5. ASSUME NEW t \in Threads, LogoutUpdate(t) PROVE OK'
  BY <1>1, <1>5 DEF LogoutUpdate, Places
<1>6. CASE UNCHANGED threadVars
  BY <1>1, <1>6 DEF threadVars
<1>7. {"loginSet", "loginExpire", "outUpdate", "rollback", "unlocked"} \subseteq Places
  BY DEF Places, LoginPlaces, LogoutPlaces, UnlockPlaces
<1>8. CASE \E t \in Threads : Work(t) \/ Dies(t)
  BY <1>3, <1>4, <1>5, <1>7, <1>8 DEF Work, RegisterInsert, LoginUpdate, LoginSet,
     LoginExpire, GatewayRenew, LogoutDelete, Commit, Rollback, UnlockTask, UnlockAnswer, Dies
<1> QED BY <1>2, <1>6, <1>8 DEF Next, vars, SessionExpires

Priors == [status : {"NORMAL", "LOCKED"}, online : BOOLEAN, second : BOOLEAN]

LEMMA PriorTyped ==
  ASSUME Types, [Next]_vars PROVE prior' \in [Threads -> Priors]
<1>1. prior \in [Threads -> Priors] /\ NoPrior \in Priors
  BY DEF Types, ThreadTypes, Priors, NoPrior
<1>2. ASSUME NEW t \in Threads, NEW u \in Users, LockWrite(t, u)
      PROVE  prior' \in [Threads -> Priors]
  <2>1. status[u] \in {"NORMAL", "LOCKED"}
    BY DEF Types, RowTypes
  <2> QED BY <1>1, <1>2, <2>1 DEF LockWrite, Priors
<1>3. ASSUME NEW t \in Threads, LogoutUpdate(t)
      PROVE  prior' \in [Threads -> Priors]
  <2>1. online[who[t]] \in BOOLEAN
    BY <1>3 DEF Types, RowTypes, AtWork, LogoutUpdate, At
  <2> QED BY <1>1, <1>3, <2>1 DEF LogoutUpdate, Priors
<1>4. ASSUME NEW t \in Threads, Finish(t) PROVE prior' \in [Threads -> Priors]
  BY <1>1, <1>4 DEF Finish
<1> QED
  BY <1>1, <1>2, <1>3, <1>4 DEF Next, Request, RegisterCheck, LoginRead, GatewayGet,
     LogoutLook, UnlockBegin, Work, RegisterInsert, LoginUpdate, LoginSet, LoginExpire,
     GatewayRenew, LogoutDelete, Commit, Rollback, UnlockTask, UnlockAnswer, Dies,
     SessionExpires, Goto, vars, threadVars

LEMMA FlagsTyped ==
  ASSUME Types, [Next]_vars
  PROVE  /\ touched' \in [Threads -> BOOLEAN] /\ crossed' \in [Threads -> BOOLEAN]
         /\ left' \in [Users -> BOOLEAN] /\ faults' \in 0 .. MaxFaults
<1>1. /\ touched \in [Threads -> BOOLEAN] /\ crossed \in [Threads -> BOOLEAN]
      /\ left \in [Users -> BOOLEAN] /\ faults \in 0 .. MaxFaults
  BY DEF Types, HistTypes
<1>2. ASSUME NEW t, NEW u, Touch(t, u) PROVE touched' \in [Threads -> BOOLEAN]
  BY <1>2 DEF Touch
<1>3. ASSUME NEW u, Cross(u) PROVE crossed' \in [Threads -> BOOLEAN]
  BY <1>3 DEF Cross
<1>4. ASSUME NEW t \in Threads, Dies(t)
      PROVE  /\ touched' \in [Threads -> BOOLEAN] /\ crossed' \in [Threads -> BOOLEAN]
             /\ left' \in [Users -> BOOLEAN] /\ faults' \in 0 .. MaxFaults
  BY <1>1, <1>4 DEF Dies, Fault, At, Types, AtWork
<1>5. ASSUME NEW t \in Threads, UnlockTask(t)
      PROVE  touched' \in [Threads -> BOOLEAN] /\ faults' \in 0 .. MaxFaults
  BY <1>1, <1>2, <1>5 DEF UnlockTask, Fault
<1>6. ASSUME NEW t \in Threads, Commit(t) \/ Rollback(t)
      PROVE  touched' \in [Threads -> BOOLEAN]
  BY <1>1, <1>6 DEF Commit, Rollback
<1>7. ASSUME NEW t \in Threads, NEW u \in Users, LoginRead(t, u)
      PROVE  crossed' \in [Threads -> BOOLEAN]
  BY <1>1, <1>7 DEF LoginRead
<1>8. ASSUME NEW t \in Threads, LoginExpire(t) PROVE crossed' \in [Threads -> BOOLEAN]
  BY <1>1, <1>8 DEF LoginExpire
<1>9. CASE \E t \in Threads, u \in Users : Request(t, u)
  BY <1>1, <1>2, <1>3, <1>7, <1>9
  DEF Request, RegisterCheck, LoginRead, GatewayGet, LogoutLook, LockWrite, UnlockBegin,
      histVars
<1>10. CASE \E t \in Threads : Work(t)
  BY <1>1, <1>2, <1>5, <1>6, <1>8, <1>10 DEF Work, RegisterInsert, LoginUpdate, LoginSet,
     LoginExpire, GatewayRenew, LogoutDelete, LogoutUpdate, Commit, Rollback, UnlockTask,
     UnlockAnswer, histVars
<1>11. CASE \E u \in Users : SessionExpires(u)
  BY <1>1, <1>11 DEF SessionExpires, histVars
<1>12. CASE UNCHANGED vars
  BY <1>1, <1>12 DEF vars, histVars
<1> QED BY <1>4, <1>9, <1>10, <1>11, <1>12 DEF Next

LEMMA MarksTyped ==
  ASSUME Types, [Next]_vars PROVE mixed' \in [Users -> BOOLEAN]
<1>1. mixed \in [Users -> BOOLEAN] /\ crossed \in [Threads -> BOOLEAN]
  BY DEF Types, HistTypes
<1>2. ASSUME NEW t \in Threads, LoginSet(t) PROVE mixed' \in [Users -> BOOLEAN]
  BY <1>1, <1>2 DEF LoginSet, At
<1>3. CASE UNCHANGED mixed
  BY <1>1, <1>3
<1> QED
  BY <1>2, <1>3, ZenonT(60) DEF Next, Request, RegisterCheck, LoginRead, GatewayGet,
     LogoutLook, LockWrite, UnlockBegin, Work, RegisterInsert, LoginUpdate, LoginExpire,
     GatewayRenew, LogoutDelete, LogoutUpdate, Commit, Rollback, UnlockTask, UnlockAnswer,
     Dies, SessionExpires, vars, histVars

LEMMA WordsTyped ==
  ASSUME Types, [Next]_vars
  PROVE  /\ promised' \in [Users -> {"NORMAL", "LOCKED"}]
         /\ tainted' \in [Threads -> BOOLEAN] /\ doubtful' \in [Users -> BOOLEAN]
<1> DEFINE OK == /\ promised \in [Users -> {"NORMAL", "LOCKED"}]
                 /\ tainted \in [Threads -> BOOLEAN] /\ doubtful \in [Users -> BOOLEAN]
<1>1. OK
  BY DEF Types, HistTypes
<1>2. ASSUME NEW t \in Threads, NEW u \in Users, LockWrite(t, u) \/ UnlockBegin(t, u)
      PROVE  OK'
  <2>1. ASSUME NEW others, Taint(t, others) PROVE tainted' \in [Threads -> BOOLEAN]
    BY <1>1, <2>1 DEF Taint
  <2> QED BY <1>1, <1>2, <2>1 DEF LockWrite, UnlockBegin
<1>3. ASSUME NEW t \in Threads, Commit(t) \/ Rollback(t) \/ UnlockAnswer(t) PROVE OK'
  BY <1>1, <1>3 DEF Commit, Rollback, UnlockAnswer
<1>4. ASSUME NEW t \in Threads, UnlockTask(t) \/ Dies(t) PROVE OK'
  BY <1>1, <1>4 DEF UnlockTask, Dies
<1>5. CASE UNCHANGED wordVars
  BY <1>1, <1>5 DEF wordVars
<1> QED
  BY <1>2, <1>3, <1>4, <1>5, ZenonT(60) DEF Next, Request, RegisterCheck, LoginRead,
     GatewayGet, LogoutLook, Work, RegisterInsert, LoginUpdate, LoginSet, LoginExpire,
     GatewayRenew, LogoutDelete, LogoutUpdate, SessionExpires, vars, histVars

LEMMA AtWorkKept ==
  ASSUME Types, [Next]_vars PROVE AtWork'
<1> USE DEF Types, RowTypes, ThreadTypes, AtWork, LoginPlaces, LogoutPlaces, TxPlaces,
            UnlockPlaces, At, Begin, Goto, Finish
<1>1. CASE \E t \in Threads, u \in Users : Request(t, u)
  BY <1>1 DEF Request, RegisterCheck, LoginRead, GatewayGet, LogoutLook, LockWrite,
     UnlockBegin
<1>2. CASE \E t \in Threads : Work(t)
  BY <1>2 DEF Work, RegisterInsert, LoginUpdate, LoginSet, LoginExpire, GatewayRenew,
     LogoutDelete, LogoutUpdate, Commit, Rollback, UnlockTask, UnlockAnswer
<1>3. CASE \E t \in Threads : Dies(t)
  BY <1>3 DEF Dies
<1>4. CASE UNCHANGED vars \/ \E u \in Users : SessionExpires(u)
  BY <1>4 DEF vars, SessionExpires, threadVars
<1> QED BY <1>1, <1>2, <1>3, <1>4 DEF Next

LEMMA NextTypes == Types /\ [Next]_vars => Types'
  BY RowsTyped, PlacesTyped, PriorTyped, FlagsTyped, MarksTyped, WordsTyped, AtWorkKept
  DEF Types, ThreadTypes, HistTypes, Priors

\* The variables have their types, and a lock transaction holds the row of its
\* user as long as it lasts: no two of them undo one row.
THEOREM AccountsTypeCorrect == Spec => []TypeOK
<1>1. Spec => []Types
  BY InitTypes, NextTypes, PTL DEF Spec
<1> QED BY <1>1, TypesGiveTypeOK, PTL
-----------------------------------------------------------------------------
(* What a step leaves alone.                                               *)

By(t) == Work(t) \/ Dies(t) \/ \E u \in Users : Request(t, u)

LEMMA OthersStay ==
  ASSUME Types, NEW t \in Threads, By(t), NEW x \in Threads, x # t
  PROVE  pc'[x] = pc[x] /\ who'[x] = who[x] /\ inTx'[x] = inTx[x] /\ prior'[x] = prior[x]
<1> USE DEF Types, ThreadTypes
<1>1. CASE \E u \in Users : Request(t, u)
  BY <1>1 DEF Request, RegisterCheck, LoginRead, GatewayGet, LogoutLook, LockWrite,
     UnlockBegin, Begin
<1>2. CASE LogoutUpdate(t)
  BY <1>2 DEF LogoutUpdate
<1>3. CASE Finish(t) \/ \E p \in Places : Goto(t, p)
  BY <1>3 DEF Finish, Goto
<1>4. {"loginSet", "loginExpire", "outUpdate", "rollback", "unlocked"} \subseteq Places
  BY DEF Places, LoginPlaces, LogoutPlaces, UnlockPlaces
<1> QED BY <1>1, <1>2, <1>3, <1>4 DEF By, Work, RegisterInsert, LoginUpdate, LoginSet,
           LoginExpire, GatewayRenew, LogoutDelete, Commit, Rollback, UnlockTask,
           UnlockAnswer, Dies

\* Redis moves no thread.
LEMMA NobodyMoves ==
  ASSUME UNCHANGED vars \/ \E u \in Users : SessionExpires(u)
  PROVE  UNCHANGED threadVars
  BY DEF vars, threadVars, SessionExpires

LEMMA SessionMoves ==
  ASSUME [Next]_vars, session' # session
  PROVE  \/ \E t \in Threads : LoginSet(t) \/ LoginExpire(t) \/ GatewayRenew(t)
                                 \/ LogoutDelete(t)
         \/ \E u \in Users : SessionExpires(u)
  BY ZenonT(60) DEF Next, Request, RegisterCheck, LoginRead, GatewayGet, LogoutLook, LockWrite,
     UnlockBegin, Work, RegisterInsert, LoginUpdate, LogoutUpdate, Commit, Rollback,
     UnlockTask, UnlockAnswer, Dies, vars

-----------------------------------------------------------------------------
(* Sessions have a time to live.                                           *)

LEMMA TtlKept ==
  ASSUME Types, SessionHasTtl, [Next]_vars PROVE SessionHasTtl'
<1> SUFFICES ASSUME NEW u \in Users, session'[u] = "untimed"
             PROVE  left'[u] \/ \E t \in Threads : who'[t] = u /\ pc'[t] = "loginExpire"
  BY DEF SessionHasTtl, At
<1> DEFINE Expiring(t) == who[t] = u /\ pc[t] = "loginExpire"
<1> USE DEF Types, RowTypes, ThreadTypes, HistTypes, AtWork
<1>1. CASE \E t \in Threads : LoginSet(t) /\ who[t] = u
  BY <1>1 DEF LoginSet, Goto
<1>2. CASE \E t \in Threads : LoginExpire(t) /\ who[t] = u
  BY <1>2 DEF LoginExpire, Timed
<1>3. CASE \E t \in Threads : Dies(t) /\ Expiring(t)
  BY <1>3 DEF Dies, At
<1>4. CASE /\ ~\E t \in Threads : LoginSet(t) /\ who[t] = u
           /\ ~\E t \in Threads : LoginExpire(t) /\ who[t] = u
           /\ ~\E t \in Threads : Dies(t) /\ Expiring(t)
  <2>1. session[u] = "untimed"
    BY <1>4, SessionMoves DEF LoginSet, LoginExpire, GatewayRenew, Timed, LogoutDelete,
       SessionExpires
  <2>2. left[u] => left'[u]
    <3>1. CASE \E t \in Threads : Dies(t)
      BY <3>1 DEF Dies
    <3>2. CASE UNCHANGED left
      BY <3>2
    <3> QED BY <3>1, <3>2, ZenonT(60) DEF Next, Request, RegisterCheck, LoginRead, GatewayGet,
               LogoutLook, LockWrite, UnlockBegin, Work, RegisterInsert, LoginUpdate, LoginSet,
               LoginExpire, GatewayRenew, LogoutDelete, LogoutUpdate, Commit, Rollback,
               UnlockTask, UnlockAnswer, SessionExpires, vars, histVars
  <2>3. ASSUME NEW x \in Threads, Expiring(x) PROVE Expiring(x)'
    <3>1. ASSUME By(x) PROVE FALSE
      BY <1>4, <2>3, <3>1 DEF By, Request, RegisterCheck, LoginRead, GatewayGet, LogoutLook,
         LockWrite, UnlockBegin, Work, RegisterInsert, LoginUpdate, LoginSet, GatewayRenew,
         LogoutDelete, LogoutUpdate, Commit, Rollback, UnlockTask, UnlockAnswer, At
    <3>2. CASE \E t \in Threads : By(t)
      BY <2>3, <3>1, <3>2, OthersStay
    <3>3. CASE UNCHANGED vars \/ \E v \in Users : SessionExpires(v)
      BY <2>3, <3>3, NobodyMoves DEF threadVars
    <3> QED BY <3>2, <3>3 DEF Next, By
  <2> QED BY <2>1, <2>2, <2>3 DEF SessionHasTtl, At
<1> QED BY <1>1, <1>2, <1>3, <1>4

\* A session has a time to live, but for the moment between set and expire of a
\* login, or when the login died there (UserServiceImpl l.78-80).
THEOREM SessionsExpire == Spec => []SessionHasTtl
<1>1. Init => SessionHasTtl
  BY DEF Init, SessionHasTtl
<1>2. Types /\ SessionHasTtl /\ [Next]_vars => (Types /\ SessionHasTtl)'
  BY NextTypes, TtlKept
<1> QED BY <1>1, <1>2, InitTypes, PTL DEF Spec

-----------------------------------------------------------------------------
(* The status is the one promised.                                         *)

\* A lock that no unlock overlapped has its status in the row, and will restore
\* what was promised before it.
UndoKnown ==
  \A t \in Threads : inTx[t] /\ ~tainted[t] =>
    /\ status[who[t]] = "LOCKED"
    /\ doubtful[who[t]] \/ prior[t].status = promised[who[t]]

\* An unlock about to answer that nothing overlapped has done what it will say.
UnlockDone ==
  \A t \in Threads : pc[t] = "unlocked" /\ ~tainted[t] => status[who[t]] = "NORMAL"

\* A lock and an unlock of one user that are under way at once know of it.
OverlapSeen ==
  \A t, x \in Threads : inTx[t] /\ pc[x] \in UnlockPlaces /\ who[x] = who[t]
                          => tainted[t] /\ tainted[x]

WordInv == StatusAsPromised /\ UndoKnown /\ UnlockDone /\ OverlapSeen

\* A thread that neither enters nor leaves a lock or an unlock.
Stays(x) ==
  /\ inTx'[x] => inTx[x] /\ who'[x] = who[x] /\ prior'[x].status = prior[x].status
  /\ pc'[x] \in UnlockPlaces => pc'[x] = pc[x] /\ who'[x] = who[x]
  /\ pc[x] = "unlocked" => pc'[x] = pc[x] /\ who'[x] = who[x]

LEMMA WordsQuiet ==
  ASSUME Types, WordInv, UNCHANGED <<status, holder, wordVars>>,
         \A x \in Threads : Stays(x)
  PROVE  WordInv'
<1> USE DEF WordInv, Stays, wordVars
<1>1. StatusAsPromised'
  BY DEF StatusAsPromised, At
<1>2. UndoKnown'
  BY DEF UndoKnown
<1>3. UnlockDone'
  BY DEF UnlockDone, UnlockPlaces
<1>4. OverlapSeen'
  BY DEF OverlapSeen
<1> QED BY <1>1, <1>2, <1>3, <1>4

LEMMA LockKeepsWord ==
  ASSUME Types, WordInv, NEW t \in Threads, NEW u \in Users, LockWrite(t, u)
  PROVE  WordInv'
<1> USE DEF Types, RowTypes, ThreadTypes, HistTypes, AtWork, WordInv
<1>1. /\ holder' = [holder EXCEPT ![u] = t] /\ status' = [status EXCEPT ![u] = "LOCKED"]
      /\ UNCHANGED <<promised, doubtful>> /\ holder[u] = Free
      /\ pc[t] = "idle" /\ ~inTx[t] /\ inTx'[t] /\ who'[t] = u /\ pc'[t] = "outLook"
      /\ prior'[t].status = status[u]
  <2>1. pc[t] = "idle" /\ ~inTx[t] /\ holder[u] = Free
    BY DEF LockWrite, At, TxPlaces, LogoutPlaces
  <2>2. inTx'[t] /\ who'[t] = u /\ pc'[t] = "outLook"
    BY DEF LockWrite, Begin
  <2>3. status[u] \in {"NORMAL", "LOCKED"} /\ prior' = [prior EXCEPT ![t].status = status[u]]
    BY DEF LockWrite
  <2>4. prior'[t].status = status[u]
    BY <2>3
  <2> QED BY <2>1, <2>2, <2>4 DEF LockWrite
<1>2. \A x \in Threads : x # t => /\ pc'[x] = pc[x] /\ who'[x] = who[x]
                                  /\ inTx'[x] = inTx[x] /\ prior'[x] = prior[x]
  <2>1. By(t)
    BY DEF By, Request
  <2> QED BY <2>1, OthersStay
<1>3. tainted' = [x \in Threads |-> IF x = t THEN Unlocking(u) # {}
                    ELSE tainted[x] \/ x \in Unlocking(u)]
  BY DEF LockWrite, Taint
<1>4. \A x \in Threads : inTx[x] => who[x] # u
  BY <1>1
<1>5. StatusAsPromised'
  BY <1>1, <1>2 DEF StatusAsPromised, At
<1>6. UndoKnown'
  <2>1. ASSUME ~tainted'[t] PROVE doubtful[u] \/ status[u] = promised[u]
    BY <1>1, <1>3, <2>1 DEF StatusAsPromised, Unlocking, UnlockPlaces, At
  <2>2. ASSUME NEW x \in Threads, x # t, inTx'[x], ~tainted'[x]
        PROVE  /\ status'[who'[x]] = "LOCKED"
               /\ doubtful'[who'[x]] \/ prior'[x].status = promised'[who'[x]]
    BY <1>1, <1>2, <1>3, <1>4, <2>2 DEF UndoKnown
  <2> QED BY <1>1, <2>1, <2>2 DEF UndoKnown
<1>7. UnlockDone'
  <2> SUFFICES ASSUME NEW x \in Threads, pc'[x] = "unlocked", ~tainted'[x]
               PROVE  status'[who'[x]] = "NORMAL"
    BY DEF UnlockDone
  <2>1. x # t /\ pc[x] = "unlocked" /\ who'[x] = who[x] /\ who[x] \in Users
    BY <1>1, <1>2
  <2>2. ~tainted[x] /\ x \notin Unlocking(u)
    BY <1>3, <2>1
  <2>3. who[x] # u
    BY <2>1, <2>2 DEF Unlocking, UnlockPlaces
  <2> QED BY <1>1, <2>1, <2>2, <2>3 DEF UnlockDone
<1>8. OverlapSeen'
  <2> SUFFICES ASSUME NEW y \in Threads, NEW x \in Threads, inTx'[y],
                      pc'[x] \in UnlockPlaces, who'[x] = who'[y]
               PROVE  tainted'[y] /\ tainted'[x]
    BY DEF OverlapSeen
  <2>1. x # t /\ pc[x] \in UnlockPlaces /\ who'[x] = who[x]
    BY <1>1, <1>2 DEF UnlockPlaces
  <2>2. CASE y = t
    <3>1. x \in Unlocking(u)
      BY <1>1, <2>1, <2>2 DEF Unlocking
    <3> QED BY <1>3, <2>1, <2>2, <3>1
  <2>3. CASE y # t
    <3>1. tainted[y] /\ tainted[x]
      BY <1>2, <2>1, <2>3 DEF OverlapSeen
    <3> QED BY <1>3, <2>1, <2>3, <3>1
  <2> QED BY <2>2, <2>3
<1> QED BY <1>5, <1>6, <1>7, <1>8

LEMMA UnlockBeginKeepsWord ==
  ASSUME Types, WordInv, NEW t \in Threads, NEW u \in Users, UnlockBegin(t, u)
  PROVE  WordInv'
<1> USE DEF Types, RowTypes, ThreadTypes, HistTypes, AtWork, WordInv
<1>1. /\ UNCHANGED <<status, holder, promised, doubtful>>
      /\ ~inTx'[t] /\ pc'[t] = "unlock" /\ who'[t] = u /\ pc[t] = "idle"
  BY DEF UnlockBegin, At, Begin, TxPlaces, LogoutPlaces, rowVars
<1>2. \A x \in Threads : x # t => /\ pc'[x] = pc[x] /\ who'[x] = who[x]
                                  /\ inTx'[x] = inTx[x] /\ prior'[x] = prior[x]
  <2>1. By(t)
    BY DEF By, Request
  <2> QED BY <2>1, OthersStay
<1>3. tainted' = [x \in Threads |-> IF x = t THEN Locking(u) # {}
                    ELSE tainted[x] \/ x \in Locking(u)]
  BY DEF UnlockBegin, Taint
<1>4. StatusAsPromised'
  BY <1>1, <1>2 DEF StatusAsPromised, At
<1>5. UndoKnown'
  BY <1>1, <1>2, <1>3 DEF UndoKnown
<1>6. UnlockDone'
  BY <1>1, <1>2, <1>3 DEF UnlockDone
<1>7. OverlapSeen'
  BY <1>1, <1>2, <1>3 DEF OverlapSeen, Locking
<1> QED BY <1>4, <1>5, <1>6, <1>7

LEMMA UnlockTaskKeepsWord ==
  ASSUME Types, WordInv, NEW t \in Threads, UnlockTask(t)
  PROVE  WordInv'
<1> USE DEF Types, RowTypes, ThreadTypes, HistTypes, AtWork, WordInv
<1>1. PICK u \in Users : u = who[t]
  BY DEF UnlockTask, At
<1>2. /\ UNCHANGED <<holder, promised, doubtful>> /\ pc[t] = "unlock"
      /\ pc'[t] = "unlocked" /\ UNCHANGED <<who, inTx, prior>> /\ ~inTx[t]
  BY DEF UnlockTask, At, Goto, TxPlaces, LogoutPlaces
<1>3. \A x \in Threads : x # t => pc'[x] = pc[x]
  BY DEF UnlockTask, Goto
<1>4. \/ status' = [status EXCEPT ![u] = "NORMAL"] /\ tainted' = tainted
      \/ status' = status /\ tainted' = [tainted EXCEPT ![t] = TRUE]
  BY <1>1 DEF UnlockTask
<1>5. \A x \in Threads : inTx[x] /\ who[x] = u => tainted[x]
  BY <1>1, <1>2 DEF OverlapSeen, UnlockPlaces
<1>6. StatusAsPromised'
  BY <1>1, <1>2, <1>3, <1>4 DEF StatusAsPromised, At
<1>7. UndoKnown'
  <2> SUFFICES ASSUME NEW x \in Threads, inTx[x], ~tainted'[x]
               PROVE  /\ status'[who[x]] = "LOCKED"
                      /\ doubtful[who[x]] \/ prior[x].status = promised[who[x]]
    BY <1>2 DEF UndoKnown
  <2>1. who[x] \in Users
    BY DEF TxPlaces, LogoutPlaces
  <2>2. tainted \in [Threads -> BOOLEAN]
    OBVIOUS
  <2>3. ~tainted[x]
    BY <1>4, <2>2
  <2>4. who[x] # u
    BY <1>5, <2>3
  <2>5. status'[who[x]] = status[who[x]]
    BY <1>4, <2>1, <2>4
  <2> QED BY <2>3, <2>5 DEF UndoKnown
<1>8. UnlockDone'
  BY <1>1, <1>2, <1>3, <1>4 DEF UnlockDone
<1>9. OverlapSeen'
  BY <1>2, <1>3, <1>4 DEF OverlapSeen, UnlockPlaces
<1> QED BY <1>6, <1>7, <1>8, <1>9

LEMMA UnlockAnswerKeepsWord ==
  ASSUME Types, WordInv, NEW t \in Threads, UnlockAnswer(t)
  PROVE  WordInv'
<1> USE DEF Types, RowTypes, ThreadTypes, HistTypes, AtWork, WordInv
<1>1. PICK u \in Users : u = who[t]
  BY DEF UnlockAnswer, At
<1>2. /\ UNCHANGED <<status, holder>> /\ pc[t] = "unlocked"
      /\ promised' = [promised EXCEPT ![u] = "NORMAL"]
      /\ doubtful' = [doubtful EXCEPT ![u] = tainted[t]]
      /\ tainted' = [tainted EXCEPT ![t] = FALSE]
      /\ pc'[t] = "idle" /\ ~inTx'[t]
  BY <1>1 DEF UnlockAnswer, At, Finish, rowVars
<1>3. \A x \in Threads : x # t => /\ pc'[x] = pc[x] /\ who'[x] = who[x]
                                  /\ inTx'[x] = inTx[x] /\ prior'[x] = prior[x]
  BY OthersStay DEF By, Work
<1>4. \A x \in Threads : inTx[x] /\ who[x] = u => tainted[x]
  BY <1>1, <1>2 DEF OverlapSeen, UnlockPlaces
<1>5. ~tainted[t] => status[u] = "NORMAL"
  BY <1>1, <1>2 DEF UnlockDone
<1>6. StatusAsPromised'
  <2> SUFFICES ASSUME NEW v \in Users, holder'[v] = Free, ~doubtful'[v],
                      \A x \in Threads : ~(who'[x] = v /\ pc'[x] = "unlocked")
               PROVE  status'[v] = promised'[v]
    BY DEF StatusAsPromised, At
  <2>1. CASE v = u
    BY <1>2, <1>5, <2>1
  <2>2. CASE v # u
    <3>1. \A x \in Threads : ~(who[x] = v /\ pc[x] = "unlocked")
      BY <1>1, <1>3, <2>2
    <3> QED BY <1>2, <2>2, <3>1 DEF StatusAsPromised, At
  <2> QED BY <2>1, <2>2
<1>7. UndoKnown'
  BY <1>2, <1>3, <1>4 DEF UndoKnown
<1>8. UnlockDone'
  BY <1>2, <1>3 DEF UnlockDone
<1>9. OverlapSeen'
  BY <1>2, <1>3 DEF OverlapSeen, UnlockPlaces
<1> QED BY <1>6, <1>7, <1>8, <1>9

LEMMA LockEndKeepsWord ==
  ASSUME Types, WordInv, NEW t \in Threads, Commit(t) \/ Rollback(t)
  PROVE  WordInv'
<1> USE DEF Types, RowTypes, ThreadTypes, HistTypes, AtWork, WordInv
<1>1. inTx[t] /\ who[t] \in Users /\ pc[t] \in {"commit", "rollback"}
  BY DEF Commit, Rollback, At
<1>2. PICK u \in Users : u = who[t]
  BY <1>1
<1>3. /\ tainted' = [tainted EXCEPT ![t] = FALSE] /\ pc'[t] = "idle" /\ ~inTx'[t]
  BY DEF Commit, Rollback, Finish
<1>4. \A x \in Threads : x # t => /\ pc'[x] = pc[x] /\ who'[x] = who[x]
                                  /\ inTx'[x] = inTx[x] /\ prior'[x] = prior[x]
  BY OthersStay DEF By, Work
<1>5. \A x \in Threads : x # t /\ inTx[x] => who[x] # u
  BY <1>1, <1>2
<1>6. \A v \in Users : v # u => /\ status'[v] = status[v] /\ holder'[v] = holder[v]
                                /\ promised'[v] = promised[v] /\ doubtful'[v] = doubtful[v]
  BY <1>2 DEF Commit, Rollback, rowVars
<1>7. \/ holder'[u] # Free
      \/ doubtful'[u] \/ status'[u] = promised'[u]
  <2>1. CASE Commit(t)
    BY <1>1, <1>2, <2>1 DEF Commit, UndoKnown, rowVars
  <2>2. CASE Rollback(t)
    BY <1>1, <1>2, <2>2 DEF Rollback, UndoKnown
  <2> QED BY <2>1, <2>2
<1>8. StatusAsPromised'
  <2> SUFFICES ASSUME NEW v \in Users, v # u, holder'[v] = Free, ~doubtful'[v],
                      \A x \in Threads : ~(who'[x] = v /\ pc'[x] = "unlocked")
               PROVE  status'[v] = promised'[v]
    BY <1>7 DEF StatusAsPromised, At
  <2>1. \A x \in Threads : ~(who[x] = v /\ pc[x] = "unlocked")
    BY <1>2, <1>4
  <2> QED BY <1>6, <2>1 DEF StatusAsPromised, At
<1>9. UndoKnown'
  <2> SUFFICES ASSUME NEW x \in Threads, inTx'[x], ~tainted'[x]
               PROVE  /\ status'[who'[x]] = "LOCKED"
                      /\ doubtful'[who'[x]] \/ prior'[x].status = promised'[who'[x]]
    BY DEF UndoKnown
  <2>1. /\ x # t /\ inTx[x] /\ who'[x] = who[x] /\ prior'[x] = prior[x] /\ ~tainted[x]
        /\ who[x] # u /\ who[x] \in Users
    BY <1>3, <1>4, <1>5 DEF TxPlaces, LogoutPlaces
  <2> QED BY <1>6, <2>1 DEF UndoKnown
<1>10. UnlockDone'
  <2> SUFFICES ASSUME NEW x \in Threads, pc'[x] = "unlocked", ~tainted'[x]
               PROVE  status'[who'[x]] = "NORMAL"
    BY DEF UnlockDone
  <2>1. x # t /\ pc[x] = "unlocked" /\ who'[x] = who[x] /\ ~tainted[x] /\ who[x] \in Users
    BY <1>3, <1>4
  <2>2. who[x] # u
    BY <1>1, <1>2, <2>1 DEF OverlapSeen, UnlockPlaces
  <2> QED BY <1>6, <2>1, <2>2 DEF UnlockDone
<1>11. OverlapSeen'
  BY <1>3, <1>4 DEF OverlapSeen, UnlockPlaces
<1> QED BY <1>8, <1>9, <1>10, <1>11

LEMMA DeathKeepsWord ==
  ASSUME Types, WordInv, NEW t \in Threads, Dies(t)
  PROVE  WordInv'
<1> USE DEF Types, RowTypes, ThreadTypes, HistTypes, AtWork, WordInv
<1>1. PICK u \in Users : u = who[t]
  BY DEF Dies
<1>2. \A x \in Threads : x # t => /\ pc'[x] = pc[x] /\ who'[x] = who[x]
                                  /\ inTx'[x] = inTx[x] /\ prior'[x] = prior[x]
  BY OthersStay DEF By
<1>3. UNCHANGED <<status, holder, promised>>
  BY DEF Dies, rowVars
<1>4. /\ doubtful' = IF pc[t] = "unlocked" THEN [doubtful EXCEPT ![u] = TRUE] ELSE doubtful
      /\ tainted' = IF inTx[t] THEN tainted ELSE [tainted EXCEPT ![t] = FALSE]
  BY <1>1 DEF Dies, At
<1>5. /\ inTx[t] => pc'[t] = "rollback" /\ UNCHANGED <<who, inTx, prior>>
      /\ ~inTx[t] => pc'[t] = "idle" /\ ~inTx'[t]
  BY DEF Dies, Goto, Finish
<1>6. StatusAsPromised'
  <2> SUFFICES ASSUME NEW v \in Users, holder[v] = Free, ~doubtful'[v],
                      \A x \in Threads : ~(who'[x] = v /\ pc'[x] = "unlocked")
               PROVE  status[v] = promised[v]
    BY <1>3 DEF StatusAsPromised, At
  <2>1. ~doubtful[v] /\ ~(pc[t] = "unlocked" /\ v = u)
    BY <1>4
  <2>2. \A x \in Threads : ~(who[x] = v /\ pc[x] = "unlocked")
    BY <1>1, <1>2, <2>1
  <2> QED BY <2>1, <2>2 DEF StatusAsPromised, At
<1>7. UndoKnown'
  <2> SUFFICES ASSUME NEW x \in Threads, inTx'[x], ~tainted'[x]
               PROVE  /\ status[who[x]] = "LOCKED" /\ who'[x] = who[x]
                      /\ doubtful'[who[x]] \/ prior'[x].status = promised[who[x]]
    BY <1>3 DEF UndoKnown
  <2>1. /\ inTx[x] /\ who'[x] = who[x] /\ prior'[x] = prior[x] /\ ~tainted[x]
        /\ who[x] \in Users
    BY <1>2, <1>4, <1>5 DEF TxPlaces, LogoutPlaces
  <2>2. doubtful[who[x]] => doubtful'[who[x]]
    BY <1>4, <2>1
  <2> QED BY <2>1, <2>2 DEF UndoKnown
<1>8. UnlockDone'
  BY <1>2, <1>3, <1>4, <1>5 DEF UnlockDone
<1>9. OverlapSeen'
  BY <1>2, <1>4, <1>5 DEF OverlapSeen, UnlockPlaces
<1> QED BY <1>6, <1>7, <1>8, <1>9

\* Registration, login, logout, gateway and redis.
LEMMA OthersKeepWord ==
  ASSUME Types, WordInv, [Next]_vars,
         ~\E t \in Threads : \/ Commit(t) \/ Rollback(t) \/ UnlockTask(t) \/ UnlockAnswer(t)
                             \/ Dies(t) \/ \E u \in Users : LockWrite(t, u) \/ UnlockBegin(t, u)
  PROVE  WordInv'
<1> USE DEF Types, RowTypes, ThreadTypes, HistTypes, AtWork, At, UnlockPlaces
<1>1. UNCHANGED <<status, holder, wordVars>>
  BY ZenonT(60) DEF Next, Request, RegisterCheck, LoginRead, GatewayGet, LogoutLook, Work,
     RegisterInsert, LoginUpdate, LoginSet, LoginExpire, GatewayRenew, LogoutDelete,
     LogoutUpdate, SessionExpires, vars, rowVars, histVars
<1>2. ASSUME NEW t \in Threads, By(t) PROVE Stays(t)
  <2>1. CASE \E u \in Users : Request(t, u)
    <3>1. PICK u \in Users : RegisterCheck(t, u) \/ LoginRead(t, u) \/ GatewayGet(t, u)
                                 \/ LogoutLook(t, u)
      BY <2>1 DEF Request
    <3>2. UNCHANGED <<inTx, prior>> /\ pc'[t] \notin UnlockPlaces /\ pc[t] # "unlocked"
      BY <3>1 DEF RegisterCheck, LoginRead, GatewayGet, LogoutLook, Begin
    <3>3. inTx[t] => who'[t] = who[t]
      BY <3>1 DEF RegisterCheck, LoginRead, GatewayGet, LogoutLook, Begin, TxPlaces,
         LogoutPlaces
    <3> QED BY <3>2, <3>3 DEF Stays
  <2>2. CASE LogoutUpdate(t)
    <3>1. prior'[t].status = prior[t].status
      BY <2>2 DEF LogoutUpdate
    <3>2. pc[t] = "outUpdate" /\ pc'[t] \in {"commit", "idle"}
      BY <2>2 DEF LogoutUpdate
    <3>3. inTx'[t] => inTx[t] /\ who'[t] = who[t]
      BY <2>2 DEF LogoutUpdate
    <3> QED BY <3>1, <3>2, <3>3 DEF Stays
  <2>3. CASE RegisterInsert(t) \/ LoginExpire(t) \/ GatewayRenew(t)
    BY <2>3 DEF RegisterInsert, LoginExpire, GatewayRenew, Finish, Stays
  <2>4. CASE LoginUpdate(t) \/ LoginSet(t)
    BY <2>4 DEF LoginUpdate, LoginSet, Goto, Stays
  <2>5. CASE LogoutDelete(t)
    BY <2>5 DEF LogoutDelete, Goto, Finish, Stays
  <2> QED BY <1>2, <2>1, <2>2, <2>3, <2>4, <2>5 DEF By, Work
<1>3. \A x \in Threads : Stays(x)
  <2>1. CASE \E t \in Threads : By(t)
    BY <1>2, <2>1, OthersStay DEF Stays
  <2>2. CASE UNCHANGED vars \/ \E u \in Users : SessionExpires(u)
    BY <2>2, NobodyMoves DEF threadVars, Stays
  <2> QED BY <2>1, <2>2 DEF Next, By
<1> QED BY <1>1, <1>3, WordsQuiet

\* Locking is all or nothing: with no lock under way or stuck and no unlock about
\* to answer, the account is in the state the last answered lock or unlock
\* reported, unless a lock and an unlock overlapped, the task of the unlock threw
\* or an unlock died before it could answer.
THEOREM LocksAreAtomic == Spec => []StatusAsPromised
<1>1. Init => WordInv
  BY DEF Init, WordInv, StatusAsPromised, UndoKnown, UnlockDone, OverlapSeen
<1>2. Types /\ WordInv /\ [Next]_vars => (Types /\ WordInv)'
  <2> SUFFICES ASSUME Types, WordInv, [Next]_vars PROVE WordInv'
    BY NextTypes
  <2> QED BY LockKeepsWord, UnlockBeginKeepsWord, UnlockTaskKeepsWord, UnlockAnswerKeepsWord,
             LockEndKeepsWord, DeathKeepsWord, OthersKeepWord
<1>3. WordInv => StatusAsPromised
  BY DEF WordInv
<1> QED BY <1>1, <1>2, <1>3, InitTypes, PTL DEF Spec

-----------------------------------------------------------------------------
(* Logins that nothing overlapped.                                         *)

\* The login of a user overlapped no lock and no logout: the account is NORMAL
\* and nobody is logging it out.
Alone ==
  \A t \in Threads : pc[t] \in LoginPlaces /\ ~crossed[t]
                       => status[who[t]] = "NORMAL" /\ LoggingOut(who[t]) = {}

LEMMA StatusMoves ==
  ASSUME Types, [Next]_vars, NEW u \in Users, status'[u] # status[u]
  PROVE  \E t \in Threads : \/ LockWrite(t, u)
                            \/ who[t] = u /\ (Rollback(t) \/ UnlockTask(t))
<1>1. status' # status
  OBVIOUS
<1>2. \E t \in Threads : \/ Rollback(t) \/ UnlockTask(t)
                         \/ \E v \in Users : LockWrite(t, v)
  BY <1>1, ZenonT(60) DEF Next, Request, RegisterCheck, LoginRead, GatewayGet, LogoutLook,
     UnlockBegin, Work, RegisterInsert, LoginUpdate, LoginSet, LoginExpire, GatewayRenew,
     LogoutDelete, LogoutUpdate, Commit, UnlockAnswer, Dies, SessionExpires, vars, rowVars
<1> QED BY <1>2 DEF Types, RowTypes, LockWrite, Rollback, UnlockTask

\* A thread in a login has just begun it, or was in it and stays crossed.
LEMMA LoginMoves ==
  ASSUME Types, [Next]_vars, NEW t \in Threads, pc'[t] \in LoginPlaces
  PROVE  \/ \E u \in Users : LoginRead(t, u)
         \/ pc[t] \in LoginPlaces /\ who'[t] = who[t] /\ (crossed[t] => crossed'[t])
<1> USE DEF LoginPlaces
<1>1. CASE By(t)
  <2>1. CASE \E u \in Users : Request(t, u)
    BY <2>1 DEF Request, RegisterCheck, GatewayGet, LogoutLook, LockWrite, UnlockBegin, Begin,
       Types, ThreadTypes
  <2>2. CASE LoginUpdate(t) \/ LoginSet(t)
    BY <2>2 DEF LoginUpdate, LoginSet, Goto, At, histVars
  <2>3. CASE Finish(t) \/ Goto(t, "outUpdate") \/ Goto(t, "rollback") \/ Goto(t, "unlocked")
             \/ LogoutUpdate(t)
    BY <2>3 DEF Finish, Goto, LogoutUpdate, Types, ThreadTypes
  <2> QED BY <1>1, <2>1, <2>2, <2>3 DEF By, Work, RegisterInsert, LoginExpire, GatewayRenew,
             LogoutDelete, Commit, Rollback, UnlockTask, UnlockAnswer, Dies
<1>2. CASE \E x \in Threads : x # t /\ By(x)
  <2>1. PICK x \in Threads : x # t /\ By(x)
    BY <1>2
  <2>2. pc'[t] = pc[t] /\ who'[t] = who[t]
    BY <2>1, OthersStay
  <2>3. crossed[t] => crossed'[t]
    <3>1. CASE UNCHANGED crossed
      BY <3>1
    <3>2. CASE \E u \in Users : LoginRead(x, u) \/ Cross(u)
      BY <2>1, <3>2 DEF LoginRead, Cross, Types, HistTypes
    <3>3. CASE LoginExpire(x) \/ Dies(x)
      BY <2>1, <3>3 DEF LoginExpire, Dies, Types, HistTypes
    <3> QED BY <2>1, <3>1, <3>2, <3>3 DEF By, Request, RegisterCheck, GatewayGet, LogoutLook,
               LockWrite, UnlockBegin, Work, RegisterInsert, LoginUpdate, LoginSet,
               GatewayRenew, LogoutDelete, LogoutUpdate, Commit, Rollback, UnlockTask,
               UnlockAnswer, histVars
  <2> QED BY <2>2, <2>3
<1>3. CASE UNCHANGED vars \/ \E u \in Users : SessionExpires(u)
  <2>1. UNCHANGED crossed
    BY <1>3 DEF vars, histVars, SessionExpires
  <2> QED BY <1>3, <2>1, NobodyMoves DEF threadVars
<1> QED BY <1>1, <1>2, <1>3 DEF Next, By

\* Who begins to log a user out crosses the logins under way.
LEMMA LogoutMoves ==
  ASSUME Types, [Next]_vars, NEW u \in Users, NEW x \in Threads,
         x \in LoggingOut(u)', x \notin LoggingOut(u)
  PROVE  Cross(u)
<1> USE DEF LoggingOut, LogoutPlaces
<1>1. CASE By(x)
  <2>1. ASSUME NEW v \in Users, Request(x, v) PROVE Cross(u)
    BY <2>1 DEF Request, RegisterCheck, LoginRead, GatewayGet, LogoutLook, LockWrite,
       UnlockBegin, Begin, At, Types, ThreadTypes, AtWork, TxPlaces
  <2>2. CASE LogoutUpdate(x)
    BY <2>2 DEF LogoutUpdate, Types, ThreadTypes, AtWork, At
  <2>3. CASE LogoutDelete(x)
    BY <2>3 DEF LogoutDelete, Goto, Finish, Types, ThreadTypes, AtWork, At
  <2>4. CASE Finish(x) \/ Goto(x, "loginSet") \/ Goto(x, "loginExpire")
             \/ Goto(x, "rollback") \/ Goto(x, "unlocked")
    BY <2>4 DEF Finish, Goto, Types, ThreadTypes
  <2> QED BY <1>1, <2>1, <2>2, <2>3, <2>4 DEF By, Work, RegisterInsert, LoginUpdate, LoginSet,
             LoginExpire, GatewayRenew, Commit, Rollback, UnlockTask, UnlockAnswer, Dies
<1>2. CASE \E t \in Threads : t # x /\ By(t)
  BY <1>2, OthersStay
<1>3. CASE UNCHANGED vars \/ \E v \in Users : SessionExpires(v)
  BY <1>3, NobodyMoves DEF threadVars
<1> QED BY <1>1, <1>2, <1>3 DEF Next, By

LEMMA AloneKept ==
  ASSUME Types, Alone, [Next]_vars PROVE Alone'
<1> SUFFICES ASSUME NEW t \in Threads, pc'[t] \in LoginPlaces, ~crossed'[t]
             PROVE  status'[who'[t]] = "NORMAL" /\ LoggingOut(who[t])' = {}
  BY DEF Alone
<1>1. ASSUME NEW u \in Users, LoginRead(t, u)
      PROVE  status'[who'[t]] = "NORMAL" /\ LoggingOut(who[t])' = {}
  <2>1. /\ who'[t] = u /\ pc'[t] = "loginUpdate" /\ ~inTx'[t] /\ status'[u] = "NORMAL"
        /\ LoggingOut(u) = {}
    BY <1>1 DEF LoginRead, Begin, At, rowVars, Types, ThreadTypes, HistTypes, AtWork, TxPlaces,
       LogoutPlaces
  <2>2. ASSUME NEW x \in Threads, x # t
        PROVE  pc'[x] = pc[x] /\ who'[x] = who[x] /\ inTx'[x] = inTx[x]
    BY <1>1, <2>2, OthersStay DEF By, Request
  <2> QED BY <2>1, <2>2 DEF LoggingOut, LogoutPlaces
<1>2. ASSUME pc[t] \in LoginPlaces, who'[t] = who[t], crossed[t] => crossed'[t]
      PROVE  status'[who'[t]] = "NORMAL" /\ LoggingOut(who[t])' = {}
  <2> PICK u \in Users : u = who[t]
    BY <1>2 DEF Types, AtWork, LoginPlaces
  <2>1. status[u] = "NORMAL" /\ LoggingOut(u) = {} /\ t \in LoggingIn(u)
    BY <1>2 DEF Alone, Types, AtWork, LoginPlaces, LoggingIn
  <2>2. ~Cross(u)
    BY <2>1 DEF Cross
  <2>3. LoggingOut(u)' = {}
    BY <2>1, <2>2, LogoutMoves DEF LoggingOut
  <2>4. status'[u] = "NORMAL"
    <3>1. ASSUME NEW x \in Threads PROVE ~LockWrite(x, u)
      BY <2>2, <3>1 DEF LockWrite
    <3>2. ASSUME NEW x \in Threads, Rollback(x), who[x] = u PROVE FALSE
      BY <2>1, <3>2 DEF Rollback, At, LoggingOut, Types, AtWork
    <3>3. ASSUME NEW x \in Threads, UnlockTask(x), who[x] = u PROVE status'[u] = "NORMAL"
      BY <2>1, <3>3 DEF UnlockTask, Types, RowTypes
    <3> QED BY <2>1, <3>1, <3>2, <3>3, StatusMoves
  <2> QED BY <1>2, <2>3, <2>4
<1> QED BY <1>1, <1>2, LoginMoves

-----------------------------------------------------------------------------
(* A locked user is out.                                                   *)

\* The user has no session but for an overlap.
Out(u) == session[u] = "none" \/ mixed[u]

\* Places and undo logs that show the user was out: a logout behind its delete, a
\* lock whose logout is through, a lock of what was locked before.
Shown(t) == \/ pc[t] \in {"outUpdate", "commit"}
            \/ inTx[t] /\ (prior[t].status = "LOCKED" \/ prior[t].second)

OutInv == /\ \A t \in Threads : Shown(t) => Out(who[t])
          /\ \A t \in Threads : ~inTx[t] => ~prior[t].second

\* Only a login that nothing overlapped brings a user back.
LEMMA OutUnlessLogin ==
  ASSUME Types, [Next]_vars, NEW u \in Users, Out(u), ~Out(u)'
  PROVE  \E t \in Threads : LoginSet(t) /\ who[t] = u /\ ~crossed[t]
<1> USE DEF Out
<1>1. CASE \E t \in Threads : LoginSet(t)
  <2>1. PICK t \in Threads : LoginSet(t)
    BY <1>1
  <2>2. who[t] \in Users
    BY <2>1 DEF LoginSet, At, Types, AtWork
  <2>3. session \in [Users -> Sessions] /\ mixed \in [Users -> BOOLEAN]
    BY DEF Types, RowTypes, HistTypes
  <2> QED BY <2>1, <2>2, <2>3 DEF LoginSet
<1>2. CASE ~\E t \in Threads : LoginSet(t)
  <2>1. UNCHANGED mixed
    BY <1>2, ZenonT(60) DEF Next, Request, RegisterCheck, LoginRead, GatewayGet, LogoutLook,
       LockWrite, UnlockBegin, Work, RegisterInsert, LoginUpdate, LoginExpire, GatewayRenew,
       LogoutDelete, LogoutUpdate, Commit, Rollback, UnlockTask, UnlockAnswer, Dies,
       SessionExpires, vars, histVars
  <2>2. session[u] = "none" => session'[u] = "none"
    BY <1>2, SessionMoves DEF LoginExpire, GatewayRenew, Timed, LogoutDelete, SessionExpires,
       Types, RowTypes
  <2> QED BY <2>1, <2>2
<1> QED BY <1>1, <1>2

LEMMA OutKept ==
  ASSUME Types, Alone, [Next]_vars, NEW u \in Users, Out(u),
         status[u] = "LOCKED" \/ LoggingOut(u) # {}
  PROVE  Out(u)'
<1>1. ASSUME NEW t \in Threads, LoginSet(t), who[t] = u, ~crossed[t] PROVE FALSE
  BY <1>1 DEF LoginSet, At, Alone, LoginPlaces
<1> QED BY <1>1, OutUnlessLogin

LEMMA ShownStays ==
  ASSUME Types, Alone, OutInv, [Next]_vars, NEW t \in Threads, Shown(t), who'[t] = who[t]
  PROVE  Out(who[t])'
<1> PICK u \in Users : u = who[t]
  BY DEF Shown, Types, AtWork, TxPlaces, LogoutPlaces
<1>1. t \in LoggingOut(u)
  BY DEF Shown, LoggingOut, LogoutPlaces, Types, AtWork
<1>2. Out(u)'
  BY <1>1, OutKept DEF OutInv
<1> QED BY <1>2 DEF Out

LEMMA ShownKept ==
  ASSUME Types, Alone, OutInv, LockKeepsOut, [Next]_vars, NEW t \in Threads, Shown(t)'
  PROVE  Out(who[t])'
<1>1. ASSUME Shown(t), who'[t] = who[t] PROVE Out(who[t])'
  BY <1>1, ShownStays
<1>2. CASE By(t)
  <2>1. ASSUME NEW u \in Users, LockWrite(t, u) PROVE Out(who[t])'
    <3>1. /\ ~inTx[t] /\ who'[t] = u /\ pc'[t] = "outLook" /\ prior'[t].status = status[u]
          /\ ~prior'[t].second /\ holder[u] = Free /\ UNCHANGED <<session, mixed>>
      BY <2>1 DEF LockWrite, Begin, At, OutInv, Types, ThreadTypes, AtWork, TxPlaces,
         LogoutPlaces
    <3>2. status[u] = "LOCKED"
      BY <3>1 DEF Shown
    <3> QED BY <3>1, <3>2 DEF LockKeepsOut, Out
  <2>2. ASSUME NEW u \in Users, LogoutLook(t, u) PROVE Out(who[t])'
    <3>1. /\ who'[t] = u /\ inTx'[t] = inTx[t] /\ prior'[t] = prior[t]
          /\ inTx[t] => who[t] = u
          /\ pc'[t] = "outUpdate" => session[u] = "none"
          /\ pc'[t] # "commit"
          /\ UNCHANGED session
      BY <2>2 DEF LogoutLook, Begin, At, Types, ThreadTypes, AtWork, TxPlaces, LogoutPlaces
    <3> QED BY <1>1, <3>1 DEF Shown, Out
  <2>3. CASE LogoutDelete(t)
    <3>1. Finish(t) => ~Shown(t)'
      BY DEF Finish, Shown, Types, ThreadTypes
    <3>2. who'[t] = who[t] /\ who[t] \in Users
      BY <2>3, <3>1 DEF LogoutDelete, Goto, At, Types, AtWork
    <3> QED BY <2>3, <3>2 DEF LogoutDelete, Out, Types, RowTypes
  <2>4. CASE LogoutUpdate(t)
    BY <1>1, <2>4 DEF LogoutUpdate, Shown, At, Types, ThreadTypes
  <2>5. ASSUME NEW u \in Users, \/ RegisterCheck(t, u) \/ LoginRead(t, u)
                                \/ GatewayGet(t, u) \/ UnlockBegin(t, u)
        PROVE  FALSE
    BY <2>5 DEF RegisterCheck, LoginRead, GatewayGet, UnlockBegin, Begin, At, Shown, Types,
       ThreadTypes, AtWork, TxPlaces, LogoutPlaces
  <2>6. CASE Finish(t)
    BY <2>6 DEF Finish, Shown, Types, ThreadTypes
  <2>7. CASE Goto(t, "loginSet") \/ Goto(t, "loginExpire") \/ Goto(t, "rollback")
             \/ Goto(t, "unlocked")
    BY <1>1, <2>7 DEF Goto, Shown, Types, ThreadTypes
  <2> QED BY <1>2, <2>1, <2>2, <2>3, <2>4, <2>5, <2>6, <2>7 DEF By, Request, Work,
             RegisterInsert, LoginUpdate, LoginSet, LoginExpire, GatewayRenew, Commit, Rollback,
             UnlockTask, UnlockAnswer, Dies
<1>3. CASE \E x \in Threads : x # t /\ By(x)
  BY <1>1, <1>3, OthersStay DEF Shown
<1>4. CASE UNCHANGED vars \/ \E u \in Users : SessionExpires(u)
  BY <1>1, <1>4, NobodyMoves DEF Shown, threadVars
<1> QED BY <1>2, <1>3, <1>4 DEF Next, By

LEMMA OutInvKept ==
  ASSUME Types, Alone, OutInv, LockKeepsOut, [Next]_vars PROVE OutInv'
<1>1. ASSUME NEW t \in Threads, ~inTx'[t] PROVE ~prior'[t].second
  <2>1. CASE By(t)
    <3>1. ASSUME NEW u \in Users, Request(t, u) PROVE ~inTx[t] /\ prior'[t] = prior[t]
      BY <1>1, <3>1 DEF Request, RegisterCheck, LoginRead, GatewayGet, LogoutLook, LockWrite,
         UnlockBegin, Types, ThreadTypes
    <3>2. CASE Finish(t)
      BY <3>2 DEF Finish, NoPrior, Types, ThreadTypes
    <3>3. CASE LogoutUpdate(t) \/ \E p \in Places : Goto(t, p)
      BY <1>1, <3>3 DEF LogoutUpdate, Goto, OutInv
    <3>4. {"loginSet", "loginExpire", "outUpdate", "rollback", "unlocked"} \subseteq Places
      BY DEF Places, LoginPlaces, LogoutPlaces, UnlockPlaces
    <3> QED BY <2>1, <3>1, <3>2, <3>3, <3>4 DEF OutInv, By, Work, RegisterInsert, LoginUpdate,
               LoginSet, LoginExpire, GatewayRenew, LogoutDelete, Commit, Rollback, UnlockTask,
               UnlockAnswer, Dies
  <2>2. CASE \E x \in Threads : x # t /\ By(x)
    BY <1>1, <2>2, OthersStay DEF OutInv
  <2>3. CASE UNCHANGED vars \/ \E u \in Users : SessionExpires(u)
    BY <1>1, <2>3, NobodyMoves DEF OutInv, threadVars
  <2> QED BY <2>1, <2>2, <2>3 DEF Next, By
<1> QED BY <1>1, ShownKept DEF OutInv

LEMMA LockKeepsOutKept ==
  ASSUME Types, Alone, OutInv, LockKeepsOut, [Next]_vars PROVE LockKeepsOut'
<1> SUFFICES ASSUME NEW u \in Users, status'[u] = "LOCKED", holder'[u] = Free
             PROVE  Out(u)'
  BY DEF LockKeepsOut, Out
<1>1. ASSUME NEW t \in Threads, Commit(t) \/ Rollback(t), who[t] = u PROVE Out(u)'
  <2>1. Shown(t) /\ inTx[t]
    BY <1>1 DEF Commit, Rollback, Shown, At, Types, RowTypes, AtWork
  <2>2. t \in LoggingOut(u) /\ Out(u)
    BY <1>1, <2>1 DEF OutInv, LoggingOut
  <2> QED BY <2>2, OutKept
<1>2. CASE status[u] = "LOCKED" /\ holder[u] = Free
  BY <1>2, OutKept DEF LockKeepsOut, Out
<1>3. CASE /\ ~\E t \in Threads : (Commit(t) \/ Rollback(t)) /\ who[t] = u
           /\ ~(status[u] = "LOCKED" /\ holder[u] = Free)
  <2>1. ASSUME NEW t \in Threads, LockWrite(t, u) PROVE FALSE
    BY <2>1 DEF LockWrite, Types, RowTypes
  <2>2. status[u] = "LOCKED"
    BY <1>3, <2>1, StatusMoves DEF UnlockTask, Types, RowTypes
  <2>3. holder'[u] = holder[u]
    <3>1. \/ UNCHANGED holder
          \/ \E t \in Threads : Commit(t) \/ Rollback(t) \/ \E v \in Users : LockWrite(t, v)
      BY ZenonT(60) DEF Next, Request, RegisterCheck, LoginRead, GatewayGet, LogoutLook,
         UnlockBegin, Work, RegisterInsert, LoginUpdate, LoginSet, LoginExpire, GatewayRenew,
         LogoutDelete, LogoutUpdate, UnlockTask, UnlockAnswer, Dies, SessionExpires, vars
    <3> QED BY <1>3, <2>1, <3>1 DEF Commit, Rollback, LockWrite, Types, RowTypes
  <2> QED BY <1>3, <2>2, <2>3
<1> QED BY <1>1, <1>2, <1>3

LockInv == Types /\ Alone /\ OutInv /\ LockKeepsOut

LEMMA LockInvHolds == Spec => []LockInv
<1>1. Init => LockInv
  BY InitTypes DEF Init, LockInv, Alone, OutInv, Shown, LockKeepsOut, LoginPlaces, NoPrior
<1>2. LockInv /\ [Next]_vars => LockInv'
  BY NextTypes, AloneKept, OutInvKept, LockKeepsOutKept DEF LockInv
<1> QED BY <1>1, <1>2, PTL DEF Spec

\* Locking throws the user out: an account locked for good has a session only if
\* the login that set it overlapped a lock or a logout.
THEOREM LockedUsersAreOut == Spec => []LockKeepsOut
<1>1. LockInv => LockKeepsOut
  BY DEF LockInv
<1> QED BY <1>1, LockInvHolds, PTL

-----------------------------------------------------------------------------
(* A user with a session is shown online.                                  *)

Updated == \A t \in Threads : pc[t] \in {"loginSet", "loginExpire"} /\ ~crossed[t]
                                => online[who[t]]

\* Only who shows that the user was out writes OFFLINE.
LEMMA OfflineMoves ==
  ASSUME Types, [Next]_vars, NEW u \in Users, online[u], ~online'[u]
  PROVE  \E t \in Threads : Shown(t) /\ who[t] = u /\ t \in LoggingOut(u)
<1>1. online' # online
  OBVIOUS
<1>2. \E t \in Threads : LoginUpdate(t) \/ LogoutUpdate(t) \/ Rollback(t)
  BY <1>1 DEF Next, Request, RegisterCheck, LoginRead, GatewayGet, LogoutLook, LockWrite,
     UnlockBegin, Work, RegisterInsert, LoginSet, LoginExpire, GatewayRenew, LogoutDelete,
     Commit, UnlockTask, UnlockAnswer, Dies, SessionExpires, vars, rowVars
<1>3. ASSUME NEW t \in Threads, LoginUpdate(t) PROVE FALSE
  BY <1>3 DEF LoginUpdate, At, Types, RowTypes, AtWork
<1>4. ASSUME NEW t \in Threads, LogoutUpdate(t)
      PROVE  Shown(t) /\ who[t] = u /\ t \in LoggingOut(u)
  BY <1>4 DEF LogoutUpdate, At, Types, RowTypes, Shown, LoggingOut, LogoutPlaces
<1>5. ASSUME NEW t \in Threads, Rollback(t)
      PROVE  Shown(t) /\ who[t] = u /\ t \in LoggingOut(u)
  BY <1>5 DEF Rollback, BackOnline, At, Types, RowTypes, AtWork, Shown, LoggingOut
<1> QED BY <1>2, <1>3, <1>4, <1>5

LEMMA OnlineKept ==
  ASSUME LockInv, Updated, OnlineShown, [Next]_vars PROVE Updated' /\ OnlineShown'
<1> USE DEF LockInv
<1>1. ASSUME NEW t \in Threads, pc'[t] \in {"loginSet", "loginExpire"}, ~crossed'[t]
      PROVE  online'[who'[t]]
  <2>1. pc[t] \in LoginPlaces /\ who'[t] = who[t] /\ ~crossed[t] /\ who[t] \in Users
    BY <1>1, LoginMoves DEF LoginRead, Begin, LoginPlaces, Types, ThreadTypes, AtWork
  <2>2. CASE LoginUpdate(t)
    BY <2>1, <2>2 DEF LoginUpdate, Types, RowTypes
  <2>3. CASE ~LoginUpdate(t)
    <3>1. pc[t] # "loginUpdate"
      <4>1. CASE By(t)
        BY <1>1, <2>1, <2>3, <4>1 DEF By, Request, RegisterCheck, LoginRead, GatewayGet,
           LogoutLook, LockWrite, UnlockBegin, Begin, Work, RegisterInsert, LoginSet,
           LoginExpire, GatewayRenew, LogoutDelete, LogoutUpdate, Commit, Rollback, UnlockTask,
           UnlockAnswer, Dies, Finish, Goto, At, Types, ThreadTypes
      <4>2. CASE \E x \in Threads : x # t /\ By(x)
        BY <1>1, <4>2, OthersStay
      <4>3. CASE UNCHANGED vars \/ \E u \in Users : SessionExpires(u)
        BY <1>1, <4>3, NobodyMoves DEF threadVars
      <4> QED BY <4>1, <4>2, <4>3 DEF Next, By
    <3>2. online[who[t]] /\ LoggingOut(who[t]) = {}
      BY <2>1, <3>1 DEF Updated, Alone, LoginPlaces
    <3> QED BY <2>1, <3>2, OfflineMoves
  <2> QED BY <2>2, <2>3
<1>2. ASSUME NEW u \in Users, ~Out(u)' PROVE online'[u]
  <2>1. ASSUME NEW t \in Threads, LoginSet(t), who[t] = u, ~crossed[t] PROVE online'[u]
    BY <2>1 DEF LoginSet, At, Updated, rowVars
  <2>2. CASE ~Out(u)
    <3>1. online[u]
      BY <2>2 DEF Out, OnlineShown
    <3> QED BY <2>2, <3>1, OfflineMoves DEF OutInv
  <2> QED BY <1>2, <2>1, <2>2, OutUnlessLogin
<1> QED BY <1>1, <1>2 DEF Updated, OnlineShown, Out

\* Whoever has a session is shown ONLINE, unless login and logout overlapped.
THEOREM SessionsAreOnline == Spec => []OnlineShown
<1>1. Init => Updated /\ OnlineShown
  BY DEF Init, Updated, OnlineShown
<1>2. LockInv /\ Updated /\ OnlineShown /\ [Next]_vars => (Updated /\ OnlineShown)'
  BY OnlineKept
<1> QED BY <1>1, <1>2, LockInvHolds, PTL DEF Spec
=============================================================================

------------------------------ MODULE Accounts ------------------------------
(***************************************************************************)
(* Accounts of fish-user (UserServiceImpl): rows of f_user in MySQL and    *)
(* sessions in redis under fish:user:<name>, used by login and logout, by  *)
(* the gateway filter that admits a request and renews the session, and by *)
(* fish-ums, which locks an account in a Seata global transaction over two *)
(* calls of fish-user (save, logout) and unlocks accounts in a batch that  *)
(* runs outside of it.                                                     *)
(*                                                                         *)
(* A thread is one request; each call to MySQL or redis is a step.  The    *)
(* row of a user is what the code branches on: how many there are, account *)
(* status, online status.  A request that is refused changes nothing and   *)
(* is not a step.                                                          *)
(***************************************************************************)
EXTENDS Integers, FiniteSets

CONSTANTS Users,      \* user names
          Threads,    \* request threads of fish-user, and of fish-ums above it
          Free,       \* a row no global transaction holds
          Stuck,      \* holder of a row whose rollback Seata refuses
          MaxFaults   \* bound: crashes and failed calls in one behaviour

ASSUME HoldersAssumption == Free \notin Threads /\ Stuck \notin Threads /\ Free # Stuck
ASSUME FaultsAssumption == MaxFaults \in Nat

VARIABLES
  rows,     \* rows[u]: rows of f_user with this username and del_flag 0
  status,   \* status[u]: account_status, "NORMAL" or "LOCKED"
  online,   \* online[u]: online_status = ONLINE
  session,  \* session[u]: the bucket fish:user:u, see Sessions
  holder,   \* holder[u]: the global transaction that holds the row
  pc, who,  \* threads: place, user the request is about
  inTx,     \* is the thread in the global transaction ums-lock-account?
  prior,    \* undo log of the thread's transaction: status before its first
            \* branch (save), online before its second (logout), if it got there
  touched,  \* did anybody else write the row since the transaction did?
  crossed,  \* did this login overlap a logout or a lock of the user? (history)
  mixed,    \* mixed[u]: was the session set by such a login? (history)
  left,     \* left[u]: did a login die between set and expire? (history)
  promised, \* promised[u]: status the last lock or unlock of u that was answered
            \* with success says the account has (history)
  tainted,  \* did this lock overlap an unlock of the user, or this unlock a lock,
            \* or did its task throw? (history)
  doubtful, \* doubtful[u]: was the last lock or unlock of u tainted? (history)
  faults

rowVars    == <<rows, status, online>>
threadVars == <<pc, who, inTx, prior>>
wordVars   == <<promised, tainted, doubtful>>
histVars   == <<crossed, mixed, left, wordVars>>
vars == <<rowVars, session, holder, threadVars, touched, histVars, faults>>

Sessions == {"none", "untimed", "timed"}
NoUser == "nobody"
NoPrior == [status |-> "NORMAL", online |-> FALSE, second |-> FALSE]

LoginPlaces  == {"loginUpdate", "loginSet", "loginExpire"}
LogoutPlaces == {"outLook", "outDelete", "outUpdate"}
UnlockPlaces == {"unlock", "unlocked"}
Places == {"idle", "insert", "renew", "commit", "rollback"}
            \cup LoginPlaces \cup LogoutPlaces \cup UnlockPlaces

Init ==
  /\ rows = [u \in Users |-> 0]
  /\ status = [u \in Users |-> "NORMAL"]
  /\ online = [u \in Users |-> FALSE]
  /\ session = [u \in Users |-> "none"]
  /\ holder = [u \in Users |-> Free]
  /\ pc = [t \in Threads |-> "idle"]
  /\ who = [t \in Threads |-> NoUser]
  /\ inTx = [t \in Threads |-> FALSE]
  /\ prior = [t \in Threads |-> NoPrior]
  /\ touched = [t \in Threads |-> FALSE]
  /\ crossed = [t \in Threads |-> FALSE]
  /\ mixed = [u \in Users |-> FALSE]
  /\ left = [u \in Users |-> FALSE]
  /\ promised = [u \in Users |-> "NORMAL"]
  /\ tainted = [t \in Threads |-> FALSE]
  /\ doubtful = [u \in Users |-> FALSE]
  /\ faults = 0

At(t, place) == pc[t] = place
Begin(t, u, place) == /\ pc' = [pc EXCEPT ![t] = place]
                      /\ who' = [who EXCEPT ![t] = u]
Goto(t, place) == /\ pc' = [pc EXCEPT ![t] = place]
                  /\ UNCHANGED <<who, inTx, prior>>

\* The request is answered and its locals are gone.
Finish(t) == /\ pc' = [pc EXCEPT ![t] = "idle"]
             /\ who' = [who EXCEPT ![t] = NoUser]
             /\ inTx' = [inTx EXCEPT ![t] = FALSE]
             /\ prior' = [prior EXCEPT ![t] = NoPrior]

Fault == faults < MaxFaults /\ faults' = faults + 1

\* selectOne finds the user; with two rows it throws TooManyResultsException.
Found(u) == rows[u] = 1

\* Every update fills update_time, which the undo log compares.
Touch(t, u) == touched' = [x \in Threads |->
                 touched[x] \/ (x # t /\ inTx[x] /\ who[x] = u)]

LoggingIn(u)  == {t \in Threads : who[t] = u /\ pc[t] \in LoginPlaces}
LoggingOut(u) == {t \in Threads : who[t] = u /\ (inTx[t] \/ pc[t] \in LogoutPlaces)}

\* A logout or a lock of u begins: the logins under way overlap it.
Cross(u) == crossed' = [t \in Threads |-> crossed[t] \/ t \in LoggingIn(u)]

Locking(u)   == {t \in Threads : who[t] = u /\ inTx[t]}
Unlocking(u) == {t \in Threads : who[t] = u /\ pc[t] \in UnlockPlaces}

\* A lock or an unlock begins while the others are under way.
Taint(t, others) == tainted' = [x \in Threads |-> IF x = t THEN others # {}
                                  ELSE tainted[x] \/ x \in others]

-----------------------------------------------------------------------------
(* register: check, then insert; no unique key on username in ddl/init.sql *)

RegisterCheck(t, u) ==
  /\ At(t, "idle") /\ rows[u] = 0
  /\ Begin(t, u, "insert")
  /\ UNCHANGED <<rowVars, session, holder, inTx, prior, touched, histVars, faults>>

RegisterInsert(t) ==
  /\ At(t, "insert")
  /\ rows' = [rows EXCEPT ![who[t]] = @ + 1]
  /\ Finish(t)
  /\ UNCHANGED <<status, online, session, holder, touched, histVars, faults>>

-----------------------------------------------------------------------------
(* login                                                                   *)

\* Faulty variant: the LOCKED status is not looked at.
LoginReadAnyStatus(t, u) ==
  /\ At(t, "idle") /\ Found(u)
  /\ Begin(t, u, "loginUpdate")
  /\ crossed' = [crossed EXCEPT ![t] = LoggingOut(u) # {}]
  /\ UNCHANGED <<rowVars, session, holder, inTx, prior, touched, mixed,
                 left, wordVars, faults>>

\* The row is read; an account that is not NORMAL is refused.
LoginRead(t, u) ==
  /\ At(t, "idle") /\ Found(u) /\ status[u] = "NORMAL"
  /\ Begin(t, u, "loginUpdate")
  /\ crossed' = [crossed EXCEPT ![t] = LoggingOut(u) # {}]
  /\ UNCHANGED <<rowVars, session, holder, inTx, prior, touched, mixed,
                 left, wordVars, faults>>

\* updateById(ONLINE): no global transaction, so no global lock is asked for.
LoginUpdate(t) ==
  /\ At(t, "loginUpdate")
  /\ online' = [online EXCEPT ![who[t]] = TRUE]
  /\ Touch(t, who[t])
  /\ Goto(t, "loginSet")
  /\ UNCHANGED <<rows, status, session, holder, histVars, faults>>

\* bucket.set(user) drops whatever time to live the bucket had.
LoginSet(t) ==
  /\ At(t, "loginSet")
  /\ session' = [session EXCEPT ![who[t]] = "untimed"]
  /\ mixed' = [mixed EXCEPT ![who[t]] = crossed[t]]
  /\ Goto(t, "loginExpire")
  /\ UNCHANGED <<rowVars, holder, touched, crossed, left, wordVars, faults>>

\* EXPIRE does nothing to a key that is gone.
Timed(u) == session' = [session EXCEPT ![u] = IF @ = "none" THEN "none" ELSE "timed"]

LoginExpire(t) ==
  /\ At(t, "loginExpire")
  /\ Timed(who[t])
  /\ crossed' = [crossed EXCEPT ![t] = FALSE]
  /\ Finish(t)
  /\ UNCHANGED <<rowVars, holder, touched, mixed, left, wordVars, faults>>

-----------------------------------------------------------------------------
(* The gateway filter: get, refuse without a session, expire, forward.     *)

GatewayGet(t, u) ==
  /\ At(t, "idle") /\ session[u] # "none"
  /\ Begin(t, u, "renew")
  /\ UNCHANGED <<rowVars, session, holder, inTx, prior, touched, histVars, faults>>

\* Faulty variant: the filter writes the user back instead of renewing the key.
RenewBySet(t) ==
  /\ At(t, "renew")
  /\ session' = [session EXCEPT ![who[t]] = "untimed"]
  /\ Finish(t)
  /\ UNCHANGED <<rowVars, holder, touched, histVars, faults>>

GatewayRenew(t) ==
  /\ At(t, "renew")
  /\ Timed(who[t])
  /\ Finish(t)
  /\ UNCHANGED <<rowVars, holder, touched, histVars, faults>>

SessionExpires(u) ==
  /\ session[u] = "timed"
  /\ session' = [session EXCEPT ![u] = "none"]
  /\ UNCHANGED <<rowVars, holder, threadVars, touched, histVars, faults>>

-----------------------------------------------------------------------------
(* logout, of a user or as the second call of lockAccount                  *)

\* selectOneByUsername, then bucket.get(): a session that is there is deleted.
LogoutLook(t, u) ==
  /\ Found(u)
  /\ \/ At(t, "idle") /\ Cross(u)
     \/ At(t, "outLook") /\ who[t] = u /\ UNCHANGED crossed
  /\ Begin(t, u, IF session[u] = "none" THEN "outUpdate" ELSE "outDelete")
  /\ UNCHANGED <<rowVars, session, holder, inTx, prior, touched, mixed,
                 left, wordVars, faults>>

\* Faulty variant: a cached session is only marked, never deleted.
LogoutDeleteNothing(t) ==
  /\ At(t, "outDelete")
  /\ Goto(t, "outUpdate")
  /\ UNCHANGED <<rowVars, session, holder, touched, histVars, faults>>

\* delete() answers false when the key is gone by now; that is an error, and a
\* lockAccount under way rolls back.
LogoutDelete(t) ==
  /\ At(t, "outDelete")
  /\ session' = [session EXCEPT ![who[t]] = "none"]
  /\ IF session[who[t]] # "none" THEN Goto(t, "outUpdate")
     ELSE IF inTx[t] THEN Goto(t, "rollback") ELSE Finish(t)
  /\ UNCHANGED <<rowVars, holder, touched, histVars, faults>>

LogoutUpdate(t) ==
  /\ At(t, "outUpdate")
  /\ prior' = IF inTx[t] THEN [prior EXCEPT ![t].online = online[who[t]],
                                            ![t].second = TRUE]
              ELSE prior
  /\ online' = [online EXCEPT ![who[t]] = FALSE]
  /\ Touch(t, who[t])
  /\ pc' = [pc EXCEPT ![t] = IF inTx[t] THEN "commit" ELSE "idle"]
  /\ who' = [who EXCEPT ![t] = IF inTx[t] THEN @ ELSE NoUser]
  /\ UNCHANGED <<rows, status, session, holder, inTx, histVars, faults>>

-----------------------------------------------------------------------------
(* fish-ums: lockAccount and unlockAccount                                 *)

\* Faulty variant: a row another transaction holds is written all the same.
LockWriteUnasked(t, u) ==
  /\ At(t, "idle") /\ Found(u)
  /\ holder' = [holder EXCEPT ![u] = t]
  /\ prior' = [prior EXCEPT ![t].status = status[u]]
  /\ status' = [status EXCEPT ![u] = "LOCKED"]
  /\ inTx' = [inTx EXCEPT ![t] = TRUE]
  /\ Touch(t, u) /\ Cross(u) /\ Taint(t, Unlocking(u))
  /\ Begin(t, u, "outLook")
  /\ UNCHANGED <<rows, online, session, mixed, left, promised, doubtful, faults>>

\* The transaction begins; its first branch saves LOCKED and takes the global
\* lock of the row.  A row another transaction holds ends the request.
LockWrite(t, u) ==
  /\ At(t, "idle") /\ Found(u) /\ holder[u] = Free
  /\ holder' = [holder EXCEPT ![u] = t]
  /\ prior' = [prior EXCEPT ![t].status = status[u]]
  /\ status' = [status EXCEPT ![u] = "LOCKED"]
  /\ inTx' = [inTx EXCEPT ![t] = TRUE]
  /\ Touch(t, u) /\ Cross(u) /\ Taint(t, Unlocking(u))
  /\ Begin(t, u, "outLook")
  /\ UNCHANGED <<rows, online, session, mixed, left, promised, doubtful, faults>>

\* Both calls succeeded, lockAccount answers that the account is locked.
Commit(t) ==
  /\ At(t, "commit")
  /\ holder' = [holder EXCEPT ![who[t]] = Free]
  /\ promised' = [promised EXCEPT ![who[t]] = "LOCKED"]
  /\ doubtful' = [doubtful EXCEPT ![who[t]] = tainted[t]]
  /\ tainted' = [tainted EXCEPT ![t] = FALSE]
  /\ touched' = [touched EXCEPT ![t] = FALSE]
  /\ Finish(t)
  /\ UNCHANGED <<rowVars, session, crossed, mixed, left, faults>>

\* Faulty variant: an error answer of logout is taken for success.
RollbackNothing(t) ==
  /\ At(t, "rollback")
  /\ holder' = [holder EXCEPT ![who[t]] = Free]
  /\ touched' = [touched EXCEPT ![t] = FALSE]
  /\ Finish(t)
  /\ tainted' = [tainted EXCEPT ![t] = FALSE]
  /\ UNCHANGED <<rowVars, session, crossed, mixed, left, promised, doubtful, faults>>

\* What the transaction wrote is still there.
AsLeft(t, u) == status[u] = "LOCKED" /\ (prior[t].second => ~online[u])

BackOnline(t, u) == [online EXCEPT ![u] = IF prior[t].second THEN prior[t].online ELSE @]

\* Seata undoes the branches, last one first, if the row is as they left it.  A
\* row others wrote since is undone only if they left no trace (update_time has
\* seconds); else the rollback is refused for ever and the row stays held.
Rollback(t) ==
  LET u == who[t]
  IN  /\ At(t, "rollback")
      /\ \/ /\ AsLeft(t, u)
            /\ status' = [status EXCEPT ![u] = prior[t].status]
            /\ online' = BackOnline(t, u)
            /\ holder' = [holder EXCEPT ![u] = Free]
         \/ /\ touched[t]
            /\ online' \in {online, BackOnline(t, u)}
            /\ holder' = [holder EXCEPT ![u] = Stuck]
            /\ UNCHANGED status
      /\ doubtful' = [doubtful EXCEPT ![u] = @ \/ tainted[t]]
      /\ tainted' = [tainted EXCEPT ![t] = FALSE]
      /\ touched' = [touched EXCEPT ![t] = FALSE]
      /\ Finish(t)
      /\ UNCHANGED <<rows, session, crossed, mixed, left, promised, faults>>

\* unlockAccount hands its users to batchSaveUser, a virtual thread for each; a
\* request here is about one of them.  Its transaction has no branch: the
\* threads run outside of it.
UnlockBegin(t, u) ==
  /\ At(t, "idle")
  /\ Begin(t, u, "unlock")
  /\ Taint(t, Locking(u))
  /\ UNCHANGED <<rowVars, session, holder, inTx, prior, touched, crossed, mixed, left,
                 promised, doubtful, faults>>

\* saveUser(NORMAL) in the virtual thread: it asks for no global lock.  It throws
\* if the user is not found or a call fails.
UnlockTask(t) ==
  /\ At(t, "unlock")
  /\ \/ /\ Found(who[t])
        /\ status' = [status EXCEPT ![who[t]] = "NORMAL"]
        /\ Touch(t, who[t])
        /\ UNCHANGED <<tainted, faults>>
     \/ /\ IF Found(who[t]) THEN Fault ELSE UNCHANGED faults
        /\ tainted' = [tainted EXCEPT ![t] = TRUE]
        /\ UNCHANGED <<status, touched>>
  /\ Goto(t, "unlocked")
  /\ UNCHANGED <<rows, online, session, holder, crossed, mixed, left, promised,
                 doubtful>>

\* batchSaveUser waits for its threads and answers true, whether they threw or not.
UnlockAnswer(t) ==
  /\ At(t, "unlocked")
  /\ promised' = [promised EXCEPT ![who[t]] = "NORMAL"]
  /\ doubtful' = [doubtful EXCEPT ![who[t]] = tainted[t]]
  /\ tainted' = [tainted EXCEPT ![t] = FALSE]
  /\ Finish(t)
  /\ UNCHANGED <<rowVars, session, holder, touched, crossed, mixed, left, faults>>

-----------------------------------------------------------------------------
\* A call fails or the process dies.  The request is over where it stands; a
\* global transaction is rolled back, by fish-ums or by its timeout.  An unlock
\* that dies between its task and its answer has told nobody.
Dies(t) ==
  /\ pc[t] \notin {"idle", "rollback"} /\ Fault
  /\ IF inTx[t] THEN Goto(t, "rollback") ELSE Finish(t)
  /\ crossed' = [crossed EXCEPT ![t] = FALSE]
  /\ left' = IF At(t, "loginExpire") THEN [left EXCEPT ![who[t]] = TRUE] ELSE left
  /\ doubtful' = IF At(t, "unlocked") THEN [doubtful EXCEPT ![who[t]] = TRUE] ELSE doubtful
  /\ tainted' = IF inTx[t] THEN tainted ELSE [tainted EXCEPT ![t] = FALSE]
  /\ UNCHANGED <<rowVars, session, holder, touched, mixed, promised>>

Request(t, u) == \/ RegisterCheck(t, u) \/ LoginRead(t, u) \/ GatewayGet(t, u)
                 \/ LogoutLook(t, u) \/ LockWrite(t, u) \/ UnlockBegin(t, u)

Work(t) == \/ RegisterInsert(t)
           \/ LoginUpdate(t) \/ LoginSet(t) \/ LoginExpire(t) \/ GatewayRenew(t)
           \/ LogoutDelete(t) \/ LogoutUpdate(t) \/ Commit(t) \/ Rollback(t)
           \/ UnlockTask(t) \/ UnlockAnswer(t)

Next == \/ \E t \in Threads : Work(t) \/ Dies(t) \/ \E u \in Users : Request(t, u)
        \/ \E u \in Users : SessionExpires(u)

Spec == Init /\ [][Next]_vars

-----------------------------------------------------------------------------
(* Properties.                                                             *)

\* Types of the variables; a transaction holds its row while it lasts, so that
\* no two of them ever undo the same row.
TypeOK ==
  /\ rows \in [Users -> Nat]
  /\ status \in [Users -> {"NORMAL", "LOCKED"}]
  /\ online \in [Users -> BOOLEAN]
  /\ session \in [Users -> Sessions]
  /\ holder \in [Users -> Threads \cup {Free, Stuck}]
  /\ pc \in [Threads -> Places]
  /\ who \in [Threads -> Users \cup {NoUser}]
  /\ inTx \in [Threads -> BOOLEAN]
  /\ prior \in [Threads -> [status : {"NORMAL", "LOCKED"}, online : BOOLEAN,
                         second : BOOLEAN]]
  /\ touched \in [Threads -> BOOLEAN] /\ crossed \in [Threads -> BOOLEAN]
  /\ mixed \in [Users -> BOOLEAN] /\ left \in [Users -> BOOLEAN]
  /\ promised \in [Users -> {"NORMAL", "LOCKED"}]
  /\ tainted \in [Threads -> BOOLEAN] /\ doubtful \in [Users -> BOOLEAN]
  /\ faults \in 0 .. MaxFaults
  /\ \A t \in Threads : inTx[t] => holder[who[t]] = t

\* Locking an account throws its user out (fish-ums UserServiceImpl l.24-40): of
\* an account that is locked for good a session exists only if the login that
\* set it overlapped a lock or a logout; the gateway cannot revive one.
LockKeepsOut ==
  \A u \in Users : status[u] = "LOCKED" /\ holder[u] = Free /\ session[u] # "none"
                     => mixed[u]

\* A session without a time to live is one whose login is about to set it, or
\* died there (fish-user UserServiceImpl l.78-80).
SessionHasTtl ==
  \A u \in Users : session[u] = "untimed" =>
    left[u] \/ \E t \in Threads : who[t] = u /\ At(t, "loginExpire")

\* A user with a session is shown ONLINE, unless login and logout overlapped: a
\* logout deletes the session before it writes OFFLINE (l.108-119), and a failed
\* lock puts back what it took down.
OnlineShown ==
  \A u \in Users : session[u] # "none" /\ ~mixed[u] => online[u]

\* All or nothing: with no lock under way or stuck and no unlock about to answer,
\* the account is in the state that the last one answered with success, whatever
\* failed in between, or it is in doubt: a lock and an unlock overlapped, a task
\* of batchSaveUser threw behind its success (fish-user UserServiceImpl
\* l.160-166), or an unlock died between its task and its answer.
StatusAsPromised ==
  \A u \in Users :
    /\ holder[u] = Free /\ ~doubtful[u]
    /\ ~\E t \in Threads : who[t] = u /\ At(t, "unlocked")
    => status[u] = promised[u]

=============================================================================

------------------------ MODULE CreationCacheProofs ------------------------
(***************************************************************************)
(* Safety of CreationCache for every set of articles, readers and savers   *)
(* and every bound.                                                        *)
(***************************************************************************)
EXTENDS CreationCache, TLAPS

-----------------------------------------------------------------------------
(* Type correctness.                                                       *)

LEMMA InitType == Init => TypeOK
<1> SUFFICES ASSUME Init PROVE TypeOK
  OBVIOUS
<1>1. /\ db \in [Ids -> Nat] /\ entry \in [Ids -> Values]
      /\ by \in [Ids -> Readers \cup {Listener}]
      /\ lock \in [Ids -> Readers \cup {Free, Gone}]
  BY DEF Init, Values
<1>2. /\ rpc \in [Readers -> ReaderPlaces]
      /\ rid \in [Readers -> Ids \cup {NoId}]
      /\ rval \in [Readers -> Values]
      /\ \A r \in Readers : rpc[r] # "idle" => rid[r] \in Ids
  BY DEF Init, Values, ReaderPlaces
<1>3. /\ spc \in [Savers -> {"idle", "written"}]
      /\ sid \in [Savers -> Ids \cup {NoId}]
      /\ \A s \in Savers : spc[s] = "written" => sid[s] \in Ids
      /\ unsent \in [Ids -> Nat] /\ queue \in Seq(Ids)
  BY DEF Init
<1>4. /\ lpc \in ListenerPlaces /\ lid \in Ids \cup {NoId}
      /\ (lpc # "idle" => lid \in Ids) /\ lval \in Values
      /\ attempt \in 0 .. MaxAttempts
  BY BoundsAssumption DEF Init, ListenerPlaces, Values
<1>6. interference \in {"none", "some"} /\ parked \subseteq Ids
  BY DEF Init
<1>5. lost \in [Ids -> Nat] /\ faults \in 0 .. MaxFaults
  BY BoundsAssumption DEF Init
<1> QED BY <1>1, <1>2, <1>3, <1>4, <1>5, <1>6 DEF TypeOK

LEMMA ReaderType ==
  ASSUME TypeOK, NEW r \in Readers,
         \/ TryLock(r) \/ FindOne(r) \/ Unlock(r) \/ Refuse(r)
         \/ AnswerRefused(r) \/ Fill(r) \/ FindOneFails(r) \/ ReaderDies(r)
         \/ \E i \in Ids : Lookup(r, i)
  PROVE  TypeOK'
<1> USE BoundsAssumption
    DEF TypeOK, Values, NoEntry, EmptyDoc, ReaderPlaces, dataVars, saverVars,
        listenerVars, readerVars
<1>1. CASE \E i \in Ids : Lookup(r, i)
  BY <1>1 DEF Lookup
<1>2. CASE TryLock(r)
  <2>1. lock' \in [Ids -> Readers \cup {Free, Gone}]
    BY <1>2 DEF TryLock
  <2>2. rpc' \in [Readers -> ReaderPlaces]
    BY <1>2 DEF TryLock
  <2>3. \A q \in Readers : rpc'[q] # "idle" => rid'[q] \in Ids
    BY <1>2 DEF TryLock
  <2> QED BY <1>2, <2>1, <2>2, <2>3 DEF TryLock
<1>3. CASE FindOne(r)
  BY <1>3 DEF FindOne
<1>4. CASE Unlock(r)
  BY <1>4 DEF Unlock, Return
<1>5. CASE Refuse(r)
  BY <1>5 DEF Refuse
<1>6. CASE AnswerRefused(r)
  BY <1>6 DEF AnswerRefused, Return
<1>7. CASE Fill(r)
  BY <1>7 DEF Fill, Return, Disturb
<1>8. CASE FindOneFails(r)
  BY <1>8 DEF FindOneFails, Fault
<1>9. CASE ReaderDies(r)
  BY <1>9 DEF ReaderDies, Return, Fault
<1> QED BY <1>1, <1>2, <1>3, <1>4, <1>5, <1>6, <1>7, <1>8, <1>9

LEMMA WriteDocType ==
  ASSUME TypeOK, NEW s \in Savers, NEW i \in Ids, WriteDoc(s, i)
  PROVE  TypeOK'
<1>1. db' \in [Ids -> Nat]
  <2>1. db \in [Ids -> Nat]
    BY DEF TypeOK
  <2> QED BY <2>1 DEF WriteDoc
<1>2. interference' \in {"none", "some"}
  <2>1. interference \in {"none", "some"}
    BY DEF TypeOK
  <2> QED BY <2>1 DEF WriteDoc, Disturb
<1>3. /\ spc' \in [Savers -> {"idle", "written"}]
      /\ sid' \in [Savers -> Ids \cup {NoId}]
      /\ \A t \in Savers : spc'[t] = "written" => sid'[t] \in Ids
  <2>1. /\ spc \in [Savers -> {"idle", "written"}]
        /\ sid \in [Savers -> Ids \cup {NoId}]
        /\ \A t \in Savers : spc[t] = "written" => sid[t] \in Ids
    BY DEF TypeOK
  <2> QED BY <2>1 DEF WriteDoc
<1> QED BY <1>1, <1>2, <1>3 DEF TypeOK, WriteDoc, readerVars

LEMMA SaverType ==
  ASSUME TypeOK, NEW s \in Savers,
         Submit(s) \/ SaverDies(s) \/ \E i \in Ids : WriteDoc(s, i)
  PROVE  TypeOK'
<1> USE BoundsAssumption DEF TypeOK, dataVars, listenerVars, readerVars
<1>1. CASE Submit(s)
  BY <1>1 DEF Submit, Done
<1>2. CASE SaverDies(s)
  BY <1>2 DEF SaverDies, Done, Fault
<1>3. CASE \E i \in Ids : WriteDoc(s, i)
  BY <1>3, WriteDocType
<1> QED BY <1>1, <1>2, <1>3

LEMMA RedisAndBrokerType ==
  ASSUME TypeOK, NEW i \in Ids,
         LeaseExpires(i) \/ Expire(i) \/ Publish(i) \/ PublishFails(i)
  PROVE  TypeOK'
<1> USE BoundsAssumption
    DEF TypeOK, Values, NoEntry, dataVars, saverVars, listenerVars, readerVars
<1>1. CASE LeaseExpires(i)
  BY <1>1 DEF LeaseExpires
<1>2. CASE Expire(i)
  BY <1>2 DEF Expire
<1>3. CASE Publish(i)
  <2>1. unsent' \in [Ids -> Nat]
    BY <1>3 DEF Publish
  <2>2. queue' \in Seq(Ids)
    BY <1>3 DEF Publish
  <2> QED BY <1>3, <2>1, <2>2 DEF Publish
<1>4. CASE PublishFails(i)
  <2>1. unsent' \in [Ids -> Nat] /\ lost' \in [Ids -> Nat]
    BY <1>4 DEF PublishFails
  <2>2. faults' \in 0 .. MaxFaults
    BY <1>4 DEF PublishFails, Fault
  <2> QED BY <1>4, <2>1, <2>2 DEF PublishFails
<1> QED BY <1>1, <1>2, <1>3, <1>4

LEMMA LoadedType == ASSUME TypeOK, NEW i \in Ids PROVE Loaded(i) \in Values
  BY DEF TypeOK, Loaded, Values

LEMMA ListenerType ==
  ASSUME TypeOK, ListenerStep \/ CallFails \/ FmsDies
  PROVE  TypeOK'
<1> USE BoundsAssumption
    DEF TypeOK, ListenerPlaces, dataVars, saverVars, readerVars
<1>1. CASE Deliver
  <2>1. lid' \in Ids /\ queue' \in Seq(Ids)
    BY <1>1 DEF Deliver
  <2>2. attempt' \in 0 .. MaxAttempts
    BY <1>1 DEF Deliver
  <2> QED BY <1>1, <2>1, <2>2 DEF Deliver
<1>2. CASE PutRead
  BY <1>2, LoadedType DEF PutRead
<1>3. CASE PutStore
  BY <1>3 DEF PutStore, Install
<1>4. CASE GetCache
  BY <1>4, LoadedType DEF GetCache
<1>5. CASE GetFill
  BY <1>5 DEF GetFill, Install
<1>6. CASE Compare
  BY <1>6 DEF Compare
<1>7. CASE Retry
  BY <1>7 DEF Retry
<1>8. CASE Park
  BY <1>8 DEF Park
<1>9. CASE Ack
  <2>1. attempt' \in 0 .. MaxAttempts /\ lval' \in Values
    BY <1>9 DEF Ack, Values
  <2> QED BY <1>9, <2>1 DEF Ack
<1>10. CASE CallFails
  BY <1>10 DEF CallFails, Fault
<1>11. CASE FmsDies
  <2>1. attempt' \in 0 .. MaxAttempts /\ lval' \in Values
    BY <1>11 DEF FmsDies, Values
  <2>2. queue' \in Seq(Ids) /\ faults' \in 0 .. MaxFaults
    BY <1>11 DEF FmsDies, Fault
  <2> QED BY <1>11, <2>1, <2>2 DEF FmsDies
<1> QED BY <1>1, <1>2, <1>3, <1>4, <1>5, <1>6, <1>7, <1>8, <1>9, <1>10, <1>11
        DEF ListenerStep

LEMMA StutterType == ASSUME TypeOK, UNCHANGED vars PROVE TypeOK'
  BY DEF TypeOK, vars, dataVars, saverVars, listenerVars, readerVars

\* Every reachable state is well typed: in particular attempt never exceeds
\* the configured number of attempts.
THEOREM TypeCorrect == Spec => []TypeOK
<1>1. TypeOK /\ [Next]_vars => TypeOK'
  BY ReaderType, SaverType, RedisAndBrokerType, ListenerType, StutterType
     DEF Next, ReaderStep
<1> QED BY InitType, <1>1, PTL DEF Spec
-----------------------------------------------------------------------------
(* What the steps of an actor leave alone.                                 *)

LEMMA ListenerFrame ==
  ASSUME ListenerStep \/ CallFails \/ FmsDies
  PROVE  UNCHANGED <<db, lock, readerVars, saverVars>>
<1> USE DEF dataVars
<1>1. CASE Deliver BY <1>1 DEF Deliver
<1>2. CASE PutRead BY <1>2 DEF PutRead
<1>3. CASE PutStore BY <1>3 DEF PutStore, Install
<1>4. CASE GetCache BY <1>4 DEF GetCache
<1>5. CASE GetFill BY <1>5 DEF GetFill, Install
<1>6. CASE Compare BY <1>6 DEF Compare
<1>7. CASE Retry BY <1>7 DEF Retry
<1>8. CASE Park BY <1>8 DEF Park
<1>9. CASE Ack BY <1>9 DEF Ack
<1>10. CASE CallFails BY <1>10 DEF CallFails
<1>11. CASE FmsDies BY <1>11 DEF FmsDies
<1> QED BY <1>1, <1>2, <1>3, <1>4, <1>5, <1>6, <1>7, <1>8, <1>9, <1>10, <1>11
        DEF ListenerStep

\* A reader changes the cache by Fill and by nothing else.
LEMMA ReaderFrame ==
  ASSUME NEW r \in Readers,
         \/ TryLock(r) \/ FindOne(r) \/ Unlock(r) \/ Refuse(r)
         \/ AnswerRefused(r) \/ FindOneFails(r) \/ ReaderDies(r)
         \/ \E i \in Ids : Lookup(r, i)
  PROVE  UNCHANGED <<db, entry, by, saverVars, queue, listenerVars, lost>>
<1> USE DEF dataVars
<1>1. CASE TryLock(r) BY <1>1 DEF TryLock
<1>2. CASE FindOne(r) BY <1>2 DEF FindOne
<1>3. CASE Unlock(r) BY <1>3 DEF Unlock
<1>4. CASE Refuse(r) BY <1>4 DEF Refuse
<1>5. CASE AnswerRefused(r) BY <1>5 DEF AnswerRefused
<1>6. CASE FindOneFails(r) BY <1>6 DEF FindOneFails
<1>7. CASE ReaderDies(r) BY <1>7 DEF ReaderDies
<1>8. CASE \E i \in Ids : Lookup(r, i) BY <1>8 DEF Lookup
<1> QED BY <1>1, <1>2, <1>3, <1>4, <1>5, <1>6, <1>7, <1>8

-----------------------------------------------------------------------------
(* The redisson lock.  A reader between tryLock and unlock is the owner, and *)
(* this is inductive: tryLock takes a free lock only, unlock and the death   *)
(* of a reader touch the locks of that reader, an expiring lease nobody's.   *)

OwnersHold == \A r \in Readers : rpc[r] \in {"query", "release"} => lock[rid[r]] = r

LEMMA OwnersHoldStep ==
  ASSUME TypeOK, OwnersHold, [Next]_vars PROVE OwnersHold'
<1> USE ActorsAssumption
    DEF TypeOK, OwnersHold, dataVars, saverVars, listenerVars, readerVars
<1>1. ASSUME NEW r \in Readers, NEW i \in Ids, Lookup(r, i) PROVE OwnersHold'
  BY <1>1 DEF Lookup
<1>2. ASSUME NEW r \in Readers, TryLock(r) PROVE OwnersHold'
  <2> SUFFICES ASSUME NEW q \in Readers, rpc'[q] \in {"query", "release"}
               PROVE  lock'[rid'[q]] = q
    OBVIOUS
  <2>1. CASE q = r
    BY <1>2, <2>1 DEF TryLock
  <2>2. CASE q # r
    <3>1. rpc'[q] = rpc[q] /\ rid'[q] = rid[q] /\ lock[rid[q]] = q
      BY <1>2, <2>2 DEF TryLock
    <3> QED BY <1>2, <2>2, <3>1 DEF TryLock
  <2> QED BY <2>1, <2>2
<1>3. ASSUME NEW r \in Readers, FindOne(r) \/ FindOneFails(r) PROVE OwnersHold'
  BY <1>3 DEF FindOne, FindOneFails
<1>4. ASSUME NEW r \in Readers, Unlock(r) PROVE OwnersHold'
  <2> SUFFICES ASSUME NEW q \in Readers, rpc'[q] \in {"query", "release"}
               PROVE  lock'[rid'[q]] = q
    OBVIOUS
  <2>1. q # r
    BY <1>4 DEF Unlock, Return
  <2>2. rpc'[q] = rpc[q] /\ rid'[q] = rid[q] /\ lock[rid[q]] = q
    BY <1>4, <2>1 DEF Unlock, Return
  <2>3. rid[q] # rid[r] /\ rid[q] \in Ids
    BY <1>4, <2>1, <2>2 DEF Unlock
  <2> QED BY <1>4, <2>2, <2>3 DEF Unlock
<1>5. ASSUME NEW r \in Readers, Refuse(r) \/ AnswerRefused(r) \/ Fill(r)
      PROVE  OwnersHold'
  BY <1>5 DEF Refuse, AnswerRefused, Fill, Return
<1>6. ASSUME NEW r \in Readers, ReaderDies(r) PROVE OwnersHold'
  BY <1>6 DEF ReaderDies, Return
<1>7. ASSUME NEW i \in Ids, LeaseExpires(i) PROVE OwnersHold'
  BY <1>7 DEF LeaseExpires
<1>8. ASSUME UNCHANGED <<rpc, rid, lock>> PROVE OwnersHold'
  BY <1>8
<1>9. ASSUME NEW i \in Ids, Expire(i) \/ Publish(i) \/ PublishFails(i)
      PROVE  OwnersHold'
  BY <1>9, <1>8 DEF Expire, Publish, PublishFails
<1>10. ASSUME NEW s \in Savers,
              Submit(s) \/ SaverDies(s) \/ \E i \in Ids : WriteDoc(s, i)
       PROVE  OwnersHold'
  BY <1>10, <1>8 DEF Submit, SaverDies, WriteDoc
<1>11. ASSUME ListenerStep \/ CallFails \/ FmsDies PROVE OwnersHold'
  <2>1. UNCHANGED <<rpc, rid, lock>>
    BY <1>11, ListenerFrame DEF readerVars
  <2> QED BY <2>1, <1>8
<1>12. ASSUME UNCHANGED vars PROVE OwnersHold'
  BY <1>12, <1>8 DEF vars
<1> QED BY <1>1, <1>2, <1>3, <1>4, <1>5, <1>6, <1>7, <1>9, <1>10, <1>11, <1>12
        DEF Next, ReaderStep

\* However many requests miss on an article at once and whichever owners die,
\* one request at a time queries Mongo for it (getCreationById l.120-132).
THEOREM LockExclusion == Spec => []OneQueryPerArticle
<1>1. Init => OwnersHold
  BY DEF Init, OwnersHold
<1>2. TypeOK /\ OwnersHold /\ [Next]_vars => OwnersHold'
  BY OwnersHoldStep
<1>3. TypeOK /\ OwnersHold => OneQueryPerArticle
  BY DEF OwnersHold, OneQueryPerArticle
<1> QED BY TypeCorrect, <1>1, <1>2, <1>3, PTL DEF Spec
-----------------------------------------------------------------------------
(* The listener keeps up.  ListenerKeepsUp alone is not inductive: a store   *)
(* of the listener must be known to bring the current version unless another *)
(* notification follows or was lost, which is FreshInHand.                   *)

FreshInHand ==
  lpc \in {"store", "getFill"} /\ db[lid] > 0
    => lval = db[lid] \/ OnTheWay(lid) \/ lost[lid] = db[lid]

KeepUpInv == ListenerKeepsUp /\ FreshInHand

\* A notification goes from the executor over the queue to the listener, or it
\* is lost and that is on record.
LEMMA OnTheWayKept ==
  ASSUME TypeOK, [Next]_vars, NEW i \in Ids, OnTheWay(i)
  PROVE  OnTheWay(i)' \/ lost'[i] = db'[i] \/ (lid' = i /\ lpc' = "read")
<1> USE DEF TypeOK, dataVars
<1>1. ASSUME UNCHANGED <<spc, sid, unsent, queue>> PROVE OnTheWay(i)'
  BY <1>1 DEF OnTheWay
<1>2. ASSUME NEW s \in Savers, Submit(s) PROVE OnTheWay(i)'
  <2>1. CASE sid[s] = i
    BY <1>2, <2>1 DEF Submit, OnTheWay
  <2>2. CASE sid[s] # i
    BY <1>2, <2>2 DEF Submit, Done, OnTheWay
  <2> QED BY <2>1, <2>2
<1>3. ASSUME NEW s \in Savers, SaverDies(s)
      PROVE  OnTheWay(i)' \/ lost'[i] = db'[i]
  <2>1. CASE sid[s] = i
    BY <1>3, <2>1 DEF SaverDies
  <2>2. CASE sid[s] # i
    BY <1>3, <2>2 DEF SaverDies, Done, OnTheWay
  <2> QED BY <2>1, <2>2
<1>4. ASSUME NEW s \in Savers, NEW j \in Ids, WriteDoc(s, j) PROVE OnTheWay(i)'
  BY <1>4 DEF WriteDoc, OnTheWay
<1>5. ASSUME NEW j \in Ids, Publish(j) PROVE OnTheWay(i)'
  <2> /\ queue' = Append(queue, j) /\ Len(queue) \in Nat
      /\ Len(queue') = Len(queue) + 1
      /\ \A k \in 1 .. Len(queue) : queue'[k] = queue[k]
      /\ queue'[Len(queue) + 1] = j
    BY <1>5 DEF Publish
  <2>1. ASSUME NEW k \in 1 .. Len(queue), queue[k] = i PROVE OnTheWay(i)'
    <3>1. k \in 1 .. Len(queue') /\ queue'[k] = i
      BY <2>1
    <3> QED BY <3>1 DEF OnTheWay
  <2>2. CASE i = j
    <3>1. Len(queue) + 1 \in 1 .. Len(queue') /\ queue'[Len(queue) + 1] = i
      BY <2>2
    <3> QED BY <3>1 DEF OnTheWay
  <2>3. CASE i # j /\ unsent[i] > 0
    BY <1>5, <2>3 DEF Publish, OnTheWay
  <2>4. CASE \E s \in Savers : spc[s] = "written" /\ sid[s] = i
    BY <1>5, <2>4 DEF Publish, OnTheWay
  <2> QED BY <2>1, <2>2, <2>3, <2>4 DEF OnTheWay
<1>6. ASSUME NEW j \in Ids, PublishFails(j)
      PROVE  OnTheWay(i)' \/ lost'[i] = db'[i]
  <2>1. CASE i = j
    BY <1>6, <2>1 DEF PublishFails
  <2>2. CASE i # j
    BY <1>6, <2>2 DEF PublishFails, OnTheWay
  <2> QED BY <2>1, <2>2
<1>7. ASSUME Deliver PROVE OnTheWay(i)' \/ (lid' = i /\ lpc' = "read")
  <2>1. CASE lid' = i
    BY <1>7, <2>1 DEF Deliver
  <2>2. ASSUME lid' # i, NEW k \in 1 .. Len(queue), queue[k] = i
        PROVE  OnTheWay(i)'
    <3>1. k # 1 /\ queue # <<>>
      BY <1>7, <2>2 DEF Deliver
    <3>2. k - 1 \in 1 .. Len(queue') /\ queue'[k - 1] = queue[k]
      BY <1>7, <2>2, <3>1 DEF Deliver
    <3> QED BY <2>2, <3>2 DEF OnTheWay
  <2>3. CASE ~\E k \in 1 .. Len(queue) : queue[k] = i
    BY <1>7, <2>3 DEF Deliver, OnTheWay, saverVars
  <2> QED BY <2>1, <2>2, <2>3
<1>8. ASSUME FmsDies PROVE OnTheWay(i)'
  <2>1. lid \in Ids /\ queue' = <<lid>> \o queue
    BY <1>8 DEF FmsDies
  <2>2. ASSUME NEW k \in 1 .. Len(queue), queue[k] = i PROVE OnTheWay(i)'
    <3>1. k + 1 \in 1 .. Len(queue') /\ queue'[k + 1] = i
      BY <2>1, <2>2
    <3> QED BY <3>1 DEF OnTheWay
  <2>3. CASE ~\E k \in 1 .. Len(queue) : queue[k] = i
    BY <1>8, <2>3 DEF FmsDies, OnTheWay, saverVars
  <2> QED BY <2>2, <2>3
<1>9. ASSUME ListenerStep \/ CallFails, ~Deliver
      PROVE  UNCHANGED <<spc, sid, unsent, queue>>
  <2>1. UNCHANGED queue
    BY <1>9 DEF ListenerStep, PutRead, PutStore, GetCache, GetFill, Install,
       Compare, Retry, Park, Ack, CallFails
  <2> QED BY <1>9, <2>1, ListenerFrame DEF saverVars
<1>10. ASSUME NEW r \in Readers, Fill(r) PROVE UNCHANGED <<spc, sid, unsent, queue>>
  BY <1>10 DEF Fill, saverVars
<1>11. ASSUME NEW j \in Ids, LeaseExpires(j) \/ Expire(j)
       PROVE  UNCHANGED <<spc, sid, unsent, queue>>
  BY <1>11 DEF LeaseExpires, Expire, saverVars
<1>12. ASSUME UNCHANGED vars PROVE UNCHANGED <<spc, sid, unsent, queue>>
  BY <1>12 DEF vars, saverVars
<1> QED BY <1>1, <1>2, <1>3, <1>4, <1>5, <1>6, <1>7, <1>8, <1>9, <1>10, <1>11,
           <1>12, ReaderFrame DEF Next, ReaderStep, saverVars

\* A loss stays on record until the article is saved again.
LEMMA LostKept ==
  ASSUME TypeOK, [Next]_vars, NEW i \in Ids, db'[i] = db[i], lost[i] = db[i]
  PROVE  lost'[i] = db'[i]
<1> USE DEF TypeOK
<1>1. ASSUME NEW s \in Savers, SaverDies(s) PROVE lost'[i] = db[i]
  BY <1>1 DEF SaverDies
<1>2. ASSUME NEW j \in Ids, PublishFails(j) PROVE lost'[i] = db[i]
  BY <1>2 DEF PublishFails
<1>3. ASSUME CallFails PROVE lost'[i] = db[i]
  BY <1>3 DEF CallFails
<1>4. ASSUME NEW s \in Savers, Submit(s) \/ \E j \in Ids : WriteDoc(s, j)
      PROVE  UNCHANGED lost
  BY <1>4 DEF Submit, WriteDoc
<1>5. ASSUME NEW j \in Ids, LeaseExpires(j) \/ Expire(j) \/ Publish(j)
      PROVE  UNCHANGED lost
  BY <1>5 DEF LeaseExpires, Expire, Publish
<1>6. ASSUME ListenerStep \/ FmsDies PROVE UNCHANGED lost
  BY <1>6 DEF ListenerStep, Deliver, PutRead, PutStore, GetCache, GetFill, Install,
     Compare, Retry, Park, Ack, FmsDies
<1>7. ASSUME NEW r \in Readers, Fill(r) PROVE UNCHANGED lost
  BY <1>7 DEF Fill
<1>8. ASSUME UNCHANGED vars PROVE UNCHANGED lost
  BY <1>8 DEF vars
<1> QED BY <1>1, <1>2, <1>3, <1>4, <1>5, <1>6, <1>7, <1>8, ReaderFrame
        DEF Next, ReaderStep

\* An article that is under way stays so or its notification reaches the
\* listener's "read"; that is all KeepUpInv needs of a step that changes
\* neither Mongo, nor the cache, nor what the listener holds.
LEMMA QuietStep ==
  ASSUME TypeOK, KeepUpInv, [Next]_vars,
         UNCHANGED <<db, entry, by, lpc, lid, lval, attempt>>
  PROVE  KeepUpInv'
<1> USE DEF TypeOK, KeepUpInv
<1> lpc' = "read" => lpc = "read"
  OBVIOUS
<1>1. ListenerKeepsUp'
  <2> SUFFICES ASSUME NEW i \in Ids, Stale(i)', by'[i] = Listener
               PROVE  Pending(i)' \/ lost'[i] = db'[i]
    BY DEF ListenerKeepsUp
  <2>1. Pending(i) \/ lost[i] = db[i]
    BY DEF ListenerKeepsUp, Stale
  <2>2. lost[i] = db[i] => lost'[i] = db'[i]
    BY LostKept
  <2> QED BY <2>1, <2>2, OnTheWayKept DEF Pending
<1>2. FreshInHand'
  <2> SUFFICES ASSUME lpc \in {"store", "getFill"}, db[lid] > 0
               PROVE  lval = db[lid] \/ OnTheWay(lid)' \/ lost'[lid] = db[lid]
    BY DEF FreshInHand
  <2>1. lid \in Ids
    OBVIOUS
  <2> QED BY <2>1, LostKept, OnTheWayKept DEF FreshInHand
<1> QED BY <1>1, <1>2

LEMMA KeepUpStep ==
  ASSUME TypeOK, KeepUpInv, [Next]_vars PROVE KeepUpInv'
<1> USE DEF TypeOK, KeepUpInv
<1>1. ASSUME NEW s \in Savers, NEW i \in Ids, WriteDoc(s, i) PROVE KeepUpInv'
  <2>1. /\ OnTheWay(i)' /\ \A j \in Ids \ {i} : db'[j] = db[j]
        /\ UNCHANGED <<entry, by, lost, lpc, lid, lval, attempt>>
    BY <1>1 DEF WriteDoc, OnTheWay
  <2>2. \A j \in Ids : OnTheWay(j) => OnTheWay(j)' \/ lost'[j] = db'[j]
                                    \/ (lid' = j /\ lpc' = "read")
    BY OnTheWayKept
  <2>3. ListenerKeepsUp'
    BY <2>1, <2>2 DEF ListenerKeepsUp, Stale, Pending
  <2>4. FreshInHand'
    BY <2>1, <2>2 DEF FreshInHand
  <2> QED BY <2>3, <2>4
<1>2. ASSUME NEW r \in Readers, Fill(r) PROVE KeepUpInv'
  <2> /\ UNCHANGED <<db, lost, spc, sid, unsent, queue, lpc, lid, lval, attempt>>
      /\ entry' = [entry EXCEPT ![rid[r]] = rval[r]]
      /\ by' = [by EXCEPT ![rid[r]] = r] /\ r # Listener
    BY <1>2, ActorsAssumption DEF Fill, saverVars
  <2>1. ListenerKeepsUp'
    BY DEF ListenerKeepsUp, Stale, Pending, OnTheWay
  <2>2. FreshInHand'
    BY DEF FreshInHand, OnTheWay
  <2> QED BY <2>1, <2>2
<1>3. ASSUME NEW i \in Ids, Expire(i) PROVE KeepUpInv'
  <2> /\ UNCHANGED <<db, by, lost, spc, sid, unsent, queue, lpc, lid, lval,
                     attempt>>
      /\ entry' = [entry EXCEPT ![i] = NoEntry]
    BY <1>3 DEF Expire, saverVars, listenerVars
  <2>1. ListenerKeepsUp'
    BY DEF ListenerKeepsUp, Stale, Pending, OnTheWay
  <2>2. FreshInHand'
    BY DEF FreshInHand, OnTheWay
  <2> QED BY <2>1, <2>2
<1>4. ASSUME NEW n \in {"get", "compare"}, lpc \in {"store", "getFill"}, Install(n)
      PROVE  KeepUpInv'
  <2> /\ UNCHANGED <<db, lost, spc, sid, unsent, queue, lid>> /\ lpc' = n
      /\ entry' = [entry EXCEPT ![lid] = lval] /\ lid \in Ids
      /\ by' = [by EXCEPT ![lid] = Listener]
    BY <1>4 DEF Install, saverVars
  <2>1. \A i \in Ids \ {lid} : entry'[i] = entry[i] /\ by'[i] = by[i]
    OBVIOUS
  <2>2. entry'[lid] = lval
    OBVIOUS
  <2>3. Stale(lid)' => OnTheWay(lid)' \/ lost'[lid] = db'[lid]
    BY <1>4, <2>2 DEF Stale, FreshInHand, OnTheWay
  <2>4. ListenerKeepsUp'
    <3> SUFFICES ASSUME NEW i \in Ids, Stale(i)', by'[i] = Listener
                 PROVE  Pending(i)' \/ lost'[i] = db'[i]
      BY DEF ListenerKeepsUp
    <3>1. CASE i = lid
      BY <2>3, <3>1 DEF Pending
    <3>2. CASE i # lid
      <4>1. Stale(i) /\ by[i] = Listener
        BY <2>1, <3>2 DEF Stale
      <4>2. OnTheWay(i) \/ lost[i] = db[i]
        BY <3>2, <4>1 DEF ListenerKeepsUp, Pending
      <4> QED BY <4>2 DEF Pending, OnTheWay
    <3> QED BY <3>1, <3>2
  <2>5. FreshInHand'
    BY <1>4 DEF FreshInHand
  <2> QED BY <2>4, <2>5
<1>5. ASSUME PutRead \/ GetCache PROVE KeepUpInv'
  <2> /\ UNCHANGED <<db, entry, by, lost, spc, sid, unsent, queue, lid, attempt>>
      /\ lpc \in {"read", "get"} /\ lid \in Ids
      /\ lpc = "read" => lpc' = "store"
      /\ lpc' \in {"store", "getFill"} => lval' = Loaded(lid)
    BY <1>5 DEF PutRead, GetCache, dataVars, saverVars
  <2>1. ListenerKeepsUp'
    BY DEF ListenerKeepsUp, Stale, Pending, OnTheWay
  <2>2. FreshInHand'
    BY DEF FreshInHand, Loaded
  <2> QED BY <2>1, <2>2
<1>6. ASSUME Compare \/ Retry \/ Park \/ Ack PROVE KeepUpInv'
  <2> /\ UNCHANGED <<db, entry, by, lost, spc, sid, unsent, queue>>
      /\ lpc' \in {"ack", "failed", "read", "park", "idle"}
      /\ \/ lpc \in {"compare", "park", "ack"}
         \/ UNCHANGED lid /\ lpc = "failed" /\ attempt < MaxAttempts /\ lpc' = "read"
         \/ lpc = "failed" /\ attempt = MaxAttempts
    BY <1>6 DEF Compare, Retry, Park, Ack, dataVars, saverVars
  <2>1. ListenerKeepsUp'
    <3> SUFFICES ASSUME NEW i \in Ids, Stale(i)', by'[i] = Listener
                 PROVE  Pending(i)' \/ lost'[i] = db'[i]
      BY DEF ListenerKeepsUp
    <3>1. Pending(i) \/ lost[i] = db[i]
      BY DEF ListenerKeepsUp, Stale
    <3>2. OnTheWay(i)' <=> OnTheWay(i)
      BY DEF OnTheWay
    <3> QED BY <3>1, <3>2, BoundsAssumption DEF Pending
  <2>2. FreshInHand'
    BY DEF FreshInHand
  <2> QED BY <2>1, <2>2
<1>7. ASSUME CallFails PROVE KeepUpInv'
  <2> /\ UNCHANGED <<db, entry, by, spc, sid, unsent, queue, lid, attempt>>
      /\ lpc' = "failed" /\ lid \in Ids
      /\ lost' = IF attempt = MaxAttempts THEN [lost EXCEPT ![lid] = db[lid]] ELSE lost
    BY <1>7 DEF CallFails, dataVars, saverVars
  <2>1. attempt = MaxAttempts \/ attempt < MaxAttempts
    BY BoundsAssumption
  <2>2. ListenerKeepsUp'
    BY <2>1 DEF ListenerKeepsUp, Stale, Pending, OnTheWay
  <2>3. FreshInHand'
    BY DEF FreshInHand
  <2> QED BY <2>2, <2>3
<1>8. ASSUME Deliver PROVE KeepUpInv'
  <2> UNCHANGED <<db, entry, by, lost>> /\ lpc = "idle" /\ lpc' = "read"
    BY <1>8 DEF Deliver, dataVars
  <2>1. ListenerKeepsUp'
    BY OnTheWayKept DEF ListenerKeepsUp, Stale, Pending
  <2>2. FreshInHand'
    BY DEF FreshInHand
  <2> QED BY <2>1, <2>2
<1>9. ASSUME FmsDies PROVE KeepUpInv'
  <2> /\ UNCHANGED <<db, entry, by, lost>> /\ lpc' = "idle" /\ lid \in Ids
      /\ queue' = <<lid>> \o queue
    BY <1>9 DEF FmsDies, dataVars
  <2>1. 1 \in 1 .. Len(queue') /\ queue'[1] = lid
    OBVIOUS
  <2>2. ListenerKeepsUp'
    <3> SUFFICES ASSUME NEW i \in Ids, Stale(i)', by'[i] = Listener
                 PROVE  Pending(i)' \/ lost'[i] = db'[i]
      BY DEF ListenerKeepsUp
    <3>1. Pending(i) \/ lost[i] = db[i]
      BY DEF ListenerKeepsUp, Stale
    <3>2. lid = i => OnTheWay(i)'
      BY <2>1 DEF OnTheWay
    <3> QED BY <3>1, <3>2, OnTheWayKept DEF Pending
  <2>3. FreshInHand'
    BY DEF FreshInHand
  <2> QED BY <2>2, <2>3
<1>10. ASSUME UNCHANGED <<db, entry, by, lpc, lid, lval, attempt>> PROVE KeepUpInv'
  BY <1>10, QuietStep
<1>11. ASSUME NEW s \in Savers, Submit(s) \/ SaverDies(s)
       PROVE  UNCHANGED <<db, entry, by, lpc, lid, lval, attempt>>
  BY <1>11 DEF Submit, SaverDies, dataVars, listenerVars
<1>12. ASSUME NEW i \in Ids, LeaseExpires(i) \/ Publish(i) \/ PublishFails(i)
       PROVE  UNCHANGED <<db, entry, by, lpc, lid, lval, attempt>>
  BY <1>12 DEF LeaseExpires, Publish, PublishFails, dataVars, listenerVars
<1>13. ASSUME UNCHANGED vars
       PROVE  UNCHANGED <<db, entry, by, lpc, lid, lval, attempt>>
  BY <1>13 DEF vars, dataVars, listenerVars
<1>14. ASSUME PutStore \/ GetFill PROVE KeepUpInv'
  BY <1>4, <1>14 DEF PutStore, GetFill
<1> QED BY <1>1, <1>2, <1>3, <1>5, <1>6, <1>7, <1>8, <1>9, <1>10, <1>11, <1>12,
           <1>13, <1>14, ReaderFrame DEF Next, ReaderStep, ListenerStep, listenerVars

\* An entry the listener installed is out of date only while a newer
\* notification is under way or after the newest one was lost, whatever crashes,
\* retries and redeliveries there are (RMQListener l.45, RabbitMQConfig l.46-48).
THEOREM KeepsUp == Spec => []ListenerKeepsUp
<1>1. Init => KeepUpInv
  BY DEF Init, KeepUpInv, ListenerKeepsUp, FreshInHand, Stale
<1>2. TypeOK /\ KeepUpInv /\ [Next]_vars => KeepUpInv'
  BY KeepUpStep
<1>3. KeepUpInv => ListenerKeepsUp
  BY DEF KeepUpInv
<1> QED BY TypeCorrect, <1>1, <1>2, <1>3, PTL DEF Spec
-----------------------------------------------------------------------------
(* The comparison raises no false alarm.  While nobody disturbs the attempt, *)
(* what the listener holds, and what it left in the cache, is the current    *)
(* version.                                                                  *)

Undisturbed ==
  lpc # "idle" /\ db[lid] > 0 /\ interference = "none" =>
    /\ lpc \in {"store", "getFill", "compare"} => lval = db[lid]
    /\ lpc = "get" => entry[lid] \in {NoEntry, db[lid]}
    /\ lpc # "failed"

LEMMA UndisturbedStep ==
  ASSUME TypeOK, Undisturbed, [Next]_vars PROVE Undisturbed'
<1> USE DEF TypeOK, Undisturbed
<1>1. ASSUME UNCHANGED <<db, entry, lpc, lid, lval, interference>>
      PROVE  Undisturbed'
  BY <1>1
<1>2. ASSUME NEW s \in Savers, NEW i \in Ids, WriteDoc(s, i) PROVE Undisturbed'
  <2> /\ UNCHANGED <<entry, lpc, lid, lval>>
      /\ interference = "some" => interference' = "some"
      /\ \A j \in Ids \ {i} : db'[j] = db[j]
      /\ db'[i] = db[i] \/ (lpc # "idle" /\ lid = i => interference' = "some")
    BY <1>2 DEF WriteDoc, Disturb
  <2>1. CASE lid = i /\ db'[i] # db[i]
    BY <2>1
  <2>2. CASE lid # i \/ db'[i] = db[i]
    BY <2>2
  <2> QED BY <2>1, <2>2
<1>3. ASSUME NEW r \in Readers, Fill(r) PROVE Undisturbed'
  <2> /\ UNCHANGED <<db, lpc, lid, lval>>
      /\ interference = "some" => interference' = "some"
      /\ entry' = [entry EXCEPT ![rid[r]] = rval[r]]
      /\ lpc # "idle" /\ lid = rid[r] => interference' = "some"
    BY <1>3 DEF Fill, Disturb
  <2> QED OBVIOUS
<1>4. ASSUME NEW i \in Ids, Expire(i) PROVE Undisturbed'
  BY <1>4 DEF Expire, listenerVars
<1>5. ASSUME Deliver \/ PutRead PROVE Undisturbed'
  BY <1>5 DEF Deliver, PutRead, Loaded, dataVars
<1>6. ASSUME PutStore \/ GetFill PROVE Undisturbed'
  BY <1>6 DEF PutStore, GetFill, Install
<1>7. ASSUME GetCache PROVE Undisturbed'
  <2> /\ UNCHANGED <<db, entry, lid, interference>> /\ lpc = "get" /\ lid \in Ids
    BY <1>7 DEF GetCache, dataVars
  <2>1. CASE entry[lid] = NoEntry
    <3>1. lval' = Loaded(lid) /\ lpc' = "getFill"
      BY <1>7, <2>1 DEF GetCache, NoEntry, NullDoc
    <3> QED BY <3>1 DEF Loaded
  <2>2. CASE entry[lid] = NullDoc /\ entry[lid] # NoEntry
    <3>1. ~(db[lid] > 0 /\ interference = "none")
      BY <2>2 DEF NullDoc
    <3> QED BY <3>1
  <2>3. CASE entry[lid] # NoEntry /\ entry[lid] # NullDoc
    <3>1. lval' = entry[lid] /\ lpc' = "compare"
      BY <1>7, <2>3 DEF GetCache
    <3> QED BY <2>3, <3>1
  <2> QED BY <2>1, <2>2, <2>3
<1>8. ASSUME Compare \/ Retry \/ Park \/ Ack \/ CallFails \/ FmsDies
      PROVE  Undisturbed'
  BY <1>8 DEF Compare, Retry, Park, Ack, CallFails, FmsDies, dataVars
<1>9. ASSUME NEW s \in Savers, Submit(s) \/ SaverDies(s)
      PROVE  UNCHANGED <<db, entry, lpc, lid, lval, interference>>
  BY <1>9 DEF Submit, SaverDies, dataVars, listenerVars
<1>10. ASSUME NEW i \in Ids, LeaseExpires(i) \/ Publish(i) \/ PublishFails(i)
       PROVE  UNCHANGED <<db, entry, lpc, lid, lval, interference>>
  BY <1>10 DEF LeaseExpires, Publish, PublishFails, dataVars, listenerVars
<1>11. ASSUME UNCHANGED vars
       PROVE  UNCHANGED <<db, entry, lpc, lid, lval, interference>>
  BY <1>11 DEF vars, dataVars, listenerVars
<1> QED BY <1>1, <1>2, <1>3, <1>4, <1>5, <1>6, <1>7, <1>8, <1>9, <1>10, <1>11,
           ReaderFrame DEF Next, ReaderStep, ListenerStep, listenerVars

\* An attempt for an article Mongo has fails only if somebody saved the article
\* or filled its entry in the meantime, or a call failed (RMQListener l.45-51).
THEOREM NoFalseAlarm == Spec => []MismatchMeansInterference
<1>1. Init => Undisturbed
  BY DEF Init, Undisturbed
<1>2. TypeOK /\ Undisturbed /\ [Next]_vars => Undisturbed'
  BY UndisturbedStep
<1>3. TypeOK /\ Undisturbed => MismatchMeansInterference
  BY DEF TypeOK, Undisturbed, MismatchMeansInterference
<1> QED BY TypeCorrect, <1>1, <1>2, <1>3, PTL DEF Spec
-----------------------------------------------------------------------------
(* No blank article.  An article that is not inserted yet is untouched by    *)
(* readers, notifications and the cache, and a blank copy in anybody's hands *)
(* is of a document that is still missing.                                   *)

Handling(i) == lpc # "idle" /\ lid = i

Untouched ==
  \A i \in Docs : db[i] = 0 =>
    /\ entry[i] = NoEntry /\ ~OnTheWay(i) /\ ~Handling(i)
    /\ \A r \in Readers : rpc[r] # "idle" => rid[r] # i

Blank == {EmptyDoc, NullDoc}

BlanksInHand ==
  /\ \A r \in Readers :
       rpc[r] \in {"release", "fill"} /\ rval[r] \in Blank => db[rid[r]] = 0
  /\ lpc \in {"store", "getFill"} /\ lval \in Blank => db[lid] = 0

BlankInv == BlankOnlyWhenAbsent /\ Untouched /\ BlanksInHand

LEMMA OnTheWayOrigin ==
  ASSUME TypeOK, [Next]_vars, NEW i \in Ids, OnTheWay(i)'
  PROVE  OnTheWay(i) \/ Handling(i) \/ \E s \in Savers : WriteDoc(s, i)
<1> USE DEF TypeOK, dataVars
<1>1. ASSUME UNCHANGED <<spc, sid, unsent, queue>> PROVE OnTheWay(i)
  BY <1>1 DEF OnTheWay
<1>2. ASSUME NEW s \in Savers, Submit(s) PROVE OnTheWay(i)
  BY <1>2 DEF Submit, Done, OnTheWay
<1>3. ASSUME NEW s \in Savers, SaverDies(s) PROVE OnTheWay(i)
  BY <1>3 DEF SaverDies, Done, OnTheWay
<1>4. ASSUME NEW s \in Savers, NEW j \in Ids, WriteDoc(s, j)
      PROVE  OnTheWay(i) \/ WriteDoc(s, i)
  <2>1. CASE i # j
    BY <1>4, <2>1 DEF WriteDoc, OnTheWay
  <2> QED BY <1>4, <2>1
<1>5. ASSUME NEW j \in Ids, Publish(j) PROVE OnTheWay(i)
  <2> queue' = Append(queue, j) /\ unsent[j] > 0
    BY <1>5 DEF Publish
  <2>1. ASSUME NEW k \in 1 .. Len(queue'), queue'[k] = i
        PROVE  i = j \/ \E l \in 1 .. Len(queue) : queue[l] = i
    BY <2>1
  <2> QED BY <1>5, <2>1 DEF Publish, OnTheWay
<1>6. ASSUME NEW j \in Ids, PublishFails(j) PROVE OnTheWay(i)
  BY <1>6 DEF PublishFails, OnTheWay
<1>7. ASSUME Deliver PROVE OnTheWay(i)
  <2> queue # <<>> /\ queue' = Tail(queue)
    BY <1>7 DEF Deliver
  <2>1. ASSUME NEW k \in 1 .. Len(queue'), queue'[k] = i
        PROVE  k + 1 \in 1 .. Len(queue) /\ queue[k + 1] = i
    BY <2>1
  <2>2. (\E k \in 1 .. Len(queue') : queue'[k] = i)
          => \E k \in 1 .. Len(queue) : queue[k] = i
    BY <2>1
  <2> QED BY <1>7, <2>2 DEF Deliver, OnTheWay, saverVars
<1>8. ASSUME FmsDies PROVE OnTheWay(i) \/ Handling(i)
  <2> lpc # "idle" /\ lid \in Ids /\ queue' = <<lid>> \o queue
    BY <1>8 DEF FmsDies
  <2>1. ASSUME NEW k \in 1 .. Len(queue'), queue'[k] = i
        PROVE  lid = i \/ (k - 1 \in 1 .. Len(queue) /\ queue[k - 1] = i)
    BY <2>1
  <2>2. (\E k \in 1 .. Len(queue') : queue'[k] = i)
          => lid = i \/ \E k \in 1 .. Len(queue) : queue[k] = i
    BY <2>1
  <2> QED BY <1>8, <2>2 DEF FmsDies, OnTheWay, Handling, saverVars
<1>9. ASSUME ListenerStep \/ CallFails, ~Deliver
      PROVE  UNCHANGED <<spc, sid, unsent, queue>>
  <2>1. UNCHANGED queue
    BY <1>9 DEF ListenerStep, PutRead, PutStore, GetCache, GetFill, Install,
       Compare, Retry, Park, Ack, CallFails
  <2> QED BY <1>9, <2>1, ListenerFrame DEF saverVars
<1>10. ASSUME NEW r \in Readers, Fill(r) PROVE UNCHANGED <<spc, sid, unsent, queue>>
  BY <1>10 DEF Fill, saverVars
<1>11. ASSUME NEW j \in Ids, LeaseExpires(j) \/ Expire(j)
       PROVE  UNCHANGED <<spc, sid, unsent, queue>>
  BY <1>11 DEF LeaseExpires, Expire, saverVars
<1>12. ASSUME UNCHANGED vars PROVE UNCHANGED <<spc, sid, unsent, queue>>
  BY <1>12 DEF vars, saverVars
<1> QED BY <1>1, <1>2, <1>3, <1>4, <1>5, <1>6, <1>7, <1>8, <1>9, <1>10, <1>11,
           <1>12, ReaderFrame DEF Next, ReaderStep, saverVars

\* Preservation by a step that leaves Mongo alone: it needs no more than where
\* entries, copies and requests come from.
LEMMA BlankKept ==
  ASSUME TypeOK, BlankInv, [Next]_vars, UNCHANGED db,
         \A i \in Ids : \/ entry'[i] \in {entry[i], NoEntry}
                        \/ \E r \in Readers : /\ rpc[r] = "fill" /\ rid[r] = i
                                              /\ entry'[i] = rval[r]
                        \/ /\ lpc \in {"store", "getFill"} /\ lid = i
                           /\ entry'[i] = lval,
         \A r \in Readers : rpc'[r] # "idle" =>
              \/ rpc[r] # "idle" /\ rid'[r] = rid[r]
              \/ rpc'[r] = "miss" /\ Asked(rid'[r]),
         \A r \in Readers : rpc'[r] \in {"release", "fill"} =>
              \/ rpc[r] \in {"release", "fill"} /\ rval'[r] = rval[r]
              \/ rval'[r] \in {db[rid[r]], NoEntry},
         lpc' # "idle" => Handling(lid') \/ OnTheWay(lid'),
         lpc' \in {"store", "getFill"} =>
              \/ lpc = lpc' /\ lval' = lval /\ lid' = lid
              \/ lpc # "idle" /\ lval' = Loaded(lid) /\ lid' = lid,
         \A s \in Savers, i \in Docs : ~WriteDoc(s, i)
  PROVE  BlankInv'
<1> USE DEF TypeOK, BlankInv, Blank, Ids
<1>1. BlankOnlyWhenAbsent'
  <2> SUFFICES ASSUME NEW i \in Ids, entry'[i] \in {EmptyDoc, NullDoc}
               PROVE  db[i] = 0
    BY DEF BlankOnlyWhenAbsent
  <2>1. entry'[i] # NoEntry
    BY DEF EmptyDoc, NullDoc, NoEntry
  <2> QED BY <2>1 DEF BlankOnlyWhenAbsent, BlanksInHand
<1>2. Untouched'
  <2> SUFFICES ASSUME NEW i \in Docs, db[i] = 0
               PROVE  /\ entry'[i] = NoEntry /\ ~OnTheWay(i)' /\ ~Handling(i)'
                      /\ \A r \in Readers : rpc'[r] # "idle" => rid'[r] # i
    BY DEF Untouched
  <2>1. /\ entry[i] = NoEntry /\ ~OnTheWay(i) /\ ~Handling(i) /\ i \in Ids
        /\ \A r \in Readers : rpc[r] # "idle" => rid[r] # i
    BY DEF Untouched
  <2>2. entry'[i] = NoEntry
    BY <2>1 DEF Handling
  <2>3. ~OnTheWay(i)'
    BY <2>1, OnTheWayOrigin
  <2>4. ~Handling(i)'
    BY <2>1 DEF Handling
  <2>5. ~Asked(i)
    BY ActorsAssumption DEF Asked
  <2>6. ASSUME NEW r \in Readers, rpc'[r] # "idle" PROVE rid'[r] # i
    <3>1. (rpc[r] # "idle" /\ rid'[r] = rid[r]) \/ Asked(rid'[r])
      BY <2>6
    <3> QED BY <2>1, <2>5, <3>1
  <2> QED BY <2>2, <2>3, <2>4, <2>6
<1>3. BlanksInHand'
  <2>1. ASSUME NEW r \in Readers, rpc'[r] \in {"release", "fill"}, rval'[r] \in Blank
        PROVE  db'[rid'[r]] = 0
    <3>4. rpc'[r] # "idle" /\ rpc'[r] # "miss"
      BY <2>1
    <3>5. rpc[r] # "idle" /\ rid'[r] = rid[r]
      BY <3>4
    <3>6. rval'[r] # NoEntry
      BY <2>1 DEF EmptyDoc, NullDoc, NoEntry
    <3>1. rpc[r] # "idle" /\ rid'[r] = rid[r] /\ rval'[r] # NoEntry
      BY <3>5, <3>6
    <3>2. CASE rval'[r] = db[rid[r]]
      BY <2>1, <3>1, <3>2 DEF EmptyDoc, NullDoc
    <3>3. CASE rpc[r] \in {"release", "fill"} /\ rval'[r] = rval[r]
      BY <2>1, <3>1, <3>3 DEF BlanksInHand
    <3> QED BY <2>1, <3>1, <3>2, <3>3
  <2>2. ASSUME lpc' \in {"store", "getFill"}, lval' \in Blank PROVE db'[lid'] = 0
    <3>1. CASE lpc = lpc' /\ lval' = lval /\ lid' = lid
      BY <2>2, <3>1 DEF BlanksInHand
    <3>2. CASE lpc # "idle" /\ lval' = Loaded(lid) /\ lid' = lid
      <4>1. lid \in Ids
        BY <2>2, <3>2
      <4> QED BY <2>2, <3>2, <4>1 DEF Loaded, EmptyDoc, NullDoc
    <3> QED BY <2>2, <3>1, <3>2
  <2> QED BY <2>1, <2>2 DEF BlanksInHand
<1> QED BY <1>1, <1>2, <1>3

LEMMA BlankStep ==
  ASSUME TypeOK, BlankInv, [Next]_vars PROVE BlankInv'
<1> USE DEF TypeOK
<1> DEFINE NoFill == \A i \in Ids : entry'[i] \in {entry[i], NoEntry}
           SameReaders == UNCHANGED <<rpc, rid, rval>>
           SameListener == UNCHANGED <<lpc, lid, lval>>
           NoSave == \A s \in Savers, i \in Docs : ~WriteDoc(s, i)
<1>1. ASSUME NEW r \in Readers,
             \/ TryLock(r) \/ FindOne(r) \/ Unlock(r) \/ Refuse(r)
             \/ AnswerRefused(r) \/ FindOneFails(r) \/ ReaderDies(r)
             \/ \E i \in Ids : Lookup(r, i)
      PROVE  BlankInv'
  <2>1. UNCHANGED <<db, entry, spc, lpc, lid, lval>>
    BY <1>1, ReaderFrame DEF saverVars, listenerVars
  <2>2. NoFill /\ NoSave /\ (lpc' # "idle" => Handling(lid'))
    BY <2>1 DEF WriteDoc, Handling
  <2>3. \A q \in Readers \ {r} : UNCHANGED <<rpc[q], rid[q], rval[q]>>
    BY <1>1 DEF TryLock, FindOne, Unlock, Refuse, AnswerRefused, FindOneFails,
       ReaderDies, Lookup, Return
  <2>4. rpc'[r] # "idle" =>
              \/ rpc[r] # "idle" /\ rid'[r] = rid[r]
              \/ rpc'[r] = "miss" /\ Asked(rid'[r])
    <3>1. CASE \E i \in Ids : Lookup(r, i)
      BY <3>1 DEF Lookup
    <3>2. CASE TryLock(r) \/ FindOne(r) \/ FindOneFails(r) \/ Refuse(r)
      BY <3>2 DEF TryLock, FindOne, FindOneFails, Refuse
    <3>3. CASE Unlock(r)
      BY <3>3 DEF Unlock, Return
    <3>4. CASE AnswerRefused(r) \/ ReaderDies(r)
      BY <3>4 DEF AnswerRefused, ReaderDies, Return
    <3> QED BY <1>1, <3>1, <3>2, <3>3, <3>4
  <2>5. rpc'[r] \in {"release", "fill"} =>
              \/ rpc[r] \in {"release", "fill"} /\ rval'[r] = rval[r]
              \/ rval'[r] \in {db[rid[r]], NoEntry}
    BY <1>1 DEF TryLock, FindOne, Unlock, Refuse, AnswerRefused, FindOneFails,
       ReaderDies, Lookup, Return
  <2> QED BY <2>1, <2>2, <2>3, <2>4, <2>5, BlankKept
<1>2. ASSUME NEW r \in Readers, Fill(r) PROVE BlankInv'
  <2>1. /\ UNCHANGED <<db, spc, lpc, lid, lval>> /\ rpc[r] = "fill"
        /\ entry' = [entry EXCEPT ![rid[r]] = rval[r]]
        /\ rpc' = [rpc EXCEPT ![r] = "idle"]
        /\ \A q \in Readers \ {r} : UNCHANGED <<rid[q], rval[q]>>
    BY <1>2 DEF Fill, Return, saverVars
  <2>2. NoSave /\ (lpc' # "idle" => Handling(lid'))
    BY <2>1 DEF WriteDoc, Handling
  <2> QED BY <2>1, <2>2, BlankKept
<1>3. ASSUME UNCHANGED <<db, rpc, rid, rval, lpc, lid, lval>>, NoFill, NoSave
      PROVE  BlankInv'
  <2>1. lpc' # "idle" => Handling(lid')
    BY <1>3 DEF Handling
  <2> QED BY <1>3, <2>1, BlankKept
<1>4. ASSUME NEW i \in Ids,
             LeaseExpires(i) \/ Expire(i) \/ Publish(i) \/ PublishFails(i)
      PROVE  BlankInv'
  <2>1. UNCHANGED <<db, rpc, rid, rval, lpc, lid, lval, spc>> /\ NoFill
    BY <1>4 DEF LeaseExpires, Expire, Publish, PublishFails, dataVars, readerVars,
       saverVars, listenerVars
  <2>2. NoSave
    BY <2>1 DEF WriteDoc
  <2> QED BY <2>1, <2>2, <1>3
<1>5. ASSUME NEW s \in Savers, Submit(s) \/ SaverDies(s) PROVE BlankInv'
  <2>1. UNCHANGED <<db, rpc, rid, rval, lpc, lid, lval, entry>>
    BY <1>5 DEF Submit, SaverDies, dataVars, readerVars, listenerVars
  <2>2. spc' = [spc EXCEPT ![s] = "idle"] /\ spc[s] = "written"
    BY <1>5 DEF Submit, SaverDies, Done
  <2>3. NoSave
    BY <2>2 DEF WriteDoc
  <2> QED BY <2>1, <2>3, <1>3
<1>6. ASSUME NEW s \in Savers, NEW i \in Ids, WriteDoc(s, i) PROVE BlankInv'
  <2>1. UNCHANGED <<entry, rpc, rid, rval, lpc, lid, lval>>
    BY <1>6 DEF WriteDoc, readerVars
  <2>2. \A j \in Ids \ {i} : db'[j] = db[j] /\ (OnTheWay(j)' => OnTheWay(j))
    BY <1>6 DEF WriteDoc, OnTheWay
  <2>3. \/ i \in Docs /\ db'[i] = db[i] + 1
        \/ i \in Unknown /\ db'[i] = db[i]
    BY <1>6 DEF WriteDoc
  <2>4. i \in Docs /\ db[i] = 0 =>
          /\ entry[i] = NoEntry /\ ~Handling(i)
          /\ \A r \in Readers : rpc[r] # "idle" => rid[r] # i
    BY DEF BlankInv, Untouched
  <2>5. BlankOnlyWhenAbsent'
    BY <2>1, <2>2, <2>3, <2>4
       DEF BlankInv, BlankOnlyWhenAbsent, NoEntry, EmptyDoc, NullDoc
  <2>6. Untouched'
    BY <2>1, <2>2, <2>3, ActorsAssumption DEF BlankInv, Untouched, Handling, Ids
  <2>7. BlanksInHand'
    BY <2>1, <2>2, <2>3, <2>4 DEF BlankInv, BlanksInHand, Handling
  <2> QED BY <2>5, <2>6, <2>7 DEF BlankInv
<1>7. ASSUME ListenerStep \/ CallFails \/ FmsDies,
             \A i \in Ids : \/ entry'[i] = entry[i]
                            \/ /\ lpc \in {"store", "getFill"} /\ lid = i
                               /\ entry'[i] = lval,
             lpc' # "idle" => Handling(lid') \/ OnTheWay(lid'),
             lpc' \in {"store", "getFill"}
               => lpc # "idle" /\ lval' = Loaded(lid) /\ lid' = lid
      PROVE  BlankInv'
  <2>1. UNCHANGED <<db, rpc, rid, rval, spc>>
    BY <1>7, ListenerFrame DEF readerVars, saverVars
  <2>2. NoSave
    BY <2>1 DEF WriteDoc
  <2>3. \A i \in Ids : \/ entry'[i] \in {entry[i], NoEntry}
                       \/ \E r \in Readers : /\ rpc[r] = "fill" /\ rid[r] = i
                                             /\ entry'[i] = rval[r]
                       \/ /\ lpc \in {"store", "getFill"} /\ lid = i
                          /\ entry'[i] = lval
    BY <1>7
  <2>4. /\ \A r \in Readers : rpc'[r] # "idle" => rpc[r] # "idle" /\ rid'[r] = rid[r]
        /\ \A r \in Readers : rpc'[r] \in {"release", "fill"} =>
              rpc[r] \in {"release", "fill"} /\ rval'[r] = rval[r]
    BY <2>1
  <2>5. UNCHANGED db
    BY <2>1
  <2>6. lpc' # "idle" => Handling(lid') \/ OnTheWay(lid')
    BY <1>7
  <2>7. lpc' \in {"store", "getFill"}
          => lpc # "idle" /\ lval' = Loaded(lid) /\ lid' = lid
    BY <1>7
  <2> HIDE <1>7
  <2> QED BY <2>2, <2>3, <2>4, <2>5, <2>6, <2>7, BlankKept
<1>8. ASSUME Deliver PROVE BlankInv'
  <2>1. UNCHANGED entry /\ lpc' = "read"
    BY <1>8 DEF Deliver, dataVars
  <2>2. 1 \in 1 .. Len(queue) /\ queue[1] = lid'
    BY <1>8 DEF Deliver
  <2>3. OnTheWay(lid')
    BY <2>2 DEF OnTheWay
  <2> QED BY <1>7, <1>8, <2>1, <2>3 DEF ListenerStep
<1>9. ASSUME PutStore \/ GetFill PROVE BlankInv'
  <2>1. /\ lpc \in {"store", "getFill"} /\ lpc' \in {"get", "compare"}
        /\ lid' = lid /\ entry' = [entry EXCEPT ![lid] = lval]
    BY <1>9 DEF PutStore, GetFill, Install
  <2>2. Handling(lid')
    BY <2>1 DEF Handling
  <2> QED BY <1>7, <1>9, <2>1, <2>2 DEF ListenerStep
<1>10. ASSUME PutRead \/ GetCache PROVE BlankInv'
  <2>1. UNCHANGED <<entry, lid>> /\ lpc \in {"read", "get"}
    BY <1>10 DEF PutRead, GetCache, dataVars
  <2>2. lpc' \in {"store", "getFill"} => lval' = Loaded(lid)
    BY <1>10 DEF PutRead, GetCache
  <2>3. Handling(lid')
    BY <2>1 DEF Handling
  <2> QED BY <1>7, <1>10, <2>1, <2>2, <2>3 DEF ListenerStep
<1>11. ASSUME Compare \/ Retry \/ Park \/ Ack \/ CallFails \/ FmsDies
       PROVE  BlankInv'
  <2>1. UNCHANGED entry
    BY <1>11 DEF Compare, Retry, Park, Ack, CallFails, FmsDies, dataVars
  <2>2. lpc # "idle" /\ lpc' \notin {"store", "getFill"}
    BY <1>11 DEF Compare, Retry, Park, Ack, CallFails, FmsDies
  <2>3. lpc' # "idle" => lid' = lid
    BY <1>11 DEF Compare, Retry, Park, Ack, CallFails, FmsDies
  <2>4. lpc' # "idle" => Handling(lid')
    BY <2>2, <2>3 DEF Handling
  <2> QED BY <1>7, <1>11, <2>1, <2>2, <2>4 DEF ListenerStep
<1>12. ASSUME UNCHANGED vars PROVE BlankInv'
  <2>1. UNCHANGED <<db, entry, spc, rpc, rid, rval, lpc, lid, lval>>
    BY <1>12 DEF vars, dataVars, readerVars, saverVars, listenerVars
  <2>2. NoSave
    BY <2>1 DEF WriteDoc
  <2> QED BY <2>1, <2>2, <1>3
<1> QED BY <1>1, <1>2, <1>4, <1>5, <1>6, <1>8, <1>9, <1>10, <1>11, <1>12
        DEF Next, ReaderStep, ListenerStep

\* A blank or null article is cached for an id Mongo does not have, and for no
\* other: a notification never overtakes the insert it announces
\* (saveCreation l.105-107).
THEOREM NoBlankArticle == Spec => []BlankOnlyWhenAbsent
<1>1. Init => BlankInv
  BY DEF Init, BlankInv, BlankOnlyWhenAbsent, Untouched, BlanksInHand, Handling,
     OnTheWay, EmptyDoc, NullDoc, NoEntry, Ids
<1>2. TypeOK /\ BlankInv /\ [Next]_vars => BlankInv'
  BY BlankStep
<1>3. BlankInv => BlankOnlyWhenAbsent
  BY DEF BlankInv
<1> QED BY TypeCorrect, <1>1, <1>2, <1>3, PTL DEF Spec

-----------------------------------------------------------------------------
(* Notifications for ids Mongo does not have.                              *)

\* fms forbids cached nulls, and its own copy of a missing article is blank: what
\* it is about to compare is no null, whoever put it under the key.
NoNullInHand == lpc \in {"getFill", "compare"} => lval # NullDoc

ParkInv == NoNullInHand /\ UnknownIsParked

LEMMA ParkStep == ASSUME TypeOK, ParkInv, [Next]_vars PROVE ParkInv'
<1> USE DEF TypeOK, ParkInv, NoNullInHand, UnknownIsParked
<1>1. ASSUME UNCHANGED <<lpc, lid, lval, parked>>, \A i \in Ids : db'[i] = 0 => db[i] = 0
      PROVE  ParkInv'
  BY <1>1 DEF ListenerPlaces
<1>2. CASE ListenerStep \/ CallFails \/ FmsDies
  <2>1. UNCHANGED db
    BY <1>2, ListenerFrame
  <2>2. CASE \/ Deliver \/ PutRead \/ PutStore \/ Retry \/ Ack \/ CallFails \/ FmsDies
    <3>1. lpc' \notin {"getFill", "compare", "ack"}
      BY <2>2 DEF Deliver, PutRead, PutStore, Retry, Ack, CallFails, FmsDies, Install
    <3> QED BY <3>1
  <2>3. CASE GetCache
    <3>1. Loaded(lid) # NullDoc
      BY DEF Loaded, EmptyDoc, NullDoc
    <3> QED BY <2>3, <3>1 DEF GetCache, NoEntry, NullDoc
  <2>4. CASE GetFill
    BY <2>4 DEF GetFill, Install
  <2>5. CASE Compare
    <3>1. lpc' = "ack" => db[lid] # 0
      BY <2>5 DEF Compare, NullDoc
    <3>2. lpc' \in {"ack", "failed"} /\ UNCHANGED lid
      BY <2>5 DEF Compare
    <3> QED BY <2>1, <3>1, <3>2
  <2>6. CASE Park
    BY <2>6 DEF Park
  <2> QED BY <1>2, <2>2, <2>3, <2>4, <2>5, <2>6 DEF ListenerStep
<1>3. ASSUME NEW r \in Readers,
             \/ ReaderStep(r) \/ FindOneFails(r) \/ ReaderDies(r)
             \/ \E i \in Ids : Lookup(r, i)
      PROVE  ParkInv'
  <2>1. UNCHANGED <<db, lpc, lid, lval, parked>>
    BY <1>3 DEF ReaderStep, TryLock, FindOne, Unlock, Refuse, AnswerRefused, Fill,
       FindOneFails, ReaderDies, Lookup, dataVars, listenerVars
  <2> QED BY <1>1, <2>1
<1>4. ASSUME NEW s \in Savers, NEW i \in Ids, WriteDoc(s, i) PROVE ParkInv'
  <2>1. UNCHANGED <<lpc, lid, lval, parked>>
    BY <1>4 DEF WriteDoc
  <2>2. db' = [db EXCEPT ![i] = @ + 1] \/ UNCHANGED db
    BY <1>4 DEF WriteDoc
  <2>3. \A j \in Ids : db'[j] = 0 => db[j] = 0
    BY <2>2
  <2> QED BY <1>1, <2>1, <2>3
<1>5. ASSUME NEW s \in Savers, Submit(s) \/ SaverDies(s) PROVE ParkInv'
  BY <1>1, <1>5 DEF Submit, SaverDies, dataVars, listenerVars
<1>6. ASSUME NEW i \in Ids, LeaseExpires(i) \/ Expire(i) \/ Publish(i) \/ PublishFails(i)
      PROVE  ParkInv'
  BY <1>1, <1>6 DEF LeaseExpires, Expire, Publish, PublishFails, dataVars, listenerVars
<1>7. CASE UNCHANGED vars
  BY <1>1, <1>7 DEF vars, dataVars, listenerVars
<1> QED BY <1>2, <1>3, <1>4, <1>5, <1>6, <1>7 DEF Next

\* A notification for an id Mongo does not have is acknowledged only once it is in
\* error.cache, also when a reader's null marker lies under the key.
THEOREM UnknownParked == Spec => []UnknownIsParked
<1>1. Init => ParkInv
  BY DEF Init, ParkInv, NoNullInHand, UnknownIsParked
<1>2. TypeOK /\ ParkInv /\ [Next]_vars => ParkInv'
  BY ParkStep
<1>3. ParkInv => UnknownIsParked
  BY DEF ParkInv
<1> QED BY <1>1, <1>2, <1>3, TypeCorrect, PTL DEF Spec
=============================================================================

--------------------------- MODULE CreationCache ---------------------------
(***************************************************************************)
(* One article (Creation) lives in Mongo and, as a copy, in redis under    *)
(* creation::<id>.  fish-web readers fill the entry behind a redisson lock *)
(* (CreationServiceImpl.getCreationById, @Cacheable), savers write Mongo   *)
(* and hand a notification to an executor (saveCreation), and the single   *)
(* listener of fish-fms (RMQListener) refreshes the entry, reads it back   *)
(* and compares it with Mongo, three attempts at most.                     *)
(*                                                                         *)
(* Each remote call is one step; between two calls of a handler every      *)
(* other actor may run.  A document is its version number.                 *)
(***************************************************************************)
EXTENDS Integers, Sequences, FiniteSets

CONSTANTS Docs,         \* ids an insert returns
          Unknown,      \* ids a client may send that no insert ever returned
          Readers,      \* request threads in getCreationById
          Savers,       \* request threads in saveCreation
          Free, Gone,   \* a lock nobody holds; one whose owner has died
          Listener,     \* the fms listener, as an agent that fills the cache
          MaxAttempts,  \* spring.rabbitmq.listener.simple.retry.max-attempts
          MaxVersion,   \* bound: versions of one document
          MaxBacklog,   \* bound: notifications under way at once
          MaxFaults     \* bound: crashes and failed calls in one behaviour

Ids == Docs \cup Unknown

ASSUME ActorsAssumption == /\ Free \notin Readers /\ Gone \notin Readers
                           /\ Free # Gone /\ Listener \notin Readers
                           /\ Docs \cap Unknown = {}
ASSUME BoundsAssumption == /\ MaxAttempts \in Nat \ {0} /\ MaxVersion \in Nat
                           /\ MaxBacklog \in Nat /\ MaxFaults \in Nat

VARIABLES
  db,        \* db[i]: version of document i in Mongo, 0 when it is absent
  entry,     \* entry[i]: value under creation::i, see the values below
  by,        \* by[i]: who installed the value entry[i] last held (history)
  lock,      \* lock[i]: owner of the RLock getCreationById:<i>
  rpc, rid, rval,          \* readers: place, document asked for, copy in hand
  spc, sid,                \* savers: place, document saved
  unsent,    \* unsent[i]: sends of i waiting in scheduledExecutorService
  queue,     \* the queue cache.creation, unacknowledged head excluded
  lpc, lid, lval, attempt, \* listener: place, message, copy in hand, attempt
  interference, \* did a save, a reader's fill or a failed call hit this attempt?
  parked,    \* ids republished to error.direct -> error.cache
  lost,      \* lost[i]: db[i] when a notification of i last got lost (history)
  faults     \* crashes and failed calls so far

dataVars     == <<db, entry, by, lock>>
readerVars   == <<rpc, rid, rval>>
saverVars    == <<spc, sid, unsent>>
listenerVars == <<lpc, lid, lval, attempt, interference, parked>>
vars == <<dataVars, readerVars, saverVars, queue, listenerVars, lost, faults>>

\* Values of an entry; versions are 1, 2, ...
NoEntry  == -2   \* no such key in redis
EmptyDoc == -1   \* the blank Creation fms stores when Mongo has no document
NullDoc  == 0    \* the null marker fish-web stores; also findOne's null
NoId     == "none"

Values == {NoEntry, EmptyDoc} \cup Nat

ReaderPlaces   == {"idle", "miss", "query", "release", "fill", "refused",
                   "busy", "notOwner"}
ListenerPlaces == {"idle", "read", "store", "get", "getFill", "compare",
                   "failed", "park", "ack"}

Init ==
  /\ db = [i \in Ids |-> 0]
  /\ entry = [i \in Ids |-> NoEntry]
  /\ by = [i \in Ids |-> Listener]
  /\ lock = [i \in Ids |-> Free]
  /\ rpc = [r \in Readers |-> "idle"]
  /\ rid = [r \in Readers |-> NoId]
  /\ rval = [r \in Readers |-> NoEntry]
  /\ spc = [s \in Savers |-> "idle"]
  /\ sid = [s \in Savers |-> NoId]
  /\ unsent = [i \in Ids |-> 0]
  /\ queue = <<>>
  /\ lpc = "idle" /\ lid = NoId /\ lval = NoEntry /\ attempt = 0
  /\ interference = "none" /\ parked = {}
  /\ lost = [i \in Ids |-> 0]
  /\ faults = 0

Fault == faults < MaxFaults /\ faults' = faults + 1

\* The history flag of the listener's attempt, after document i was touched.
Disturb(i) == interference' = IF lpc # "idle" /\ lid = i THEN "some"
                              ELSE interference

-----------------------------------------------------------------------------
(* Readers: GET /creation/{id} -> getCreationById.                         *)

\* The request is answered and its locals are gone.
Return(r) == /\ rpc' = [rpc EXCEPT ![r] = "idle"]
             /\ rid' = [rid EXCEPT ![r] = NoId]
             /\ rval' = [rval EXCEPT ![r] = NoEntry]

\* A client asks for an id it was given, or for one nobody has.
Asked(i) == i \in Unknown \/ db[i] > 0

\* @Cacheable looks the key up; a hit answers at once and changes nothing.
Lookup(r, i) ==
  /\ rpc[r] = "idle" /\ Asked(i) /\ entry[i] = NoEntry
  /\ rpc' = [rpc EXCEPT ![r] = "miss"]
  /\ rid' = [rid EXCEPT ![r] = i]
  /\ UNCHANGED <<dataVars, rval, saverVars, queue, listenerVars, lost, faults>>

TryLock(r) ==
  /\ rpc[r] = "miss"
  /\ \/ /\ lock[rid[r]] = Free
        /\ lock' = [lock EXCEPT ![rid[r]] = r]
        /\ rpc' = [rpc EXCEPT ![r] = "query"]
     \/ /\ lock[rid[r]] # Free
        /\ rpc' = [rpc EXCEPT ![r] = "refused"]
        /\ UNCHANGED lock
  /\ UNCHANGED <<db, entry, by, rid, rval, saverVars, queue, listenerVars,
                 lost, faults>>

FindOne(r) ==
  /\ rpc[r] = "query"
  /\ rpc' = [rpc EXCEPT ![r] = "release"]
  /\ rval' = [rval EXCEPT ![r] = db[rid[r]]]
  /\ UNCHANGED <<dataVars, rid, saverVars, queue, listenerVars, lost, faults>>

\* Faulty variant: the exception is swallowed and null is returned.
FindOneFailsAsNull(r) ==
  /\ rpc[r] = "query" /\ Fault
  /\ rpc' = [rpc EXCEPT ![r] = "release"]
  /\ rval' = [rval EXCEPT ![r] = NullDoc]
  /\ UNCHANGED <<dataVars, rid, saverVars, queue, listenerVars, lost>>

\* The query throws: finally still releases the lock, nothing is cached.
FindOneFails(r) ==
  /\ rpc[r] = "query" /\ Fault
  /\ rpc' = [rpc EXCEPT ![r] = "release"]
  /\ rval' = [rval EXCEPT ![r] = NoEntry]
  /\ UNCHANGED <<dataVars, rid, saverVars, queue, listenerVars, lost>>

\* Faulty variant: unlock() stands after the query, not in finally.
UnlockOnSuccess(r) ==
  /\ rpc[r] = "release"
  /\ \/ rval[r] = NoEntry /\ Return(r) /\ UNCHANGED lock
     \/ /\ rval[r] # NoEntry
        /\ rpc' = [rpc EXCEPT ![r] = "fill"]
        /\ lock' = [lock EXCEPT ![rid[r]] = Free]
        /\ UNCHANGED <<rid, rval>>
  /\ UNCHANGED <<db, entry, by, saverVars, queue, listenerVars, lost, faults>>

\* finally of the owner: isLocked() holds, unlock() succeeds.
Unlock(r) ==
  /\ rpc[r] = "release"
  /\ lock' = [lock EXCEPT ![rid[r]] = Free]
  /\ \/ rval[r] = NoEntry /\ Return(r)
     \/ /\ rval[r] # NoEntry
        /\ rpc' = [rpc EXCEPT ![r] = "fill"]
        /\ UNCHANGED <<rid, rval>>
  /\ UNCHANGED <<db, entry, by, saverVars, queue, listenerVars, lost, faults>>

\* Faulty variant: forceUnlock() for unlock().
RefuseForcing(r) ==
  /\ rpc[r] = "refused"
  /\ rpc' = [rpc EXCEPT ![r] = "busy"]
  /\ lock' = [lock EXCEPT ![rid[r]] = Free]
  /\ UNCHANGED <<db, entry, by, rid, rval, saverVars, queue, listenerVars, lost,
                 faults>>

\* finally of a thread that was refused: isLocked() asks whether anybody holds
\* the lock; if so unlock() throws IllegalMonitorStateException, which replaces
\* the BusinessException on its way out.
Refuse(r) ==
  /\ rpc[r] = "refused"
  /\ rpc' = [rpc EXCEPT ![r] = IF lock[rid[r]] = Free THEN "busy" ELSE "notOwner"]
  /\ UNCHANGED <<dataVars, rid, rval, saverVars, queue, listenerVars, lost,
                 faults>>

AnswerRefused(r) ==
  /\ rpc[r] \in {"busy", "notOwner"}
  /\ Return(r)
  /\ UNCHANGED <<dataVars, saverVars, queue, listenerVars, lost, faults>>

\* @Cacheable stores the result after the method has returned, lock released.
Fill(r) ==
  /\ rpc[r] = "fill"
  /\ entry' = [entry EXCEPT ![rid[r]] = rval[r]]
  /\ by' = [by EXCEPT ![rid[r]] = r]
  /\ Return(r)
  /\ Disturb(rid[r])
  /\ UNCHANGED <<db, lock, saverVars, queue, lpc, lid, lval, attempt,
                 parked, lost, faults>>

\* The web process dies under the request: a lock it held is renewed no more.
ReaderDies(r) ==
  /\ rpc[r] # "idle" /\ Fault
  /\ Return(r)
  /\ lock' = [i \in Ids |-> IF lock[i] = r THEN Gone ELSE lock[i]]
  /\ UNCHANGED <<db, entry, by, saverVars, queue, listenerVars, lost>>

\* The watchdog lease (30 s) of a dead owner runs out.
LeaseExpires(i) ==
  /\ lock[i] = Gone
  /\ lock' = [lock EXCEPT ![i] = Free]
  /\ UNCHANGED <<db, entry, by, readerVars, saverVars, queue, listenerVars,
                 lost, faults>>

\* Faulty variant: fish-web configures no entryTtl.
ExpireOfFmsOnly(i) ==
  /\ entry[i] # NoEntry /\ by[i] = Listener
  /\ entry' = [entry EXCEPT ![i] = NoEntry]
  /\ UNCHANGED <<db, by, lock, readerVars, saverVars, queue, listenerVars,
                 lost, faults>>

\* The entry's time to live passes (2 h from fish-web, 5 min from fms).
Expire(i) ==
  /\ entry[i] # NoEntry
  /\ entry' = [entry EXCEPT ![i] = NoEntry]
  /\ UNCHANGED <<db, by, lock, readerVars, saverVars, queue, listenerVars,
                 lost, faults>>

-----------------------------------------------------------------------------
(* Savers: POST /creation -> saveCreation, then the executor and RabbitMQ. *)

Holding(i) == Cardinality({s \in Savers : spc[s] = "written" /\ sid[s] = i})
Underway(i) == Holding(i) + unsent[i]
               + Len(SelectSeq(queue, LAMBDA m : m = i))
               + (IF lpc # "idle" /\ lid = i THEN 1 ELSE 0)

\* insert for a document that is not there yet, updateFirst for one that is;
\* updateFirst of an unknown id matches nothing and is not noticed.
WriteDoc(s, i) ==
  /\ spc[s] = "idle"
  /\ Underway(i) < MaxBacklog
  /\ \/ /\ i \in Docs /\ db[i] < MaxVersion
        /\ db' = [db EXCEPT ![i] = @ + 1]
        /\ Disturb(i)
     \/ /\ i \in Unknown
        /\ UNCHANGED <<db, interference>>
  /\ spc' = [spc EXCEPT ![s] = "written"]
  /\ sid' = [sid EXCEPT ![s] = i]
  /\ UNCHANGED <<entry, by, lock, readerVars, unsent, queue, lpc, lid, lval,
                 attempt, parked, lost, faults>>

Done(s) == /\ spc' = [spc EXCEPT ![s] = "idle"]
           /\ sid' = [sid EXCEPT ![s] = NoId]

\* scheduledExecutorService.execute(...)
Submit(s) ==
  /\ spc[s] = "written"
  /\ unsent' = [unsent EXCEPT ![sid[s]] = @ + 1]
  /\ Done(s)
  /\ UNCHANGED <<dataVars, readerVars, queue, listenerVars, lost, faults>>

\* The process dies between the write and the hand-over.
SaverDies(s) ==
  /\ spc[s] = "written" /\ Fault
  /\ Done(s)
  /\ lost' = [lost EXCEPT ![sid[s]] = db[sid[s]]]
  /\ UNCHANGED <<dataVars, readerVars, unsent, queue, listenerVars>>

\* rabbitTemplate.convertAndSend("amq.topic", "cache.creation", id)
Publish(i) ==
  /\ unsent[i] > 0
  /\ unsent' = [unsent EXCEPT ![i] = @ - 1]
  /\ queue' = Append(queue, i)
  /\ UNCHANGED <<dataVars, readerVars, spc, sid, listenerVars, lost, faults>>

\* The send throws in the executor's thread (or the process dies first):
\* nobody sees the exception and nobody sends again.
PublishFails(i) ==
  /\ unsent[i] > 0 /\ Fault
  /\ unsent' = [unsent EXCEPT ![i] = @ - 1]
  /\ lost' = [lost EXCEPT ![i] = db[i]]
  /\ UNCHANGED <<dataVars, readerVars, spc, sid, queue, listenerVars>>

-----------------------------------------------------------------------------
(* The listener: RMQListener.listenCacheUpdate, prefetch 1, stateless retry *)

Deliver ==
  /\ lpc = "idle" /\ queue # <<>>
  /\ lid' = Head(queue) /\ queue' = Tail(queue)
  /\ lpc' = "read" /\ attempt' = 1
  /\ interference' = "none"
  /\ UNCHANGED <<dataVars, readerVars, saverVars, lval, parked, lost, faults>>

\* What RedisCacheServiceImpl returns for the document it found.
Loaded(i) == IF db[i] = 0 THEN EmptyDoc ELSE db[i]

\* putCreationCache: findOne ...
PutRead ==
  /\ lpc = "read"
  /\ lpc' = "store" /\ lval' = Loaded(lid)
  /\ interference' = "none"
  /\ UNCHANGED <<dataVars, readerVars, saverVars, queue, lid, attempt, parked,
                 lost, faults>>

Install(next) ==
  /\ entry' = [entry EXCEPT ![lid] = lval]
  /\ by' = [by EXCEPT ![lid] = Listener]
  /\ lpc' = next
  /\ UNCHANGED <<db, lock, readerVars, saverVars, queue, lid, lval, attempt,
                 interference, parked, lost, faults>>

\* Faulty variant: @Cacheable for @CachePut, a present key is left alone.
PutStoreIfAbsent ==
  \/ lpc = "store" /\ entry[lid] = NoEntry /\ Install("get")
  \/ /\ lpc = "store" /\ entry[lid] # NoEntry /\ lpc' = "get"
     /\ UNCHANGED <<dataVars, readerVars, saverVars, queue, lid, lval, attempt,
                    interference, parked, lost, faults>>

\* ... and @CachePut stores it.
PutStore == lpc = "store" /\ Install("get")

\* Faulty variant: fms allows cached nulls, as fish-web does.
GetCacheWithNulls ==
  /\ lpc = "get"
  /\ lval' = IF entry[lid] = NoEntry THEN Loaded(lid) ELSE entry[lid]
  /\ lpc' = IF entry[lid] = NoEntry THEN "getFill" ELSE "compare"
  /\ UNCHANGED <<dataVars, readerVars, saverVars, queue, lid, attempt,
                 interference, parked, lost, faults>>

\* getCreationCache: @Cacheable hit, or a miss that queries Mongo once more.
\* fms forbids cached nulls, so it cannot deserialize the marker of fish-web.
GetCache ==
  /\ lpc = "get"
  /\ lval' = IF entry[lid] = NoEntry THEN Loaded(lid) ELSE entry[lid]
  /\ lpc' = CASE entry[lid] = NoEntry -> "getFill"
              [] entry[lid] = NullDoc -> "failed"
              [] OTHER -> "compare"
  /\ UNCHANGED <<dataVars, readerVars, saverVars, queue, lid, attempt,
                 interference, parked, lost, faults>>

GetFill == lpc = "getFill" /\ Install("compare")

\* findOne again; Creation.equals decides, and a difference throws.  A missing
\* document is null, which equals no Creation.
Compare ==
  /\ lpc = "compare"
  /\ lpc' = IF lval = db[lid] THEN "ack" ELSE "failed"
  /\ UNCHANGED <<dataVars, readerVars, saverVars, queue, lid, lval, attempt,
                 interference, parked, lost, faults>>

\* A call of the listener to redis or Mongo throws: the attempt fails as well,
\* and the last attempt takes the notification with it.
CallFails ==
  /\ lpc \in {"read", "store", "get", "getFill", "compare"} /\ Fault
  /\ lpc' = "failed" /\ interference' = "some"
  /\ lost' = IF attempt = MaxAttempts THEN [lost EXCEPT ![lid] = db[lid]] ELSE lost
  /\ UNCHANGED <<dataVars, readerVars, saverVars, queue, lid, lval, attempt,
                 parked>>

\* Faulty variants: one attempt too many; no recoverer, so the broker gives
\* the same message back for ever.
RetryOnceMore ==
  /\ lpc = "failed"
  /\ \/ /\ attempt <= MaxAttempts
        /\ attempt' = attempt + 1 /\ lpc' = "read"
     \/ /\ attempt > MaxAttempts
        /\ lpc' = "park" /\ UNCHANGED attempt
  /\ UNCHANGED <<dataVars, readerVars, saverVars, queue, lid, lval, interference,
                 parked, lost, faults>>

RetryByRequeue ==
  /\ lpc = "failed"
  /\ attempt' = (attempt % MaxAttempts) + 1 /\ lpc' = "read"
  /\ UNCHANGED <<dataVars, readerVars, saverVars, queue, lid, lval, interference,
                 parked, lost, faults>>

Retry ==
  /\ lpc = "failed"
  /\ \/ /\ attempt < MaxAttempts
        /\ attempt' = attempt + 1 /\ lpc' = "read"
     \/ /\ attempt = MaxAttempts
        /\ lpc' = "park" /\ UNCHANGED attempt
  /\ UNCHANGED <<dataVars, readerVars, saverVars, queue, lid, lval, interference,
                 parked, lost, faults>>

\* RepublishMessageRecoverer: to error.direct, then the container acks.
Park ==
  /\ lpc = "park"
  /\ parked' = parked \cup {lid} /\ lpc' = "ack"
  /\ UNCHANGED <<dataVars, readerVars, saverVars, queue, lid, lval, attempt,
                 interference, lost, faults>>

Ack ==
  /\ lpc = "ack"
  /\ lpc' = "idle" /\ lid' = NoId /\ lval' = NoEntry /\ attempt' = 0
  /\ interference' = "none"
  /\ UNCHANGED <<dataVars, readerVars, saverVars, queue, parked, lost, faults>>

\* Faulty variant: acknowledge-mode none, the message went with its delivery.
FmsDiesUnacked ==
  /\ lpc # "idle" /\ Fault
  /\ lpc' = "idle" /\ lid' = NoId /\ lval' = NoEntry /\ attempt' = 0
  /\ interference' = "none"
  /\ UNCHANGED <<dataVars, readerVars, saverVars, queue, parked, lost>>

\* fms dies: the broker puts the unacknowledged message back at the head.
FmsDies ==
  /\ lpc # "idle" /\ Fault
  /\ queue' = <<lid>> \o queue
  /\ lpc' = "idle" /\ lid' = NoId /\ lval' = NoEntry /\ attempt' = 0
  /\ interference' = "none"
  /\ UNCHANGED <<dataVars, readerVars, saverVars, parked, lost>>

-----------------------------------------------------------------------------
ReaderStep(r) == \/ TryLock(r) \/ FindOne(r) \/ Unlock(r) \/ Refuse(r)
                 \/ AnswerRefused(r) \/ Fill(r)
ListenerStep == \/ Deliver \/ PutRead \/ PutStore \/ GetCache \/ GetFill
                \/ Compare \/ Retry \/ Park \/ Ack

Next ==
  \/ \E r \in Readers : \/ ReaderStep(r) \/ FindOneFails(r) \/ ReaderDies(r)
                        \/ \E i \in Ids : Lookup(r, i)
  \/ \E s \in Savers : \/ Submit(s) \/ SaverDies(s)
                       \/ \E i \in Ids : WriteDoc(s, i)
  \/ \E i \in Ids : \/ LeaseExpires(i) \/ Expire(i)
                    \/ Publish(i) \/ PublishFails(i)
  \/ ListenerStep \/ CallFails \/ FmsDies

Spec == Init /\ [][Next]_vars

\* Request threads, the executor, the container thread and redis's clock all
\* run on; nobody is obliged to ask, to save, or to fail.
Fairness ==
  /\ \A r \in Readers : WF_vars(ReaderStep(r))
  /\ \A s \in Savers : WF_vars(Submit(s))
  /\ \A i \in Ids : /\ WF_vars(Publish(i)) /\ WF_vars(LeaseExpires(i))
                    /\ WF_vars(Expire(i))
  /\ WF_vars(ListenerStep)

FairSpec == Spec /\ Fairness

-----------------------------------------------------------------------------
(* Properties.                                                             *)

\* Types of the variables.
TypeOK ==
  /\ db \in [Ids -> Nat]
  /\ entry \in [Ids -> Values]
  /\ by \in [Ids -> Readers \cup {Listener}]
  /\ lock \in [Ids -> Readers \cup {Free, Gone}]
  /\ rpc \in [Readers -> ReaderPlaces]
  /\ rid \in [Readers -> Ids \cup {NoId}]
  /\ \A r \in Readers : rpc[r] # "idle" => rid[r] \in Ids
  /\ rval \in [Readers -> Values]
  /\ spc \in [Savers -> {"idle", "written"}]
  /\ sid \in [Savers -> Ids \cup {NoId}]
  /\ \A s \in Savers : spc[s] = "written" => sid[s] \in Ids
  /\ unsent \in [Ids -> Nat]
  /\ queue \in Seq(Ids)
  /\ lpc \in ListenerPlaces
  /\ lid \in Ids \cup {NoId}
  /\ lpc # "idle" => lid \in Ids
  /\ lval \in Values
  /\ attempt \in 0 .. MaxAttempts
  /\ interference \in {"none", "some"}
  /\ parked \subseteq Ids
  /\ lost \in [Ids -> Nat]
  /\ faults \in 0 .. MaxFaults

\* The redisson lock does what it is there for: of all the requests that miss
\* on one article at the same time, one queries Mongo (CreationServiceImpl
\* l.120-127), also when lock owners die and leases run out.
OneQueryPerArticle ==
  \A r1, r2 \in Readers :
    r1 # r2 /\ rpc[r1] = "query" /\ rpc[r2] = "query" => rid[r1] # rid[r2]

\* A blank or null article is cached only for an id Mongo does not have: the
\* notification of an insert never overtakes the insert (saveCreation l.105-107,
\* putCreationCache l.30-31).
BlankOnlyWhenAbsent ==
  \A i \in Ids : entry[i] \in {EmptyDoc, NullDoc} => db[i] = 0

\* A notification of i has still to reach the listener ...
OnTheWay(i) ==
  \/ \E s \in Savers : spc[s] = "written" /\ sid[s] = i
  \/ unsent[i] > 0
  \/ \E k \in 1 .. Len(queue) : queue[k] = i

\* ... or the listener has still to store what it reads, or has read, for one.
Pending(i) ==
  \/ OnTheWay(i)
  \/ lid = i /\ \/ lpc \in {"read", "store", "getFill"}
                \/ lpc = "failed" /\ attempt < MaxAttempts

Stale(i) == db[i] > 0 /\ entry[i] # NoEntry /\ entry[i] < db[i]

\* An entry the listener installed is out of date only while a newer
\* notification is under way or because the one of the newest version was lost:
\* retries, crashes, redelivery and parking never leave an old value behind
\* (RMQListener l.45, RabbitMQConfig l.46-48).
ListenerKeepsUp ==
  \A i \in Ids : Stale(i) /\ by[i] = Listener => Pending(i) \/ lost[i] = db[i]

\* The attempt for an article Mongo has fails only if, since the listener read
\* it, somebody saved it, a reader's fill landed on it, or a call failed: the
\* comparison (RMQListener l.49) raises no false alarm, so error.cache collects
\* real interference only.
MismatchMeansInterference ==
  lpc = "failed" /\ db[lid] > 0 => interference = "some"

\* A notification for an id Mongo does not have is never taken for verified,
\* not even when a reader has put the null marker over the blank copy between
\* the listener's store and its read (fms CacheConfig l.24): it is parked.
UnknownIsParked == lpc = "ack" /\ db[lid] = 0 => lid \in parked

\* Every notification ends: refreshed and verified, or parked after the last
\* attempt; a poisoned message does not block those behind it.
NotificationsEnd == \A i \in Docs : Pending(i) ~> ~Pending(i)

\* Once the saves are over an entry that disagrees with Mongo does not survive,
\* whatever was lost or filled late: the time to live removes it for good.
EventuallyFresh == \A i \in Docs : <>[]~Stale(i)

\* A lock left behind by a dead owner does not refuse readers for ever.
LockComesFree == \A i \in Ids : lock[i] # Free ~> lock[i] = Free

-----------------------------------------------------------------------------
(* The contract the cache implements.                                      *)

Copy(pcs, pc, i, v) == IF pc \in pcs THEN [id |-> i, val |-> v]
                       ELSE [id |-> NoId, val |-> NoEntry]

copies == [a \in Readers \cup {Listener} |->
             IF a \in Readers
             THEN IF rval[a] = NoEntry THEN [id |-> NoId, val |-> NoEntry]
                  ELSE Copy({"release", "fill"}, rpc[a], rid[a], rval[a])
             ELSE Copy({"store", "getFill"}, lpc, lid, lval)]

Contract == INSTANCE CacheContract
              WITH Agents <- Readers \cup {Listener}, copy <- copies

\* Every value in the cache is a copy some actor took out of Mongo.
CopiesComeFromMongo == Contract!Spec
=============================================================================

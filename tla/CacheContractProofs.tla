------------------------ MODULE CacheContractProofs ------------------------
(***************************************************************************)
(* CreationCache implements CacheContract: each step of a reader, a saver, *)
(* redis or the listener is a step of the contract or leaves the database, *)
(* the entries and the copies alone.                                       *)
(***************************************************************************)
EXTENDS CreationCacheProofs

\* What @Cacheable is about to store is what findOne returned: a request whose
\* query threw never gets that far.
Found == \A r \in Readers : rpc[r] = "fill" => rval[r] # NoEntry

LEMMA FoundStep == ASSUME TypeOK, Found, [Next]_vars PROVE Found'
<1> USE DEF TypeOK, Found
<1>1. ASSUME UNCHANGED <<rpc, rval>> PROVE Found'
  BY <1>1
<1>2. ASSUME NEW r \in Readers,
             \/ ReaderStep(r) \/ FindOneFails(r) \/ ReaderDies(r)
             \/ \E i \in Ids : Lookup(r, i)
      PROVE  Found'
  <2>1. \A q \in Readers \ {r} : UNCHANGED <<rpc[q], rval[q]>>
    BY <1>2 DEF ReaderStep, TryLock, FindOne, Unlock, Refuse, AnswerRefused, Fill,
       FindOneFails, ReaderDies, Lookup, Return
  <2>2. rpc'[r] = "fill" => rval'[r] # NoEntry
    <3>1. CASE Unlock(r)
      BY <3>1 DEF Unlock, Return
    <3>2. CASE ~Unlock(r)
      BY <1>2, <3>2 DEF ReaderStep, TryLock, FindOne, Refuse, AnswerRefused, Fill,
         FindOneFails, ReaderDies, Lookup, Return
    <3> QED BY <3>1, <3>2
  <2> QED BY <2>1, <2>2
<1>3. ASSUME ListenerStep \/ CallFails \/ FmsDies PROVE Found'
  BY <1>1, <1>3, ListenerFrame DEF readerVars
<1>4. ASSUME NEW s \in Savers,
             Submit(s) \/ SaverDies(s) \/ \E i \in Ids : WriteDoc(s, i)
      PROVE  Found'
  BY <1>1, <1>4 DEF Submit, SaverDies, WriteDoc, readerVars
<1>5. ASSUME NEW i \in Ids,
             LeaseExpires(i) \/ Expire(i) \/ Publish(i) \/ PublishFails(i)
      PROVE  Found'
  BY <1>1, <1>5 DEF LeaseExpires, Expire, Publish, PublishFails, readerVars
<1>6. ASSUME UNCHANGED vars PROVE Found'
  BY <1>1, <1>6 DEF vars, readerVars
<1> QED BY <1>2, <1>3, <1>4, <1>5, <1>6 DEF Next

-----------------------------------------------------------------------------
(* The refinement mapping, one agent at a time.                            *)

NoCopy == [id |-> NoId, val |-> NoEntry]

CopyOf(r) == IF rval[r] # NoEntry /\ rpc[r] \in {"release", "fill"}
             THEN [id |-> rid[r], val |-> rval[r]] ELSE NoCopy
ListenersCopy == IF lpc \in {"store", "getFill"}
                 THEN [id |-> lid, val |-> lval] ELSE NoCopy

LEMMA CopiesByAgent ==
  /\ copies = [a \in Readers \cup {Listener} |->
                 IF a \in Readers THEN CopyOf(a) ELSE ListenersCopy]
  /\ \A r \in Readers : copies[r] = CopyOf(r)
  /\ copies[Listener] = ListenersCopy
BY ActorsAssumption DEF copies, CopyOf, ListenersCopy, NoCopy, Copy

LEMMA CopiesByAgentNext ==
  /\ copies' = [a \in Readers \cup {Listener} |->
                 IF a \in Readers THEN CopyOf(a)' ELSE ListenersCopy']
  /\ \A r \in Readers : copies'[r] = CopyOf(r)'
  /\ copies'[Listener] = ListenersCopy'
BY ActorsAssumption DEF copies, CopyOf, ListenersCopy, NoCopy, Copy

\* A step that touches the copy of one agent.
LEMMA ReaderCopies ==
  ASSUME NEW r \in Readers, UNCHANGED <<lpc, lid, lval>>,
         \A q \in Readers \ {r} : UNCHANGED <<rpc[q], rid[q], rval[q]>>
  PROVE  copies' = [copies EXCEPT ![r] = CopyOf(r)']
<1>1. \A q \in Readers \ {r} : CopyOf(q)' = CopyOf(q)
  BY DEF CopyOf, NoCopy
<1>2. ListenersCopy' = ListenersCopy
  BY DEF ListenersCopy, NoCopy
<1> QED BY <1>1, <1>2, CopiesByAgent, CopiesByAgentNext

LEMMA ListenerCopies ==
  ASSUME UNCHANGED <<rpc, rid, rval>>
  PROVE  copies' = [copies EXCEPT ![Listener] = ListenersCopy']
<1>1. \A q \in Readers : CopyOf(q)' = CopyOf(q)
  BY DEF CopyOf, NoCopy
<1> QED BY <1>1, CopiesByAgent, CopiesByAgentNext, ActorsAssumption

LEMMA SameCopies ==
  ASSUME UNCHANGED <<rpc, rid, rval, lpc, lid, lval>> PROVE copies' = copies
BY DEF copies, Copy

-----------------------------------------------------------------------------
(* The steps.                                                              *)

LEMMA InitRefines == Init => Contract!Init
<1> SUFFICES ASSUME Init PROVE Contract!Init
  OBVIOUS
<1>1. db \in [Ids -> Nat] /\ entry = [i \in Ids |-> NoEntry]
  BY DEF Init
<1>2. /\ \A r \in Readers : CopyOf(r) = NoCopy
      /\ ListenersCopy = NoCopy
  BY DEF Init, CopyOf, ListenersCopy
<1>3. copies = [a \in Readers \cup {Listener} |-> NoCopy]
  BY <1>2, CopiesByAgent
<1> QED BY <1>1, <1>3 DEF Contract!Init, Contract!NoCopy, Contract!NoEntry, NoCopy,
           NoEntry, NoId

\* FindOne takes a copy, Fill installs it, a death drops it.
LEMMA ReaderRefines ==
  ASSUME TypeOK, Found, NEW r \in Readers,
         \/ ReaderStep(r) \/ FindOneFails(r) \/ ReaderDies(r)
         \/ \E i \in Ids : Lookup(r, i)
  PROVE  [Contract!Next]_(Contract!avars)
<1> USE DEF TypeOK
<1>1. /\ UNCHANGED <<db, lpc, lid, lval>>
      /\ \A q \in Readers \ {r} : UNCHANGED <<rpc[q], rid[q], rval[q]>>
  BY DEF ReaderStep, TryLock, FindOne, Unlock, Refuse, AnswerRefused, Fill,
     FindOneFails, ReaderDies, Lookup, Return, dataVars, listenerVars
<1>2. copies' = [copies EXCEPT ![r] = CopyOf(r)'] /\ copies[r] = CopyOf(r)
  BY <1>1, ReaderCopies, CopiesByAgent
<1>3. ASSUME CopyOf(r)' = NoCopy, UNCHANGED entry PROVE Contract!Drop(r)
  BY <1>1, <1>2, <1>3 DEF Contract!Drop, Contract!NoCopy, Contract!NoEntry, NoCopy,
     NoEntry, NoId
<1>4. CASE FindOne(r)
  <2>1. rid[r] \in Ids /\ UNCHANGED entry
    BY <1>4 DEF FindOne, dataVars
  <2>2. CopyOf(r)' = [id |-> rid[r], val |-> db[rid[r]]]
    BY <1>4, <2>1 DEF FindOne, CopyOf, NoEntry
  <2>3. db[rid[r]] \in Contract!CopiesOf(db[rid[r]])
    BY DEF Contract!CopiesOf, Contract!NullDoc
  <2>4. Contract!Take(r, rid[r])
    BY <1>1, <1>2, <2>1, <2>2, <2>3 DEF Contract!Take
  <2> QED BY <2>1, <2>4 DEF Contract!Next
<1>5. CASE Fill(r)
  <2>1. /\ rpc[r] = "fill" /\ rid[r] \in Ids /\ rval[r] # NoEntry
        /\ entry' = [entry EXCEPT ![rid[r]] = rval[r]]
    BY <1>5 DEF Fill, Found
  <2>2. CopyOf(r) = [id |-> rid[r], val |-> rval[r]]
    BY <2>1 DEF CopyOf
  <2>3. CopyOf(r)' = NoCopy
    BY <1>5 DEF Fill, Return, CopyOf
  <2>4. Contract!Install(r)
    BY <1>1, <1>2, <2>1, <2>2, <2>3 DEF Contract!Install, Contract!NoCopy,
       Contract!NoEntry, NoCopy, NoEntry, NoId
  <2> QED BY <2>4 DEF Contract!Next
<1>6. CASE ~FindOne(r) /\ ~Fill(r)
  <2>1. UNCHANGED entry
    BY <1>6 DEF ReaderStep, TryLock, Unlock, Refuse, AnswerRefused, FindOneFails,
       ReaderDies, Lookup, dataVars
  <2>2. CopyOf(r)' = NoCopy \/ CopyOf(r)' = CopyOf(r)
    <3>1. CASE TryLock(r) \/ Refuse(r) \/ FindOneFails(r)
      BY <3>1 DEF TryLock, Refuse, FindOneFails, CopyOf
    <3>2. CASE Unlock(r)
      BY <3>2 DEF Unlock, Return, CopyOf
    <3>3. CASE AnswerRefused(r) \/ ReaderDies(r) \/ \E i \in Ids : Lookup(r, i)
      BY <3>3 DEF AnswerRefused, ReaderDies, Lookup, Return, CopyOf
    <3> QED BY <1>6, <3>1, <3>2, <3>3 DEF ReaderStep
  <2>3. CASE CopyOf(r)' = CopyOf(r)
    <3>1. copies' = copies
      BY <1>2, <2>3, CopiesByAgent
    <3> QED BY <1>1, <2>1, <3>1 DEF Contract!avars
  <2> QED BY <1>3, <2>1, <2>2, <2>3 DEF Contract!Next
<1> QED BY <1>4, <1>5, <1>6

\* The listener takes a copy when it queries Mongo, in putCreationCache and on a
\* miss of getCreationCache; it installs or drops it.
LEMMA ListenerRefines ==
  ASSUME TypeOK, ListenerStep \/ CallFails \/ FmsDies
  PROVE  [Contract!Next]_(Contract!avars)
<1> USE DEF TypeOK
<1>1. UNCHANGED <<db, rpc, rid, rval>>
  BY ListenerFrame DEF readerVars
<1>2. copies' = [copies EXCEPT ![Listener] = ListenersCopy']
  BY <1>1, ListenerCopies
<1>3. copies[Listener] = ListenersCopy
  BY CopiesByAgent
<1>4. ASSUME lid \in Ids, UNCHANGED entry,
             ListenersCopy' = [id |-> lid, val |-> Loaded(lid)]
      PROVE  Contract!Next
  <2>1. Loaded(lid) \in Contract!CopiesOf(db[lid])
    BY <1>4 DEF Loaded, Contract!CopiesOf, Contract!EmptyDoc, EmptyDoc
  <2>2. Contract!Take(Listener, lid)
    BY <1>1, <1>2, <1>4, <2>1 DEF Contract!Take
  <2> QED BY <1>4, <2>2 DEF Contract!Next
<1>5. ASSUME ListenersCopy' = NoCopy, UNCHANGED entry PROVE Contract!Next
  <2>1. Contract!Drop(Listener)
    BY <1>1, <1>2, <1>5 DEF Contract!Drop, Contract!NoCopy, Contract!NoEntry, NoCopy,
       NoEntry, NoId
  <2> QED BY <2>1 DEF Contract!Next
<1>6. CASE PutStore \/ GetFill
  <2>1. /\ lid \in Ids /\ lpc \in {"store", "getFill"}
        /\ lpc' \in {"get", "compare"}
        /\ entry' = [entry EXCEPT ![lid] = lval]
    BY <1>6 DEF PutStore, GetFill, Install
  <2>2. ListenersCopy = [id |-> lid, val |-> lval] /\ ListenersCopy' = NoCopy
    BY <2>1 DEF ListenersCopy
  <2>3. Contract!Install(Listener)
    BY <1>1, <1>2, <1>3, <2>1, <2>2 DEF Contract!Install, Contract!NoCopy,
       Contract!NoEntry, NoCopy, NoEntry, NoId
  <2> QED BY <2>3 DEF Contract!Next
<1>7. CASE PutRead
  <2>1. lid \in Ids /\ UNCHANGED <<entry, lid>>
    BY <1>7 DEF PutRead, dataVars
  <2>2. lpc' = "store" /\ lval' = Loaded(lid)
    BY <1>7 DEF PutRead
  <2>3. ListenersCopy' = [id |-> lid, val |-> Loaded(lid)]
    BY <2>1, <2>2 DEF ListenersCopy
  <2> QED BY <1>4, <2>1, <2>3
<1>8. CASE GetCache
  <2>1. lid \in Ids /\ UNCHANGED <<entry, lid>> /\ lpc = "get"
    BY <1>8 DEF GetCache, dataVars
  <2>2. CASE entry[lid] = NoEntry
    <3>1. lpc' = "getFill" /\ lval' = Loaded(lid)
      BY <1>8, <2>2 DEF GetCache, NoEntry, NullDoc
    <3>2. ListenersCopy' = [id |-> lid, val |-> Loaded(lid)]
      BY <2>1, <3>1 DEF ListenersCopy
    <3> QED BY <1>4, <2>1, <3>2
  <2>3. CASE entry[lid] # NoEntry
    <3>1. lpc' \in {"failed", "compare"}
      BY <1>8, <2>3 DEF GetCache
    <3>2. ListenersCopy' = NoCopy
      BY <3>1 DEF ListenersCopy
    <3> QED BY <1>5, <2>1, <3>2
  <2> QED BY <2>2, <2>3
<1>9. CASE \/ Deliver \/ Compare \/ Retry \/ Park \/ Ack \/ CallFails \/ FmsDies
  <2>1. UNCHANGED entry
    BY <1>9 DEF Deliver, Compare, Retry, Park, Ack, CallFails, FmsDies, dataVars
  <2>2. lpc' \notin {"store", "getFill"}
    BY <1>9 DEF Deliver, Compare, Retry, Park, Ack, CallFails, FmsDies
  <2>3. ListenersCopy' = NoCopy
    BY <2>2 DEF ListenersCopy
  <2> QED BY <1>5, <2>1, <2>3
<1> QED BY <1>6, <1>7, <1>8, <1>9 DEF ListenerStep

LEMMA StepRefines ==
  ASSUME TypeOK, Found, [Next]_vars PROVE [Contract!Next]_(Contract!avars)
<1> USE DEF TypeOK
<1>1. ASSUME UNCHANGED <<db, entry, rpc, rid, rval, lpc, lid, lval>>
      PROVE  [Contract!Next]_(Contract!avars)
  BY <1>1, SameCopies DEF Contract!avars
<1>2. ASSUME NEW s \in Savers, NEW i \in Ids, WriteDoc(s, i)
      PROVE  [Contract!Next]_(Contract!avars)
  <2>1. UNCHANGED <<entry, rpc, rid, rval, lpc, lid, lval>>
    BY <1>2 DEF WriteDoc, readerVars
  <2>2. db' = [db EXCEPT ![i] = @ + 1] \/ UNCHANGED db
    BY <1>2 DEF WriteDoc
  <2>3. CASE db' = [db EXCEPT ![i] = @ + 1]
    <3>1. Contract!Save(i)
      BY <2>1, <2>3, SameCopies DEF Contract!Save
    <3> QED BY <3>1 DEF Contract!Next
  <2> QED BY <1>1, <2>1, <2>2, <2>3
<1>3. ASSUME NEW s \in Savers, Submit(s) \/ SaverDies(s)
      PROVE  [Contract!Next]_(Contract!avars)
  <2>1. UNCHANGED <<db, entry, rpc, rid, rval, lpc, lid, lval>>
    BY <1>3 DEF Submit, SaverDies, dataVars, readerVars, listenerVars
  <2> QED BY <1>1, <2>1
<1>4. ASSUME NEW i \in Ids, Expire(i) PROVE [Contract!Next]_(Contract!avars)
  <2>1. /\ UNCHANGED <<db, rpc, rid, rval, lpc, lid, lval>>
        /\ entry' = [entry EXCEPT ![i] = NoEntry]
    BY <1>4 DEF Expire, readerVars, listenerVars
  <2>2. Contract!Evict(i)
    BY <2>1, SameCopies DEF Contract!Evict, Contract!NoEntry, NoEntry
  <2> QED BY <2>2 DEF Contract!Next
<1>5. ASSUME NEW i \in Ids, LeaseExpires(i) \/ Publish(i) \/ PublishFails(i)
      PROVE  [Contract!Next]_(Contract!avars)
  <2>1. UNCHANGED <<db, entry, rpc, rid, rval, lpc, lid, lval>>
    BY <1>5 DEF LeaseExpires, Publish, PublishFails, dataVars, readerVars,
       listenerVars
  <2> QED BY <1>1, <2>1
<1>6. ASSUME UNCHANGED vars PROVE [Contract!Next]_(Contract!avars)
  BY <1>1, <1>6 DEF vars, dataVars, readerVars, listenerVars
<1> QED BY <1>2, <1>3, <1>4, <1>5, <1>6, ReaderRefines, ListenerRefines
        DEF Next

\* Every value under creation::<id> is one that an actor copied out of Mongo for
\* that id, and an actor that failed or died installs nothing: @Cacheable and
\* @CachePut of fish-web and fish-fms keep CacheContract.
THEOREM CacheKeepsContract == Spec => CopiesComeFromMongo
<1>1. Init => Found
  BY DEF Init, Found
<1>2. TypeOK /\ Found /\ [Next]_vars => Found'
  BY FoundStep
<1>3. Spec => []Found
  BY TypeCorrect, <1>1, <1>2, PTL DEF Spec
<1>4. TypeOK /\ Found /\ [Next]_vars => [Contract!Next]_(Contract!avars)
  BY StepRefines
<1> QED BY TypeCorrect, <1>3, <1>4, InitRefines, PTL
        DEF Spec, CopiesComeFromMongo, Contract!Spec
=============================================================================

----------------------------- MODULE ArticleLists -----------------------------
(***************************************************************************)
(* Pages of article lists and their copies in redis under creations::*.    *)
(* A reader that finds no copy queries Mongo behind a lock and stores what *)
(* it got after the lock is free again (listCreations, @Cacheable).  A     *)
(* saver writes its article, which may move from one class to another, and *)
(* then scans the keys creations::* and deletes what the scan returns, key *)
(* by key (saveCreation, deleteCreationsCache).                            *)
(*                                                                         *)
(* What Mongo answers to a request is a version, higher after each save    *)
(* that may change it.                                                     *)
(***************************************************************************)
EXTENDS Integers

CONSTANTS Listers,     \* request threads in listCreations
          Savers,      \* request threads in saveCreation of the controller
          Classes,     \* CreationClassifyEnum
          Any,         \* classify of a request for articles of all classes
          Requests,    \* requests: class, page, size, see Key
          Free, Gone,  \* a lock nobody holds; one whose owner has died
          MaxSaves,    \* bound: saves in one behaviour
          MaxFaults    \* bound: failed calls and deaths in one behaviour

ASSUME RequestsAssumption == Requests \subseteq (Classes \cup {Any}) \X (1 .. 99) \X (1 .. 99)
ASSUME OwnersAssumption == Free \notin Listers /\ Gone \notin Listers /\ Free # Gone
ASSUME BoundsAssumption == MaxSaves \in Nat /\ MaxFaults \in Nat

\* Page and size are written one behind the other in the key: page 1 of 15 and
\* page 11 of 5 are both "115".
Key(q) == <<q[1], IF q[3] < 10 THEN 10 * q[2] + q[3] ELSE 100 * q[2] + q[3]>>
Keys == {Key(q) : q \in Requests}

VARIABLES
  list,   \* list[q]: version of what Mongo answers to q
  entry,  \* entry[k]: copy under k, or NoCopy: request and version; was it old
          \* when it was stored? (history)
  lock,   \* lock[q]: owner of the RLock listCreations:<q>
  pc, req, got,  \* readers: place, request, version in hand or Nothing
  ahead,  \* ahead[s]: keys the scan of saver s has not come to
  batch,  \* batch[s]: keys it returned that are not deleted yet
  cut,    \* list when a deletion last broke off (history)
  saves, faults

readerVars == <<lock, pc, req, got>>
saverVars  == <<list, ahead, batch, cut, saves>>
vars == <<entry, readerVars, saverVars, faults>>

NoCopy == <<>>
NoRequest == <<>>
Nothing == -1

Init ==
  /\ list = [q \in Requests |-> 0]
  /\ entry = [k \in Keys |-> NoCopy]
  /\ lock = [q \in Requests |-> Free]
  /\ pc = [t \in Listers |-> "idle"]
  /\ req = [t \in Listers |-> NoRequest]
  /\ got = [t \in Listers |-> Nothing]
  /\ ahead = [s \in Savers |-> {}]
  /\ batch = [s \in Savers |-> {}]
  /\ cut = [q \in Requests |-> 0]
  /\ saves = 0 /\ faults = 0

Fault == faults < MaxFaults /\ faults' = faults + 1

-----------------------------------------------------------------------------
(* Readers: POST /creation/list/{pageNum}/{pageSize}                       *)

At(t, where) == pc[t] = where
Goto(t, where) == pc' = [pc EXCEPT ![t] = where]

Return(t) == /\ Goto(t, "idle")
             /\ req' = [req EXCEPT ![t] = NoRequest]
             /\ got' = [got EXCEPT ![t] = Nothing]

\* @Cacheable looks the key up; a copy is the answer and nothing changes.
Lookup(t, q) ==
  /\ At(t, "idle") /\ entry[Key(q)] = NoCopy
  /\ Goto(t, "miss")
  /\ req' = [req EXCEPT ![t] = q]
  /\ UNCHANGED <<lock, got, entry, saverVars, faults>>

TryLock(t) ==
  /\ At(t, "miss") /\ lock[req[t]] = Free
  /\ lock' = [lock EXCEPT ![req[t]] = t]
  /\ Goto(t, "query")
  /\ UNCHANGED <<req, got, entry, saverVars, faults>>

\* "Too many requests"; its own unlock() throws, the lock stays with its owner.
Refuse(t) ==
  /\ At(t, "miss") /\ lock[req[t]] # Free
  /\ Return(t)
  /\ UNCHANGED <<lock, entry, saverVars, faults>>

Query(t) ==
  /\ At(t, "query")
  /\ got' = [got EXCEPT ![t] = list[req[t]]]
  /\ Goto(t, "unlock")
  /\ UNCHANGED <<lock, req, entry, saverVars, faults>>

QueryFails(t) ==
  /\ At(t, "query") /\ Fault
  /\ Goto(t, "unlock")
  /\ UNCHANGED <<lock, req, got, entry, saverVars>>

\* finally; an exception leaves nothing to store.
Unlock(t) ==
  /\ At(t, "unlock")
  /\ lock' = [lock EXCEPT ![req[t]] = Free]
  /\ IF got[t] = Nothing THEN Return(t)
                         ELSE Goto(t, "fill") /\ UNCHANGED <<req, got>>
  /\ UNCHANGED <<entry, saverVars, faults>>

\* @Cacheable stores the list under its key, whatever is there by now.
Fill(t) ==
  /\ At(t, "fill")
  /\ LET q == req[t]
     IN  entry' = [entry EXCEPT ![Key(q)] = <<q, got[t], got[t] < list[q]>>]
  /\ Return(t)
  /\ UNCHANGED <<lock, saverVars, faults>>

ListerDies(t) ==
  /\ ~At(t, "idle") /\ Fault
  /\ lock' = [q \in Requests |-> IF lock[q] = t THEN Gone ELSE lock[q]]
  /\ Return(t)
  /\ UNCHANGED <<entry, saverVars>>

\* The lock of a dead owner runs out.
LeaseExpires(q) ==
  /\ lock[q] = Gone
  /\ lock' = [lock EXCEPT ![q] = Free]
  /\ UNCHANGED <<pc, req, got, entry, saverVars, faults>>

\* Faulty variant: entries without a time to live.
ExpireNever(k) == FALSE /\ UNCHANGED vars

\* The time to live of 2 hours is over.
Expire(k) ==
  /\ entry[k] # NoCopy
  /\ entry' = [entry EXCEPT ![k] = NoCopy]
  /\ UNCHANGED <<readerVars, saverVars, faults>>

-----------------------------------------------------------------------------
(* Savers: POST /creation                                                  *)

Saving(s) == ahead[s] \cup batch[s] # {}

\* Lists that may change when an article of class a becomes one of class b.
Touched(a, b) == {q \in Requests : q[1] \in {a, b, Any}}

SaveAndScan(s, a, b, keys) ==
  /\ ~Saving(s) /\ saves < MaxSaves /\ saves' = saves + 1
  /\ list' = [q \in Requests |-> IF q \in Touched(a, b) THEN list[q] + 1 ELSE list[q]]
  /\ ahead' = [ahead EXCEPT ![s] = keys]
  /\ UNCHANGED <<batch, cut, entry, readerVars, faults>>

\* Faulty variant: only lists of the class the article has now are deleted.
SaveOneClass(s, a, b) == SaveAndScan(s, a, b, {k \in Keys : k[1] \in {b, Any}})

\* saveCreation writes the article, then the scan is all ahead.
Save(s, a, b) == SaveAndScan(s, a, b, Keys)

\* The scan comes to a key and returns it if it exists; so one that is there all
\* the time is returned, one stored behind the scan is not.
Scan(s, k) ==
  /\ k \in ahead[s]
  /\ ahead' = [ahead EXCEPT ![s] = @ \ {k}]
  /\ batch' = IF entry[k] = NoCopy THEN batch ELSE [batch EXCEPT ![s] = @ \cup {k}]
  /\ UNCHANGED <<list, cut, saves, entry, readerVars, faults>>

Delete(s, k) ==
  /\ k \in batch[s]
  /\ batch' = [batch EXCEPT ![s] = @ \ {k}]
  /\ entry' = [entry EXCEPT ![k] = NoCopy]
  /\ UNCHANGED <<list, ahead, cut, saves, readerVars, faults>>

\* A call fails or the process dies: the article is saved, the rest is not deleted.
DeletionBreaksOff(s) ==
  /\ Saving(s) /\ Fault
  /\ ahead' = [ahead EXCEPT ![s] = {}]
  /\ batch' = [batch EXCEPT ![s] = {}]
  /\ cut' = list
  /\ UNCHANGED <<list, saves, entry, readerVars>>

-----------------------------------------------------------------------------
ListerStep(t) == TryLock(t) \/ Refuse(t) \/ Query(t) \/ QueryFails(t) \/ Unlock(t) \/ Fill(t)
SaverStep(s) == \E k \in Keys : Scan(s, k) \/ Delete(s, k)

Next ==
  \/ \E t \in Listers : ListerStep(t) \/ ListerDies(t) \/ \E q \in Requests : Lookup(t, q)
  \/ \E s \in Savers : \/ SaverStep(s) \/ DeletionBreaksOff(s)
                       \/ \E a, b \in Classes : Save(s, a, b)
  \/ \E q \in Requests : LeaseExpires(q)
  \/ \E k \in Keys : Expire(k)

Spec == Init /\ [][Next]_vars

\* Requests run on, redis keeps its clock.  Nobody has to ask or save.
Fairness ==
  /\ \A t \in Listers : WF_vars(ListerStep(t))
  /\ \A s \in Savers : WF_vars(SaverStep(s))
  /\ \A q \in Requests : WF_vars(LeaseExpires(q))
  /\ \A k \in Keys : WF_vars(Expire(k))

FairSpec == Spec /\ Fairness

-----------------------------------------------------------------------------
(* Properties.                                                             *)

Old(k) == entry[k] # NoCopy /\ entry[k][2] < list[entry[k][1]]

\* A save empties the lists (CreationServiceImpl l.178-185): what its scan has
\* passed is not older than the save, unless a reader had queried before the save
\* and stored its list after it, or a deletion broke off.
OldOnlyIfLate ==
  \A k \in Keys : Old(k) /\ (\A s \in Savers : k \notin ahead[s] \cup batch[s])
                    => entry[k][3] \/ entry[k][2] < cut[entry[k][1]]

\* After the last save the lists become fresh and stay so: a late fill or a
\* deletion that broke off is repaired by the time to live (CacheConfig l.24), and
\* no reader stores an old list again and again.
EventuallyFresh == <>[](\A k \in Keys : ~Old(k))
=============================================================================

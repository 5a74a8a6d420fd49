-------------------------- MODULE ArticleListsProofs --------------------------
(***************************************************************************)
(* For every set of readers, savers and requests and every bound: lists    *)
(* that are old behind the scan of a save were stored late or left by a    *)
(* deletion that broke off.                                                *)
(***************************************************************************)
EXTENDS ArticleLists, TLAPS

Copies == {NoCopy} \cup (Requests \X Nat \X BOOLEAN)
Places == {"idle", "miss", "query", "unlock", "fill"}

\* The types the argument needs.  A reader on its way has a request, at "fill" a
\* version, and a copy lies under the key of its request.
ListsType ==
  /\ list \in [Requests -> Nat]
  /\ cut \in [Requests -> Nat]
  /\ entry \in [Keys -> Copies]
  /\ \A k \in Keys : entry[k] # NoCopy => Key(entry[k][1]) = k
  /\ lock \in [Requests -> Listers \cup {Free, Gone}]
  /\ pc \in [Listers -> Places]
  /\ req \in [Listers -> Requests \cup {NoRequest}]
  /\ got \in [Listers -> Nat \cup {Nothing}]
  /\ \A t \in Listers : /\ pc[t] # "idle" => req[t] \in Requests
                        /\ pc[t] = "fill" => got[t] \in Nat
  /\ ahead \in [Savers -> SUBSET Keys]
  /\ batch \in [Savers -> SUBSET Keys]
  /\ saves \in 0 .. MaxSaves
  /\ faults \in 0 .. MaxFaults

LEMMA KeyIsKey == ASSUME NEW q \in Requests PROVE Key(q) \in Keys
  BY DEF Keys

LEMMA InitType == Init => ListsType
  BY BoundsAssumption DEF Init, ListsType, Copies, Places, Fault

LEMMA ReaderType ==
  ASSUME ListsType, NEW t \in Listers,
         ListerStep(t) \/ ListerDies(t) \/ \E q \in Requests : Lookup(t, q)
  PROVE  ListsType'
<1> USE BoundsAssumption DEF ListsType, Places, saverVars, At, Goto
<1>1. CASE \E q \in Requests : Lookup(t, q)
  BY <1>1 DEF Lookup
<1>2. CASE TryLock(t)
  BY <1>2 DEF TryLock
<1>3. CASE Refuse(t)
  BY <1>3 DEF Refuse, Return
<1>4. CASE Query(t)
  BY <1>4 DEF Query
<1>5. CASE QueryFails(t)
  BY <1>5 DEF QueryFails, Fault
<1>6. CASE Unlock(t)
  BY <1>6 DEF Unlock, Return, Nothing
<1>7. CASE Fill(t)
  <2> DEFINE q == req[t]
  <2>1. q \in Requests /\ got[t] \in Nat /\ Key(q) \in Keys
    BY <1>7, KeyIsKey DEF Fill
  <2>2. (got[t] < list[q]) \in BOOLEAN
    OBVIOUS
  <2>3. /\ entry' \in [Keys -> Copies]
        /\ \A k \in Keys : entry'[k] # NoCopy => Key(entry'[k][1]) = k
    BY <1>7, <2>1, <2>2 DEF Fill, Copies, NoCopy
  <2> QED BY <1>7, <2>3 DEF Fill, Return
<1>8. CASE ListerDies(t)
  BY <1>8 DEF ListerDies, Return, Fault
<1> QED BY <1>1, <1>2, <1>3, <1>4, <1>5, <1>6, <1>7, <1>8 DEF ListerStep

LEMMA SaverType ==
  ASSUME ListsType, NEW s \in Savers,
         \/ SaverStep(s) \/ DeletionBreaksOff(s)
         \/ \E a, b \in Classes : Save(s, a, b)
  PROVE  ListsType'
<1> USE BoundsAssumption DEF ListsType, readerVars
<1>1. CASE \E k \in Keys : Scan(s, k)
  BY <1>1 DEF Scan
<1>2. CASE \E k \in Keys : Delete(s, k)
  BY <1>2 DEF Delete, Copies
<1>3. CASE DeletionBreaksOff(s)
  BY <1>3 DEF DeletionBreaksOff, Fault
<1>4. CASE \E a, b \in Classes : Save(s, a, b)
  BY <1>4 DEF Save, SaveAndScan
<1> QED BY <1>1, <1>2, <1>3, <1>4 DEF SaverStep

LEMMA RedisType ==
  ASSUME ListsType,
         (\E q \in Requests : LeaseExpires(q)) \/ (\E k \in Keys : Expire(k))
  PROVE  ListsType'
<1> USE DEF ListsType, readerVars, saverVars
<1>1. CASE \E q \in Requests : LeaseExpires(q)
  BY <1>1 DEF LeaseExpires
<1>2. CASE \E k \in Keys : Expire(k)
  BY <1>2 DEF Expire, Copies
<1> QED BY <1>1, <1>2

LEMMA TypeKept == ASSUME ListsType, [Next]_vars PROVE ListsType'
<1>1. CASE UNCHANGED vars
  BY <1>1 DEF ListsType, vars, readerVars, saverVars
<1>2. CASE Next
  BY <1>2, ReaderType, SaverType, RedisType DEF Next
<1> QED BY <1>1, <1>2

\* All variables of ArticleLists keep their types, and a copy is always one of a
\* request that has its key (@Cacheable, CreationServiceImpl l.136).
THEOREM ListsTypeCorrect == Spec => []ListsType
<1>1. Init => ListsType
  BY InitType
<1>2. ListsType /\ [Next]_vars => ListsType'
  BY TypeKept
<1> QED BY <1>1, <1>2, PTL DEF Spec

-----------------------------------------------------------------------------
(* No old list behind the scan.                                            *)

LEMMA InitOld == Init => OldOnlyIfLate
  BY DEF Init, OldOnlyIfLate, Old, NoCopy

\* Only a fill, which tells whether it was late, puts a copy there.
LEMMA ReaderOld ==
  ASSUME ListsType, OldOnlyIfLate, NEW t \in Listers,
         ListerStep(t) \/ ListerDies(t) \/ \E q \in Requests : Lookup(t, q)
  PROVE  OldOnlyIfLate'
<1>1. CASE UNCHANGED <<entry, saverVars>>
  BY <1>1 DEF OldOnlyIfLate, Old, saverVars
<1>2. CASE Fill(t)
  <2> DEFINE q == req[t]
  <2>1. q \in Requests /\ got[t] \in Nat /\ list[q] \in Nat /\ Key(q) \in Keys
    BY <1>2, KeyIsKey DEF Fill, At, ListsType
  <2>2. /\ entry' = [entry EXCEPT ![Key(q)] = <<q, got[t], got[t] < list[q]>>]
        /\ UNCHANGED saverVars
    BY <1>2 DEF Fill
  <2> SUFFICES ASSUME NEW k \in Keys, Old(k)',
                      \A s \in Savers : k \notin ahead'[s] \cup batch'[s]
               PROVE  (entry[k][3] \/ entry[k][2] < cut[entry[k][1]])'
    BY DEF OldOnlyIfLate
  <2>3. CASE k = Key(q)
    <3>1. entry'[k] = <<q, got[t], got[t] < list[q]>>
      BY <2>1, <2>2, <2>3 DEF ListsType
    <3>2. got[t] < list[q]
      BY <3>1, <2>2 DEF Old, saverVars
    <3>3. entry'[k][3] = (got[t] < list[q])
      BY <3>1
    <3> QED BY <3>2, <3>3
  <2>4. CASE k # Key(q)
    <3>1. entry'[k] = entry[k]
      BY <2>1, <2>2, <2>4 DEF ListsType
    <3> QED BY <3>1, <2>2 DEF OldOnlyIfLate, Old, saverVars
  <2> QED BY <2>3, <2>4
<1>3. CASE ListerDies(t) \/ \E q \in Requests : Lookup(t, q)
  BY <1>1, <1>3 DEF ListerDies, Lookup
<1> QED BY <1>1, <1>2, <1>3 DEF ListerStep, TryLock, Refuse, Query, QueryFails, Unlock

\* A save has every key ahead of it; the scan keeps a key that exists in its
\* batch until the copy is gone; what it leaves when it breaks off is on record.
LEMMA SaverOld ==
  ASSUME ListsType, OldOnlyIfLate, NEW s \in Savers,
         \/ SaverStep(s) \/ DeletionBreaksOff(s)
         \/ \E a, b \in Classes : Save(s, a, b)
  PROVE  OldOnlyIfLate'
<1> SUFFICES ASSUME NEW k \in Keys, Old(k)',
                    \A r \in Savers : k \notin ahead'[r] \cup batch'[r]
             PROVE  (entry[k][3] \/ entry[k][2] < cut[entry[k][1]])'
  BY DEF OldOnlyIfLate
<1>1. CASE \E j \in Keys : Scan(s, j)
  <2> PICK j \in Keys : Scan(s, j)
    BY <1>1
  <2>1. Old(k) /\ UNCHANGED <<entry, cut>>
    BY DEF Scan, Old, readerVars
  <2>2. \A r \in Savers : k \notin ahead[r] \cup batch[r]
    BY <2>1 DEF Scan, ListsType, Old
  <2> QED BY <2>1, <2>2 DEF OldOnlyIfLate
<1>2. CASE \E j \in Keys : Delete(s, j)
  <2> PICK j \in Keys : Delete(s, j)
    BY <1>2
  <2>1. k # j /\ entry'[k] = entry[k] /\ UNCHANGED <<list, cut>>
    BY DEF Delete, Old, ListsType
  <2>2. Old(k)
    BY <2>1 DEF Old
  <2>3. \A r \in Savers : k \notin ahead[r] \cup batch[r]
    BY <2>1 DEF Delete, ListsType
  <2> QED BY <2>1, <2>2, <2>3 DEF OldOnlyIfLate
<1>3. CASE DeletionBreaksOff(s)
  BY <1>3 DEF DeletionBreaksOff, Old
<1>4. CASE \E a, b \in Classes : Save(s, a, b)
  <2>1. k \in ahead'[s]
    BY <1>4 DEF Save, SaveAndScan, ListsType
  <2> QED BY <2>1
<1> QED BY <1>1, <1>2, <1>3, <1>4 DEF SaverStep

LEMMA RedisOld ==
  ASSUME ListsType, OldOnlyIfLate,
         (\E q \in Requests : LeaseExpires(q)) \/ (\E k \in Keys : Expire(k))
  PROVE  OldOnlyIfLate'
<1>1. CASE \E q \in Requests : LeaseExpires(q)
  BY <1>1 DEF LeaseExpires, OldOnlyIfLate, Old, saverVars
<1>2. CASE \E k \in Keys : Expire(k)
  BY <1>2 DEF Expire, OldOnlyIfLate, Old, saverVars, ListsType
<1> QED BY <1>1, <1>2

\* A list that is old although every deletion has passed it was stored after a
\* save by a reader that had queried before, or left by a deletion that broke off
\* (deleteCreationsCache, CreationServiceImpl l.178-185).
THEOREM SavesEmptyLists == Spec => []OldOnlyIfLate
<1> DEFINE Inv == ListsType /\ OldOnlyIfLate
<1>1. Init => Inv
  BY InitType, InitOld
<1>2. Inv /\ [Next]_vars => Inv'
  <2> SUFFICES ASSUME Inv, [Next]_vars PROVE OldOnlyIfLate'
    BY TypeKept
  <2>1. CASE UNCHANGED vars
    BY <2>1 DEF OldOnlyIfLate, Old, vars, saverVars
  <2>2. CASE Next
    BY <2>2, ReaderOld, SaverOld, RedisOld DEF Next
  <2> QED BY <2>1, <2>2
<1>3. Inv => OldOnlyIfLate
  OBVIOUS
<1> QED BY <1>1, <1>2, <1>3, PTL DEF Spec
=============================================================================

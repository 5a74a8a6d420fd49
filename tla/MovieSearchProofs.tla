-------------------------- MODULE MovieSearchProofs --------------------------
(***************************************************************************)
(* For any users, titles and movies, any lists and any leases: types; what *)
(* a day's quota may be overspent by; and what the lock protects, up to    *)
(* the interferences that the histories name.                              *)
(***************************************************************************)
EXTENDS MovieSearch, FiniteSetTheorems, TLAPS

USE KeysAssumption, QuotaAssumption, ThreadsAssumption, BoundsAssumption

-----------------------------------------------------------------------------
(* Type correctness.                                                       *)

States == {"absent", "INIT", "COMPLETED", "EMPTY"}
Amounts == {NoQuota} \cup 0 .. DailyQuota

QuotaTypes ==
  /\ quota \in [Users -> Amounts]
  /\ timed \in [Users -> BOOLEAN]
  /\ spent \in [Users -> Nat] /\ overlaps \in [Users -> Nat]
  /\ \A u \in Users : quota[u] = NoQuota => ~timed[u]

\* Whoever has a search under way has read a number above 0.
SearchPlaces == {"crawl", "save", "answered"}
Searching(t) == pc[t] \in SearchPlaces \/ (pc[t] = "call" /\ arg[t] \in Titles)

RequestTypes ==
  /\ pc \in [Threads -> Places]
  /\ user \in [Threads -> Users \cup {None}]
  /\ arg \in [Threads -> Keys \cup {None}]
  /\ num \in [Threads -> Amounts]
  /\ \A t \in Threads : /\ pc[t] = "idle" => user[t] = None
                        /\ pc[t] # "idle" => arg[t] \in Keys
                        /\ pc[t] \notin DasPlaces \cup {"idle"} => user[t] \in Users
                        /\ pc[t] \in SearchPlaces \cup {"set", "expire", "reget"}
                             => arg[t] \in Titles
                        /\ pc[t] \in {"load", "saveEpisodes"} => arg[t] \in Docs
                        /\ Searching(t) /\ user[t] # None => num[t] \in 1 .. DailyQuota

DasTypes ==
  /\ leased \subseteq Keys /\ overrun \subseteq Threads
  /\ doc \in [Docs -> States] /\ raced \subseteq Movies
  /\ seen \in [Threads -> States]
  /\ todo \in [Threads -> SUBSET Docs] /\ inserting \in [Threads -> SUBSET Docs]

Types == QuotaTypes /\ RequestTypes /\ DasTypes

LEMMA TypesGiveTypeOK == Types => TypeOK
  BY DEF Types, QuotaTypes, RequestTypes, DasTypes, TypeOK, States, Amounts

LEMMA InitTypes == Init => Types
<1> SUFFICES ASSUME Init PROVE Types
  OBVIOUS
<1>1. QuotaTypes
  BY DEF Init, QuotaTypes, Amounts
<1>2. RequestTypes
  BY DEF Init, RequestTypes, Places, Amounts, Searching, SearchPlaces, DasPlaces
<1>3. DasTypes
  BY DEF Init, DasTypes, States
<1> QED BY <1>1, <1>2, <1>3 DEF Types

LEMMA NoQuotaApart == NoQuota \in Int /\ NoQuota \notin 0 .. DailyQuota
  BY DEF NoQuota

LEMMA SearchesCounted ==
  ASSUME NEW u \in Users
  PROVE  /\ Searches(u) \in SUBSET Threads /\ IsFiniteSet(Searches(u))
         /\ Cardinality(Searches(u)) \in Nat
         /\ Cardinality(Searches(u)) = 0 <=> Searches(u) = {}
<1>1. Searches(u) \in SUBSET Threads
  BY DEF Searches
<1>2. IsFiniteSet(Searches(u))
  BY <1>1, FS_Subset
<1> QED BY <1>1, <1>2, FS_CardinalityType, FS_EmptySet

LEMMA QuotaTyped ==
  ASSUME Types, [Next]_vars PROVE QuotaTypes'
<1>0. /\ quota \in [Users -> Amounts] /\ timed \in [Users -> BOOLEAN]
      /\ spent \in [Users -> Nat] /\ overlaps \in [Users -> Nat]
  BY DEF Types, QuotaTypes
<1>1. CASE UNCHANGED quotaVars
  BY <1>1 DEF Types, QuotaTypes, quotaVars
<1>2. ASSUME NEW t \in Threads, QuotaSet(t) PROVE QuotaTypes'
  <2>1. user[t] \in Users /\ DailyQuota \in Amounts /\ DailyQuota # NoQuota
    BY <1>2 DEF QuotaSet, At, Types, RequestTypes, Amounts, NoQuota, DasPlaces
  <2>2. PICK u \in Users : u = user[t]
    BY <2>1
  <2>3. /\ quota' = [quota EXCEPT ![u] = DailyQuota] /\ timed' = [timed EXCEPT ![u] = FALSE]
        /\ UNCHANGED <<spent, overlaps>>
    BY <1>2, <2>2 DEF QuotaSet
  <2> QED BY <2>1, <2>3 DEF Types, QuotaTypes
<1>3. ASSUME NEW t \in Threads, QuotaExpire(t) PROVE QuotaTypes'
  BY <1>3 DEF QuotaExpire, Types, QuotaTypes
<1>4. ASSUME NEW t \in Threads, QuotaTake(t) PROVE QuotaTypes'
  <2>0. user[t] \in Users /\ Searching(t) /\ user[t] # None
    BY <1>4 DEF QuotaTake, At, Types, RequestTypes, Searching, SearchPlaces, DasPlaces
  <2>1. num[t] - 1 \in Amounts /\ num[t] - 1 # NoQuota
    BY <2>0 DEF Types, RequestTypes, Amounts, NoQuota
  <2>2. PICK n \in Amounts : n = num[t] - 1 /\ n # NoQuota
    BY <2>1
  <2>3. PICK u \in Users : u = user[t]
    BY <2>0
  <2>4. /\ quota' = [quota EXCEPT ![u] = n] /\ timed' = [timed EXCEPT ![u] = FALSE]
        /\ spent' = [spent EXCEPT ![u] = @ + 1] /\ UNCHANGED overlaps
    BY <1>4, <2>2, <2>3 DEF QuotaTake
  <2> QED BY <2>2, <2>4 DEF Types, QuotaTypes
<1>5. CASE Midnight
  <2>1. ASSUME NEW u \in Users
        PROVE  (IF Searches(u) = {} THEN 0 ELSE Cardinality(Searches(u)) - 1) \in Nat
    BY SearchesCounted
  <2>2. overlaps' \in [Users -> Nat]
    BY <1>5, <2>1 DEF Midnight
  <2> QED BY <1>5, <2>2 DEF Midnight, Types, QuotaTypes, Amounts
<1>6. ASSUME NEW t \in Threads, NEW u \in Users, NEW x \in Titles, QuotaGet(t, u, x)
      PROVE  QuotaTypes'
  BY <1>6 DEF QuotaGet, Types, QuotaTypes
<1> QED
  BY <1>1, <1>2, <1>3, <1>4, <1>5, <1>6 DEF Next, Request, Click, Work, QuotaReget,
     QuotaRefuse, TryLock, SearchParsed, Upsert, UpsertMatch, UpsertInsert, SearchDone, Load,
     SaveEpisodes, Fails, FeignTimesOut, LeaseExpires, vars, quotaVars

\* A request begins, goes on to another place or ends.
LEMMA BeginTyped ==
  ASSUME Types, NEW t \in Threads, NEW u \in Users, NEW x \in Keys, NEW place \in Places,
         Begin(t, u, x, place), NEW n \in Amounts, num' = [num EXCEPT ![t] = n],
         place \in {"set", "expire", "reget"} => x \in Titles,
         place \notin SearchPlaces \cup {"load", "saveEpisodes", "idle"},
         place = "call" /\ x \in Titles => n \in 1 .. DailyQuota
  PROVE  RequestTypes'
  BY DEF Begin, Goto, Types, RequestTypes, Searching

LEMMA GoesOnTyped ==
  ASSUME Types, NEW t \in Threads, NEW place \in Places, Goto(t, place),
         UNCHANGED <<user, arg>>, NEW n \in Amounts, num' = [num EXCEPT ![t] = n],
         pc[t] # "idle", place # "idle",
         place \notin DasPlaces => user[t] \in Users,
         place \in SearchPlaces \cup {"set", "expire", "reget"} => arg[t] \in Titles,
         place \in {"load", "saveEpisodes"} => arg[t] \in Docs,
         place \in SearchPlaces \/ (place = "call" /\ arg[t] \in Titles)
           => user[t] = None \/ n \in 1 .. DailyQuota
  PROVE  RequestTypes'
  BY DEF Goto, Types, RequestTypes, Searching

LEMMA FinishTyped ==
  ASSUME Types, NEW t \in Threads, Finish(t) PROVE RequestTypes'
<1>1. "idle" \in Places /\ 0 \in Amounts /\ "idle" \notin SearchPlaces
  BY DEF Places, Amounts, SearchPlaces
<1> QED BY <1>1 DEF Finish, Goto, Types, RequestTypes, Searching

LEMMA RequestsTyped ==
  ASSUME Types, [Next]_vars PROVE RequestTypes'
<1> USE DEF At
<1>1. CASE UNCHANGED <<pc, user, arg, num>>
  BY <1>1 DEF Types, RequestTypes, Searching
<1>2. ASSUME NEW t \in Threads, NEW u \in Users, NEW x \in Titles, QuotaGet(t, u, x)
      PROVE  RequestTypes'
  <2> DEFINE place == IF quota[u] = NoQuota THEN "set" ELSE Allowed(quota[u])
  <2>1. /\ place \in Places /\ place \in {"set", "noQuota", "call"}
        /\ quota[u] \in Amounts /\ (place = "call" => quota[u] \in 1 .. DailyQuota)
    BY DEF Allowed, Places, Types, QuotaTypes, Amounts
  <2>2. Begin(t, u, x, place) /\ num' = [num EXCEPT ![t] = quota[u]] /\ x \in Keys
    BY <1>2 DEF QuotaGet, Keys
  <2> HIDE DEF place
  <2> QED BY <2>1, <2>2, BeginTyped DEF SearchPlaces
<1>3. ASSUME NEW t \in Threads, NEW u \in Users, NEW d \in Docs, Click(t, u, d)
      PROVE  RequestTypes'
  <2>1. /\ Begin(t, u, d, "call") /\ num' = [num EXCEPT ![t] = num[t]] /\ num[t] \in Amounts
        /\ d \in Keys /\ d \notin Titles /\ "call" \in Places
    BY <1>3 DEF Click, Keys, Places, Types, RequestTypes
  <2> QED BY <2>1, BeginTyped DEF SearchPlaces
<1>4. ASSUME NEW t \in Threads, QuotaReget(t) PROVE RequestTypes'
  <2>1. CASE Finish(t)
    BY <2>1, FinishTyped
  <2>2. CASE /\ quota[user[t]] # NoQuota /\ num' = [num EXCEPT ![t] = quota[user[t]]]
             /\ Goto(t, Allowed(quota[user[t]])) /\ UNCHANGED <<user, arg>>
    <3> DEFINE place == Allowed(quota[user[t]])
    <3>0. user[t] \in Users /\ pc[t] # "idle"
      BY <1>4 DEF QuotaReget, Types, RequestTypes, DasPlaces
    <3>1. /\ place \in Places /\ place \in {"noQuota", "call"}
          /\ quota[user[t]] \in Amounts /\ (place = "call" => quota[user[t]] \in 1 .. DailyQuota)
      BY <2>2, <3>0 DEF Allowed, Places, Types, QuotaTypes, Amounts
    <3> HIDE DEF place
    <3> QED BY <2>2, <3>0, <3>1, GoesOnTyped DEF SearchPlaces, place
  <2> QED BY <1>4, <2>1, <2>2 DEF QuotaReget
<1>5. ASSUME NEW t \in Threads, NEW place \in Places \ {"call", "idle"}, Goto(t, place),
             pc[t] # "idle", UNCHANGED reqVars,
             place \notin DasPlaces => user[t] \in Users,
             place \in SearchPlaces => Searching(t),
             place \in SearchPlaces \cup {"set", "expire", "reget"} => arg[t] \in Titles,
             place \in {"load", "saveEpisodes"} => arg[t] \in Docs
      PROVE  RequestTypes'
  <2>1. num' = [num EXCEPT ![t] = num[t]] /\ num[t] \in Amounts
        /\ (Searching(t) => user[t] = None \/ num[t] \in 1 .. DailyQuota)
        /\ UNCHANGED <<user, arg>>
    BY <1>5 DEF reqVars, Types, RequestTypes
  <2> QED BY <1>5, <2>1, GoesOnTyped
<1>6. ASSUME NEW t \in Threads, QuotaSet(t) \/ QuotaExpire(t) PROVE RequestTypes'
  <2>1. /\ arg[t] \in Titles /\ {"expire", "reget"} \subseteq Places \ {"call", "idle"}
        /\ user[t] \in Users
    BY <1>6 DEF QuotaSet, QuotaExpire, Types, RequestTypes, Places, DasPlaces
  <2> QED BY <1>5, <1>6, <2>1 DEF QuotaSet, QuotaExpire, SearchPlaces
<1>7. ASSUME NEW t \in Threads, TryLock(t) PROVE RequestTypes'
  <2>1. CASE Finish(t)
    BY <2>1, FinishTyped
  <2>2. CASE Goto(t, Entry(arg[t])) /\ UNCHANGED reqVars
    <3>1. CASE arg[t] \in Titles
      <4>1. /\ Entry(arg[t]) = "crawl" /\ "crawl" \in Places \ {"call", "idle"}
            /\ "crawl" \in DasPlaces /\ pc[t] = "call"
        BY <1>7, <3>1 DEF TryLock, Entry, Places, DasPlaces
      <4> QED BY <1>5, <2>2, <3>1, <4>1 DEF Searching, SearchPlaces
    <3>2. CASE arg[t] \notin Titles
      <4>1. /\ Entry(arg[t]) = "load" /\ "load" \in Places \ {"call", "idle"}
            /\ "load" \in DasPlaces /\ pc[t] = "call" /\ arg[t] \in Docs
        BY <1>7, <3>2 DEF TryLock, Entry, Places, DasPlaces, Types, RequestTypes, Keys
      <4> QED BY <1>5, <2>2, <4>1 DEF SearchPlaces
    <3> QED BY <3>1, <3>2
  <2> QED BY <1>7, <2>1, <2>2 DEF TryLock
<1>8. ASSUME NEW t \in Threads, SearchParsed(t) PROVE RequestTypes'
  <2>1. /\ arg[t] \in Titles /\ "save" \in Places \ {"call", "idle"} /\ "save" \in DasPlaces
        /\ Searching(t)
    BY <1>8 DEF SearchParsed, Types, RequestTypes, Places, DasPlaces, SearchPlaces, Searching
  <2> QED BY <1>5, <1>8, <2>1 DEF SearchParsed
<1>9. ASSUME NEW t \in Threads, SearchDone(t) PROVE RequestTypes'
  <2>1. arg[t] \in Titles /\ "answered" \in Places \ {"call", "idle"} /\ Searching(t)
    BY <1>9 DEF SearchDone, Types, RequestTypes, Places, SearchPlaces, Searching
  <2>2. user[t] = None \/ user[t] \in Users
    BY DEF Types, RequestTypes
  <2> QED BY <1>5, <1>9, <2>1, <2>2, FinishTyped DEF SearchDone
<1>10. ASSUME NEW t \in Threads, Load(t) PROVE RequestTypes'
  <2>1. /\ arg[t] \in Docs /\ "saveEpisodes" \in Places \ {"call", "idle"}
        /\ "saveEpisodes" \in DasPlaces
    BY <1>10 DEF Load, Types, RequestTypes, Places, DasPlaces
  <2> QED BY <1>5, <1>10, <2>1 DEF Load, SearchPlaces
<1>11. ASSUME NEW t \in Threads,
              QuotaRefuse(t) \/ QuotaTake(t) \/ SaveEpisodes(t) \/ Fails(t)
       PROVE  RequestTypes'
  BY <1>11, FinishTyped DEF QuotaRefuse, QuotaTake, SaveEpisodes, Fails
<1>12. ASSUME NEW t \in Threads, FeignTimesOut(t) PROVE RequestTypes'
  <2>1. /\ user' = [user EXCEPT ![t] = None] /\ num' = [num EXCEPT ![t] = 0] /\ 0 \in Amounts
        /\ UNCHANGED <<pc, arg>> /\ pc[t] \in DasPlaces
    BY <1>12 DEF FeignTimesOut, Amounts
  <2> QED BY <2>1 DEF Types, RequestTypes, Searching
<1> QED
  BY <1>1, <1>2, <1>3, <1>4, <1>6, <1>7, <1>8, <1>9, <1>10, <1>11, <1>12
  DEF Next, Request, Work, Upsert, UpsertMatch, UpsertInsert, LeaseExpires,
     Midnight, vars, reqVars

LEMMA FinishClears ==
  ASSUME Types, NEW t \in Threads, Finish(t)
  PROVE  /\ seen' \in [Threads -> States] /\ overrun' \subseteq Threads
         /\ todo' \in [Threads -> SUBSET Docs] /\ inserting' \in [Threads -> SUBSET Docs]
  BY DEF Finish, Types, DasTypes, States

StoreTypes == leased \subseteq Keys /\ doc \in [Docs -> States] /\ raced \subseteq Movies

LEMMA StoreTyped ==
  ASSUME Types, [Next]_vars PROVE StoreTypes'
<1>0. StoreTypes
  BY DEF Types, DasTypes, StoreTypes
<1>1. CASE UNCHANGED <<leased, doc, raced>>
  BY <1>0, <1>1 DEF StoreTypes
<1>2. ASSUME NEW t \in Threads, TryLock(t) PROVE StoreTypes'
  BY <1>0, <1>2 DEF TryLock, At, Types, RequestTypes, StoreTypes, docVars
<1>3. ASSUME NEW x \in Keys, LeaseExpires(x) PROVE StoreTypes'
  BY <1>0, <1>3 DEF LeaseExpires, StoreTypes, docVars
<1>4. ASSUME NEW d, NEW s \in States, doc' = [doc EXCEPT ![d] = s], UNCHANGED <<leased, raced>>
      PROVE  StoreTypes'
  BY <1>0, <1>4 DEF StoreTypes
<1>5. ASSUME NEW t \in Threads, Upsert(t) PROVE StoreTypes'
  <2>1. "INIT" \in States
    BY DEF States
  <2>2. PICK x \in Docs : UpsertMatch(t, x) \/ UpsertInsert(t, x)
    BY <1>5 DEF Upsert
  <2>3. x[1] \in Movies
    BY <2>2 DEF Docs
  <2>4. CASE UNCHANGED doc /\ UNCHANGED leased /\ raced' \subseteq raced \cup {x[1]}
    BY <1>0, <2>3, <2>4 DEF StoreTypes
  <2> QED BY <1>4, <2>1, <2>2, <2>4 DEF UpsertMatch, UpsertInsert
<1>6. ASSUME NEW t \in Threads, SaveEpisodes(t) PROVE StoreTypes'
  <2>1. PICK now \in States : doc' = [doc EXCEPT ![<<arg[t][1], 1>>] = now]
    BY <1>6 DEF SaveEpisodes, Nothing, States
  <2> QED BY <1>4, <1>6, <2>1 DEF SaveEpisodes
<1> QED
  BY <1>1, <1>2, <1>3, <1>5, <1>6 DEF Next, Request, QuotaGet, Click, Work, QuotaSet,
     QuotaExpire, QuotaReget, QuotaRefuse, QuotaTake, SearchParsed, SearchDone, Load,
     Fails, FeignTimesOut, Midnight, vars, docVars

LocalTypes == /\ seen \in [Threads -> States] /\ overrun \subseteq Threads
              /\ todo \in [Threads -> SUBSET Docs]
              /\ inserting \in [Threads -> SUBSET Docs]

LEMMA DasTyped ==
  ASSUME Types, [Next]_vars PROVE DasTypes'
<1>0. LocalTypes
  BY DEF Types, DasTypes, LocalTypes
<1>1. ASSUME UNCHANGED <<seen, todo, inserting>>, overrun' \subseteq Threads PROVE LocalTypes'
  BY <1>0, <1>1 DEF LocalTypes
<1>2. ASSUME NEW t \in Threads, Finish(t) PROVE LocalTypes'
  BY <1>2, FinishClears DEF LocalTypes
<1>3. ASSUME NEW t \in Threads, SearchParsed(t) PROVE LocalTypes'
  <2>1. PICK found \in SUBSET Docs : todo' = [todo EXCEPT ![t] = found]
    BY <1>3 DEF SearchParsed, Docs
  <2> QED BY <1>0, <1>3, <2>1 DEF SearchParsed, LocalTypes
<1>4. ASSUME NEW t \in Threads, Upsert(t) PROVE LocalTypes'
  <2>1. PICK x \in Docs : UpsertMatch(t, x) \/ UpsertInsert(t, x)
    BY <1>4 DEF Upsert
  <2>2. todo[t] \in SUBSET Docs /\ inserting[t] \in SUBSET Docs
    BY <1>0 DEF LocalTypes
  <2>3. todo' \in [Threads -> SUBSET Docs] /\ seen' = seen /\ overrun' = overrun
    BY <1>0, <2>1, <2>2 DEF UpsertMatch, UpsertInsert, LocalTypes
  <2>4. \/ inserting' = inserting
        \/ inserting' = [inserting EXCEPT ![t] = @ \cup {x}]
        \/ inserting' = [inserting EXCEPT ![t] = @ \ {x}]
    BY <2>1 DEF UpsertMatch, UpsertInsert
  <2>5. inserting' \in [Threads -> SUBSET Docs]
    BY <1>0, <2>2, <2>4 DEF LocalTypes
  <2> QED BY <1>0, <2>3, <2>5 DEF LocalTypes
<1>5. ASSUME NEW t \in Threads, Load(t) PROVE LocalTypes'
  <2>1. doc[arg[t]] \in States
    BY <1>5 DEF Load, At, Types, RequestTypes, DasTypes
  <2> QED BY <1>0, <1>5, <2>1 DEF Load, LocalTypes
<1>6. ASSUME NEW t \in Threads,
             \/ QuotaReget(t) \/ QuotaRefuse(t) \/ QuotaTake(t) \/ TryLock(t) \/ SearchDone(t)
             \/ SaveEpisodes(t) \/ Fails(t)
      PROVE  \/ Finish(t)
             \/ UNCHANGED <<seen, todo, inserting>> /\ overrun' \subseteq overrun \cup {t}
  BY <1>6 DEF QuotaReget, QuotaRefuse, QuotaTake, TryLock, SearchDone, SaveEpisodes, Fails,
     dasVars
<1>7. ASSUME NEW x \in Keys, LeaseExpires(x) PROVE LocalTypes'
  BY <1>0, <1>1, <1>7 DEF LeaseExpires, Crawling, LocalTypes
<1>8. ASSUME UNCHANGED dasVars PROVE LocalTypes'
  BY <1>0, <1>1, <1>8 DEF dasVars, LocalTypes
<1>9. ASSUME NEW t \in Threads,
             \/ QuotaReget(t) \/ QuotaRefuse(t) \/ QuotaTake(t) \/ TryLock(t) \/ SearchDone(t)
             \/ SaveEpisodes(t) \/ Fails(t)
      PROVE  LocalTypes'
  BY <1>0, <1>1, <1>2, <1>6, <1>9 DEF LocalTypes
<1>10. LocalTypes'
  BY <1>3, <1>4, <1>5, <1>7, <1>8, <1>9 DEF Next, Request, QuotaGet, Click, Work,
     QuotaSet, QuotaExpire, FeignTimesOut, Midnight, vars
<1> QED BY <1>10, StoreTyped DEF DasTypes, LocalTypes, StoreTypes

LEMMA MoviesTyped == Spec => []Types
<1>1. Types /\ [Next]_vars => Types'
  BY QuotaTyped, RequestsTyped, DasTyped DEF Types
<1> QED BY <1>1, InitTypes, PTL DEF Spec

\* The variables have their types: no quota is ever negative, and a bucket that is
\* gone has no time to live.
THEOREM MoviesTypeCorrect == Spec => []TypeOK
  BY MoviesTyped, TypesGiveTypeOK, PTL

-----------------------------------------------------------------------------
(* The quota of a day.                                                     *)

Under(u) == Cardinality(Searches(u))
Others(u) == IF Searches(u) = {} THEN 0 ELSE Under(u) - 1

\* What the bucket holds, and what a search under way has read, is still to spend,
\* but for the searches that overlap.
Lasts(u) ==
  /\ Under(u) <= 1 + overlaps[u]
  /\ quota[u] = NoQuota => spent[u] = 0
  /\ quota[u] # NoQuota => spent[u] + quota[u] + Others(u) <= DailyQuota + overlaps[u]
  /\ \A t \in Searches(u) :
       /\ pc[t] = "set" => spent[u] + Under(u) <= 1 + overlaps[u]
       /\ Searching(t) => spent[u] + Under(u) + num[t] <= 1 + DailyQuota + overlaps[u]

QuotaInv == \A u \in Users : Lasts(u)

LEMMA UnderTyped ==
  ASSUME NEW u \in Users
  PROVE  /\ Under(u) \in Nat /\ Others(u) \in Nat
         /\ Searches(u) # {} => Under(u) >= 1 /\ Others(u) = Under(u) - 1
  BY SearchesCounted DEF Under, Others

LEMMA UnderSame ==
  ASSUME NEW u \in Users, Searches(u)' = Searches(u)
  PROVE  Under(u)' = Under(u) /\ Others(u)' = Others(u)
  BY DEF Under, Others

\* Nothing of u changes, except that its searches go on.
LEMMA LastsOn ==
  ASSUME NEW u \in Users, Lasts(u), Searches(u)' = Searches(u),
         quota'[u] = quota[u], spent'[u] = spent[u], overlaps'[u] = overlaps[u],
         \A t \in Searches(u) : /\ pc'[t] = "set" => pc[t] = "set"
                                /\ Searching(t)' => Searching(t) /\ num'[t] = num[t]
  PROVE  Lasts(u)'
  BY UnderSame DEF Lasts

\* A search of u is over; it may have been answered.
LEMMA LastsWithout ==
  ASSUME Types, NEW u \in Users, Lasts(u), NEW t \in Searches(u),
         Searches(u)' = Searches(u) \ {t}, overlaps'[u] = overlaps[u],
         \/ quota'[u] = quota[u] /\ spent'[u] = spent[u]
         \/ quota'[u] = num[t] - 1 /\ spent'[u] = spent[u] + 1 /\ Searching(t),
         \A v \in Searches(u) \ {t} : /\ pc'[v] = pc[v] /\ num'[v] = num[v]
                                      /\ Searching(v)' <=> Searching(v)
  PROVE  Lasts(u)'
<1>0. /\ quota[u] \in Amounts /\ spent[u] \in Nat /\ overlaps[u] \in Nat
      /\ \A v \in Threads : num[v] \in Amounts
      /\ Searching(t) => num[t] \in 1 .. DailyQuota
  BY DEF Types, QuotaTypes, RequestTypes, Searches
<1>1. Under(u)' = Under(u) - 1
  <2>1. PICK S : S = Searches(u) /\ IsFiniteSet(S) /\ t \in S
    BY SearchesCounted
  <2>2. Cardinality(S \ {t}) = Cardinality(S) - 1
    BY <2>1, FS_RemoveElement
  <2> QED BY <2>1, <2>2 DEF Under
<1>2. Under(u) \in Nat /\ Under(u) >= 1 /\ Others(u) = Under(u) - 1
  BY UnderTyped
<1>3. IF Under(u) = 1 THEN Others(u)' = 0 ELSE Others(u)' = Under(u) - 2
  <2>1. CASE Searches(u)' = {}
    <3>1. Under(u)' = 0
      BY <2>1, FS_EmptySet DEF Under
    <3> QED BY <1>1, <1>2, <2>1, <3>1 DEF Others
  <2>2. CASE Searches(u)' # {}
    <3>1. PICK v : v \in Searches(u) \ {t}
      BY <2>2
    <3>2. Searches(u) # {t} /\ Under(u) # 1
      <4>1. PICK S : S = Searches(u) /\ IsFiniteSet(S) /\ t \in S /\ v \in S \ {t}
        BY <3>1, SearchesCounted
      <4>2. /\ Cardinality(S \ {t}) = Cardinality(S) - 1
            /\ IsFiniteSet(S \ {t})
        BY <4>1, FS_RemoveElement
      <4>3. Cardinality(S \ {t}) # 0
        BY <4>1, <4>2, FS_EmptySet
      <4> QED BY <4>1, <4>2, <4>3 DEF Under
    <3> QED BY <1>1, <1>2, <2>2, <3>2 DEF Others
  <2> QED BY <2>1, <2>2
<1>4. spent'[u] + Under(u)' <= spent[u] + Under(u) /\ spent'[u] \in Nat /\ Under(u)' \in Nat
  BY <1>0, <1>1, <1>2
<1>5. Under(u)' <= 1 + overlaps'[u]
  BY <1>0, <1>1, <1>2 DEF Lasts
<1>6. /\ quota'[u] = NoQuota => spent'[u] = 0
      /\ quota'[u] # NoQuota
           => spent'[u] + quota'[u] + Others(u)' <= DailyQuota + overlaps'[u]
  <2>1. CASE quota'[u] = quota[u] /\ spent'[u] = spent[u]
    <3>1. Others(u)' <= Others(u) /\ Others(u)' \in Nat /\ Others(u) \in Nat
      BY <1>2, <1>3
    <3> QED BY <1>0, <2>1, <3>1, NoQuotaApart DEF Lasts, Amounts
  <2>2. CASE quota'[u] = num[t] - 1 /\ spent'[u] = spent[u] + 1 /\ Searching(t)
    <3>1. quota'[u] # NoQuota /\ num[t] \in Nat
      BY <1>0, <2>2 DEF NoQuota
    <3>2. spent[u] + Under(u) + num[t] <= 1 + DailyQuota + overlaps[u]
      BY <2>2 DEF Lasts
    <3> QED BY <1>0, <1>2, <1>3, <2>2, <3>1, <3>2
  <2> QED BY <2>1, <2>2
<1>7. ASSUME NEW v \in Searches(u)'
      PROVE  /\ pc'[v] = "set" => spent'[u] + Under(u)' <= 1 + overlaps'[u]
             /\ Searching(v)'
                  => spent'[u] + Under(u)' + num'[v] <= 1 + DailyQuota + overlaps'[u]
  <2>1. /\ v \in Searches(u) \ {t} /\ v \in Threads /\ pc'[v] = pc[v] /\ num'[v] = num[v]
        /\ Searching(v)' <=> Searching(v)
    BY <1>7 DEF Searches
  <2>2. num[v] \in Int
    BY <1>0, <2>1, NoQuotaApart DEF Amounts
  <2> QED BY <1>0, <1>2, <1>4, <2>1, <2>2 DEF Lasts
<1> QED BY <1>5, <1>6, <1>7 DEF Lasts

\* Whom a step of t on pc, user, arg and num may concern.
LEMMA SearchesOn ==
  ASSUME Types, NEW u \in Users, UNCHANGED <<user, arg>> PROVE Searches(u)' = Searches(u)
  BY DEF Searches

\* The request of t is over, or nobody waits for it any more.
LEMMA OneLeaves ==
  ASSUME Types, NEW t \in Threads, Finish(t) \/ FeignTimesOut(t)
  PROVE  \A v \in Threads \ {t}, u \in Users :
           /\ pc'[v] = pc[v] /\ num'[v] = num[v] /\ (Searching(v)' <=> Searching(v))
           /\ Searches(u)' = Searches(u) \ {t}
<1>1. \A v \in Threads \ {t} : /\ pc'[v] = pc[v] /\ num'[v] = num[v] /\ arg'[v] = arg[v]
                               /\ user'[v] = user[v]
  BY DEF Finish, FeignTimesOut, Goto, Types, RequestTypes
<1>2. user'[t] = None
  BY DEF Finish, FeignTimesOut, Types, RequestTypes
<1>3. \A v \in Threads \ {t} : Searching(v)' <=> Searching(v)
  BY <1>1 DEF Searching
<1>4. \A u \in Users : Searches(u)' = Searches(u) \ {t}
  BY <1>1, <1>2 DEF Searches
<1> QED BY <1>1, <1>3, <1>4

\* A request ends or is given up: for its user a search less, or nothing.
LEMMA LeavingKeeps ==
  ASSUME Types, QuotaInv, NEW t \in Threads, Finish(t) \/ FeignTimesOut(t),
         UNCHANGED quotaVars
  PROVE  QuotaInv'
<1> SUFFICES ASSUME NEW u \in Users PROVE Lasts(u)'
  BY DEF QuotaInv
<1>1. \A v \in Threads \ {t} : /\ pc'[v] = pc[v] /\ num'[v] = num[v]
                               /\ Searching(v)' <=> Searching(v)
  BY OneLeaves
<1>2. Searches(u)' = Searches(u) \ {t}
  <2>1. user'[t] = None /\ \A v \in Threads \ {t} : user'[v] = user[v] /\ arg'[v] = arg[v]
    BY DEF Finish, FeignTimesOut, Goto, Types, RequestTypes
  <2> QED BY <2>1 DEF Searches
<1>3. Lasts(u) /\ Searches(u) \subseteq Threads
  BY DEF QuotaInv, Searches
<1>4. quota'[u] = quota[u] /\ spent'[u] = spent[u] /\ overlaps'[u] = overlaps[u]
  BY DEF quotaVars
<1>5. CASE t \in Searches(u)
  BY <1>1, <1>2, <1>3, <1>4, <1>5, LastsWithout
<1>6. CASE t \notin Searches(u)
  <2>1. Searches(u)' = Searches(u) /\ \A v \in Searches(u) : v \in Threads \ {t}
    BY <1>2, <1>3, <1>6
  <2> QED BY <1>1, <1>3, <1>4, <2>1, LastsOn
<1> QED BY <1>5, <1>6

\* A request goes on, to a place that does not matter to the quota.
LEMMA GoingOnKeeps ==
  ASSUME Types, QuotaInv, NEW t \in Threads, NEW place, Goto(t, place), place # "set",
         place \in SearchPlaces \/ (place = "call" /\ arg[t] \in Titles) => Searching(t),
         UNCHANGED <<quota, spent, overlaps, reqVars>>
  PROVE  QuotaInv'
<1> SUFFICES ASSUME NEW u \in Users PROVE Lasts(u)'
  BY DEF QuotaInv
<1>1. pc'[t] = place /\ \A v \in Threads \ {t} : pc'[v] = pc[v]
  BY DEF Goto, Types, RequestTypes
<1>2. \A v \in Threads : Searching(v)' => Searching(v)
  BY <1>1 DEF Searching, reqVars
<1>3. Lasts(u) /\ Searches(u) \subseteq Threads /\ Searches(u)' = Searches(u)
  BY SearchesOn DEF QuotaInv, Searches, reqVars
<1>4. \A v \in Searches(u) : /\ pc'[v] = "set" => pc[v] = "set"
                             /\ Searching(v)' => Searching(v) /\ num'[v] = num[v]
  BY <1>1, <1>2, <1>3 DEF reqVars
<1> QED BY <1>3, <1>4, LastsOn

LEMMA BeginKeeps ==
  ASSUME Types, QuotaInv, NEW t \in Threads, NEW u \in Users, NEW x \in Titles,
         QuotaGet(t, u, x)
  PROVE  QuotaInv'
<1> SUFFICES ASSUME NEW w \in Users PROVE Lasts(w)'
  BY DEF QuotaInv
<1>0. /\ quota[w] \in Amounts /\ spent[w] \in Nat /\ overlaps[w] \in Nat /\ Lasts(w)
      /\ Searches(w) \subseteq Threads
  BY DEF Types, QuotaTypes, QuotaInv, Searches
<1>1. /\ pc[t] = "idle" /\ user[t] = None
      /\ pc'[t] = IF quota[u] = NoQuota THEN "set" ELSE Allowed(quota[u])
      /\ user'[t] = u /\ arg'[t] = x /\ num'[t] = quota[u]
      /\ \A v \in Threads \ {t} : /\ pc'[v] = pc[v] /\ user'[v] = user[v]
                                  /\ arg'[v] = arg[v] /\ num'[v] = num[v]
      /\ UNCHANGED <<quota, spent>>
  BY DEF QuotaGet, Begin, At, Goto, Types, RequestTypes
<1>2. \A v \in Threads \ {t} : Searching(v)' <=> Searching(v)
  BY <1>1 DEF Searching
<1>3. t \notin Searches(w)
  BY <1>1 DEF Searches
<1>4. CASE w # u
  <2>1. Searches(w)' = Searches(w)
    BY <1>1, <1>3, <1>4 DEF Searches
  <2>2. overlaps'[w] = overlaps[w]
    BY <1>4 DEF QuotaGet, Types, QuotaTypes
  <2>3. \A v \in Searches(w) : v \in Threads \ {t}
    BY <1>0, <1>3
  <2> QED BY <1>0, <1>1, <1>2, <2>1, <2>2, <2>3, LastsOn
<1>5. CASE w = u
  <2>1. Searches(u)' = Searches(u) \cup {t}
    BY <1>1 DEF Searches
  <2>2. Under(u)' = Under(u) + 1
    <3>1. PICK S : S = Searches(u) /\ IsFiniteSet(S) /\ t \notin S
      BY <1>3, <1>5, SearchesCounted
    <3>2. Cardinality(S \cup {t}) = Cardinality(S) + 1
      BY <3>1, FS_AddElement
    <3> QED BY <2>1, <3>1, <3>2 DEF Under
  <2>3. Under(u) \in Nat /\ Others(u)' = Under(u)
    BY <2>1, <2>2, UnderTyped DEF Others
  <2>4. overlaps'[u] = IF Searches(u) = {} THEN overlaps[u] ELSE overlaps[u] + 1
    BY DEF QuotaGet, Types, QuotaTypes
  <2>5. IF Searches(u) = {} THEN Under(u) = 0 /\ Others(u) = 0
        ELSE Under(u) >= 1 /\ Others(u) = Under(u) - 1
    BY SearchesCounted, UnderTyped DEF Under, Others
  <2>6. /\ overlaps'[u] \in Nat /\ quota'[u] = quota[u] /\ spent'[u] = spent[u]
        /\ Under(u)' <= 1 + overlaps'[u]
    BY <1>0, <1>1, <1>5, <2>2, <2>3, <2>4, <2>5 DEF Lasts
  <2>7. /\ quota'[u] = NoQuota => spent'[u] = 0
        /\ quota'[u] # NoQuota
             => spent'[u] + quota'[u] + Under(u) <= DailyQuota + overlaps'[u]
    BY <1>0, <1>5, <2>3, <2>4, <2>5, <2>6, NoQuotaApart DEF Lasts, Amounts
  <2>8. ASSUME NEW v \in Searches(u)
        PROVE  /\ pc'[v] = "set" => spent'[u] + Under(u)' <= 1 + overlaps'[u]
               /\ Searching(v)'
                    => spent'[u] + Under(u)' + num'[v] <= 1 + DailyQuota + overlaps'[u]
    <3>1. v \in Threads \ {t} /\ overlaps'[u] = overlaps[u] + 1
      BY <1>0, <1>3, <1>5, <2>4, <2>8
    <3>2. num[v] \in Int
      BY <3>1, NoQuotaApart DEF Types, RequestTypes, Amounts
    <3> QED BY <1>0, <1>1, <1>2, <1>5, <2>2, <2>3, <2>6, <2>8, <3>1, <3>2 DEF Lasts
  <2>9. /\ pc'[t] = "set" => spent'[u] + Under(u)' <= 1 + overlaps'[u]
        /\ Searching(t)'
             => spent'[u] + Under(u)' + num'[t] <= 1 + DailyQuota + overlaps'[u]
    <3>1. CASE quota[u] = NoQuota
      <4>1. spent'[u] = 0 /\ pc'[t] = "set"
        BY <1>1, <2>6, <2>7, <3>1
      <4>2. ~Searching(t)'
        BY <4>1 DEF Searching, SearchPlaces
      <4> QED BY <2>2, <2>3, <2>6, <4>1, <4>2
    <3>2. CASE quota[u] # NoQuota
      <4>1. pc'[t] # "set" /\ num'[t] = quota[u] /\ quota[u] \in Nat
        BY <1>0, <1>1, <1>5, <3>2 DEF Allowed, Amounts
      <4> QED BY <1>0, <1>5, <2>2, <2>3, <2>6, <2>7, <3>2, <4>1
    <3> QED BY <3>1, <3>2
  <2>10. \A v \in Searches(u)' :
           /\ pc'[v] = "set" => spent'[u] + Under(u)' <= 1 + overlaps'[u]
           /\ Searching(v)'
                => spent'[u] + Under(u)' + num'[v] <= 1 + DailyQuota + overlaps'[u]
    BY <2>1, <2>8, <2>9
  <2> QED BY <1>5, <2>3, <2>6, <2>7, <2>10 DEF Lasts
<1> QED BY <1>4, <1>5

LEMMA QuotaKept ==
  ASSUME Types, QuotaInv, [Next]_vars PROVE QuotaInv'
<1>0. /\ quota \in [Users -> Amounts] /\ spent \in [Users -> Nat]
      /\ overlaps \in [Users -> Nat] /\ num \in [Threads -> Amounts]
      /\ \A u \in Users : Lasts(u) /\ Searches(u) \subseteq Threads
  BY DEF Types, QuotaTypes, RequestTypes, QuotaInv, Searches
<1>1. CASE UNCHANGED <<quota, spent, overlaps, pc, reqVars>>
  <2>1. \A u \in Users : Searches(u)' = Searches(u)
    BY <1>1, SearchesOn DEF reqVars
  <2>2. \A t \in Threads : Searching(t)' <=> Searching(t)
    BY <1>1 DEF Searching, reqVars
  <2>3. ASSUME NEW u \in Users PROVE Lasts(u)'
    BY <1>0, <1>1, <2>1, <2>2, LastsOn DEF reqVars
  <2> QED BY <2>3 DEF QuotaInv
<1>2. ASSUME NEW t \in Threads, NEW u \in Users, NEW d \in Docs, Click(t, u, d)
      PROVE  QuotaInv'
  <2>1. /\ pc[t] = "idle" /\ user[t] = None /\ pc'[t] = "call" /\ arg'[t] = d
        /\ d \notin Titles /\ num' = num
        /\ \A v \in Threads \ {t} : /\ pc'[v] = pc[v] /\ user'[v] = user[v]
                                    /\ arg'[v] = arg[v]
        /\ UNCHANGED <<quota, spent, overlaps>>
    BY <1>2 DEF Click, Begin, At, Goto, quotaVars, Types, RequestTypes
  <2>2. \A w \in Users : Searches(w)' = Searches(w) /\ t \notin Searches(w)
    BY <2>1 DEF Searches
  <2>3. \A v \in Threads \ {t} : Searching(v)' <=> Searching(v)
    BY <2>1 DEF Searching
  <2>4. ASSUME NEW w \in Users PROVE Lasts(w)'
    <3>1. \A v \in Searches(w) : v \in Threads \ {t}
      BY <1>0, <2>2
    <3> QED BY <1>0, <2>1, <2>2, <2>3, <3>1, LastsOn
  <2> QED BY <2>4 DEF QuotaInv
<1>3. ASSUME NEW t \in Threads, QuotaSet(t) PROVE QuotaInv'
  <2>1. PICK u \in Users : u = user[t]
    BY <1>3 DEF QuotaSet, At, Types, RequestTypes, DasPlaces
  <2>2. /\ quota' = [quota EXCEPT ![u] = DailyQuota] /\ UNCHANGED <<spent, overlaps, reqVars>>
        /\ Goto(t, "expire") /\ pc[t] = "set" /\ t \in Searches(u)
    BY <1>3, <2>1 DEF QuotaSet, At, Types, RequestTypes, Searches
  <2>3. /\ \A v \in Threads : Searching(v)' => Searching(v)
        /\ \A v \in Threads : pc'[v] = "set" => pc[v] = "set"
        /\ \A w \in Users : Searches(w)' = Searches(w)
    <3>1. pc'[t] = "expire" /\ \A v \in Threads \ {t} : pc'[v] = pc[v]
      BY <2>2 DEF Goto, Types, RequestTypes
    <3> QED BY <2>2, <3>1, SearchesOn DEF Searching, SearchPlaces, reqVars
  <2>4. ASSUME NEW w \in Users, w # u PROVE Lasts(w)'
    BY <1>0, <2>2, <2>3, <2>4, LastsOn DEF reqVars
  <2>5. Lasts(u)'
    <3>1. quota'[u] = DailyQuota /\ spent'[u] = spent[u] /\ overlaps'[u] = overlaps[u]
          /\ num' = num
      BY <1>0, <2>2 DEF reqVars
    <3>2. Under(u)' = Under(u) /\ Others(u)' = Others(u)
      BY <2>3, UnderSame
    <3>3. Under(u) \in Nat /\ Under(u) >= 1 /\ Others(u) = Under(u) - 1
      BY <2>2, UnderTyped
    <3>4. spent[u] + Under(u) <= 1 + overlaps[u] /\ spent[u] \in Nat /\ overlaps[u] \in Nat
      BY <1>0, <2>2 DEF Lasts
    <3>5. /\ quota'[u] # NoQuota
          /\ spent'[u] + quota'[u] + Others(u)' <= DailyQuota + overlaps'[u]
      BY <3>1, <3>2, <3>3, <3>4, NoQuotaApart
    <3>6. \A v \in Searches(u)' : /\ v \in Searches(u) /\ (pc'[v] = "set" => pc[v] = "set")
                                  /\ Searching(v)' => Searching(v)
      BY <1>0, <2>3
    <3> QED BY <1>0, <3>1, <3>2, <3>5, <3>6 DEF Lasts
  <2> QED BY <2>4, <2>5 DEF QuotaInv
<1>4. ASSUME NEW t \in Threads, QuotaReget(t) PROVE QuotaInv'
  <2>1. CASE Finish(t)
    BY <1>4, <2>1, LeavingKeeps DEF QuotaReget
  <2>2. CASE /\ quota[user[t]] # NoQuota /\ num' = [num EXCEPT ![t] = quota[user[t]]]
             /\ Goto(t, Allowed(quota[user[t]])) /\ UNCHANGED <<user, arg>>
    <3>1. PICK u \in Users : u = user[t]
      BY <1>4 DEF QuotaReget, At, Types, RequestTypes, DasPlaces
    <3>2. /\ num'[t] = quota[u] /\ quota[u] # NoQuota /\ pc'[t] \in {"noQuota", "call"}
          /\ \A v \in Threads \ {t} : pc'[v] = pc[v] /\ num'[v] = num[v]
          /\ UNCHANGED <<quota, spent, overlaps, user, arg>>
      BY <1>0, <1>4, <2>2, <3>1 DEF QuotaReget, quotaVars, Goto, Allowed, Types, RequestTypes
    <3>3. \A v \in Threads \ {t} : Searching(v)' <=> Searching(v)
      BY <3>2 DEF Searching
    <3>4. \A w \in Users : Searches(w)' = Searches(w)
      <4>1. UNCHANGED <<user, arg>>
        BY <3>2
      <4> QED BY <4>1 DEF Searches
    <3>5. ASSUME NEW w \in Users, w # u PROVE Lasts(w)'
      <4>1. \A v \in Searches(w) : v \in Threads \ {t}
        BY <3>1, <3>5 DEF Searches
      <4> QED BY <1>0, <3>2, <3>3, <3>4, <4>1, LastsOn
    <3>6. Lasts(u)'
      <4>1. Under(u)' = Under(u) /\ Others(u)' = Others(u) /\ t \in Searches(u)
        <5>1. arg[t] \in Titles
          BY <1>4 DEF QuotaReget, At, Types, RequestTypes
        <5> QED BY <3>1, <3>4, <5>1, UnderSame DEF Searches
      <4>2. Under(u) \in Nat /\ Others(u) = Under(u) - 1
        BY <4>1, UnderTyped
      <4>3. spent[u] + Under(u) + num'[t] <= 1 + DailyQuota + overlaps[u]
        <5>1. spent[u] + quota[u] + Others(u) <= DailyQuota + overlaps[u]
          BY <1>0, <3>2 DEF Lasts
        <5>2. spent[u] \in Nat /\ overlaps[u] \in Nat /\ quota[u] \in Int
          BY <1>0, NoQuotaApart DEF Amounts
        <5> QED BY <3>2, <4>2, <5>1, <5>2
      <4>4. ASSUME NEW v \in Searches(u)
            PROVE  /\ pc'[v] = "set" => pc[v] = "set"
                   /\ Searching(v)'
                        => spent[u] + Under(u) + num'[v] <= 1 + DailyQuota + overlaps[u]
        <5>1. CASE v = t
          BY <3>2, <4>3, <5>1
        <5>2. CASE v # t
          BY <1>0, <3>2, <3>3, <4>4, <5>2 DEF Lasts
        <5> QED BY <5>1, <5>2
      <4> QED BY <1>0, <3>2, <3>4, <4>1, <4>4 DEF Lasts
    <3> QED BY <3>5, <3>6 DEF QuotaInv
  <2> QED BY <1>4, <2>1, <2>2 DEF QuotaReget
<1>5. ASSUME NEW t \in Threads, QuotaTake(t) PROVE QuotaInv'
  <2>1. PICK u \in Users : u = user[t] /\ t \in Searches(u) /\ Searching(t)
    BY <1>5 DEF QuotaTake, At, Types, RequestTypes, DasPlaces, Searches, Searching, SearchPlaces
  <2>2. /\ quota' = [quota EXCEPT ![u] = num[t] - 1]
        /\ spent' = [spent EXCEPT ![u] = @ + 1] /\ Finish(t) /\ UNCHANGED overlaps
    BY <1>5, <2>1 DEF QuotaTake
  <2>3. /\ \A v \in Threads \ {t} : pc'[v] = pc[v] /\ num'[v] = num[v]
        /\ \A v \in Threads \ {t} : Searching(v)' <=> Searching(v)
    BY <2>2, OneLeaves
  <2>4. ASSUME NEW w \in Users PROVE Searches(w)' = Searches(w) \ {t}
    <3>1. /\ user'[t] = None
          /\ \A v \in Threads \ {t} : user'[v] = user[v] /\ arg'[v] = arg[v]
      BY <2>2 DEF Finish, Goto, Types, RequestTypes
    <3> QED BY <3>1 DEF Searches
  <2>5. Lasts(u)'
    <3>1. quota'[u] = num[t] - 1 /\ spent'[u] = spent[u] + 1 /\ overlaps'[u] = overlaps[u]
      BY <1>0, <2>2
    <3>2. \A v \in Searches(u) \ {t} : v \in Threads \ {t}
      BY <1>0
    <3> QED BY <1>0, <2>1, <2>3, <2>4, <3>1, <3>2, LastsWithout
  <2>6. ASSUME NEW w \in Users, w # u PROVE Lasts(w)'
    <3>1. quota'[w] = quota[w] /\ spent'[w] = spent[w] /\ overlaps'[w] = overlaps[w]
      BY <1>0, <2>2, <2>6
    <3>2. t \notin Searches(w)
      BY <2>1, <2>6 DEF Searches
    <3>3. Searches(w)' = Searches(w) /\ \A v \in Searches(w) : v \in Threads \ {t}
      <4>1. PICK S : S = Searches(w)
        OBVIOUS
      <4>2. S \ {t} = S /\ \A v \in S : v \in Threads \ {t}
        BY <1>0, <3>2, <4>1
      <4> QED BY <2>4, <4>1, <4>2
    <3> QED BY <1>0, <2>3, <3>1, <3>3, LastsOn
  <2> QED BY <2>5, <2>6 DEF QuotaInv
<1>6. CASE Midnight
  <2> SUFFICES ASSUME NEW u \in Users PROVE Lasts(u)'
    BY DEF QuotaInv
  <2>1. /\ UNCHANGED <<pc, user, arg, num>> /\ spent'[u] = 0
        /\ overlaps'[u] = Others(u) /\ (quota'[u] = NoQuota \/ quota'[u] = quota[u])
    BY <1>6 DEF Midnight, reqVars, Others, Under
  <2>2. Searches(u)' = Searches(u) /\ \A v \in Threads : Searching(v)' <=> Searching(v)
    BY <2>1, SearchesOn DEF Searching
  <2>3. Under(u)' = Under(u) /\ Others(u)' = Others(u) /\ Under(u) \in Nat /\ Others(u) \in Nat
    BY <2>2, UnderSame, UnderTyped
  <2>4. Under(u) <= 1 + Others(u)
    BY <2>3, SearchesCounted DEF Under, Others
  <2>5. quota'[u] # NoQuota => quota'[u] \in Nat /\ quota'[u] <= DailyQuota
    BY <1>0, <2>1 DEF Amounts
  <2>6. ASSUME NEW v \in Searches(u), Searching(v) PROVE num[v] \in Nat /\ num[v] <= DailyQuota
    <3>1. v \in Threads /\ user[v] # None
      BY <1>0, <2>6 DEF Searches
    <3> QED BY <2>6, <3>1 DEF Types, RequestTypes
  <2>7. ASSUME NEW v \in Searches(u), Searching(v)
        PROVE  spent'[u] + Under(u)' + num'[v] <= 1 + DailyQuota + overlaps'[u]
    <3>1. num[v] \in Nat /\ num[v] <= DailyQuota
      BY <2>6, <2>7
    <3> QED BY <2>1, <2>3, <2>4, <3>1
  <2>8. /\ Under(u)' <= 1 + overlaps'[u]
        /\ spent'[u] + Under(u)' <= 1 + overlaps'[u]
        /\ quota'[u] # NoQuota
             => spent'[u] + quota'[u] + Others(u)' <= DailyQuota + overlaps'[u]
    BY <2>1, <2>3, <2>4, <2>5
  <2>9. \A v \in Searches(u)' : v \in Searches(u) /\ (Searching(v)' => Searching(v))
    BY <1>0, <2>2
  <2> QED BY <2>1, <2>7, <2>8, <2>9 DEF Lasts
<1>7. ASSUME NEW t \in Threads, QuotaExpire(t) PROVE QuotaInv'
  BY <1>7, GoingOnKeeps DEF QuotaExpire, SearchPlaces
<1>8. ASSUME NEW t \in Threads, TryLock(t) PROVE QuotaInv'
  <2>1. CASE Finish(t)
    BY <1>8, <2>1, LeavingKeeps DEF TryLock
  <2>2. CASE Goto(t, Entry(arg[t])) /\ UNCHANGED reqVars
    <3>1. Entry(arg[t]) \in {"crawl", "load"} /\ (Entry(arg[t]) = "crawl" => Searching(t))
      BY <1>8 DEF TryLock, At, Entry, Searching
    <3>2. UNCHANGED <<quota, spent, overlaps>>
      BY <1>8 DEF TryLock, quotaVars
    <3> QED BY <2>2, <3>1, <3>2, GoingOnKeeps DEF SearchPlaces
  <2> QED BY <1>8, <2>1, <2>2 DEF TryLock
<1>9. ASSUME NEW t \in Threads, SearchParsed(t) \/ SearchDone(t) PROVE QuotaInv'
  <2>1. Searching(t) /\ UNCHANGED quotaVars
    BY <1>9 DEF SearchParsed, SearchDone, At, Searching, SearchPlaces
  <2>2. CASE Finish(t)
    BY <2>1, <2>2, LeavingKeeps
  <2>3. CASE (Goto(t, "save") \/ Goto(t, "answered")) /\ UNCHANGED reqVars
    BY <2>1, <2>3, GoingOnKeeps DEF quotaVars
  <2> QED BY <1>9, <2>2, <2>3 DEF SearchParsed, SearchDone
<1>10. ASSUME NEW t \in Threads, Load(t) PROVE QuotaInv'
  BY <1>10, GoingOnKeeps DEF Load, SearchPlaces, quotaVars
<1>11. ASSUME NEW t \in Threads,
              QuotaRefuse(t) \/ SaveEpisodes(t) \/ Fails(t) \/ FeignTimesOut(t)
       PROVE  QuotaInv'
  BY <1>11, LeavingKeeps DEF QuotaRefuse, SaveEpisodes, Fails, FeignTimesOut
<1> QED
  BY <1>1, <1>2, <1>3, <1>4, <1>5, <1>6, <1>7, <1>8, <1>9, <1>10, <1>11, BeginKeeps
  DEF Next, Request, Work, Upsert, UpsertMatch, UpsertInsert, LeaseExpires, vars, quotaVars

\* However many requests a user sends at once, each lost update of the bucket costs
\* an overlap: the searches of a day are no more than the quota and the overlaps.
THEOREM QuotaIsKept == Spec => []SpentWithinQuota
<1>1. Init => QuotaInv
  <2> SUFFICES ASSUME Init, NEW u \in Users PROVE Lasts(u)
    BY DEF QuotaInv
  <2>1. Searches(u) = {}
    BY DEF Init, Searches
  <2>2. Under(u) = 0
    BY <2>1, FS_EmptySet DEF Under
  <2> QED BY <2>1, <2>2 DEF Init, Lasts
<1>2. Types /\ QuotaInv /\ [Next]_vars => QuotaInv'
  BY QuotaKept
<1>3. Types /\ QuotaInv => SpentWithinQuota
  <2> SUFFICES ASSUME Types, QuotaInv, NEW u \in Users
               PROVE  spent[u] <= DailyQuota + overlaps[u]
    BY DEF SpentWithinQuota
  <2>1. /\ quota[u] \in Amounts /\ spent[u] \in Nat /\ overlaps[u] \in Nat
        /\ Others(u) \in Nat /\ Lasts(u)
    BY UnderTyped DEF Types, QuotaTypes, QuotaInv
  <2> QED BY <2>1, NoQuotaApart DEF Lasts, Amounts
<1> QED BY <1>1, <1>2, <1>3, MoviesTyped, PTL DEF Spec

-----------------------------------------------------------------------------
(* What the lock keeps apart.                                              *)

Crawls(t) == pc[t] \in DasPlaces

\* Two crawls of a key are past a lease, both; the others are under theirs.
Sole == \A t, v \in Threads :
          Crawls(t) /\ Crawls(v) /\ arg[t] = arg[v] /\ t # v => t \in overrun
UnderLease == \A t \in Threads : Crawls(t) /\ t \notin overrun => arg[t] \in leased
Locked == Sole /\ UnderLease

\* A thread that crawls after the step, and how it came to.
LEMMA CrawlsOn ==
  ASSUME Types, NEW t \in Threads, [Next]_vars, NEW v \in Threads, Crawls(v)',
         \/ QuotaGet(t, user'[t], arg'[t]) \/ (\E u, d : Click(t, u, d))
         \/ Work(t) \/ Fails(t) \/ FeignTimesOut(t),
         ~TryLock(t)
  PROVE  Crawls(v) /\ arg'[v] = arg[v] /\ (v \in overrun => v \in overrun')
<1> USE DEF At, Goto
<1>0. pc \in [Threads -> Places] /\ arg \in [Threads -> Keys \cup {None}]
  BY DEF Types, RequestTypes
<1>1. CASE Finish(t)
  <2>1. pc'[t] = "idle" /\ \A w \in Threads \ {t} : pc'[w] = pc[w] /\ arg'[w] = arg[w]
    BY <1>0, <1>1 DEF Finish
  <2> QED BY <1>1, <2>1 DEF Crawls, DasPlaces, Finish
<1>2. CASE UNCHANGED <<pc, arg, overrun>>
  BY <1>2 DEF Crawls
<1>3. ASSUME NEW place, pc' = [pc EXCEPT ![t] = place], place \in DasPlaces => Crawls(t),
             arg' = arg \/ (pc[t] = "idle" /\ arg' = [arg EXCEPT ![t] = arg'[t]]),
             \A w \in Threads \ {t} : w \in overrun => w \in overrun',
             place \in DasPlaces => UNCHANGED overrun
      PROVE  Crawls(v) /\ arg'[v] = arg[v] /\ (v \in overrun => v \in overrun')
  <2>1. pc'[t] = place /\ \A w \in Threads \ {t} : pc'[w] = pc[w] /\ arg'[w] = arg[w]
    BY <1>0, <1>3
  <2> QED BY <1>0, <1>3, <2>1 DEF Crawls, DasPlaces
<1>4. CASE QuotaGet(t, user'[t], arg'[t]) \/ (\E u, d : Click(t, u, d))
  <2>1. PICK u, x, place : /\ Begin(t, u, x, place) /\ place \in {"set", "noQuota", "call"}
                           /\ UNCHANGED overrun
    BY <1>4 DEF QuotaGet, Click, Allowed, dasVars
  <2>2. /\ pc' = [pc EXCEPT ![t] = place] /\ pc[t] = "idle" /\ arg' = [arg EXCEPT ![t] = x]
        /\ arg'[t] = x /\ place \notin DasPlaces
    BY <1>0, <2>1 DEF Begin, DasPlaces
  <2> QED BY <1>3, <2>1, <2>2
<1>5. CASE QuotaSet(t) \/ QuotaExpire(t)
  BY <1>3, <1>5 DEF QuotaSet, QuotaExpire, reqVars, dasVars, DasPlaces
<1>6. CASE QuotaReget(t)
  <2>1. CASE pc' = [pc EXCEPT ![t] = Allowed(quota[user[t]])] /\ UNCHANGED <<arg, overrun>>
    <3>1. Allowed(quota[user[t]]) \notin DasPlaces
      BY DEF Allowed, DasPlaces
    <3> QED BY <1>3, <2>1, <3>1
  <2> QED BY <1>1, <1>6, <2>1 DEF QuotaReget, dasVars
<1>7. CASE SearchParsed(t) \/ Load(t)
  BY <1>3, <1>7 DEF SearchParsed, Load, reqVars, Crawls, DasPlaces
<1>8. CASE SearchDone(t)
  <2>1. CASE Goto(t, "answered") /\ overrun' = overrun \ {t} /\ UNCHANGED reqVars
    BY <1>3, <2>1 DEF reqVars, DasPlaces
  <2> QED BY <1>1, <1>8, <2>1 DEF SearchDone
<1>9. CASE QuotaRefuse(t) \/ QuotaTake(t) \/ SaveEpisodes(t) \/ Fails(t)
  BY <1>1, <1>9 DEF QuotaRefuse, QuotaTake, SaveEpisodes, Fails
<1>10. CASE Upsert(t) \/ FeignTimesOut(t)
  BY <1>2, <1>10 DEF Upsert, UpsertMatch, UpsertInsert, FeignTimesOut, reqVars, dasVars
<1> QED BY <1>4, <1>5, <1>6, <1>7, <1>8, <1>9, <1>10 DEF Work

LEMMA LockedKept ==
  ASSUME Types, Locked, [Next]_vars PROVE Locked'
<1>1. ASSUME \A v \in Threads : Crawls(v)' =>
               Crawls(v) /\ arg'[v] = arg[v] /\ (v \in overrun => v \in overrun'),
             leased \subseteq leased'
      PROVE  Locked'
  BY <1>1 DEF Locked, Sole, UnderLease
<1>2. CASE Midnight \/ UNCHANGED vars
  BY <1>1, <1>2 DEF Midnight, vars, reqVars, dasVars, Crawls
<1>3. ASSUME NEW x \in Keys, LeaseExpires(x) PROVE Locked'
  <2>1. /\ UNCHANGED <<pc, arg>> /\ leased' = leased \ {x}
        /\ overrun' = overrun \cup {t \in Threads : arg[t] = x /\ Crawls(t)}
    BY <1>3 DEF LeaseExpires, Crawling, Crawls, reqVars
  <2> QED BY <2>1 DEF Locked, Sole, UnderLease, Crawls
<1>4. ASSUME NEW t \in Threads, TryLock(t) PROVE Locked'
  <2>1. CASE Finish(t) /\ UNCHANGED leased
    <3>1. pc'[t] = "idle" /\ \A w \in Threads \ {t} : pc'[w] = pc[w] /\ arg'[w] = arg[w]
      BY <2>1 DEF Finish, Goto, Types, RequestTypes
    <3> QED BY <1>1, <2>1, <3>1 DEF Crawls, DasPlaces, Finish
  <2>2. CASE arg[t] \notin leased
    <3>1. /\ leased' = leased \cup {arg[t]} /\ arg' = arg
          /\ \A v \in Threads \ {t} : pc'[v] = pc[v]
      BY <1>4, <2>2 DEF TryLock, Goto, reqVars, Types, RequestTypes
    <3>2. \A v \in Threads : Crawls(v) /\ arg[v] = arg[t] => v \in overrun
      BY <2>2 DEF Locked, UnderLease
    <3>3. /\ overrun \subseteq overrun'
          /\ (\E v \in Threads : Crawls(v) /\ arg[v] = arg[t]) => t \in overrun'
      BY <1>4, <2>2 DEF TryLock, Crawling, Crawls
    <3>4. \A v \in Threads \ {t} : Crawls(v)' <=> Crawls(v)
      BY <3>1 DEF Crawls
    <3>5. Sole'
      <4> SUFFICES ASSUME NEW v \in Threads, NEW w \in Threads, Crawls(v)', Crawls(w)',
                          arg[v] = arg[w], v # w
                   PROVE  v \in overrun'
        BY <3>1 DEF Sole
      <4>1. CASE v # t /\ w # t
        BY <3>3, <3>4, <4>1 DEF Locked, Sole
      <4>2. CASE v = t
        BY <3>3, <3>4, <4>2
      <4>3. CASE w = t
        BY <3>2, <3>3, <3>4, <4>3
      <4> QED BY <4>1, <4>2, <4>3
    <3>6. UnderLease'
      BY <3>1, <3>3, <3>4 DEF Locked, UnderLease
    <3> QED BY <3>5, <3>6 DEF Locked
  <2> QED BY <1>4, <2>1, <2>2 DEF TryLock
<1>5. ASSUME NEW t \in Threads, NEW u \in Users, Request(t, u) PROVE Locked'
  <2>1. QuotaGet(t, user'[t], arg'[t]) \/ \E w, d : Click(t, w, d)
    BY <1>5 DEF Request, QuotaGet, Begin, Types, RequestTypes
  <2>2. leased' = leased /\ ~TryLock(t)
    BY <1>5 DEF Request, QuotaGet, Click, Begin, TryLock, At
  <2> QED BY <1>1, <2>1, <2>2, CrawlsOn
<1>6. ASSUME NEW t \in Threads, Work(t) \/ Fails(t) \/ FeignTimesOut(t), ~TryLock(t)
      PROVE  Locked'
  <2>1. leased' = leased
    BY <1>6 DEF Work, QuotaSet, QuotaExpire, QuotaReget, QuotaRefuse, QuotaTake, SearchParsed,
       Upsert, UpsertMatch, UpsertInsert, SearchDone, Load, SaveEpisodes, Fails, FeignTimesOut
  <2> QED BY <1>1, <1>6, <2>1, CrawlsOn
<1> QED BY <1>2, <1>3, <1>4, <1>5, <1>6 DEF Next

\* Upserts are under way in a thread that saves, and nowhere else.
Saving == \A t \in Threads : pc[t] # "save" => todo[t] = {} /\ inserting[t] = {}

\* A thread that has upserts after the step, and had them before.
LEMMA SavingKept ==
  ASSUME Types, Saving, [Next]_vars PROVE Saving'
<1> DEFINE Good(t) == pc[t] # "save" => todo[t] = {} /\ inserting[t] = {}
<1>0. /\ todo \in [Threads -> SUBSET Docs] /\ inserting \in [Threads -> SUBSET Docs]
      /\ pc \in [Threads -> Places] /\ \A t \in Threads : Good(t)
  BY DEF Types, RequestTypes, DasTypes, Saving
<1>1. ASSUME UNCHANGED <<pc, todo, inserting>> PROVE \A t \in Threads : Good(t)'
  BY <1>0, <1>1
<1>2. ASSUME NEW t \in Threads, Finish(t) PROVE \A v \in Threads : Good(v)'
  <2>1. /\ pc'[t] = "idle" /\ todo'[t] = {} /\ inserting'[t] = {}
        /\ \A v \in Threads \ {t} : /\ pc'[v] = pc[v] /\ todo'[v] = todo[v]
                                    /\ inserting'[v] = inserting[v]
    BY <1>0, <1>2 DEF Finish, Goto
  <2> QED BY <1>0, <2>1
<1>3. ASSUME NEW t \in Threads, NEW place, Goto(t, place), UNCHANGED <<todo, inserting>>,
             pc[t] = "save" => todo[t] = {} /\ inserting[t] = {}
      PROVE  \A v \in Threads : Good(v)'
  <2>1. todo'[t] = {} /\ inserting'[t] = {} /\ \A v \in Threads \ {t} : pc'[v] = pc[v]
    BY <1>0, <1>3 DEF Goto
  <2> QED BY <1>0, <1>3, <2>1
<1>4. ASSUME NEW t \in Threads, SearchParsed(t) \/ Upsert(t)
      PROVE  \A v \in Threads : Good(v)'
  <2>1. /\ pc'[t] = "save"
        /\ \A v \in Threads \ {t} : /\ pc'[v] = pc[v] /\ todo'[v] = todo[v]
                                    /\ inserting'[v] = inserting[v]
    BY <1>0, <1>4 DEF SearchParsed, Upsert, UpsertMatch, UpsertInsert, At, Goto
  <2> QED BY <1>0, <2>1
<1>5. ASSUME NEW t \in Threads, NEW u \in Users, Request(t, u)
      PROVE  \A v \in Threads : Good(v)'
  BY <1>3, <1>5 DEF Request, QuotaGet, Click, Begin, At, dasVars
<1>6. ASSUME NEW t \in Threads, QuotaSet(t) \/ QuotaExpire(t) \/ QuotaReget(t) \/ TryLock(t)
      PROVE  \A v \in Threads : Good(v)'
  BY <1>2, <1>3, <1>6 DEF QuotaSet, QuotaExpire, QuotaReget, TryLock, At, dasVars
<1>7. ASSUME NEW t \in Threads, SearchDone(t) \/ Load(t) PROVE \A v \in Threads : Good(v)'
  BY <1>2, <1>3, <1>7 DEF SearchDone, Load, At
<1>8. ASSUME NEW t \in Threads, QuotaRefuse(t) \/ QuotaTake(t) \/ SaveEpisodes(t) \/ Fails(t)
      PROVE  \A v \in Threads : Good(v)'
  BY <1>2, <1>8 DEF QuotaRefuse, QuotaTake, SaveEpisodes, Fails
<1> HIDE DEF Good
<1>9. \A t \in Threads : Good(t)'
  BY <1>1, <1>4, <1>5, <1>6, <1>7, <1>8 DEF Next, Work, FeignTimesOut, LeaseExpires,
     Midnight, vars, dasVars
<1> QED BY <1>9 DEF Saving, Good

-----------------------------------------------------------------------------
(* The documents of a movie.                                               *)

First(m) == <<m, 1>>
Second(m) == <<m, 2>>

\* A second document is never crawled into, and never without the first.
Seconds ==
  \A m \in Movies : /\ doc[Second(m)] \in {"absent", "INIT"}
                    /\ doc[Second(m)] # "absent" => doc[First(m)] # "absent"

\* What is crawled for episodes is in the database.
ClickedExist ==
  \A t \in Threads : pc[t] # "idle" /\ arg[t] \in Docs => doc[arg[t]] # "absent"

\* While nothing has raced a movie has one insert under way at most, of its first
\* document.
OneInsert ==
  \A m \in Movies \ raced :
    /\ doc[Second(m)] = "absent"
    /\ \A t \in Threads : \A x \in inserting[t] : x[1] = m =>
         /\ doc[First(m)] = "absent"
         /\ \A v \in Threads : \A y \in inserting[v] : y[1] = m => v = t /\ y = x

DocInv == Seconds /\ ClickedExist /\ OneInsert

LEMMA DocsApart ==
  /\ \A m \in Movies : First(m) \in Docs /\ Second(m) \in Docs
  /\ \A m, n \in Movies : /\ First(m) # Second(n)
                          /\ First(m) = First(n) => m = n
                          /\ Second(m) = Second(n) => m = n
  /\ \A d \in Docs : d[1] \in Movies /\ (d = First(d[1]) \/ d = Second(d[1]))
  BY DEF First, Second, Docs

\* How a step writes documents.
LEMMA Wrote ==
  ASSUME Types, Saving, [Next]_vars, doc' # doc
  PROVE  \E t \in Threads, m \in Movies :
           \/ /\ doc[First(m)] # "absent" /\ doc' = [doc EXCEPT ![First(m)] = "INIT"]
              /\ pc[t] = "save" /\ \E x \in todo[t] : x[1] = m /\ x \notin todo'[t]
              /\ UNCHANGED <<inserting, raced, pc, arg, seen, overrun>>
           \/ /\ pc[t] = "save" /\ UNCHANGED <<raced, pc, arg, seen, overrun>>
              /\ doc' = [doc EXCEPT ![IF doc[First(m)] = "absent" THEN First(m)
                                      ELSE Second(m)] = "INIT"]
              /\ \E x \in inserting[t] : x[1] = m
                   /\ inserting' = [inserting EXCEPT ![t] = @ \ {x}]
           \/ /\ SaveEpisodes(t) /\ pc[t] = "saveEpisodes" /\ arg[t] \in Docs /\ arg[t][1] = m
              /\ \E now \in {"COMPLETED", Nothing(seen[t])} :
                   doc' = [doc EXCEPT ![First(m)] = now]
              /\ Finish(t) /\ UNCHANGED <<inserting, raced>>
<1>1. \E t \in Threads : Upsert(t) \/ SaveEpisodes(t)
  BY DEF Next, Request, QuotaGet, Click, Work, QuotaSet, QuotaExpire, QuotaReget, QuotaRefuse,
     QuotaTake, TryLock, SearchParsed, SearchDone, Load, Fails, FeignTimesOut,
     LeaseExpires, Midnight, vars, docVars
<1>2. ASSUME NEW t \in Threads, NEW x \in Docs, UpsertMatch(t, x)
      PROVE  /\ x[1] \in Movies
             /\ doc[First(x[1])] # "absent" /\ doc' = [doc EXCEPT ![First(x[1])] = "INIT"]
             /\ pc[t] = "save" /\ x \in todo[t] /\ x \notin todo'[t]
             /\ UNCHANGED <<inserting, raced, pc, arg, seen, overrun>>
  BY <1>2, DocsApart DEF UpsertMatch, At, First, Types, DasTypes, reqVars
<1>3. ASSUME NEW t \in Threads, NEW x \in Docs, UpsertInsert(t, x)
      PROVE  /\ x[1] \in Movies /\ pc[t] = "save" /\ UNCHANGED <<raced, pc, arg, seen, overrun>>
             /\ doc' = [doc EXCEPT ![IF doc[First(x[1])] = "absent" THEN First(x[1])
                                     ELSE Second(x[1])] = "INIT"]
             /\ x \in inserting[t] /\ inserting' = [inserting EXCEPT ![t] = @ \ {x}]
  <2>1. x[1] \in Movies /\ pc[t] = "save" /\ UNCHANGED <<raced, pc, arg, seen, overrun>>
    BY <1>3, DocsApart DEF UpsertInsert, At, reqVars
  <2>2. x \in inserting[t] /\ inserting' = [inserting EXCEPT ![t] = @ \ {x}]
    BY <1>3 DEF UpsertInsert
  <2>3. ASSUME doc[First(x[1])] = "absent"
        PROVE  doc' = [doc EXCEPT ![First(x[1])] = "INIT"]
    BY <1>3, <2>3 DEF UpsertInsert, First
  <2>4. ASSUME doc[First(x[1])] # "absent"
        PROVE  doc' = [doc EXCEPT ![Second(x[1])] = "INIT"]
    BY <1>3, <2>4 DEF UpsertInsert, First, Second
  <2> QED BY <2>1, <2>2, <2>3, <2>4
<1>4. ASSUME NEW t \in Threads, SaveEpisodes(t)
      PROVE  /\ pc[t] = "saveEpisodes" /\ arg[t] \in Docs /\ arg[t][1] \in Movies
             /\ \E now \in {"COMPLETED", Nothing(seen[t])} :
                  doc' = [doc EXCEPT ![First(arg[t][1])] = now]
             /\ Finish(t) /\ UNCHANGED <<inserting, raced>>
  <2>1. pc[t] = "saveEpisodes" /\ arg[t] \in Docs /\ Finish(t) /\ raced' = raced
    BY <1>4 DEF SaveEpisodes, At, Types, RequestTypes
  <2>2. inserting[t] = {} /\ inserting' = [inserting EXCEPT ![t] = {}]
    BY <2>1 DEF Saving, Finish
  <2>3. inserting' = inserting
    BY <2>2 DEF Types, DasTypes
  <2> QED BY <1>4, <2>1, <2>3, DocsApart DEF SaveEpisodes, First
<1> QED BY <1>1, <1>2, <1>3, <1>4 DEF Upsert

LEMMA DocsStay ==
  ASSUME Types, Saving, Seconds, ClickedExist, [Next]_vars
  PROVE  /\ \A d \in Docs : doc[d] # "absent" => doc'[d] # "absent"
         /\ Seconds'
<1>0. doc \in [Docs -> States]
  BY DEF Types, DasTypes
<1>1. CASE doc' = doc
  BY <1>1 DEF Seconds
<1>2. ASSUME NEW m \in Movies, NEW now \in States, now # "absent",
             doc' = [doc EXCEPT ![First(m)] = now]
      PROVE  /\ \A d \in Docs : doc[d] # "absent" => doc'[d] # "absent"
             /\ Seconds'
  <2>1. \A d \in Docs : doc'[d] = IF d = First(m) THEN now ELSE doc[d]
    BY <1>0, <1>2
  <2>2. \A n \in Movies : doc'[Second(n)] = doc[Second(n)]
    BY <2>1, DocsApart
  <2>3. \A n \in Movies : doc[First(n)] # "absent" => doc'[First(n)] # "absent"
    BY <1>2, <2>1, DocsApart
  <2> QED BY <1>2, <2>1, <2>2, <2>3 DEF Seconds
<1>3. ASSUME NEW m \in Movies, doc[First(m)] # "absent",
             doc' = [doc EXCEPT ![Second(m)] = "INIT"]
      PROVE  /\ \A d \in Docs : doc[d] # "absent" => doc'[d] # "absent"
             /\ Seconds'
  <2>1. \A d \in Docs : doc'[d] = IF d = Second(m) THEN "INIT" ELSE doc[d]
    BY <1>0, <1>3
  <2>2. \A n \in Movies : doc'[First(n)] = doc[First(n)]
    BY <2>1, DocsApart
  <2>3. \A n \in Movies : doc'[Second(n)] = IF n = m THEN "INIT" ELSE doc[Second(n)]
    BY <2>1, DocsApart
  <2> QED BY <1>3, <2>1, <2>2, <2>3 DEF Seconds
<1>4. \A t \in Threads : {"INIT", "COMPLETED", Nothing(seen[t])} \subseteq States \ {"absent"}
  BY DEF Nothing, States
<1>5. CASE doc' # doc
  <2>1. \E m \in Movies :
          \/ \E now \in States \ {"absent"} : doc' = [doc EXCEPT ![First(m)] = now]
          \/ doc[First(m)] # "absent" /\ doc' = [doc EXCEPT ![Second(m)] = "INIT"]
    BY <1>4, <1>5, Wrote
  <2> QED BY <1>2, <1>3, <2>1
<1> QED BY <1>1, <1>5

LEMMA ClickedKept ==
  ASSUME Types, Saving, Seconds, ClickedExist, [Next]_vars PROVE ClickedExist'
<1>1. \A t \in Threads : /\ pc'[t] # "idle" /\ arg'[t] \in Docs
                        => \/ pc[t] # "idle" /\ arg'[t] = arg[t]
                           \/ doc[arg'[t]] # "absent"
  <2>1. CASE UNCHANGED <<pc, arg>>
    BY <2>1
  <2>2. ASSUME NEW t \in Threads,
               \/ pc[t] # "idle" /\ (\E place : Goto(t, place)) /\ UNCHANGED arg
               \/ Finish(t)
        PROVE  \A v \in Threads : pc'[v] # "idle" => pc[v] # "idle" /\ arg'[v] = arg[v]
    BY <2>2 DEF Finish, Goto, Types, RequestTypes
  <2>3. ASSUME NEW t \in Threads, NEW u \in Users, NEW x \in Titles, QuotaGet(t, u, x)
        PROVE  /\ arg'[t] \notin Docs
               /\ \A v \in Threads \ {t} : arg'[v] = arg[v] /\ pc'[v] = pc[v]
    BY <2>3 DEF QuotaGet, Begin, Goto, Types, RequestTypes
  <2>4. ASSUME NEW t \in Threads, NEW u \in Users, NEW d \in Docs, Click(t, u, d)
        PROVE  /\ doc[arg'[t]] = "INIT"
               /\ \A v \in Threads \ {t} : arg'[v] = arg[v] /\ pc'[v] = pc[v]
    BY <2>4 DEF Click, Begin, Goto, Types, RequestTypes
  <2>5. ASSUME NEW t \in Threads, Work(t) \/ Fails(t), ~UNCHANGED <<pc, arg>>
        PROVE  \/ pc[t] # "idle" /\ (\E place : Goto(t, place)) /\ UNCHANGED arg
               \/ Finish(t)
    BY <2>5 DEF Work, QuotaSet, QuotaExpire, QuotaReget, QuotaRefuse, QuotaTake, TryLock,
       SearchParsed, Upsert, UpsertMatch, UpsertInsert, SearchDone, Load, SaveEpisodes,
       Fails, At, reqVars
  <2>6. CASE \E t \in Threads : (Work(t) \/ Fails(t)) /\ ~UNCHANGED <<pc, arg>>
    BY <2>2, <2>5, <2>6
  <2>7. CASE \E t \in Threads, u \in Users : Request(t, u)
    BY <2>3, <2>4, <2>7 DEF Request
  <2> QED BY <2>1, <2>6, <2>7 DEF Next, FeignTimesOut, LeaseExpires, Midnight, vars, reqVars
<1> QED BY <1>1, DocsStay DEF ClickedExist

\* A movie that did not race in this step either, with the inserts it had, or fewer.
LEMMA FewerInserts ==
  ASSUME Types, OneInsert, NEW m \in Movies \ raced,
         \A t \in Threads : \A x \in inserting'[t] : x[1] = m => x \in inserting[t],
         doc'[Second(m)] = "absent",
         (\E t \in Threads : \E x \in inserting'[t] : x[1] = m) => doc'[First(m)] = "absent"
  PROVE  /\ doc'[Second(m)] = "absent"
         /\ \A t \in Threads : \A x \in inserting'[t] : x[1] = m =>
              /\ doc'[First(m)] = "absent"
              /\ \A v \in Threads : \A y \in inserting'[v] : y[1] = m => v = t /\ y = x
  BY DEF OneInsert

LEMMA InsertKept ==
  ASSUME Types, Locked, Saving, DocInv, [Next]_vars PROVE OneInsert'
<1>0. /\ doc \in [Docs -> States] /\ inserting \in [Threads -> SUBSET Docs]
      /\ OneInsert /\ Seconds /\ ClickedExist
  BY DEF Types, DasTypes, DocInv
<1>1. ASSUME NEW t \in Threads, NEW x \in Docs, UpsertMatch(t, x), inserting' # inserting,
             NEW m \in Movies \ raced'
      PROVE  /\ doc'[Second(m)] = "absent"
             /\ \A v \in Threads : \A y \in inserting'[v] : y[1] = m =>
                  /\ doc'[First(m)] = "absent"
                  /\ \A w \in Threads : \A z \in inserting'[w] : z[1] = m => w = v /\ z = y
  <2>1. /\ inserting' = [inserting EXCEPT ![t] = @ \cup {x}] /\ doc' = doc
        /\ raced' = (IF Races(t, x[1]) THEN raced \cup {x[1]} ELSE raced)
        /\ doc[First(x[1])] = "absent" /\ pc[t] = "save"
    BY <1>1 DEF UpsertMatch, At, First
  <2>2. m \in Movies \ raced
    BY <2>1
  <2>3. \A v \in Threads : \A y \in inserting'[v] :
          y \in inserting[v] \/ (v = t /\ y = x)
    BY <1>0, <2>1
  <2>4. CASE m = x[1]
    <3>1. ~Races(t, m)
      BY <2>1, <2>4
    <3>2. ASSUME NEW v \in Threads, NEW y \in inserting[v], y[1] = m PROVE FALSE
      <4>1. v # t /\ arg[v] = arg[t] /\ t \notin overrun
        BY <3>1, <3>2 DEF Races
      <4>2. pc[v] = "save"
        BY <3>2 DEF Saving
      <4> QED BY <2>1, <4>1, <4>2 DEF Locked, Sole, Crawls, DasPlaces
    <3>3. \A v \in Threads : \A y \in inserting'[v] : y[1] = m => v = t /\ y = x
      BY <2>3, <3>2
    <3> QED BY <1>0, <2>1, <2>2, <2>4, <3>3 DEF OneInsert
  <2>5. CASE m # x[1]
    <3>1. \A v \in Threads : \A y \in inserting'[v] : y[1] = m => y \in inserting[v]
      BY <2>3, <2>5
    <3>2. doc'[Second(m)] = "absent"
      BY <1>0, <2>1, <2>2 DEF OneInsert
    <3>3. (\E v \in Threads : \E y \in inserting'[v] : y[1] = m) => doc'[First(m)] = "absent"
      BY <1>0, <2>1, <2>2, <3>1 DEF OneInsert
    <3> QED BY <1>0, <2>2, <3>1, <3>2, <3>3, FewerInserts
  <2> QED BY <2>4, <2>5
<1>2. ASSUME NEW m \in Movies \ raced, doc'[First(m)] = doc[First(m)],
             doc'[Second(m)] = doc[Second(m)],
             \A v \in Threads : inserting'[v] \subseteq inserting[v]
      PROVE  /\ doc'[Second(m)] = "absent"
             /\ \A v \in Threads : \A y \in inserting'[v] : y[1] = m =>
                  /\ doc'[First(m)] = "absent"
                  /\ \A w \in Threads : \A z \in inserting'[w] : z[1] = m => w = v /\ z = y
  BY <1>0, <1>2 DEF OneInsert
<1>3. ASSUME doc' # doc, NEW m \in Movies \ raced'
      PROVE  /\ doc'[Second(m)] = "absent"
             /\ \A v \in Threads : \A y \in inserting'[v] : y[1] = m =>
                  /\ doc'[First(m)] = "absent"
                  /\ \A w \in Threads : \A z \in inserting'[w] : z[1] = m => w = v /\ z = y
  <2>1. ASSUME NEW n \in Movies, NEW now, raced' = raced,
               doc' = [doc EXCEPT ![First(n)] = now], inserting' = inserting,
               doc[First(n)] # "absent"
        PROVE  /\ doc'[Second(m)] = "absent"
               /\ \A v \in Threads : \A y \in inserting'[v] : y[1] = m =>
                    /\ doc'[First(m)] = "absent"
                    /\ \A w \in Threads : \A z \in inserting'[w] : z[1] = m => w = v /\ z = y
    <3>1. doc'[Second(m)] = doc[Second(m)] /\ (m # n => doc'[First(m)] = doc[First(m)])
      BY <1>0, <2>1, DocsApart
    <3>2. m = n => \A v \in Threads : \A y \in inserting[v] : y[1] # m
      BY <1>0, <1>3, <2>1 DEF OneInsert
    <3>3. doc[Second(m)] = "absent"
      BY <1>0, <1>3, <2>1 DEF OneInsert
    <3> QED BY <1>2, <2>1, <3>1, <3>2, <3>3
  <2>2. ASSUME NEW t \in Threads, NEW n \in Movies, NEW x \in inserting[t], x[1] = n,
               raced' = raced, inserting' = [inserting EXCEPT ![t] = @ \ {x}],
               doc' = [doc EXCEPT ![IF doc[First(n)] = "absent" THEN First(n)
                                    ELSE Second(n)] = "INIT"]
        PROVE  /\ doc'[Second(m)] = "absent"
               /\ \A v \in Threads : \A y \in inserting'[v] : y[1] = m =>
                    /\ doc'[First(m)] = "absent"
                    /\ \A w \in Threads : \A z \in inserting'[w] : z[1] = m => w = v /\ z = y
    <3>0. /\ \A v \in Threads : inserting'[v] \subseteq inserting[v]
          /\ x \notin inserting'[t] /\ m \in Movies \ raced
      BY <1>0, <1>3, <2>2
    <3>1. CASE m # n
      <4>1. doc'[Second(m)] = doc[Second(m)] /\ doc'[First(m)] = doc[First(m)]
        BY <1>0, <2>2, <3>1, DocsApart
      <4> QED BY <1>2, <3>0, <4>1
    <3>2. CASE m = n
      <4>1. doc[First(m)] = "absent" /\ doc[Second(m)] = "absent"
        BY <1>0, <2>2, <3>0, <3>2 DEF OneInsert
      <4>2. doc'[Second(m)] = "absent"
        BY <1>0, <2>2, <3>2, <4>1, DocsApart
      <4>3. \A v \in Threads : \A y \in inserting[v] : y[1] = m => v = t /\ y = x
        BY <1>0, <2>2, <3>0, <3>2 DEF OneInsert
      <4>4. \A v \in Threads : \A y \in inserting'[v] : y[1] # m
        BY <3>0, <4>3
      <4> QED BY <4>2, <4>4
    <3> QED BY <3>1, <3>2
  <2>3. ASSUME NEW t \in Threads, NEW n \in Movies, arg[t] \in Docs, arg[t][1] = n,
               pc[t] = "saveEpisodes"
        PROVE  doc[First(n)] # "absent"
    <3>1. doc[arg[t]] # "absent"
      BY <1>0, <2>3 DEF ClickedExist
    <3>2. arg[t] = First(n) \/ arg[t] = Second(n)
      BY <2>3, DocsApart
    <3> QED BY <1>0, <3>1, <3>2 DEF Seconds
  <2>4. PICK t \in Threads, n \in Movies :
           \/ /\ doc[First(n)] # "absent" /\ inserting' = inserting /\ raced' = raced
              /\ doc' = [doc EXCEPT ![First(n)] = "INIT"]
           \/ /\ raced' = raced
              /\ doc' = [doc EXCEPT ![IF doc[First(n)] = "absent" THEN First(n)
                                      ELSE Second(n)] = "INIT"]
              /\ \E x \in inserting[t] : x[1] = n
                   /\ inserting' = [inserting EXCEPT ![t] = @ \ {x}]
           \/ /\ pc[t] = "saveEpisodes" /\ arg[t] \in Docs /\ arg[t][1] = n
              /\ \E now \in {"COMPLETED", Nothing(seen[t])} :
                   doc' = [doc EXCEPT ![First(n)] = now]
              /\ inserting' = inserting /\ raced' = raced
    BY <1>3, Wrote
  <2> QED BY <2>1, <2>2, <2>3, <2>4
<1>4. CASE doc' = doc /\ raced' = raced /\ \A v \in Threads : inserting'[v] \subseteq inserting[v]
  BY <1>0, <1>4 DEF OneInsert
<1>5. ASSUME NEW t \in Threads, Finish(t), UNCHANGED docVars PROVE OneInsert'
  BY <1>0, <1>4, <1>5 DEF Finish, docVars
<1>6. ASSUME NEW t \in Threads, Upsert(t), doc' = doc PROVE OneInsert'
  <2>1. PICK x \in Docs : UpsertMatch(t, x) \/ UpsertInsert(t, x)
    BY <1>6 DEF Upsert
  <2>2. CASE UpsertInsert(t, x)
    BY <1>0, <1>4, <1>6, <2>2 DEF UpsertInsert
  <2>3. CASE UpsertMatch(t, x) /\ inserting' = inserting
    <3>1. raced \subseteq raced'
      BY <2>3 DEF UpsertMatch
    <3> QED BY <1>0, <1>6, <2>3, <3>1 DEF OneInsert
  <2>4. CASE UpsertMatch(t, x) /\ inserting' # inserting
    BY <1>1, <2>4 DEF OneInsert
  <2> QED BY <2>1, <2>2, <2>3, <2>4
<1>7. CASE UNCHANGED <<docVars, inserting>>
  BY <1>4, <1>7 DEF docVars
<1>8. CASE doc' # doc
  BY <1>3, <1>8 DEF OneInsert
<1>9. CASE doc' = doc
  BY <1>5, <1>6, <1>7, <1>9 DEF Next, Request, QuotaGet, Click, Work, QuotaSet, QuotaExpire,
     QuotaReget, QuotaRefuse, QuotaTake, TryLock, SearchParsed, SearchDone, Load,
     SaveEpisodes, Fails, FeignTimesOut, LeaseExpires, Midnight, vars, dasVars, docVars
<1> QED BY <1>8, <1>9

\* A crawl that loaded the one document of its movie before it was crawled, and is
\* under its lease, still finds it so.
NotOlder ==
  \A t \in Threads, m \in Movies :
    /\ pc[t] = "saveEpisodes" /\ arg[t][1] = m
    /\ seen[t] = "INIT" /\ t \notin overrun /\ doc[Second(m)] = "absent"
    => doc[First(m)] = "INIT"

\* A thread is about to save what it has crawled: since now, or since before.
LEMMA SavesOn ==
  ASSUME Types, [Next]_vars, NEW t \in Threads, pc'[t] = "saveEpisodes"
  PROVE  \/ Load(t)
         \/ /\ pc[t] = "saveEpisodes" /\ seen'[t] = seen[t] /\ arg'[t] = arg[t]
            /\ t \in overrun => t \in overrun'
<1> DEFINE Goal == \/ Load(t)
                   \/ /\ pc[t] = "saveEpisodes" /\ seen'[t] = seen[t] /\ arg'[t] = arg[t]
                      /\ t \in overrun => t \in overrun'
<1> USE DEF Goto
<1>0. /\ pc \in [Threads -> Places] /\ arg \in [Threads -> Keys \cup {None}]
      /\ seen \in [Threads -> States] /\ overrun \subseteq Threads
  BY DEF Types, RequestTypes, DasTypes
<1>1. ASSUME UNCHANGED <<pc, arg, seen>>, overrun \subseteq overrun' PROVE Goal
  BY <1>1
<1>2. ASSUME NEW v \in Threads, Finish(v) PROVE Goal
  <2>1. /\ pc' = [pc EXCEPT ![v] = "idle"] /\ arg' = [arg EXCEPT ![v] = None]
        /\ seen' = [seen EXCEPT ![v] = "absent"] /\ overrun' = overrun \ {v}
    BY <1>2 DEF Finish
  <2>2. v # t
    BY <1>0, <2>1
  <2> QED BY <1>0, <2>1, <2>2
<1>3. ASSUME NEW v \in Threads, NEW place, Goto(v, place), place # "saveEpisodes",
             \E x : arg' = arg \/ arg' = [arg EXCEPT ![v] = x],
             seen' = seen, \A w \in Threads \ {v} : w \in overrun => w \in overrun'
      PROVE  Goal
  <2>1. v # t
    BY <1>0, <1>3
  <2> QED BY <1>0, <1>3, <2>1
<1>4. ASSUME NEW v \in Threads, Load(v) PROVE Goal
  <2>1. CASE v = t
    BY <1>4, <2>1
  <2>2. CASE v # t
    BY <1>0, <1>4, <2>2 DEF Load, reqVars
  <2> QED BY <2>1, <2>2
<1>5. ASSUME NEW v \in Threads, NEW u \in Users, Request(v, u) PROVE Goal
  <2>1. PICK x, place : Begin(v, u, x, place) /\ place # "saveEpisodes" /\ UNCHANGED dasVars
    BY <1>5 DEF Request, QuotaGet, Click, Allowed
  <2> QED BY <1>3, <2>1 DEF Begin, dasVars
<1>6. ASSUME NEW v \in Threads, QuotaSet(v) \/ QuotaExpire(v) \/ SearchParsed(v) PROVE Goal
  BY <1>3, <1>6 DEF QuotaSet, QuotaExpire, SearchParsed, reqVars, dasVars
<1>7. ASSUME NEW v \in Threads, QuotaReget(v) PROVE Goal
  <2>1. Allowed(quota[user[v]]) # "saveEpisodes"
    BY DEF Allowed
  <2> QED BY <1>2, <1>3, <1>7, <2>1 DEF QuotaReget, dasVars
<1>8. ASSUME NEW v \in Threads, TryLock(v) PROVE Goal
  <2>1. Entry(arg[v]) # "saveEpisodes"
    BY DEF Entry
  <2> QED BY <1>2, <1>3, <1>8, <2>1 DEF TryLock, reqVars
<1>9. ASSUME NEW v \in Threads, SearchDone(v) PROVE Goal
  BY <1>2, <1>3, <1>9 DEF SearchDone, reqVars
<1>10. ASSUME NEW v \in Threads,
              QuotaRefuse(v) \/ QuotaTake(v) \/ SaveEpisodes(v) \/ Fails(v)
       PROVE  Goal
  BY <1>2, <1>10 DEF QuotaRefuse, QuotaTake, SaveEpisodes, Fails
<1>11. ASSUME \/ UNCHANGED vars \/ Midnight \/ (\E x \in Keys : LeaseExpires(x))
              \/ \E v \in Threads : Upsert(v) \/ FeignTimesOut(v)
       PROVE  Goal
  BY <1>1, <1>11 DEF vars, reqVars, dasVars, Midnight, LeaseExpires, Upsert, UpsertMatch,
     UpsertInsert, FeignTimesOut
<1> HIDE DEF Goal
<1>12. Goal
  BY <1>4, <1>5, <1>6, <1>7, <1>8, <1>9, <1>10, <1>11 DEF Next, Work
<1> QED BY <1>12 DEF Goal

LEMMA NotOlderKept ==
  ASSUME Types, Locked, Saving, DocInv, NotOlder, [Next]_vars PROVE NotOlder'
<1> SUFFICES ASSUME NEW t \in Threads, NEW m \in Movies, pc'[t] = "saveEpisodes",
                    arg'[t][1] = m, seen'[t] = "INIT", t \notin overrun',
                    doc'[Second(m)] = "absent"
             PROVE  doc'[First(m)] = "INIT"
  BY DEF NotOlder, Second, First
<1>0. doc \in [Docs -> States] /\ seen \in [Threads -> States] /\ ClickedExist
  BY DEF Types, DasTypes, DocInv
<1>1. doc[Second(m)] = "absent"
  BY DocsStay, DocsApart DEF DocInv
<1>2. ASSUME NEW v \in Threads, pc[v] # "idle", arg[v] \in Docs, arg[v][1] = m
      PROVE  arg[v] = First(m)
  BY <1>0, <1>1, <1>2, DocsApart DEF ClickedExist
<1>3. CASE Load(t)
  <2>1. /\ pc[t] = "load" /\ arg' = arg /\ doc' = doc /\ arg[t] \in Docs
        /\ seen'[t] = doc[arg[t]]
    BY <1>0, <1>3 DEF Load, At, reqVars, docVars, Types, RequestTypes
  <2> QED BY <1>2, <2>1
<1>4. CASE pc[t] = "saveEpisodes" /\ seen'[t] = seen[t] /\ arg'[t] = arg[t]
           /\ (t \in overrun => t \in overrun')
  <2>1. doc[First(m)] = "INIT"
    BY <1>1, <1>4 DEF NotOlder
  <2>2. ASSUME doc' # doc, NEW v \in Threads, SaveEpisodes(v), pc[v] = "saveEpisodes",
               arg[v] \in Docs, arg[v][1] = m, Finish(v)
        PROVE  FALSE
    <3>1. pc'[v] = "idle" /\ v # t
      BY <2>2 DEF Finish, Goto, Types, RequestTypes
    <3>2. arg[t] \in Docs
      BY <1>4 DEF Types, RequestTypes
    <3>3. arg[v] = First(m) /\ arg[t] = First(m)
      BY <1>2, <1>4, <2>2, <3>2
    <3> QED BY <1>4, <2>2, <3>1, <3>3 DEF Locked, Sole, Crawls, DasPlaces
  <2>3. CASE doc' = doc
    BY <2>1, <2>3
  <2>4. CASE doc' # doc
    <3>1. PICK v \in Threads, n \in Movies :
            \/ doc' = [doc EXCEPT ![First(n)] = "INIT"]
            \/ doc' = [doc EXCEPT ![IF doc[First(n)] = "absent" THEN First(n)
                                    ELSE Second(n)] = "INIT"]
            \/ /\ SaveEpisodes(v) /\ pc[v] = "saveEpisodes" /\ arg[v] \in Docs
               /\ arg[v][1] = n /\ Finish(v)
               /\ \E now : doc' = [doc EXCEPT ![First(n)] = now]
      BY <2>4, Wrote
    <3>2. CASE doc' = [doc EXCEPT ![First(n)] = "INIT"]
      BY <1>0, <2>1, <3>2, DocsApart
    <3>3. CASE doc' = [doc EXCEPT ![IF doc[First(n)] = "absent" THEN First(n)
                                    ELSE Second(n)] = "INIT"]
      BY <1>0, <2>1, <3>3, DocsApart
    <3>4. CASE /\ SaveEpisodes(v) /\ pc[v] = "saveEpisodes" /\ arg[v] \in Docs
               /\ arg[v][1] = n /\ Finish(v)
               /\ \E now : doc' = [doc EXCEPT ![First(n)] = now]
      <4>1. n # m
        BY <2>2, <2>4, <3>4
      <4> QED BY <1>0, <2>1, <3>4, <4>1, DocsApart
    <3> QED BY <3>1, <3>2, <3>3, <3>4
  <2> QED BY <2>3, <2>4
<1> QED BY <1>3, <1>4, SavesOn

-----------------------------------------------------------------------------
(* The theorems about the documents.                                       *)

DocsHold == Locked /\ Saving /\ DocInv /\ NotOlder

LEMMA DocsHoldAlways == Spec => [](Types /\ DocsHold)
<1>1. Init => DocsHold
  <2> SUFFICES ASSUME Init PROVE DocsHold
    OBVIOUS
  <2>1. /\ \A t \in Threads : pc[t] = "idle" /\ todo[t] = {} /\ inserting[t] = {}
        /\ \A m \in Movies : doc[First(m)] = "absent" /\ doc[Second(m)] = "absent"
    BY DocsApart DEF Init
  <2>2. Locked /\ Saving /\ NotOlder
    BY <2>1 DEF Locked, Sole, UnderLease, Crawls, DasPlaces, Saving, NotOlder
  <2>3. DocInv
    BY <2>1 DEF DocInv, Seconds, ClickedExist, OneInsert
  <2> QED BY <2>2, <2>3 DEF DocsHold
<1>2. Types /\ DocsHold /\ [Next]_vars => DocsHold'
  <2> SUFFICES ASSUME Types, DocsHold, [Next]_vars PROVE DocsHold'
    OBVIOUS
  <2>1. Locked /\ Saving /\ DocInv /\ NotOlder /\ Seconds /\ ClickedExist
    BY DEF DocsHold, DocInv
  <2>2. Locked' /\ Saving'
    BY <2>1, LockedKept, SavingKept
  <2>3. Seconds' /\ ClickedExist' /\ OneInsert'
    BY <2>1, DocsStay, ClickedKept, InsertKept
  <2>4. NotOlder'
    BY <2>1, NotOlderKept
  <2> QED BY <2>2, <2>3, <2>4 DEF DocsHold, DocInv
<1> QED BY <1>1, <1>2, MoviesTyped, PTL DEF Spec

\* A movie gets its second document of inserts that raced and of nothing else, for
\* any lists, titles and leases: what the lease of a search keeps apart is kept apart.
THEOREM OneDocUnlessRaced == Spec => []OneDocPerMovie
<1>1. DocsHold => OneDocPerMovie
  BY DEF DocsHold, DocInv, OneInsert, OneDocPerMovie, Second
<1> QED BY <1>1, DocsHoldAlways, PTL

\* The lease of a crawl keeps an older state from being written over episodes: they
\* are lost to searches, to pages found empty, where a movie has two documents, and
\* to crawls past their lease.
THEOREM EpisodesStay == Spec => OnlySearchesWipe
<1>1. ASSUME Types, DocsHold, [Next]_vars, NEW d \in Docs,
             doc[d] = "COMPLETED", doc'[d] # "COMPLETED"
      PROVE  \E t \in Threads :
               \/ At(t, "save") /\ \E x \in todo[t] : x[1] = d[1] /\ x \notin todo'[t]
               \/ /\ At(t, "saveEpisodes") /\ arg[t][1] = d[1]
                  /\ \/ seen[t] # "INIT" /\ doc'[d] = "EMPTY"
                     \/ doc[<<d[1], 2>>] # "absent"
                     \/ t \in overrun
  <2>0. /\ doc \in [Docs -> States] /\ Seconds /\ Saving /\ NotOlder
    BY <1>1 DEF Types, DasTypes, DocsHold, DocInv
  <2>1. PICK m \in Movies : m = d[1] /\ d = First(m)
    BY <1>1, <2>0, DocsApart DEF Seconds
  <2>2. PICK t \in Threads, n \in Movies :
          \/ /\ doc' = [doc EXCEPT ![First(n)] = "INIT"]
             /\ pc[t] = "save" /\ \E x \in todo[t] : x[1] = n /\ x \notin todo'[t]
          \/ doc' = [doc EXCEPT ![IF doc[First(n)] = "absent" THEN First(n)
                                  ELSE Second(n)] = "INIT"]
          \/ /\ pc[t] = "saveEpisodes" /\ arg[t][1] = n
             /\ \E now \in {"COMPLETED", Nothing(seen[t])} :
                  doc' = [doc EXCEPT ![First(n)] = now]
    BY <1>1, <2>0, Wrote
  <2>3. CASE doc' = [doc EXCEPT ![IF doc[First(n)] = "absent" THEN First(n)
                                  ELSE Second(n)] = "INIT"]
    BY <1>1, <2>0, <2>1, <2>3, DocsApart
  <2>4. CASE /\ doc' = [doc EXCEPT ![First(n)] = "INIT"]
             /\ pc[t] = "save" /\ \E x \in todo[t] : x[1] = n /\ x \notin todo'[t]
    <3>1. n = m
      BY <1>1, <2>0, <2>1, <2>4, DocsApart
    <3> QED BY <2>1, <2>4, <3>1 DEF At
  <2>5. ASSUME pc[t] = "saveEpisodes", arg[t][1] = n,
               NEW now \in {"COMPLETED", Nothing(seen[t])},
               doc' = [doc EXCEPT ![First(n)] = now]
        PROVE  /\ At(t, "saveEpisodes") /\ arg[t][1] = d[1]
               /\ \/ seen[t] # "INIT" /\ doc'[d] = "EMPTY"
                  \/ doc[<<d[1], 2>>] # "absent"
                  \/ t \in overrun
    <3>1. n = m /\ doc'[d] = now /\ now = Nothing(seen[t])
      BY <1>1, <2>0, <2>1, <2>5, DocsApart
    <3>2. CASE seen[t] # "INIT"
      BY <2>1, <2>5, <3>1, <3>2 DEF At, Nothing
    <3>3. CASE seen[t] = "INIT"
      BY <1>1, <2>0, <2>1, <2>5, <3>1, <3>3 DEF At, NotOlder, Second
    <3> QED BY <3>2, <3>3
  <2> QED BY <2>2, <2>3, <2>4, <2>5
<1>2. Types /\ DocsHold /\ [Next]_vars
        => [\A d \in Docs : doc[d] = "COMPLETED" /\ doc'[d] # "COMPLETED"
              => \E t \in Threads :
                   \/ At(t, "save") /\ \E x \in todo[t] : x[1] = d[1] /\ x \notin todo'[t]
                   \/ /\ At(t, "saveEpisodes") /\ arg[t][1] = d[1]
                      /\ \/ seen[t] # "INIT" /\ doc'[d] = "EMPTY"
                         \/ doc[<<d[1], 2>>] # "absent"
                         \/ t \in overrun]_vars
  BY <1>1
<1> QED BY <1>2, DocsHoldAlways, PTL DEF Spec, OnlySearchesWipe
=============================================================================

---------------------------- MODULE PicturesProofs ----------------------------
(***************************************************************************)
(* For every number of searches, titles, pages and crawls, and leases that *)
(* run out at any time: types, pages in range unless searches overlapped,  *)
(* one document for a title unless its threads raced, and the page crawled *)
(* last on the wall when its threads are through.                          *)
(***************************************************************************)
EXTENDS Pictures, TLAPS

-----------------------------------------------------------------------------
(* Type correctness.                                                       *)

\* fish-web; a search that goes on to crawl has at least one left to spend.
WebTypes ==
  /\ quota \in {NoQuota} \cup 0 .. DailyQuota
  /\ count \in Pages
  /\ pc \in [Threads -> {"idle", "set", "expire", "reget", "reset", "crawl"}]
  /\ num \in [Threads -> {NoQuota} \cup 0 .. DailyQuota]
  /\ called \in [Threads -> SUBSET Kinds]
  /\ searches \in 0 .. MaxSearches
  /\ \A t \in Threads : pc[t] \in {"reset", "crawl"} => num[t] \in 1 .. DailyQuota

\* fish-das, its leases and its documents
DasTypes ==
  /\ leased \subseteq Kinds \X Pages
  /\ pic \in [Docs -> Documents]
  /\ place \in [Crawls -> {"idle", "load", "retire"}]
  /\ listed \in [Crawls -> SUBSET Titles] /\ copies \in [Crawls -> SUBSET Docs]
  /\ renewer \in [Crawls -> [Titles -> {"none", "find", "save", "insert"}]]
  /\ adder \in [Crawls -> [Titles -> {"none", "find", "insert"}]]

Flags == timed \in BOOLEAN /\ lapped \in BOOLEAN /\ clean \in BOOLEAN
Sets  == wanted \subseteq Titles /\ raced \subseteq Titles

Types == WebTypes /\ DasTypes /\ Flags /\ Sets /\ faults \in 0 .. MaxFaults

LEMMA TypesGiveTypeOK == Types => TypeOK
  BY DEF Types, WebTypes, DasTypes, Flags, Sets, TypeOK

LEMMA InitTypes == Init => Types
<1> SUFFICES ASSUME Init PROVE Types
  OBVIOUS
<1>1. WebTypes
  BY PagesAssumption, QuotaAssumption, BoundsAssumption
  DEF Init, WebTypes, Pages, NoQuota, Kinds
<1>2. DasTypes
  BY DEF Init, DasTypes, Documents
<1>3. Flags /\ Sets
  BY DEF Init, Flags, Sets
<1>4. faults \in 0 .. MaxFaults
  BY BoundsAssumption DEF Init
<1> QED BY <1>1, <1>2, <1>3, <1>4 DEF Types

LEMMA DasUntouched ==
  ASSUME Types, UNCHANGED dasVars PROVE DasTypes'
  BY DEF Types, DasTypes, dasVars

\* fish-web: the quota, the counter, a death
LEMMA WebKeepsTypes ==
  ASSUME Types,
         \/ Midnight \/ WebDies
         \/ \E t \in Threads : \/ QuotaGet(t) \/ QuotaSet(t) \/ QuotaExpire(t)
                               \/ QuotaReget(t) \/ QuotaPut(t) \/ ResetCount(t)
  PROVE  Types'
<1>1. DasTypes'
  BY DasUntouched DEF QuotaGet, QuotaSet, QuotaExpire, QuotaReget, QuotaPut, ResetCount,
     Reset, Midnight, WebDies
<1>2. Sets'
  BY DEF Types, Sets, histVars, QuotaGet, QuotaSet, QuotaExpire, QuotaReget, QuotaPut,
     ResetCount, Reset, Midnight, WebDies
<1>3. Flags'
  BY DEF Types, Flags, quotaVars, histVars, QuotaGet, QuotaSet, QuotaExpire, QuotaReget,
     QuotaPut, ResetCount, Reset, Midnight, WebDies
<1>4. faults' \in 0 .. MaxFaults
  BY BoundsAssumption DEF Types, Fault, QuotaGet, QuotaSet, QuotaExpire, QuotaReget,
     QuotaPut, ResetCount, Reset, Midnight, WebDies
<1>5. WebTypes'
  <2> USE QuotaAssumption, BoundsAssumption, PagesAssumption
      DEF Types, WebTypes, NoQuota, Pages, At, Goto, quotaVars
  <2>1. CASE \E t \in Threads : QuotaGet(t)
    BY <2>1 DEF QuotaGet
  <2>2. CASE \E t \in Threads : QuotaSet(t)
    BY <2>2 DEF QuotaSet
  <2>3. CASE \E t \in Threads : QuotaExpire(t)
    BY <2>3 DEF QuotaExpire
  <2>4. CASE \E t \in Threads : QuotaReget(t)
    BY <2>4 DEF QuotaReget
  <2>5. CASE \E t \in Threads : QuotaPut(t)
    BY <2>5 DEF QuotaPut
  <2>6. CASE \E t \in Threads : ResetCount(t)
    BY <2>6 DEF ResetCount, Reset
  <2>7. CASE Midnight
    BY <2>7 DEF Midnight
  <2>8. CASE WebDies
    BY <2>8 DEF WebDies
  <2> QED BY <2>1, <2>2, <2>3, <2>4, <2>5, <2>6, <2>7, <2>8
<1> QED BY <1>1, <1>2, <1>3, <1>4, <1>5 DEF Types

\* The two tasks of a search and the crawls they ask for
LEMMA AskKeepsTypes ==
  ASSUME Types, NEW t \in Threads, Crawl8k(t) \/ Crawl4k(t)
  PROVE  Types'
<1> USE DEF Types
<1>1. WebTypes' /\ count \in Pages
  BY PagesAssumption DEF WebTypes, Crawl8k, Crawl4k, Ask, Kinds, At, Pages, quotaVars
<1>2. Flags'
  BY DEF Flags, Crawl8k, Crawl4k, Ask, histVars, quotaVars
<1>3. Sets'
  BY DEF Sets, Crawl8k, Crawl4k, histVars
<1>4. faults' \in 0 .. MaxFaults
  BY DEF Crawl8k, Crawl4k
<1>5. DasTypes'
  <2>1. CASE UNCHANGED dasVars
    BY <2>1, DasUntouched
  <2>2. CASE Crawl8k(t) /\ ~UNCHANGED dasVars
    <3>1. /\ leased' = leased \cup {<<"8k", count>>}
          /\ UNCHANGED <<pic, copies, renewer, adder>>
          /\ \/ UNCHANGED <<place, listed>>
             \/ \E c \in Crawls, s \in SUBSET Titles :
                  /\ place' = [place EXCEPT ![c] = "load"]
                  /\ listed' = [listed EXCEPT ![c] = s]
      BY <2>2 DEF Crawl8k, dasVars
    <3>2. leased' \subseteq Kinds \X Pages
      BY <1>1, <3>1 DEF DasTypes, Kinds
    <3>3. /\ place' \in [Crawls -> {"idle", "load", "retire"}]
          /\ listed' \in [Crawls -> SUBSET Titles]
      BY <3>1 DEF DasTypes
    <3> QED BY <3>1, <3>2, <3>3 DEF DasTypes
  <2>3. CASE Crawl4k(t) /\ ~UNCHANGED dasVars
    <3>1. /\ leased' = leased \cup {<<"4k", count>>}
          /\ \E c \in Crawls, s \in SUBSET Titles :
               adder' = [adder EXCEPT ![c] =
                           [x \in Titles |-> IF x \in s THEN "find" ELSE "none"]]
          /\ UNCHANGED <<pic, place, listed, copies, renewer>>
      BY <2>3 DEF Crawl4k, dasVars
    <3>2. leased' \subseteq Kinds \X Pages
      BY <1>1, <3>1 DEF DasTypes, Kinds
    <3>3. adder' \in [Crawls -> [Titles -> {"none", "find", "insert"}]]
      BY <3>1 DEF DasTypes
    <3> QED BY <3>1, <3>2, <3>3 DEF DasTypes
  <2> QED BY <2>1, <2>2, <2>3
<1> QED BY <1>1, <1>2, <1>3, <1>4, <1>5

LEMMA WebUntouched ==
  ASSUME Types, UNCHANGED webVars
  PROVE  WebTypes' /\ timed' \in BOOLEAN /\ lapped' \in BOOLEAN
  BY DEF Types, WebTypes, Flags, webVars, quotaVars

\* The crawl of a page of 8k pictures, up to the start of its threads
LEMMA CrawlKeepsTypes ==
  ASSUME Types, NEW c \in Crawls,
         \/ Load8k(c) \/ Renew(c)
         \/ \E d \in Docs : Retire(c, d) \/ RetireFails(c, d)
  PROVE  Types'
<1>1. WebTypes' /\ timed' \in BOOLEAN /\ lapped' \in BOOLEAN
  BY WebUntouched DEF Load8k, Renew, StartRenewers, Retire, RetireFails
<1>2. Flags'
  BY <1>1 DEF Types, Flags, histVars, Load8k, Renew, StartRenewers, Retire, RetireFails
<1>3. Sets'
  BY DEF Types, Sets, histVars, Load8k, Renew, StartRenewers, Retire, RetireFails
<1>4. faults' \in 0 .. MaxFaults
  BY BoundsAssumption DEF Types, Fault, Load8k, Renew, StartRenewers, Retire, RetireFails
<1>5. DasTypes'
  <2> USE DEF Types, DasTypes
  <2>1. CASE Load8k(c)
    BY <2>1 DEF Load8k
  <2>2. CASE Renew(c)
    BY <2>2 DEF Renew, StartRenewers
  <2>3. CASE \E d \in Docs : Retire(c, d)
    BY <2>3 DEF Retire, Documents
  <2>4. CASE \E d \in Docs : RetireFails(c, d)
    BY <2>4 DEF RetireFails
  <2> QED BY <2>1, <2>2, <2>3, <2>4
<1> QED BY <1>1, <1>2, <1>3, <1>4, <1>5 DEF Types

\* The threads of the pictures of a page
LEMMA ThreadKeepsTypes ==
  ASSUME Types, NEW c \in Crawls, NEW x \in Titles,
         \/ FindTitle(c, x) \/ SaveFound(c, x) \/ InsertFound(c, x) \/ RenewerFails(c, x)
         \/ FindOrInsert(c, x) \/ InsertSmall(c, x) \/ AdderFails(c, x)
  PROVE  Types'
<1>1. WebTypes' /\ timed' \in BOOLEAN /\ lapped' \in BOOLEAN
  BY WebUntouched DEF FindTitle, Find, SaveFound, InsertFound, RenewerFails, FindOrInsert,
     InsertSmall, AdderFails
<1>2. Flags'
  BY <1>1 DEF Types, Flags, histVars, FindTitle, Find, SaveFound, InsertFound,
     RenewerFails, FindOrInsert, InsertSmall, AdderFails
<1>3. Sets'
  BY DEF Types, Sets, histVars, Race, FindTitle, Find, SaveFound, InsertFound,
     RenewerFails, FindOrInsert, InsertSmall, AdderFails
<1>4. faults' \in 0 .. MaxFaults
  <2>1. CASE UNCHANGED faults
    BY <2>1 DEF Types
  <2>2. CASE RenewerFails(c, x) \/ AdderFails(c, x)
    BY <2>2, BoundsAssumption DEF Types, Fault, RenewerFails, AdderFails
  <2> QED BY <2>1, <2>2 DEF FindTitle, Find, SaveFound, InsertFound, FindOrInsert, InsertSmall
<1>5. pic' \in [Docs -> Documents]
  BY DEF Types, DasTypes, Documents, Insert, FindTitle, Find, SaveFound, InsertFound,
     RenewerFails, FindOrInsert, InsertSmall, AdderFails
<1>6. DasTypes'
  <2> USE <1>5 DEF Types, DasTypes
  <2>1. CASE FindTitle(c, x)
    BY <2>1 DEF FindTitle, Find
  <2>2. CASE SaveFound(c, x)
    BY <2>2 DEF SaveFound
  <2>3. CASE InsertFound(c, x)
    BY <2>3 DEF InsertFound
  <2>4. CASE RenewerFails(c, x)
    BY <2>4 DEF RenewerFails
  <2>5. CASE FindOrInsert(c, x)
    BY <2>5 DEF FindOrInsert
  <2>6. CASE InsertSmall(c, x)
    BY <2>6 DEF InsertSmall
  <2>7. CASE AdderFails(c, x)
    BY <2>7 DEF AdderFails
  <2> QED BY <2>1, <2>2, <2>3, <2>4, <2>5, <2>6, <2>7
<1> QED BY <1>1, <1>2, <1>3, <1>4, <1>6 DEF Types

LEMMA EndKeepsTypes ==
  ASSUME Types, DasDies \/ \E kind \in Kinds, p \in Pages : LeaseExpires(kind, p)
  PROVE  Types'
<1>1. WebTypes' /\ timed' \in BOOLEAN /\ lapped' \in BOOLEAN
  BY WebUntouched DEF DasDies, LeaseExpires
<1>2. Flags' /\ Sets'
  BY <1>1 DEF Types, Flags, Sets, histVars, DasDies, LeaseExpires
<1>3. faults' \in 0 .. MaxFaults
  <2>1. CASE DasDies
    BY <2>1, BoundsAssumption DEF Types, Fault, DasDies
  <2>2. CASE \E kind \in Kinds, p \in Pages : LeaseExpires(kind, p)
    BY <2>2 DEF Types, LeaseExpires
  <2> QED BY <2>1, <2>2
<1>4. DasTypes'
  <2> USE DEF Types, DasTypes
  <2>1. CASE DasDies
    BY <2>1 DEF DasDies
  <2>2. CASE \E kind \in Kinds, p \in Pages : LeaseExpires(kind, p)
    BY <2>2 DEF LeaseExpires, Kinds
  <2> QED BY <2>1, <2>2
<1> QED BY <1>1, <1>2, <1>3, <1>4 DEF Types

LEMMA TypesKept == ASSUME Types, [Next]_vars PROVE Types'
<1>1. CASE UNCHANGED vars
  <2>1. WebTypes' /\ DasTypes'
    BY <1>1, WebUntouched, DasUntouched DEF vars
  <2> QED BY <1>1, <2>1 DEF Types, Flags, Sets, vars, webVars, quotaVars, histVars
<1>2. CASE \E t \in Threads : Search(t)
  BY <1>2, WebKeepsTypes, AskKeepsTypes DEF Search
<1>3. CASE \E c \in Crawls : Crawl(c)
  BY <1>3, CrawlKeepsTypes, ThreadKeepsTypes, EndKeepsTypes DEF Crawl
<1>4. CASE Midnight \/ WebDies \/ DasDies \/ \E kind \in Kinds, p \in Pages : LeaseExpires(kind, p)
  BY <1>4, WebKeepsTypes, EndKeepsTypes
<1> QED BY <1>1, <1>2, <1>3, <1>4 DEF Next

\* The variables have their types: whatever expires between its calls, a search never
\* writes a negative number of searches left (fish-web PictureServiceImpl l.67-86).
THEOREM PicturesTypeCorrect == Spec => []TypeOK
<1>1. Init => Types
  BY InitTypes
<1>2. Types /\ [Next]_vars => Types'
  BY TypesKept
<1>3. Types => TypeOK
  BY TypesGiveTypeOK
<1> QED BY <1>1, <1>2, <1>3, PTL DEF Spec

-----------------------------------------------------------------------------
(* The page counter.                                                       *)

\* As long as none overlapped, one search at most is under way, and before it has
\* counted it is not at the last page.
OneSearch ==
  ~lapped => /\ \A s, t \in Threads : pc[s] # "idle" /\ pc[t] # "idle" => s = t
             /\ count <= LastPage
             /\ \A t \in Threads : pc[t] = "crawl" /\ "4k" \notin called[t]
                                     => count < LastPage

LEMMA InitOneSearch == Init => OneSearch
  BY PagesAssumption DEF Init, OneSearch

LEMMA OneSearchKept == ASSUME Types, OneSearch, [Next]_vars PROVE OneSearch'
<1> USE DEF OneSearch, Types, WebTypes, At, Goto
<1>1. CASE UNCHANGED webVars
  BY <1>1 DEF webVars
<1>2. CASE \E t \in Threads : QuotaGet(t)
  <2> PICK t \in Threads : QuotaGet(t)
    BY <1>2
  <2>1. ~lapped' => ~lapped /\ \A s \in Threads : pc[s] = "idle"
    BY DEF QuotaGet
  <2>2. UNCHANGED <<count, called>> /\ pc' = [pc EXCEPT ![t] = pc'[t]] /\ pc'[t] # "crawl"
    BY DEF QuotaGet
  <2> QED BY <2>1, <2>2
<1>3. CASE \E t \in Threads : QuotaSet(t) \/ QuotaExpire(t) \/ QuotaReget(t)
  BY <1>3 DEF QuotaSet, QuotaExpire, QuotaReget
<1>4. CASE \E t \in Threads : ResetCount(t)
  <2> PICK t \in Threads : ResetCount(t)
    BY <1>4
  <2>1. /\ pc[t] = "reset" /\ pc' = [pc EXCEPT ![t] = "crawl"]
        /\ count' = IF count = LastPage THEN 0 ELSE count
        /\ UNCHANGED <<called, lapped>>
    BY DEF ResetCount, Reset
  <2>2. count \in Nat
    BY PagesAssumption DEF Pages
  <2> QED BY <2>1, <2>2, PagesAssumption
<1>5. CASE \E t \in Threads : Crawl8k(t)
  BY <1>5 DEF Crawl8k, Ask
<1>6. CASE \E t \in Threads : Crawl4k(t)
  <2> PICK t \in Threads : Crawl4k(t)
    BY <1>6
  <2>1. /\ pc[t] = "crawl" /\ "4k" \notin called[t] /\ count' = count + 1
        /\ called' = [called EXCEPT ![t] = @ \cup {"4k"}] /\ UNCHANGED <<pc, lapped>>
    BY DEF Crawl4k, Ask
  <2>2. count \in Nat
    BY PagesAssumption DEF Pages
  <2> QED BY <2>1, <2>2, PagesAssumption
<1>7. CASE \E t \in Threads : QuotaPut(t)
  BY <1>7 DEF QuotaPut
<1>8. CASE \E t \in Threads : Search(t)
  BY <1>2, <1>3, <1>4, <1>5, <1>6, <1>7, <1>8 DEF Search
<1>9. CASE WebDies
  BY <1>9, PagesAssumption DEF WebDies
<1>10. CASE Midnight
  BY <1>10 DEF Midnight
<1>11. CASE \/ (\E c \in Crawls : Crawl(c)) \/ DasDies
            \/ \E kind \in Kinds, p \in Pages : LeaseExpires(kind, p)
  BY <1>1, <1>11, ZenonT(60) DEF Crawl, Load8k, Renew, StartRenewers, Retire, RetireFails,
     FindTitle, Find, SaveFound, InsertFound, RenewerFails, FindOrInsert, InsertSmall, AdderFails,
     LeaseExpires, DasDies
<1> QED BY <1>1, <1>8, <1>9, <1>10, <1>11 DEF Next, vars

\* The counter stays within 0 and LastPage unless two searches overlapped
\* (compareAndSet and getAndIncrement, fish-web PictureServiceImpl l.77-83).
THEOREM PagesStayInRange == Spec => []PagesInRange
<1> DEFINE Inv == Types /\ OneSearch
<1>1. Init => Inv
  BY InitTypes, InitOneSearch
<1>2. Inv /\ [Next]_vars => Inv'
  BY TypesKept, OneSearchKept
<1>3. Inv => PagesInRange
  BY DEF OneSearch, PagesInRange
<1> QED BY <1>1, <1>2, <1>3, PTL DEF Spec

-----------------------------------------------------------------------------
(* One document for a title.                                               *)

\* Of a title nobody raced for at most one thread is about to insert, only while
\* there is no document, and there is at most one document.
Alone(x) ==
  /\ pic[<<x, 2>>] = "absent"
  /\ \A c \in Crawls :
       renewer[c][x] = "insert" \/ adder[c][x] = "insert" => pic[<<x, 1>>] = "absent"
  /\ \A c, q \in Crawls :
       /\ renewer[c][x] = "insert" /\ renewer[q][x] = "insert" => c = q
       /\ adder[c][x] = "insert" /\ adder[q][x] = "insert" => c = q
       /\ ~(renewer[c][x] = "insert" /\ adder[q][x] = "insert")

RaceInv == \A x \in Titles : x \notin raced => Alone(x)

\* Documents do not vanish: what a crawl has loaded, or a thread has found, exists.
Exist ==
  /\ \A c \in Crawls : \A d \in copies[c] : pic[d] # "absent"
  /\ \A c \in Crawls, x \in Titles : renewer[c][x] = "save" => pic[<<x, 1>>] # "absent"

LEMMA FirstDocs == \A x \in Titles : <<x, 1>> \in Docs /\ <<x, 2>> \in Docs
  BY BoundsAssumption DEF Docs

LEMMA InitAlone == Init => RaceInv /\ Exist
<1> SUFFICES ASSUME Init PROVE RaceInv /\ Exist
  OBVIOUS
<1>1. \A c \in Crawls, x \in Titles : renewer[c][x] = "none" /\ adder[c][x] = "none"
  BY DEF Init
<1>2. \A x \in Titles : pic[<<x, 2>>] = "absent"
  BY FirstDocs DEF Init
<1>3. Exist
  BY <1>1 DEF Init, Exist
<1> QED BY <1>1, <1>2, <1>3 DEF RaceInv, Alone

\* Steps that take no thread to its insert and insert nothing
LEMMA OthersKeepAlone ==
  ASSUME RaceInv, raced' = raced,
         \A x \in Titles : pic'[<<x, 2>>] = "absent" <=> pic[<<x, 2>>] = "absent",
         \A x \in Titles : pic'[<<x, 1>>] = "absent" <=> pic[<<x, 1>>] = "absent",
         \A c \in Crawls, x \in Titles :
            /\ renewer'[c][x] = "insert" => renewer[c][x] = "insert"
            /\ adder'[c][x] = "insert" => adder[c][x] = "insert"
  PROVE  RaceInv'
<1> SUFFICES ASSUME NEW x \in Titles, x \notin raced PROVE Alone(x)'
  BY DEF RaceInv
<1>1. Alone(x)
  BY DEF RaceInv
<1>2. pic'[<<x, 2>>] = "absent"
  BY <1>1 DEF Alone
<1>3. \A c \in Crawls :
        renewer'[c][x] = "insert" \/ adder'[c][x] = "insert" => pic'[<<x, 1>>] = "absent"
  BY <1>1 DEF Alone
<1>4. \A c, q \in Crawls :
        /\ renewer'[c][x] = "insert" /\ renewer'[q][x] = "insert" => c = q
        /\ adder'[c][x] = "insert" /\ adder'[q][x] = "insert" => c = q
        /\ ~(renewer'[c][x] = "insert" /\ adder'[q][x] = "insert")
  BY <1>1 DEF Alone
<1> QED BY <1>2, <1>3, <1>4 DEF Alone

\* A thread that finds nothing is the first about to insert, or there was a race.
LEMMA LookUpKeepsAlone ==
  ASSUME Types, RaceInv, NEW c \in Crawls, NEW x \in Titles,
         FindTitle(c, x) \/ FindOrInsert(c, x)
  PROVE  RaceInv'
<1>1. CASE FindTitle(c, x)
  <2>1. /\ renewer' = [renewer EXCEPT ![c][x] =
                         IF pic[<<x, 1>>] # "absent" THEN "save" ELSE "insert"]
        /\ UNCHANGED <<pic, adder>>
        /\ IF pic[<<x, 1>>] # "absent" THEN UNCHANGED raced ELSE Race(x)
    BY <1>1 DEF FindTitle, Find
  <2> SUFFICES ASSUME NEW y \in Titles, y \notin raced' PROVE Alone(y)'
    BY DEF RaceInv
  <2>2. y \notin raced
    BY <2>1 DEF Race
  <2>3. Alone(y)
    BY <2>2 DEF RaceInv
  <2>4. CASE y = x /\ pic[<<x, 1>>] = "absent"
    <3>1. Inserting(x) = {}
      BY <2>1, <2>4 DEF Race
    <3> QED BY <2>1, <2>3, <2>4, <3>1 DEF Alone, Inserting, Types, DasTypes
  <2>5. CASE ~(y = x /\ pic[<<x, 1>>] = "absent")
    BY <2>1, <2>3, <2>5 DEF Alone, Types, DasTypes
  <2> QED BY <2>4, <2>5
<1>2. CASE FindOrInsert(c, x)
  <2>1. /\ adder' = [adder EXCEPT ![c][x] =
                       IF pic[<<x, 1>>] = "absent" THEN "insert" ELSE "none"]
        /\ UNCHANGED <<pic, renewer>>
        /\ IF pic[<<x, 1>>] = "absent" THEN Race(x) ELSE UNCHANGED raced
    BY <1>2 DEF FindOrInsert
  <2> SUFFICES ASSUME NEW y \in Titles, y \notin raced' PROVE Alone(y)'
    BY DEF RaceInv
  <2>2. y \notin raced
    BY <2>1 DEF Race
  <2>3. Alone(y)
    BY <2>2 DEF RaceInv
  <2>4. CASE y = x /\ pic[<<x, 1>>] = "absent"
    <3>1. Inserting(x) = {}
      BY <2>1, <2>4 DEF Race
    <3> QED BY <2>1, <2>3, <2>4, <3>1 DEF Alone, Inserting, Types, DasTypes
  <2>5. CASE ~(y = x /\ pic[<<x, 1>>] = "absent")
    BY <2>1, <2>3, <2>5 DEF Alone, Types, DasTypes
  <2> QED BY <2>4, <2>5
<1> QED BY <1>1, <1>2

\* The one thread that inserts does so in the first place, and is through.
LEMMA InsertKeepsAlone ==
  ASSUME Types, RaceInv, NEW c \in Crawls, NEW x \in Titles,
         InsertFound(c, x) \/ InsertSmall(c, x)
  PROVE  RaceInv'
<1> SUFFICES ASSUME NEW y \in Titles, y \notin raced' PROVE Alone(y)'
  BY DEF RaceInv
<1>1. y \notin raced /\ Alone(y)
  BY DEF RaceInv, InsertFound, InsertSmall, histVars
<1>2. \A n \in 1 .. MaxDocs : <<x, n>> \in Docs
  BY DEF Docs
<1>3. 1 \in 1 .. MaxDocs /\ 2 \in 1 .. MaxDocs
  BY BoundsAssumption
<1>4. PICK kind \in {"wall", "4k"}, n \in 1 .. MaxDocs :
        /\ pic[<<x, n>>] = "absent" /\ \A k \in 1 .. n - 1 : pic[<<x, k>>] # "absent"
        /\ pic' = [pic EXCEPT ![<<x, n>>] = kind]
  BY DEF InsertFound, InsertSmall, Insert
<1>5. CASE y # x
  <2>1. pic'[<<y, 1>>] = pic[<<y, 1>>] /\ pic'[<<y, 2>>] = pic[<<y, 2>>]
    BY <1>4, <1>5, <1>3 DEF Types, DasTypes, Docs
  <2>2. \A q \in Crawls : renewer'[q][y] = renewer[q][y] /\ adder'[q][y] = adder[q][y]
    BY <1>5 DEF InsertFound, InsertSmall, Types, DasTypes
  <2> QED BY <1>1, <2>1, <2>2 DEF Alone
<1>6. CASE y = x
  <2>1. pic[<<x, 1>>] = "absent"
    BY <1>1, <1>6 DEF Alone, InsertFound, InsertSmall
  <2>2. n = 1
    BY <1>4, <1>3, <2>1
  <2>3. pic'[<<x, 2>>] = "absent"
    BY <1>1, <1>2, <1>3, <1>4, <1>6, <2>2 DEF Alone, Types, DasTypes
  <2>4. \A q \in Crawls : renewer'[q][x] # "insert" /\ adder'[q][x] # "insert"
    <3>1. CASE InsertFound(c, x)
      BY <1>1, <1>6, <3>1 DEF Alone, InsertFound, Types, DasTypes
    <3>2. CASE InsertSmall(c, x)
      BY <1>1, <1>6, <3>2 DEF Alone, InsertSmall, Types, DasTypes
    <3> QED BY <3>1, <3>2
  <2> QED BY <1>6, <2>3, <2>4 DEF Alone
<1> QED BY <1>5, <1>6

\* No step takes a document away.
LEMMA DocsStay ==
  ASSUME Types, [Next]_vars, NEW d \in Docs, pic[d] # "absent"
  PROVE  pic'[d] # "absent"
<1>1. CASE UNCHANGED pic
  BY <1>1
<1>2. CASE \E c \in Crawls : \/ \E e \in Docs : Retire(c, e)
                            \/ \E x \in Titles : SaveFound(c, x) \/ InsertFound(c, x)
                                                   \/ InsertSmall(c, x)
  BY <1>2, ZenonT(60) DEF Retire, SaveFound, InsertFound, InsertSmall, Insert, Types, DasTypes
<1>3. CASE \E t \in Threads : Search(t)
  BY <1>1, <1>3, ZenonT(60) DEF Search, QuotaGet, QuotaSet, QuotaExpire, QuotaReget, ResetCount,
     Reset, Crawl8k, Crawl4k, QuotaPut, dasVars
<1>4. CASE \E c \in Crawls : Crawl(c)
  BY <1>1, <1>2, <1>4, ZenonT(60) DEF Crawl, Load8k, Renew, StartRenewers, RetireFails,
     FindTitle, Find, RenewerFails, FindOrInsert, AdderFails
<1>5. CASE Midnight \/ WebDies \/ DasDies \/ \E kind \in Kinds, p \in Pages : LeaseExpires(kind, p)
  BY <1>1, <1>5 DEF Midnight, WebDies, DasDies, LeaseExpires, dasVars
<1> QED BY <1>1, <1>3, <1>4, <1>5 DEF Next, vars, dasVars

LEMMA ExistKept == ASSUME Types, Exist, [Next]_vars PROVE Exist'
<1>1. \A d \in Docs : pic[d] # "absent" => pic'[d] # "absent"
  BY DocsStay
<1>2. \A c \in Crawls : copies[c] \subseteq Docs
  BY DEF Types, DasTypes
<1>3. ASSUME \A c \in Crawls : copies'[c] \subseteq copies[c],
             \A c \in Crawls, x \in Titles : renewer'[c][x] = "save" => renewer[c][x] = "save"
      PROVE  Exist'
  BY <1>1, <1>2, <1>3, FirstDocs DEF Exist
<1>4. CASE UNCHANGED <<copies, renewer>>
  BY <1>3, <1>4
<1>5. CASE \E t \in Threads : Search(t)
  BY <1>4, <1>5 DEF Search, QuotaGet, QuotaSet, QuotaExpire, QuotaReget, ResetCount, Reset,
     Crawl8k, Crawl4k, QuotaPut, dasVars
<1>6. CASE \E c \in Crawls : Load8k(c)
  <2> PICK c \in Crawls : Load8k(c)
    BY <1>6
  <2>1. /\ copies' = [copies EXCEPT ![c] = {d \in Docs : pic[d] \in {"wall", "retired"}}]
        /\ UNCHANGED <<pic, renewer>>
    BY DEF Load8k
  <2>2. \A q \in Crawls : \A d \in copies'[q] : pic[d] # "absent"
    BY <2>1 DEF Exist, Types, DasTypes
  <2> QED BY <2>1, <2>2 DEF Exist
<1>7. CASE \E c \in Crawls, x \in Titles : FindTitle(c, x)
  <2> PICK c \in Crawls, x \in Titles : FindTitle(c, x)
    BY <1>7
  <2>1. /\ renewer' = [renewer EXCEPT ![c][x] =
                         IF pic[<<x, 1>>] # "absent" THEN "save" ELSE "insert"]
        /\ UNCHANGED <<pic, copies>>
    BY DEF FindTitle, Find
  <2>2. \A q \in Crawls, y \in Titles : renewer'[q][y] = "save" => pic[<<y, 1>>] # "absent"
    BY <2>1 DEF Exist, Types, DasTypes
  <2> QED BY <2>1, <2>2 DEF Exist
<1>8. CASE \E c \in Crawls : Renew(c) \/ \E d \in Docs : Retire(c, d) \/ RetireFails(c, d)
  <2> PICK c \in Crawls : Renew(c) \/ \E d \in Docs : Retire(c, d) \/ RetireFails(c, d)
    BY <1>8
  <2>1. CASE Renew(c)
    <3>1. UNCHANGED copies
      BY <2>1 DEF Renew, StartRenewers
    <3>2. \A q \in Crawls, y \in Titles : renewer'[q][y] = "save" => renewer[q][y] = "save"
      BY <2>1 DEF Renew, StartRenewers, Types, DasTypes
    <3> QED BY <1>3, <3>1, <3>2
  <2>2. CASE \E d \in Docs : Retire(c, d) \/ RetireFails(c, d)
    <3>1. UNCHANGED renewer
      BY <2>2 DEF Retire, RetireFails
    <3>2. \A q \in Crawls : copies'[q] \subseteq copies[q]
      BY <2>2 DEF Retire, RetireFails, Types, DasTypes
    <3> QED BY <1>3, <3>1, <3>2
  <2> QED BY <2>1, <2>2
<1>9. CASE \E c \in Crawls, x \in Titles :
             SaveFound(c, x) \/ InsertFound(c, x) \/ RenewerFails(c, x)
  <2> PICK c \in Crawls, x \in Titles : SaveFound(c, x) \/ InsertFound(c, x) \/ RenewerFails(c, x)
    BY <1>9
  <2>1. UNCHANGED copies /\ renewer' = [renewer EXCEPT ![c][x] = "none"]
    BY DEF SaveFound, InsertFound, RenewerFails
  <2>2. \A q \in Crawls, y \in Titles : renewer'[q][y] = "save" => renewer[q][y] = "save"
    BY <2>1 DEF Types, DasTypes
  <2> QED BY <1>3, <2>1, <2>2
<1>10. CASE DasDies
  <2>1. \A q \in Crawls : copies'[q] = {}
    BY <1>10 DEF DasDies
  <2>2. \A q \in Crawls, y \in Titles : renewer'[q][y] # "save"
    BY <1>10 DEF DasDies
  <2> QED BY <2>1, <2>2 DEF Exist
<1>11. CASE \E c \in Crawls : Crawl(c)
  BY <1>4, <1>6, <1>7, <1>8, <1>9, <1>11
  DEF Crawl, FindOrInsert, InsertSmall, AdderFails
<1>12. CASE Midnight \/ WebDies \/ \E kind \in Kinds, p \in Pages : LeaseExpires(kind, p)
  BY <1>4, <1>12 DEF Midnight, WebDies, LeaseExpires, dasVars
<1> QED BY <1>4, <1>5, <1>10, <1>11, <1>12 DEF Next, vars, dasVars

LEMMA AloneKept == ASSUME Types, Exist, RaceInv, [Next]_vars PROVE RaceInv'
<1>1. CASE UNCHANGED <<pic, renewer, adder, raced>>
  BY <1>1, OthersKeepAlone
<1>2. CASE \E t \in Threads : Search(t)
  <2>1. CASE \E t \in Threads : Crawl4k(t)
    <3>1. UNCHANGED <<pic, renewer, raced>>
      BY <2>1 DEF Crawl4k, histVars
    <3>2. \A c \in Crawls, x \in Titles : adder'[c][x] = "insert" => adder[c][x] = "insert"
      BY <2>1, SMTT(30) DEF Crawl4k, Types, DasTypes
    <3> QED BY <3>1, <3>2, OthersKeepAlone
  <2> QED BY <1>1, <1>2, <2>1, SMTT(30) DEF Search, QuotaGet, QuotaSet, QuotaExpire, QuotaReget,
             ResetCount, Reset, Crawl8k, QuotaPut, dasVars, histVars
<1>3. CASE \E c \in Crawls, d \in Docs : Retire(c, d)
  <2> PICK c \in Crawls, d \in Docs : Retire(c, d)
    BY <1>3
  <2>1. pic[d] # "absent" /\ pic' = [pic EXCEPT ![d] = "retired"]
        /\ UNCHANGED <<renewer, adder, raced>>
    BY DEF Retire, Exist, histVars
  <2>2. \A e \in Docs : pic'[e] = "absent" <=> pic[e] = "absent"
    BY <2>1 DEF Types, DasTypes
  <2> QED BY <2>1, <2>2, FirstDocs, OthersKeepAlone
<1>4. CASE \E c \in Crawls, x \in Titles : SaveFound(c, x)
  <2> PICK c \in Crawls, x \in Titles : SaveFound(c, x)
    BY <1>4
  <2>1. pic[<<x, 1>>] # "absent" /\ UNCHANGED <<adder, raced>>
    BY DEF SaveFound, Exist, histVars
  <2>2. \A e \in Docs : pic'[e] = "absent" <=> pic[e] = "absent"
    BY <2>1 DEF SaveFound, Types, DasTypes
  <2>3. \A q \in Crawls, y \in Titles : renewer'[q][y] = "insert" => renewer[q][y] = "insert"
    BY DEF SaveFound, Types, DasTypes
  <2> QED BY <2>1, <2>2, <2>3, FirstDocs, OthersKeepAlone
<1>5. CASE \E c \in Crawls, x \in Titles : RenewerFails(c, x) \/ AdderFails(c, x)
  <2>1. UNCHANGED <<pic, raced>>
    BY <1>5 DEF RenewerFails, AdderFails, histVars
  <2>2. \A q \in Crawls, y \in Titles :
          /\ renewer'[q][y] = "insert" => renewer[q][y] = "insert"
          /\ adder'[q][y] = "insert" => adder[q][y] = "insert"
    BY <1>5 DEF RenewerFails, AdderFails, Types, DasTypes
  <2> QED BY <2>1, <2>2, OthersKeepAlone
<1>6. CASE (\E c \in Crawls : Renew(c)) \/ DasDies
  <2>1. UNCHANGED <<pic, raced>>
    BY <1>6 DEF Renew, StartRenewers, DasDies, histVars
  <2>2. \A q \in Crawls, y \in Titles :
          /\ renewer'[q][y] = "insert" => renewer[q][y] = "insert"
          /\ adder'[q][y] = "insert" => adder[q][y] = "insert"
    BY <1>6 DEF Renew, StartRenewers, DasDies, Types, DasTypes
  <2> QED BY <2>1, <2>2, OthersKeepAlone
<1>7. CASE \E c \in Crawls : Crawl(c)
  BY <1>1, <1>3, <1>4, <1>5, <1>6, <1>7, LookUpKeepsAlone, InsertKeepsAlone
  DEF Crawl, Load8k, RetireFails, histVars
<1>8. CASE Midnight \/ WebDies \/ \E kind \in Kinds, p \in Pages : LeaseExpires(kind, p)
  BY <1>1, <1>8 DEF Midnight, WebDies, LeaseExpires, dasVars, histVars
<1> QED BY <1>1, <1>2, <1>6, <1>7, <1>8 DEF Next, vars, dasVars, histVars

\* A title has a second document only if two threads were between their look-up
\* and their insert at once (fish-das PictureServiceImpl l.62-88, l.104-128).
THEOREM TitlesDoubledByRaces == Spec => []OneDocPerTitle
<1> DEFINE Inv == Types /\ Exist /\ RaceInv
<1>1. Init => Inv
  BY InitTypes, InitAlone
<1>2. Inv /\ [Next]_vars => Inv'
  BY TypesKept, ExistKept, AloneKept
<1>3. Inv => OneDocPerTitle
  BY DEF RaceInv, Alone, OneDocPerTitle
<1> QED BY <1>1, <1>2, <1>3, PTL DEF Spec

-----------------------------------------------------------------------------
(* The wall.                                                               *)

OneCrawl == \A c, q \in Crawls : Crawling(c) /\ Crawling(q) => c = q

\* Up to the start of its threads: the crawl holds the page that is wanted, and
\* once it has loaded the pictures, all that are still on the wall.
Replacing ==
  \A c \in Crawls :
    /\ place[c] # "idle" => /\ listed[c] = wanted
                            /\ \A x \in Titles : renewer[c][x] = "none"
    /\ place[c] = "load" => copies[c] = {}
    /\ place[c] = "idle" => copies[c] = {}
    /\ place[c] = "retire" => \A d \in Docs : pic[d] = "wall" => d \in copies[c]

Small(x) == \E k \in 1 .. MaxDocs : pic[<<x, k>>] = "4k"
Renewing(x) == \E c \in Crawls : renewer[c][x] # "none"

\* From then on: what is on the wall or has a thread is wanted, and what is
\* wanted is on the wall or has a thread.
Replaced ==
  (\A c \in Crawls : place[c] = "idle") =>
    \A x \in Titles : /\ OnWall(x) \/ Renewing(x) => x \in wanted
                      /\ x \in wanted => OnWall(x) \/ Renewing(x) \/ Small(x)

WallInv == clean => OneCrawl /\ Replacing /\ Replaced

LEMMA InitWall == Init => WallInv
<1> SUFFICES ASSUME Init PROVE OneCrawl /\ Replacing /\ Replaced
  BY DEF WallInv
<1>1. /\ wanted = {} /\ \A d \in Docs : pic[d] = "absent"
      /\ \A c \in Crawls : /\ place[c] = "idle" /\ copies[c] = {}
                         /\ \A x \in Titles : renewer[c][x] = "none"
  BY DEF Init
<1>2. OneCrawl /\ Replacing
  BY <1>1 DEF OneCrawl, Replacing, Crawling
<1>3. \A x \in Titles : ~OnWall(x) /\ ~Renewing(x)
  BY <1>1 DEF OnWall, Renewing, Docs
<1> QED BY <1>1, <1>2, <1>3 DEF Replaced

LEMMA WallUntouched ==
  ASSUME WallInv, UNCHANGED <<pic, place, listed, copies, renewer, wanted, clean>>
  PROVE  WallInv'
  BY DEF WallInv, OneCrawl, Replacing, Replaced, Crawling, OnWall, Renewing, Small

\* A crawl that overlaps no other one is the only one.
LEMMA NewCrawlKeepsWall ==
  ASSUME Types, WallInv, NEW t \in Threads, Crawl8k(t)
  PROVE  WallInv'
<1>1. CASE UNCHANGED <<place, listed, wanted, clean>>
  <2>1. UNCHANGED <<pic, copies, renewer>>
    BY DEF Crawl8k, dasVars
  <2> QED BY <1>1, <2>1, WallUntouched
<1>2. CASE ~UNCHANGED <<place, listed, wanted, clean>>
  <2>1. PICK c \in Crawls, s \in SUBSET Titles :
          /\ place' = [place EXCEPT ![c] = "load"] /\ listed' = [listed EXCEPT ![c] = s]
          /\ wanted' = s /\ clean' = ~\E q \in Crawls : Crawling(q)
    BY <1>2 DEF Crawl8k
  <2>2. UNCHANGED <<pic, copies, renewer>>
    BY DEF Crawl8k
  <2> SUFFICES ASSUME clean' PROVE OneCrawl' /\ Replacing' /\ Replaced'
    BY DEF WallInv
  <2>3. \A q \in Crawls : place[q] = "idle" /\ copies[q] = {} /\ \A x \in Titles : renewer[q][x] = "none"
    BY <2>1 DEF Crawling
  <2>4. /\ place'[c] = "load" /\ listed'[c] = wanted'
        /\ \A q \in Crawls : q # c => place'[q] = "idle"
    BY <2>1, <2>3 DEF Types, DasTypes
  <2>5. OneCrawl'
    BY <2>2, <2>3, <2>4 DEF OneCrawl, Crawling
  <2>6. Replacing'
    BY <2>2, <2>3, <2>4 DEF Replacing
  <2>7. Replaced'
    BY <2>4 DEF Replaced
  <2> QED BY <2>5, <2>6, <2>7
<1> QED BY <1>1, <1>2

LEMMA LoadKeepsWall ==
  ASSUME Types, WallInv, NEW c \in Crawls, Load8k(c)
  PROVE  WallInv'
<1> SUFFICES ASSUME clean PROVE OneCrawl' /\ Replacing' /\ Replaced'
  BY DEF WallInv, Load8k, histVars
<1>1. /\ place[c] = "load" /\ place' = [place EXCEPT ![c] = "retire"]
      /\ copies' = [copies EXCEPT ![c] = {d \in Docs : pic[d] \in {"wall", "retired"}}]
      /\ UNCHANGED <<pic, listed, renewer, wanted>>
  BY DEF Load8k, histVars
<1>2. OneCrawl /\ Replacing
  BY DEF WallInv
<1>3. /\ place'[c] = "retire" /\ copies'[c] = {d \in Docs : pic[d] \in {"wall", "retired"}}
      /\ \A q \in Crawls : q # c => place'[q] = place[q] /\ copies'[q] = copies[q]
  BY <1>1 DEF Types, DasTypes
<1>4. OneCrawl'
  BY <1>1, <1>2, <1>3 DEF OneCrawl, Crawling
<1>5. Replacing'
  BY <1>1, <1>2, <1>3 DEF Replacing
<1>6. Replaced'
  BY <1>3 DEF Replaced
<1> QED BY <1>4, <1>5, <1>6

LEMMA RetireKeepsWall ==
  ASSUME Types, WallInv, NEW c \in Crawls, NEW d \in Docs, Retire(c, d)
  PROVE  WallInv'
<1> SUFFICES ASSUME clean PROVE OneCrawl' /\ Replacing' /\ Replaced'
  BY DEF WallInv, Retire, histVars
<1>1. /\ d \in copies[c] /\ copies' = [copies EXCEPT ![c] = @ \ {d}]
      /\ pic' = [pic EXCEPT ![d] = "retired"]
      /\ UNCHANGED <<place, listed, renewer, wanted>>
  BY DEF Retire, histVars
<1>2. OneCrawl /\ Replacing
  BY DEF WallInv
<1>3. /\ copies'[c] = copies[c] \ {d}
      /\ \A q \in Crawls : q # c => copies'[q] = copies[q]
      /\ pic'[d] = "retired" /\ \A e \in Docs : e # d => pic'[e] = pic[e]
  BY <1>1 DEF Types, DasTypes
<1>4. OneCrawl'
  BY <1>1, <1>2, <1>3 DEF OneCrawl, Crawling
<1>5. Replacing'
  BY <1>1, <1>2, <1>3 DEF Replacing
<1>6. place'[c] # "idle"
  BY <1>1, <1>2 DEF Replacing
<1>7. Replaced'
  BY <1>6 DEF Replaced
<1> QED BY <1>4, <1>5, <1>7

\* With every picture retired, exactly the wanted ones get a thread.
LEMMA RenewKeepsWall ==
  ASSUME Types, WallInv, NEW c \in Crawls, Renew(c)
  PROVE  WallInv'
<1> SUFFICES ASSUME clean PROVE OneCrawl' /\ Replacing' /\ Replaced'
  BY DEF WallInv, Renew, StartRenewers, histVars
<1>1. /\ copies[c] = {} /\ place[c] = "retire" /\ place' = [place EXCEPT ![c] = "idle"]
      /\ listed' = [listed EXCEPT ![c] = {}]
      /\ renewer' = [renewer EXCEPT ![c] =
                       [x \in Titles |-> IF x \in listed[c] THEN "find" ELSE "none"]]
      /\ UNCHANGED <<pic, copies, wanted>>
  BY DEF Renew, StartRenewers, histVars
<1>2. OneCrawl /\ Replacing
  BY DEF WallInv
<1>3. \A q \in Crawls : q # c => ~Crawling(q)
  BY <1>1, <1>2 DEF OneCrawl, Crawling
<1>4. /\ place'[c] = "idle"
      /\ \A x \in Titles : renewer'[c][x] = IF x \in wanted THEN "find" ELSE "none"
      /\ \A q \in Crawls : q # c => /\ place'[q] = "idle" /\ copies'[q] = {}
                                   /\ \A x \in Titles : renewer'[q][x] = "none"
  BY <1>1, <1>2, <1>3 DEF Types, DasTypes, Replacing, Crawling
<1>5. OneCrawl'
  BY <1>4 DEF OneCrawl, Crawling
<1>6. Replacing'
  BY <1>1, <1>4 DEF Replacing
<1>7. \A x \in Titles : ~OnWall(x)' /\ (Renewing(x)' <=> x \in wanted)
  <2>1. \A e \in Docs : pic[e] # "wall"
    BY <1>1, <1>2 DEF Replacing
  <2>2. \A x \in Titles : ~OnWall(x)'
    BY <1>1, <2>1 DEF OnWall, Docs
  <2>3. ASSUME NEW x \in Titles PROVE Renewing(x)' <=> x \in wanted
    <3>1. CASE x \in wanted
      BY <1>4, <3>1 DEF Renewing
    <3>2. CASE x \notin wanted
      BY <1>4, <3>2 DEF Renewing
    <3> QED BY <3>1, <3>2
  <2> QED BY <2>2, <2>3
<1>8. Replaced'
  BY <1>1, <1>7 DEF Replaced
<1> QED BY <1>5, <1>6, <1>8

\* A thread that goes on
LEMMA FindKeepsWall ==
  ASSUME Types, WallInv, NEW c \in Crawls, NEW x \in Titles, FindTitle(c, x)
  PROVE  WallInv'
<1>1. /\ renewer[c][x] = "find"
      /\ renewer' = [renewer EXCEPT ![c][x] =
                       IF pic[<<x, 1>>] # "absent" THEN "save" ELSE "insert"]
      /\ UNCHANGED <<pic, place, listed, copies, wanted, clean>>
  BY DEF FindTitle, Find
<1>2. \A q \in Crawls, y \in Titles : renewer'[q][y] = "none" <=> renewer[q][y] = "none"
  BY <1>1 DEF Types, DasTypes
<1>3. /\ \A q \in Crawls : Crawling(q)' <=> Crawling(q)
      /\ \A y \in Titles : /\ OnWall(y)' <=> OnWall(y)
                           /\ Small(y)' <=> Small(y)
                           /\ Renewing(y)' <=> Renewing(y)
  BY <1>1, <1>2 DEF Crawling, OnWall, Renewing, Small
<1>4. /\ OneCrawl => OneCrawl'
      /\ Replacing => Replacing'
      /\ Replaced => Replaced'
  BY <1>1, <1>2, <1>3 DEF OneCrawl, Replacing, Replaced
<1> QED BY <1>1, <1>4 DEF WallInv

\* A thread that is through has put its picture on the wall, or it is a 4k picture.
LEMMA ThreadKeepsWall ==
  ASSUME Types, WallInv, NEW c \in Crawls, NEW x \in Titles,
         SaveFound(c, x) \/ InsertFound(c, x)
  PROVE  WallInv'
<1> SUFFICES ASSUME clean PROVE OneCrawl' /\ Replacing' /\ Replaced'
  BY DEF WallInv, SaveFound, InsertFound, histVars
<1>1. OneCrawl /\ Replacing /\ Replaced
  BY DEF WallInv
<1>2. /\ renewer[c][x] # "none" /\ renewer' = [renewer EXCEPT ![c][x] = "none"]
      /\ UNCHANGED <<place, listed, copies, wanted>>
  BY DEF SaveFound, InsertFound, histVars
<1>3. PICK n \in 1 .. MaxDocs :
        IF pic[<<x, n>>] = "4k" THEN pic' = pic ELSE pic' = [pic EXCEPT ![<<x, n>>] = "wall"]
  <2>1. CASE SaveFound(c, x)
    <3>1. 1 \in 1 .. MaxDocs
      BY BoundsAssumption
    <3>2. IF pic[<<x, 1>>] = "4k" THEN pic' = pic ELSE pic' = [pic EXCEPT ![<<x, 1>>] = "wall"]
      BY <2>1, FirstDocs DEF SaveFound, Types, DasTypes
    <3> QED BY <3>1, <3>2
  <2>2. CASE InsertFound(c, x)
    <3> PICK n \in 1 .. MaxDocs :
          pic[<<x, n>>] = "absent" /\ pic' = [pic EXCEPT ![<<x, n>>] = "wall"]
      BY <2>2 DEF InsertFound, Insert
    <3> QED OBVIOUS
  <2> QED BY <2>1, <2>2
<1>4. /\ \A y \in Titles : y # x => \A k \in 1 .. MaxDocs : pic'[<<y, k>>] = pic[<<y, k>>]
      /\ pic'[<<x, n>>] \in {"4k", "wall"}
  BY <1>3 DEF Types, DasTypes, Docs
<1>5. /\ renewer'[c][x] = "none"
      /\ \A q \in Crawls, y \in Titles : y # x => renewer'[q][y] = renewer[q][y]
      /\ \A q \in Crawls, y \in Titles : renewer[q][y] = "none" => renewer'[q][y] = "none"
  BY <1>2 DEF Types, DasTypes
<1>6. \A q \in Crawls : place[q] = "idle" /\ copies[q] = {}
  BY <1>1, <1>2 DEF OneCrawl, Replacing, Crawling
<1>7. OneCrawl'
  BY <1>1, <1>2, <1>5 DEF OneCrawl, Crawling
<1>8. Replacing'
  BY <1>2, <1>6 DEF Replacing
<1>9. x \in wanted
  BY <1>1, <1>2, <1>6 DEF Replaced, Renewing
<1>10. OnWall(x)' \/ Small(x)'
  BY <1>4 DEF OnWall, Small
<1>11. \A y \in Titles : y # x => /\ OnWall(y)' <=> OnWall(y)
                                  /\ Small(y)' <=> Small(y)
                                  /\ Renewing(y)' <=> Renewing(y)
  BY <1>4, <1>5 DEF OnWall, Small, Renewing
<1>12. Replaced'
  BY <1>1, <1>2, <1>6, <1>9, <1>10, <1>11 DEF Replaced
<1> QED BY <1>7, <1>8, <1>12

\* 4k pictures do not touch the wall.
LEMMA SmallKeepsWall ==
  ASSUME Types, WallInv, NEW c \in Crawls, NEW x \in Titles, InsertSmall(c, x)
  PROVE  WallInv'
<1>1. UNCHANGED <<place, listed, copies, renewer, wanted, clean>>
  BY DEF InsertSmall, histVars
<1>2. PICK n \in 1 .. MaxDocs :
        pic[<<x, n>>] = "absent" /\ pic' = [pic EXCEPT ![<<x, n>>] = "4k"]
  BY DEF InsertSmall, Insert
<1>3. \A d \in Docs : /\ pic'[d] = "wall" <=> pic[d] = "wall"
                      /\ pic[d] = "4k" => pic'[d] = "4k"
  BY <1>2 DEF Types, DasTypes
<1>4. \A y \in Titles : /\ OnWall(y)' <=> OnWall(y)
                        /\ Renewing(y)' <=> Renewing(y)
                        /\ Small(y) => Small(y)'
  BY <1>1, <1>3 DEF OnWall, Renewing, Small, Docs
<1> QED BY <1>1, <1>3, <1>4 DEF WallInv, OneCrawl, Replacing, Replaced, Crawling

\* A death that ends a crawl spoils it, any other one ends only 4k threads.
LEMMA DeathKeepsWall == ASSUME Types, WallInv, DasDies PROVE WallInv'
<1> SUFFICES ASSUME clean' PROVE WallInv'
  BY DEF WallInv
<1>1. clean /\ \A q \in Crawls : ~Crawling(q)
  BY DEF DasDies
<1>2. UNCHANGED <<pic, wanted>>
  BY DEF DasDies
<1>3. \A q \in Crawls : /\ place[q] = "idle" /\ place'[q] = "idle" /\ copies'[q] = {}
                       /\ \A x \in Titles : renewer[q][x] = "none" /\ renewer'[q][x] = "none"
  BY <1>1 DEF DasDies, Crawling
<1>4. OneCrawl' /\ Replacing'
  BY <1>3 DEF OneCrawl, Replacing, Crawling
<1>5. Replaced'
  BY <1>1, <1>2, <1>3 DEF WallInv, Replaced, OnWall, Renewing, Small
<1> QED BY <1>4, <1>5 DEF WallInv

LEMMA WallKept == ASSUME Types, WallInv, [Next]_vars PROVE WallInv'
<1>1. CASE UNCHANGED <<pic, place, listed, copies, renewer, wanted, clean>>
  BY <1>1, WallUntouched
<1>2. CASE clean' = FALSE
  BY <1>2 DEF WallInv
<1>3. CASE \E t \in Threads : Search(t)
  <2>1. CASE \E t \in Threads : Crawl8k(t)
    BY <2>1, NewCrawlKeepsWall
  <2> QED BY <1>1, <1>3, <2>1, ZenonT(60)
          DEF Search, QuotaGet, QuotaSet, QuotaExpire, QuotaReget, ResetCount, Reset, Crawl4k,
              QuotaPut, dasVars, histVars
<1>4. CASE \E c \in Crawls : Crawl(c)
  <2> PICK c \in Crawls : Crawl(c)
    BY <1>4
  <2>1. CASE Load8k(c) \/ Renew(c) \/ \E d \in Docs : Retire(c, d)
    BY <2>1, LoadKeepsWall, RenewKeepsWall, RetireKeepsWall
  <2>2. CASE \E x \in Titles : FindTitle(c, x) \/ SaveFound(c, x) \/ InsertFound(c, x)
                                 \/ InsertSmall(c, x)
    BY <2>2, FindKeepsWall, ThreadKeepsWall, SmallKeepsWall
  <2> QED BY <1>1, <1>2, <2>1, <2>2, ZenonT(60)
          DEF Crawl, RetireFails, RenewerFails, FindOrInsert, AdderFails, histVars
<1>5. CASE DasDies
  BY <1>5, DeathKeepsWall
<1>6. CASE Midnight \/ WebDies \/ \E kind \in Kinds, p \in Pages : LeaseExpires(kind, p)
  BY <1>1, <1>6 DEF Midnight, WebDies, LeaseExpires, dasVars, histVars
<1> QED BY <1>1, <1>3, <1>4, <1>5, <1>6 DEF Next, vars, dasVars, histVars

\* When the threads of a crawl nothing overlapped are through, the wall is its page
\* (fish-das PictureServiceImpl l.47-66), titles known as 4k pictures apart.
THEOREM WallFollowsLastCrawl == Spec => []WallIsLastCrawl
<1> DEFINE Inv == Types /\ WallInv
<1>1. Init => Inv
  BY InitTypes, InitWall
<1>2. Inv /\ [Next]_vars => Inv'
  BY TypesKept, WallKept
<1>3. Inv => WallIsLastCrawl
  <2> SUFFICES ASSUME WallInv, clean, \A c \in Crawls : ~Crawling(c),
                      NEW x \in Titles, \A k \in 1 .. MaxDocs : pic[<<x, k>>] # "4k"
               PROVE  OnWall(x) <=> x \in wanted
    BY DEF WallIsLastCrawl
  <2>1. ~Renewing(x) /\ ~Small(x)
    BY DEF Renewing, Small, Crawling
  <2> QED BY <2>1 DEF WallInv, Replaced, Crawling
<1> QED BY <1>1, <1>2, <1>3, PTL DEF Spec
=============================================================================

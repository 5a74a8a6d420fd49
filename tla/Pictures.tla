------------------------------- MODULE Pictures -------------------------------
(***************************************************************************)
(* The picture wall.  A search (fish-web PictureServiceImpl.searchPics)    *)
(* takes one from the user's daily quota and asks fish-das to crawl a page *)
(* of 8k pictures, which make the wall, and a page of 4k pictures, which   *)
(* are listed apart.  The page is picSearchCount, a counter in memory      *)
(* shared by everybody, back to 0 after the last page.                     *)
(*                                                                         *)
(* fish-das (PictureServiceImpl) retires all 8k pictures and waits for it, *)
(* then starts a virtual thread per picture of the page, which puts the    *)
(* picture on the wall again or downloads and inserts it.  Nobody waits    *)
(* for these; the lease of the endpoint names the page and runs out after  *)
(* twenty minutes whatever goes on, so crawls overlap, of different pages  *)
(* and of one.                                                             *)
(*                                                                         *)
(* A picture is its title; a title may get several documents, of which     *)
(* findOne returns the first.                                              *)
(***************************************************************************)
EXTENDS Integers, FiniteSets

CONSTANTS Threads,     \* request threads of fish-web, of one user
          Titles,      \* titles of pictures
          Crawls,      \* bound: crawls of either kind under way at once
          LastPage,    \* 30
          DailyQuota,  \* 10
          MaxCount,    \* bound of picSearchCount, beyond LastPage
          MaxSearches, \* bound: searches in one behaviour
          MaxDocs,     \* bound: documents of one title
          MaxFaults    \* bound: failures and crashes in one behaviour

ASSUME PagesAssumption == LastPage \in Nat \ {0} /\ MaxCount \in Nat /\ LastPage < MaxCount
ASSUME QuotaAssumption == DailyQuota \in Nat \ {0}
ASSUME BoundsAssumption == MaxFaults \in Nat /\ MaxSearches \in Nat /\ MaxDocs \in Nat \ {0, 1}

VARIABLES
  quota,    \* the bucket crawlPicFromNetwork:<user>, NoQuota when there is none
  timed,    \* does the bucket expire at midnight?
  count,    \* picSearchCount
  pc, num,  \* searches: place, crawlNum
  called,   \* called[t]: which crawls the search has asked for
  leased,   \* endpoints and pages under a lease in redis
  pic,      \* pic[d]: document d of pictures, see Documents
  place,    \* place[c]: where the 8k crawl c is
  listed,   \* listed[c]: titles on its page
  copies,   \* copies[c]: documents it has loaded and not yet retired
  renewer,  \* renewer[c][x]: its thread for title x
  adder,    \* adder[c][x]: thread of the 4k crawl c for title x
  searches, \* searches begun, up to MaxSearches
  lapped,   \* did two searches ever overlap? (history)
  wanted,   \* titles on the last 8k page that was crawled (history)
  clean,    \* did that crawl overlap no other one, and nothing of it fail? (history)
  raced,    \* titles two threads inserted at once (history)
  faults

quotaVars == <<quota, timed>>
webVars   == <<quotaVars, count, pc, num, called, searches, lapped>>
dasVars   == <<leased, pic, place, listed, copies, renewer, adder>>
histVars  == <<wanted, clean, raced>>
vars == <<webVars, dasVars, histVars, faults>>

NoQuota == -1
Kinds == {"8k", "4k"}
Pages == 0 .. MaxCount
Docs == Titles \X (1 .. MaxDocs)   \* in order of insertion
Documents == {"absent", "wall", "retired", "4k"}  \* type 0 status 0, 0 and 1, 1 and 0

Init ==
  /\ quota = NoQuota /\ timed = FALSE
  /\ count = 0
  /\ pc = [t \in Threads |-> "idle"]
  /\ num = [t \in Threads |-> 0]
  /\ called = [t \in Threads |-> {}]
  /\ leased = {}
  /\ pic = [d \in Docs |-> "absent"]
  /\ place = [c \in Crawls |-> "idle"]
  /\ listed = [c \in Crawls |-> {}]
  /\ copies = [c \in Crawls |-> {}]
  /\ renewer = [c \in Crawls |-> [x \in Titles |-> "none"]]
  /\ adder = [c \in Crawls |-> [x \in Titles |-> "none"]]
  /\ searches = 0 /\ lapped = FALSE
  /\ wanted = {} /\ clean = TRUE /\ raced = {}
  /\ faults = 0

At(t, where) == pc[t] = where
Goto(t, where) == pc' = [pc EXCEPT ![t] = where]
Fault == faults < MaxFaults /\ faults' = faults + 1

\* The 8k crawl c, or a thread of it, is under way.
Crawling(c) == \/ place[c] # "idle" \/ copies[c] # {}
               \/ \E x \in Titles : renewer[c][x] # "none"
Adding(c) == \E x \in Titles : adder[c][x] # "none"

-----------------------------------------------------------------------------
(* fish-web: searchPics                                                    *)

\* crawlNum = bucket.get(); with 0 left the search is refused.
QuotaGet(t) ==
  /\ At(t, "idle") /\ quota # 0
  /\ searches < MaxSearches /\ searches' = searches + 1
  /\ num' = [num EXCEPT ![t] = quota]
  /\ Goto(t, IF quota = NoQuota THEN "set" ELSE "reset")
  /\ lapped' = (lapped \/ \E x \in Threads : pc[x] # "idle")
  /\ UNCHANGED <<quotaVars, count, called, dasVars, histVars, faults>>

\* bucket.set(10); a set drops the time to live of the bucket.
QuotaSet(t) ==
  /\ At(t, "set") /\ Goto(t, "expire")
  /\ quota' = DailyQuota /\ timed' = FALSE
  /\ UNCHANGED <<count, num, called, searches, lapped, dasVars, histVars, faults>>

\* expire until midnight
QuotaExpire(t) ==
  /\ At(t, "expire") /\ Goto(t, "reget")
  /\ timed' = (quota # NoQuota)
  /\ UNCHANGED <<quota, count, num, called, searches, lapped, dasVars, histVars, faults>>

\* Faulty variant: it goes on in any case.
QuotaRegetOn(t) ==
  /\ At(t, "reget") /\ Goto(t, "reset")
  /\ num' = [num EXCEPT ![t] = quota]
  /\ UNCHANGED <<quotaVars, count, called, searches, lapped, dasVars, histVars, faults>>

\* The bucket is read again; gone by now, or used up by others, it ends the search.
QuotaReget(t) ==
  /\ At(t, "reget")
  /\ num' = [num EXCEPT ![t] = quota]
  /\ Goto(t, IF quota \in {NoQuota, 0} THEN "idle" ELSE "reset")
  /\ UNCHANGED <<quotaVars, count, called, searches, lapped, dasVars, histVars, faults>>

Midnight ==
  /\ timed
  /\ quota' = NoQuota /\ timed' = FALSE
  /\ UNCHANGED <<count, pc, num, called, searches, lapped, dasVars, histVars, faults>>

Reset(t, last) ==
  /\ At(t, "reset") /\ Goto(t, "crawl")
  /\ count' = IF count = last THEN 0 ELSE count
  /\ UNCHANGED <<quotaVars, num, called, searches, lapped, dasVars, histVars, faults>>

\* Faulty variant: off by one.
ResetLate(t) == Reset(t, LastPage + 1)

\* picSearchCount.compareAndSet(30, 0)
ResetCount(t) == Reset(t, LastPage)

\* One of the two tasks asks fish-das.  That the call fails, is refused because
\* the page is under a lease, or takes longer than Feign waits, is not noticed: the
\* task is over whatever became of the crawl.
Ask(t, kind) ==
  /\ At(t, "crawl") /\ kind \notin called[t]
  /\ called' = [called EXCEPT ![t] = @ \cup {kind}]
  /\ UNCHANGED <<quotaVars, pc, num, searches, lapped>>

\* Both tasks are joined; the quota that was read before goes down by one, and
\* with the set its time to live is gone.
QuotaPut(t) ==
  /\ At(t, "crawl") /\ called[t] = Kinds /\ Goto(t, "idle")
  /\ quota' = num[t] - 1 /\ timed' = FALSE
  /\ num' = [num EXCEPT ![t] = 0]
  /\ called' = [called EXCEPT ![t] = {}]
  /\ UNCHANGED <<count, searches, lapped, dasVars, histVars, faults>>

\* fish-web dies: its counter starts again.
WebDies ==
  /\ Fault
  /\ count' = 0
  /\ pc' = [t \in Threads |-> "idle"]
  /\ num' = [t \in Threads |-> 0]
  /\ called' = [t \in Threads |-> {}]
  /\ UNCHANGED <<quotaVars, searches, lapped, dasVars, histVars>>

-----------------------------------------------------------------------------
(* fish-das: crawl8kPic                                                    *)

\* The page is picSearchCount.get(), before or after the other task raised it; the
\* lease is taken and the page fetched.  Without an answer the crawl is over.
Crawl8k(t) ==
  /\ Ask(t, "8k") /\ UNCHANGED <<count, pic, copies, renewer, adder, raced, faults>>
  /\ \/ /\ <<"8k", count>> \in leased
        /\ UNCHANGED <<leased, place, listed, wanted, clean>>
     \/ /\ <<"8k", count>> \notin leased
        /\ leased' = leased \cup {<<"8k", count>>}
        /\ \/ UNCHANGED <<place, listed, wanted, clean>>
           \/ \E c \in Crawls, s \in SUBSET Titles :
                /\ ~Crawling(c)
                /\ place' = [place EXCEPT ![c] = "load"]
                /\ listed' = [listed EXCEPT ![c] = s]
                /\ wanted' = s
                /\ clean' = ~\E d \in Crawls : Crawling(d)

\* find(type 0), whatever their status
Load8k(c) ==
  /\ place[c] = "load"
  /\ copies' = [copies EXCEPT ![c] = {d \in Docs : pic[d] \in {"wall", "retired"}}]
  /\ place' = [place EXCEPT ![c] = "retire"]
  /\ UNCHANGED <<webVars, leased, pic, listed, renewer, adder, histVars, faults>>

\* One thread of the executor: the copy is saved with status 1.
Retire(c, d) ==
  /\ d \in copies[c]
  /\ copies' = [copies EXCEPT ![c] = @ \ {d}]
  /\ pic' = [pic EXCEPT ![d] = "retired"]
  /\ UNCHANGED <<webVars, leased, place, listed, renewer, adder, histVars, faults>>

\* Its save fails, which the executor keeps to itself.
RetireFails(c, d) ==
  /\ d \in copies[c] /\ Fault
  /\ copies' = [copies EXCEPT ![c] = @ \ {d}]
  /\ clean' = FALSE
  /\ UNCHANGED <<webVars, leased, pic, place, listed, renewer, adder, wanted, raced>>

StartRenewers(c) ==
  /\ place[c] = "retire"
  /\ place' = [place EXCEPT ![c] = "idle"]
  /\ listed' = [listed EXCEPT ![c] = {}]
  /\ renewer' = [renewer EXCEPT ![c] =
                   [x \in Titles |-> IF x \in listed[c] THEN "find" ELSE "none"]]
  /\ UNCHANGED <<webVars, pic, copies, adder, histVars, faults>>

\* Faulty variant: nobody waits until all pictures are retired.
RenewAtOnce(c) == StartRenewers(c) /\ UNCHANGED leased

\* The executor is closed, which waits for its threads; then a virtual thread for
\* each picture of the page is started, and the endpoint returns.
Renew(c) == copies[c] = {} /\ StartRenewers(c) /\ UNCHANGED leased

\* Threads that have found no document of the title and will insert one.
Inserting(x) == {c \in Crawls : renewer[c][x] = "insert"}
                  \cup {c \in Crawls : adder[c][x] = "insert"}

Race(x) == raced' = IF Inserting(x) # {} THEN raced \cup {x} ELSE raced

Find(c, x, found) ==
  /\ renewer[c][x] = "find"
  /\ renewer' = [renewer EXCEPT ![c][x] = IF found THEN "save" ELSE "insert"]
  /\ IF found THEN UNCHANGED raced ELSE Race(x)
  /\ UNCHANGED <<webVars, leased, pic, place, listed, copies, adder, wanted, clean, faults>>

\* Faulty variant: only pictures of type 0 are looked for.
Find8kOnly(c, x) == Find(c, x, pic[<<x, 1>>] \in {"wall", "retired"})

\* findOne by title, of either type
FindTitle(c, x) == Find(c, x, pic[<<x, 1>>] # "absent")

\* The document found is saved with status 0; a 4k picture stays one.
SaveFound(c, x) ==
  /\ renewer[c][x] = "save"
  /\ renewer' = [renewer EXCEPT ![c][x] = "none"]
  /\ pic' = [pic EXCEPT ![<<x, 1>>] = IF @ = "4k" THEN "4k" ELSE "wall"]
  /\ UNCHANGED <<webVars, leased, place, listed, copies, adder, histVars, faults>>

\* A new document goes behind the ones there are.
Insert(x, kind) ==
  \E n \in 1 .. MaxDocs :
    /\ pic[<<x, n>>] = "absent" /\ \A k \in 1 .. n - 1 : pic[<<x, k>>] # "absent"
    /\ pic' = [pic EXCEPT ![<<x, n>>] = kind]

\* Downloaded, stored and inserted.
InsertFound(c, x) ==
  /\ renewer[c][x] = "insert"
  /\ Insert(x, "wall")
  /\ renewer' = [renewer EXCEPT ![c][x] = "none"]
  /\ UNCHANGED <<webVars, leased, place, listed, copies, adder, histVars, faults>>

\* A download or a call fails, the thread ends.
RenewerFails(c, x) ==
  /\ renewer[c][x] # "none" /\ Fault
  /\ renewer' = [renewer EXCEPT ![c][x] = "none"]
  /\ clean' = FALSE
  /\ UNCHANGED <<webVars, leased, pic, place, listed, copies, adder, wanted, raced>>

-----------------------------------------------------------------------------
(* fish-das: crawl4kPic                                                    *)

\* Lease, page and the start of a thread per picture; they do nothing before
\* their first look-up.  picSearchCount.getAndIncrement() counts in any case.
Crawl4k(t) ==
  /\ Ask(t, "4k") /\ count < MaxCount /\ count' = count + 1
  /\ \/ /\ <<"4k", count>> \in leased
        /\ UNCHANGED <<leased, adder>>
     \/ /\ <<"4k", count>> \notin leased
        /\ leased' = leased \cup {<<"4k", count>>}
        /\ \E c \in Crawls, s \in SUBSET Titles :
             /\ ~Adding(c)
             /\ adder' = [adder EXCEPT ![c] =
                            [x \in Titles |-> IF x \in s THEN "find" ELSE "none"]]
  /\ UNCHANGED <<pic, place, listed, copies, renewer, histVars, faults>>

FindOrInsert(c, x) ==
  /\ adder[c][x] = "find"
  /\ adder' = [adder EXCEPT ![c][x] = IF pic[<<x, 1>>] = "absent" THEN "insert" ELSE "none"]
  /\ IF pic[<<x, 1>>] = "absent" THEN Race(x) ELSE UNCHANGED raced
  /\ UNCHANGED <<webVars, leased, pic, place, listed, copies, renewer, wanted, clean, faults>>

InsertSmall(c, x) ==
  /\ adder[c][x] = "insert"
  /\ Insert(x, "4k")
  /\ adder' = [adder EXCEPT ![c][x] = "none"]
  /\ UNCHANGED <<webVars, leased, place, listed, copies, renewer, histVars, faults>>

AdderFails(c, x) ==
  /\ adder[c][x] # "none" /\ Fault
  /\ adder' = [adder EXCEPT ![c][x] = "none"]
  /\ UNCHANGED <<webVars, leased, pic, place, listed, copies, renewer, histVars>>

-----------------------------------------------------------------------------
\* Twenty minutes later, whether the work of the page is done or not: the calls have
\* time-outs for connecting and for each read, but none for the whole.
LeaseExpires(kind, p) ==
  /\ <<kind, p>> \in leased
  /\ leased' = leased \ {<<kind, p>>}
  /\ UNCHANGED <<webVars, pic, place, listed, copies, renewer, adder, histVars, faults>>

\* fish-das dies with its crawls and threads; leases and documents stay.
DasDies ==
  /\ \E c \in Crawls : Crawling(c) \/ Adding(c)
  /\ Fault
  /\ place' = [c \in Crawls |-> "idle"]
  /\ listed' = [c \in Crawls |-> {}]
  /\ copies' = [c \in Crawls |-> {}]
  /\ renewer' = [c \in Crawls |-> [x \in Titles |-> "none"]]
  /\ adder' = [c \in Crawls |-> [x \in Titles |-> "none"]]
  /\ clean' = (clean /\ ~\E c \in Crawls : Crawling(c))
  /\ UNCHANGED <<webVars, leased, pic, wanted, raced>>

Search(t) == \/ QuotaGet(t) \/ QuotaSet(t) \/ QuotaExpire(t) \/ QuotaReget(t)
             \/ ResetCount(t) \/ Crawl8k(t) \/ Crawl4k(t) \/ QuotaPut(t)

Crawl(c) ==
  \/ Load8k(c) \/ Renew(c)
  \/ \E d \in Docs : Retire(c, d) \/ RetireFails(c, d)
  \/ \E x \in Titles : \/ FindTitle(c, x) \/ SaveFound(c, x) \/ InsertFound(c, x)
                       \/ RenewerFails(c, x)
                       \/ FindOrInsert(c, x) \/ InsertSmall(c, x) \/ AdderFails(c, x)

Next == \/ \E t \in Threads : Search(t)
        \/ \E c \in Crawls : Crawl(c)
        \/ \E kind \in Kinds, p \in Pages : LeaseExpires(kind, p)
        \/ Midnight \/ WebDies \/ DasDies

Spec == Init /\ [][Next]_vars

-----------------------------------------------------------------------------
(* Properties.                                                             *)

\* Types of the variables; the quota is never negative.
TypeOK ==
  /\ quota \in {NoQuota} \cup 0 .. DailyQuota /\ timed \in BOOLEAN
  /\ count \in Pages
  /\ pc \in [Threads -> {"idle", "set", "expire", "reget", "reset", "crawl"}]
  /\ num \in [Threads -> {NoQuota} \cup 0 .. DailyQuota]
  /\ called \in [Threads -> SUBSET Kinds]
  /\ leased \subseteq Kinds \X Pages
  /\ pic \in [Docs -> Documents]
  /\ place \in [Crawls -> {"idle", "load", "retire"}]
  /\ listed \in [Crawls -> SUBSET Titles] /\ copies \in [Crawls -> SUBSET Docs]
  /\ renewer \in [Crawls -> [Titles -> {"none", "find", "save", "insert"}]]
  /\ adder \in [Crawls -> [Titles -> {"none", "find", "insert"}]]
  /\ searches \in 0 .. MaxSearches /\ lapped \in BOOLEAN /\ clean \in BOOLEAN
  /\ wanted \subseteq Titles /\ raced \subseteq Titles
  /\ faults \in 0 .. MaxFaults

\* After page 30 comes page 0 (fish-web PictureServiceImpl l.77), as long as
\* searches come one at a time: only overlapping ones step over the reset.
PagesInRange == lapped \/ count <= LastPage

OnWall(x) == \E k \in 1 .. MaxDocs : pic[<<x, k>>] = "wall"

\* When its threads are through, the wall is the page crawled last: everything
\* older is retired and every picture of the page is there (fish-das l.47-66),
\* titles known as 4k pictures apart.  Overlapping crawls and failures can spoil it.
WallIsLastCrawl ==
  clean /\ (\A c \in Crawls : ~Crawling(c)) =>
    \A x \in Titles : (\A k \in 1 .. MaxDocs : pic[<<x, k>>] # "4k")
                        => (OnWall(x) <=> x \in wanted)

\* A title is inserted only if there is none (l.62-67, l.104-107): it has two
\* documents only if two threads were between their look-up and their insert.
OneDocPerTitle == \A x \in Titles : pic[<<x, 2>>] # "absent" => x \in raced
=============================================================================

----------------------------- MODULE MovieSearch -----------------------------
(***************************************************************************)
(* Searching and playing movies.  fish-web (MovieServiceImpl) counts down  *)
(* a daily quota in the bucket crawlMv:<user> and calls fish-das, whose    *)
(* endpoints take a lease on a lock named after their argument             *)
(* (DistributedLockAspect) and crawl: a search upserts the movies it found *)
(* as INIT, a click on a movie fetches its episodes and makes it           *)
(* COMPLETED.                                                              *)
(*                                                                         *)
(* A thread is one request with the fish-das request under it.  Movies are *)
(* looked up by title and play_home_url, which no index makes unique: a    *)
(* movie may get two documents, of which an upsert updates the first.      *)
(*                                                                         *)
(* History variables name the interferences nothing in the code rules out: *)
(* a user's searches that overlap, crawls that outlive their lease, and    *)
(* upserts of a movie that race although the lock works.                   *)
(***************************************************************************)
EXTENDS Integers, FiniteSets

CONSTANTS Users, Threads,
          Titles,      \* what users search for
          Movies,      \* what the site lists (title and play_home_url)
          None,        \* nobody, nothing
          DailyQuota,  \* 5
          CallsFail,   \* may calls fail and processes die?
          MaxOverlaps  \* bound: overlapping searches a user begins in a day

Docs == Movies \X {1, 2}   \* documents of a movie, in order of insertion
Keys == Titles \cup Docs   \* what the locks are named after

ASSUME KeysAssumption == Titles \cap Docs = {} /\ None \notin Users
ASSUME QuotaAssumption == DailyQuota \in Nat \ {0}
ASSUME ThreadsAssumption == IsFiniteSet(Threads)
ASSUME BoundsAssumption == CallsFail \in BOOLEAN /\ MaxOverlaps \in Nat

VARIABLES
  quota,   \* quota[u]: the bucket crawlMv:u, NoQuota when there is none
  timed,   \* timed[u]: does the bucket expire at midnight?
  spent,   \* spent[u]: searches of u that succeeded today (history)
  overlaps,\* overlaps[u]: searches of u today that began during another (history)
  leased,  \* keys under a lease in redis
  doc,     \* doc[d]: "absent", "INIT", "COMPLETED" (with its play_orgs) or
           \* "EMPTY" (COMPLETED with none)
  raced,   \* movies whose upserts raced in spite of the lock (history)
  pc, arg, \* threads: place, title or document asked for
  user,    \* the user, None once fish-web has given up waiting for fish-das
  num,     \* crawlNum of the request
  seen,    \* status of the document fish-das has loaded
  todo,    \* upserts still to do, as <<movie, copy in the list>>
  inserting, \* upserts that matched no document
  overrun  \* crawls whose lease ran out, or that began beside one (history)

quotaVars == <<quota, timed, spent, overlaps>>
docVars   == <<doc, raced>>
reqVars   == <<user, arg, num>>
dasVars   == <<seen, todo, inserting, overrun>>
vars == <<quotaVars, leased, docVars, pc, reqVars, dasVars>>

NoQuota == -2   \* null; no number of searches

Init ==
  /\ quota = [u \in Users |-> NoQuota]
  /\ timed = [u \in Users |-> FALSE]
  /\ spent = [u \in Users |-> 0]
  /\ overlaps = [u \in Users |-> 0]
  /\ leased = {}
  /\ doc = [d \in Docs |-> "absent"] /\ raced = {}
  /\ pc = [t \in Threads |-> "idle"]
  /\ user = [t \in Threads |-> None]
  /\ arg = [t \in Threads |-> None]
  /\ num = [t \in Threads |-> 0]
  /\ seen = [t \in Threads |-> "absent"]
  /\ todo = [t \in Threads |-> {}]
  /\ inserting = [t \in Threads |-> {}]
  /\ overrun = {}

At(t, place) == pc[t] = place
Goto(t, place) == pc' = [pc EXCEPT ![t] = place]

\* The user's request comes in.
Begin(t, u, x, place) ==
  /\ At(t, "idle")
  /\ Goto(t, place)
  /\ user' = [user EXCEPT ![t] = u]
  /\ arg' = [arg EXCEPT ![t] = x]

\* The request is over and its locals are gone.
Finish(t) ==
  /\ Goto(t, "idle")
  /\ user' = [user EXCEPT ![t] = None]
  /\ arg' = [arg EXCEPT ![t] = None]
  /\ num' = [num EXCEPT ![t] = 0]
  /\ seen' = [seen EXCEPT ![t] = "absent"]
  /\ todo' = [todo EXCEPT ![t] = {}]
  /\ inserting' = [inserting EXCEPT ![t] = {}]
  /\ overrun' = overrun \ {t}

-----------------------------------------------------------------------------
(* fish-web: searchTvMovieByTitle                                          *)

\* Faulty variant: an empty quota is not refused.
AllowedAlways(n) == "call"

\* Where a request goes with the number it has read.
Allowed(n) == IF n = 0 THEN "noQuota" ELSE "call"

\* The searches of u that fish-web has under way.
Searches(u) == {t \in Threads : user[t] = u /\ arg[t] \in Titles}

\* crawlNum = bucket.get()
QuotaGet(t, u, x) ==
  /\ Begin(t, u, x, IF quota[u] = NoQuota THEN "set" ELSE Allowed(quota[u]))
  /\ num' = [num EXCEPT ![t] = quota[u]]
  /\ \/ Searches(u) = {} /\ UNCHANGED overlaps
     \/ /\ Searches(u) # {} /\ overlaps[u] < MaxOverlaps
        /\ overlaps' = [overlaps EXCEPT ![u] = @ + 1]
  /\ UNCHANGED <<quota, timed, spent, leased, docVars, dasVars>>

\* bucket.set(5); a set drops the time to live of the bucket.
QuotaSet(t) ==
  /\ At(t, "set") /\ Goto(t, "expire")
  /\ quota' = [quota EXCEPT ![user[t]] = DailyQuota]
  /\ timed' = [timed EXCEPT ![user[t]] = FALSE]
  /\ UNCHANGED <<spent, overlaps, leased, docVars, reqVars, dasVars>>

\* expire until midnight
QuotaExpire(t) ==
  /\ At(t, "expire") /\ Goto(t, "reget")
  /\ timed' = [timed EXCEPT ![user[t]] = quota[user[t]] # NoQuota]
  /\ UNCHANGED <<quota, spent, overlaps, leased, docVars, reqVars, dasVars>>

\* crawlNum = bucket.get() again; a bucket that expired already is a
\* NullPointerException at crawlNum == 0.
QuotaReget(t) ==
  /\ At(t, "reget")
  /\ \/ /\ quota[user[t]] = NoQuota
        /\ Finish(t)
     \/ /\ quota[user[t]] # NoQuota
        /\ num' = [num EXCEPT ![t] = quota[user[t]]]
        /\ Goto(t, Allowed(quota[user[t]]))
        /\ UNCHANGED <<user, arg, dasVars>>
  /\ UNCHANGED <<quotaVars, leased, docVars>>

\* "今日搜索次数(5次)已用完"
QuotaRefuse(t) ==
  /\ At(t, "noQuota") /\ Finish(t)
  /\ UNCHANGED <<quotaVars, leased, docVars>>

\* Faulty variant: crawlNum-- for --crawlNum.
QuotaTakeNone(t) ==
  /\ At(t, "answered") /\ Finish(t)
  /\ quota' = [quota EXCEPT ![user[t]] = num[t]]
  /\ timed' = [timed EXCEPT ![user[t]] = FALSE]
  /\ spent' = [spent EXCEPT ![user[t]] = @ + 1]
  /\ UNCHANGED <<overlaps, leased, docVars>>

\* bucket.set(--crawlNum): of the number read before the call, and untimed.
QuotaTake(t) ==
  /\ At(t, "answered") /\ Finish(t)
  /\ quota' = [quota EXCEPT ![user[t]] = num[t] - 1]
  /\ timed' = [timed EXCEPT ![user[t]] = FALSE]
  /\ spent' = [spent EXCEPT ![user[t]] = @ + 1]
  /\ UNCHANGED <<overlaps, leased, docVars>>

\* A day ends: timed buckets go.  Of a user's searches under way one is not an
\* overlap of the new day.
Midnight ==
  /\ quota' = [u \in Users |-> IF timed[u] THEN NoQuota ELSE quota[u]]
  /\ timed' = [u \in Users |-> FALSE]
  /\ spent' = [u \in Users |-> 0]
  /\ overlaps' = [u \in Users |-> IF Searches(u) = {} THEN 0
                                  ELSE Cardinality(Searches(u)) - 1]
  /\ UNCHANGED <<leased, docVars, pc, reqVars, dasVars>>

-----------------------------------------------------------------------------
(* fish-das: the lock aspect and crawlMoviesByName                         *)

\* Where the crawl of a key begins.
Entry(x) == IF x \in Titles THEN "crawl" ELSE "load"

DasPlaces == {"crawl", "save", "load", "saveEpisodes"}
Crawling(x) == {t \in Threads : arg[t] = x /\ pc[t] \in DasPlaces}

\* Faulty variant: tryLock's answer is not looked at.
TryLockAnyway(t) ==
  /\ At(t, "call")
  /\ leased' = leased \cup {arg[t]}
  /\ Goto(t, Entry(arg[t]))
  /\ UNCHANGED <<quotaVars, docVars, reqVars, dasVars>>

\* tryLock(0, leaseTime): refused at once, "请求重复, 请1小时后再试".
TryLock(t) ==
  /\ At(t, "call")
  /\ \/ /\ arg[t] \notin leased
        /\ leased' = leased \cup {arg[t]}
        /\ Goto(t, Entry(arg[t]))
        /\ overrun' = IF Crawling(arg[t]) = {} THEN overrun ELSE overrun \cup {t}
        /\ UNCHANGED <<reqVars, seen, todo, inserting>>
     \/ /\ arg[t] \in leased
        /\ Finish(t)
        /\ UNCHANGED leased
  /\ UNCHANGED <<quotaVars, docVars>>

\* With a lease the aspect never unlocks, neither on success nor on failure, and
\* nothing keeps a crawl from taking longer than the lease.
LeaseExpires(x) ==
  /\ x \in leased
  /\ leased' = leased \ {x}
  /\ overrun' = overrun \cup Crawling(x)
  /\ UNCHANGED <<quotaVars, docVars, pc, reqVars, seen, todo, inserting>>

\* The result pages are parsed: what is on page 1 is listed twice when there is
\* more than one page, for page 1 is parsed again with the others.  A movie whose
\* upsert throws is as one that is not listed.
SearchParsed(t) ==
  /\ At(t, "crawl") /\ Goto(t, "save")
  /\ \E once, twice \in SUBSET Movies :
       todo' = [todo EXCEPT ![t] = (once \X {1}) \cup (twice \X {1, 2})]
  /\ UNCHANGED <<quotaVars, leased, docVars, reqVars, seen, inserting, overrun>>

\* t is about to insert m while another insert of m is under way that the lock
\* does not keep off: of t's own list, of another title, or past its lease.
Races(t, m) ==
  \E v \in Threads : \E x \in inserting[v] :
    x[1] = m /\ (v = t \/ arg[v] # arg[t] \/ t \in overrun)

\* saveMv in a virtual thread of its own: match and update, to INIT and no
\* episodes ...
UpsertMatch(t, x) ==
  /\ At(t, "save") /\ x \in todo[t]
  /\ todo' = [todo EXCEPT ![t] = @ \ {x}]
  /\ \/ /\ doc[<<x[1], 1>>] # "absent"
        /\ doc' = [doc EXCEPT ![<<x[1], 1>>] = "INIT"]
        /\ UNCHANGED <<inserting, raced>>
     \/ /\ doc[<<x[1], 1>>] = "absent"
        /\ inserting' = [inserting EXCEPT ![t] = @ \cup {x}]
        /\ raced' = IF Races(t, x[1]) THEN raced \cup {x[1]} ELSE raced
        /\ UNCHANGED doc
  /\ UNCHANGED <<quotaVars, leased, pc, reqVars, seen, overrun>>

\* ... or insert what matched nothing.  Bound: two documents of a movie.
UpsertInsert(t, x) ==
  /\ At(t, "save") /\ x \in inserting[t]
  /\ inserting' = [inserting EXCEPT ![t] = @ \ {x}]
  /\ LET d == <<x[1], IF doc[<<x[1], 1>>] = "absent" THEN 1 ELSE 2>>
     IN  doc' = [doc EXCEPT ![d] = "INIT"]
  /\ UNCHANGED <<quotaVars, leased, raced, pc, reqVars, seen, todo, overrun>>

\* The executor is closed: all upserts are through.
SearchDone(t) ==
  /\ At(t, "save") /\ todo[t] = {} /\ inserting[t] = {}
  /\ IF user[t] = None THEN Finish(t)
     ELSE Goto(t, "answered") /\ overrun' = overrun \ {t}
          /\ UNCHANGED <<reqVars, seen, todo, inserting>>
  /\ UNCHANGED <<quotaVars, leased, docVars>>

-----------------------------------------------------------------------------
(* findTvMovieById of fish-web and crawlEpisodesByMovieId of fish-das      *)

\* A movie that is COMPLETED is answered at once; any other is crawled.
Click(t, u, d) ==
  /\ doc[d] = "INIT"
  /\ Begin(t, u, d, "call")
  /\ UNCHANGED <<quotaVars, leased, docVars, num, dasVars>>

Load(t) ==
  /\ At(t, "load") /\ Goto(t, "saveEpisodes")
  /\ seen' = [seen EXCEPT ![t] = doc[arg[t]]]
  /\ UNCHANGED <<quotaVars, leased, docVars, reqVars, todo, inserting, overrun>>

\* Faulty variant: the status is reset before the play_orgs are looked at.
SaveReset(t) ==
  /\ At(t, "saveEpisodes") /\ Finish(t)
  /\ \E now \in {"COMPLETED", "INIT"} : doc' = [doc EXCEPT ![<<arg[t][1], 1>>] = now]
  /\ UNCHANGED <<quotaVars, leased, raced>>

\* A page that lists nothing to play leaves the status as it was loaded.
Nothing(loaded) == IF loaded = "INIT" THEN "INIT" ELSE "EMPTY"

\* The pages are fetched and the document is saved by title and play_home_url: to
\* the first document of the movie, whichever was asked for.  fish-web reads the one
\* that was, and answers.
SaveEpisodes(t) ==
  /\ At(t, "saveEpisodes") /\ Finish(t)
  /\ \E now \in {"COMPLETED", Nothing(seen[t])} :
       doc' = [doc EXCEPT ![<<arg[t][1], 1>>] = now]
  /\ UNCHANGED <<quotaVars, leased, raced>>

-----------------------------------------------------------------------------
\* A call or the parsing throws, or a process dies: the request is over.
Fails(t) ==
  /\ CallsFail /\ pc[t] \notin {"idle", "noQuota"}
  /\ Finish(t)
  /\ UNCHANGED <<quotaVars, leased, docVars>>

\* Feign gives up waiting, and fish-web's request is over; fish-das does not notice.
FeignTimesOut(t) ==
  /\ pc[t] \in DasPlaces /\ user[t] # None
  /\ user' = [user EXCEPT ![t] = None]
  /\ num' = [num EXCEPT ![t] = 0]
  /\ UNCHANGED <<quotaVars, leased, docVars, pc, arg, dasVars>>

Request(t, u) == (\E x \in Titles : QuotaGet(t, u, x)) \/ (\E d \in Docs : Click(t, u, d))

Upsert(t) == \E x \in Docs : UpsertMatch(t, x) \/ UpsertInsert(t, x)

Work(t) == \/ QuotaSet(t) \/ QuotaExpire(t) \/ QuotaReget(t) \/ QuotaRefuse(t)
           \/ QuotaTake(t)
           \/ TryLock(t) \/ SearchParsed(t) \/ Upsert(t) \/ SearchDone(t)
           \/ Load(t) \/ SaveEpisodes(t)

Next == \/ \E t \in Threads : \/ \E u \in Users : Request(t, u)
                              \/ Work(t) \/ Fails(t) \/ FeignTimesOut(t)
        \/ \E x \in Keys : LeaseExpires(x)
        \/ Midnight

Spec == Init /\ [][Next]_vars

-----------------------------------------------------------------------------
(* Properties.                                                             *)

Places == {"idle", "set", "expire", "reget", "noQuota", "call", "answered"}
            \cup DasPlaces

\* Types of the variables; a quota is never negative.
TypeOK ==
  /\ quota \in [Users -> {NoQuota} \cup 0 .. DailyQuota]
  /\ timed \in [Users -> BOOLEAN]
  /\ spent \in [Users -> Nat] /\ overlaps \in [Users -> Nat]
  /\ leased \subseteq Keys /\ overrun \subseteq Threads
  /\ doc \in [Docs -> {"absent", "INIT", "COMPLETED", "EMPTY"}] /\ raced \subseteq Movies
  /\ pc \in [Threads -> Places]
  /\ user \in [Threads -> Users \cup {None}]
  /\ arg \in [Threads -> Keys \cup {None}]
  /\ num \in [Threads -> {NoQuota} \cup 0 .. DailyQuota]
  /\ seen \in [Threads -> {"absent", "INIT", "COMPLETED", "EMPTY"}]
  /\ todo \in [Threads -> SUBSET Docs] /\ inserting \in [Threads -> SUBSET Docs]
  /\ \A u \in Users : quota[u] = NoQuota => ~timed[u]

\* A day's searches that succeed are never more than the quota and the searches that
\* began during another of the same user: each lost update of the bucket costs an
\* overlap of its own, whatever expires, fails, is given up or runs over midnight
\* (MovieServiceImpl l.107-127).
SpentWithinQuota == \A u \in Users : spent[u] <= DailyQuota + overlaps[u]

\* Who is told that today's searches are used up has used them up today
\* ("今日搜索次数(5次)已用完", MovieServiceImpl l.116).
RefusedHasSpent ==
  [][\A t \in Threads : pc'[t] = "noQuota" /\ pc[t] # "noQuota"
       => spent[user'[t]] = DailyQuota]_vars

\* The lease keeps searches of one title to one document of a movie: a second one
\* comes only of a list that held the movie twice, of searches of two titles, or of
\* a crawl that outlived its lease, and of inserts that overlapped.
OneDocPerMovie == \A m \in Movies : doc[<<m, 2>>] # "absent" => m \in raced

\* A movie that can be played loses its episodes to a search, or to a crawl that saw
\* it so and found its page empty.  A crawl that found nothing never writes an older
\* state back over a newer one, unless the movie has two documents, with a lease
\* each, or the crawl's lease ran out.
OnlySearchesWipe ==
  [][\A d \in Docs : doc[d] = "COMPLETED" /\ doc'[d] # "COMPLETED"
       => \E t \in Threads :
            \/ At(t, "save") /\ \E x \in todo[t] : x[1] = d[1] /\ x \notin todo'[t]
            \/ /\ At(t, "saveEpisodes") /\ arg[t][1] = d[1]
               /\ \/ seen[t] # "INIT" /\ doc'[d] = "EMPTY"
                  \/ doc[<<d[1], 2>>] # "absent"
                  \/ t \in overrun]_vars
=============================================================================

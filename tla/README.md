# fishsoup: TLA+ models, checks and proofs

fishsoup is a site for articles, films, pictures, news and chat, built as Java
services (Spring Cloud) around shared stores: `fish-web` (articles, searches,
menus, memos), `fish-fms` (refreshes caches on messages), `fish-das` (crawlers),
`fish-user` (accounts), `fish-ums` (administration), `fish-chat` (WebSocket chat
on netty), `fish-gateway` (authentication) and `fish-common`. They share Mongo
(articles, films, pictures, news), MySQL (users, menus, footsteps), redis
(caches, locks, sessions, counters, mailboxes) and RabbitMQ.

Little of the code is hard line by line. The hard part is that nearly every
operation is a chain of separate calls to those stores, with other threads,
services, crashes and expirations between the calls. So one remote call is one
step in every module here, and the properties say what survives the
interleavings.

## Inventory

| part | state it keeps | operations | what is hard | what makes it correct |
|---|---|---|---|---|
| Article cache: `fish-web` `CreationServiceImpl.getCreationById/saveCreation`, `fish-fms` `RMQListener`, `RedisCacheServiceImpl` | Mongo document, redis `creation::<id>`, redisson lock per id, queue `cache.creation`, `error.cache` | read through `@Cacheable`, save and notify, refresh, read back and compare, retry, park | fill after the lock is gone; notifications out of order, lost, redelivered; two services with different null rules under one key | one query per article at a time; the listener never leaves an old value without a newer notification; nothing blank for an article that exists |
| Chat: `NettyServerHandler`, `WebSocketFrameHandler` | in memory `channelMap`; in redis `fish:chat:<user>` (connections), `fish:userIp:<address>`, `fish:chatContent:<user>` (mailbox) | token login with mailbox replay, message, OFFLINE frame, `channelInactive` | get and set of counters and mailboxes on ten event loops, unsynchronised `HashSet`s, disconnects the loop has not heard of, memory and redis disagree after a crash | counters tell who is online; a stored message stays until it is replayed, once; what goes wrong has one of a few named causes |
| Accounts: `fish-user` `UserServiceImpl`, gateway `JwtAuthenticationFilter`, `fish-ums` `lockAccount/unlockAccount` | `f_user` rows, redis session `fish:user:<name>`, Seata row locks and undo log | register, login, admit and renew, logout, lock (global transaction), unlock (batch in virtual threads) | MySQL is rolled back, redis is not; read-then-write everywhere; a batch answers success though its tasks threw; no unique key | a locked user is out; status is what the last answered lock or unlock said; sessions expire |
| Film search: `fish-web` and `fish-das` `MovieServiceImpl`, `DistributedLockAspect` | redis quota `crawlMv:<user>`, leases per endpoint and argument, Mongo films | search (quota, crawl, upserts), click (load, crawl episodes, save), time-outs | quota read before and written after a crawl of minutes; Feign gives up while the crawl goes on; upserts without a unique index; a loaded document saved much later | a day's searches stay within the quota and the overlaps; one document per film unless inserts race; episodes are not lost to a stale save |
| Article lists (`listCreations`, `deleteCreationsCache`) | redis `creations::*` | cached page queries; scan and delete | a fill may land behind the scan | no list older than the last save survives the deletion |
| Footsteps (`FootstepAspect`, `FootstepServiceImpl`) | `f_footstep`, unique per day, user, type, work | delayed exists/update/insert; position saved by the player | the two race; a position saved before the row exists updates nothing | one row per day and work, holding the last position |
| Menus and the pages that manage them (`menuList.html`, `tools.js`, `fish-user` `MenuServiceImpl`) | `f_menu`; on a page the table, its search text, an open layer | list and search, add, update, (in)validate in virtual threads | answers overtake each other; count then insert without a key; threads nobody waits for against a row written back whole | the table shows what was searched last; a status asked for happens and stays; names doubled only by overlap |
| Personal menus (`fish-web` `MenuServiceImpl`) | `f_menu_setting` | settings saved in parallel | failures in tasks swallowed | answered saves are stored |
| Pictures (`fish-web` and `fish-das` `PictureServiceImpl`) | quota, `picSearchCount`, Mongo pictures, GridFS | search; crawl 8k (retire all, renew or insert), crawl 4k | threads outlive the request; pages overlap; the page counter is reset only at exactly 30 | page numbers in range; the wall shows the last page crawled; no title twice |
| News (`QqNews`, `ChinaNews`, `WeiboNews`, `removeNews`) | Mongo news | scheduled or requested crawl under a watchdog lock | the lock is released before the threads are through | one document per title and site |
| Nunu crawler | films of its own, `MvResource` | search, m3u8 look-up with a stored answer | as film search | one resource per id |
| Memos, images, chat user list, management pages, HTTP client, registration, helpers | one document or row per call | single calls | little, apart from a double read in `listChatUsers` | see PROJECT.json |

How they interact: `fish-web` calls `fish-das` by Feign (films, pictures) and
sends to `fish-fms` by RabbitMQ; `fish-ums` calls `fish-user` by Feign, the lock
of an account inside Seata; its pages wait for lists that arrive in any order; the gateway reads and renews the sessions `fish-user` writes; `fish-user`
reads the counters `fish-chat` writes; `FootstepAspect` wraps the reads of
articles and films. Everything else is shared state in the stores.

`PROJECT.json` lists each part with its status, and the hazards at their lines.

## Modules

| module | stands for |
|---|---|
| `CreationCache` | the article cache: readers, savers, executor, queue, listener |
| `CacheContract` | what the cache promises, in seven small actions; `CreationCache` implements it |
| `CreationCacheProofs`, `CacheContractProofs` | theorems about the two, with proofs |
| `Chat` | the chat server |
| `Accounts` | accounts, sessions, the gateway filter, lock and unlock |
| `MovieSearch` | film search, episodes, quota and the lock aspect |
| `ArticleLists` | pages of article lists, their cache, and the scan that empties it |
| `Pictures` | picture search of `fish-web`, the two crawls of `fish-das`, their threads |
| `MenuAdmin` | menus in `fish-user` and the management page in front of them |
| `ArticleListsProofs`, `PicturesProofs`, `AccountsProofs`, `MenuAdminProofs`, `MovieSearchProofs`, `ChatProofs` | theorems about them, with proofs |
| `MC...`, one for each component | definitions for TLC: symmetry, requests, and for `Chat` who owns which connection and loop |

In each component module a thread (or channel, or the listener) has a place `pc`,
an action is one call of its handler to a store, and locals that live across
calls are variables. Each module also holds operators commented *Faulty
variant*: plausible mistakes which no action refers to, kept beside the action
they corrupt so that every property can be shown to notice one.

Much of this code does not exclude what breaks it: two loops may read one counter,
two searches one quota. The models do not exclude it either. Where a property fails
of such an overlap, a history variable records that it happened, and to whom
(`tangled`, `cut`, `unseen`, `unwiped`, `late`, `missed`; `tainted`, `doubtful`,
`mixed`; `overlaps`, `raced`, `overrun`; `lapped`, `clean`; `twins`, `crossed`); the
property then says that nothing else leads there. No history variable is read by a
guard, but for the bounds.

### CreationCache

`db[i]` is the version of document *i* in Mongo (0: absent). `entry[i]` is the
redis value: a version, `NullDoc` (the null marker of `fish-web`), `EmptyDoc`
(the blank Creation of `fish-fms`) or `NoEntry`.

| code | actions |
|---|---|
| `getCreationById` with `@Cacheable` | `Lookup`, `TryLock`, `FindOne` or `FindOneFails`, `Unlock`, `Fill`; refused: `Refuse`, `AnswerRefused`; `ReaderDies`, then `LeaseExpires` |
| `saveCreation` | `WriteDoc`, `Submit` (to the executor), `Publish` or `PublishFails`; `SaverDies` |
| `RMQListener` | `Deliver`, `PutRead`, `PutStore` (`putCreationCache`), `GetCache`, `GetFill` (`getCreationCache`), `Compare`, `CallFails` |
| retry, recoverer, broker | `Retry`, `Park`, `Ack`, `FmsDies` (redelivery at the head) |
| time to live of 2 h | `Expire` |

The executor holds `unsent[i]` sends and may run them in any order. History
variables: `by` (who installed an entry), `lost` (which version's notification
was lost), `interference` (was this attempt touched).

### Chat

A channel belongs to one of the ten worker loops (`LoopOf`, any function of the
channels), and a loop runs one handler at a time; handlers on different loops
interleave at every redis call and every access to `channelMap`. `Contended` marks
the moments in which an unsynchronised `HashSet` is changed while another loop uses
it: there an update may be lost or the iteration may throw, and both are choices.

| code | actions |
|---|---|
| token frame, `channelRead` | `Token`, `GetCount`, `SetCount`, `SetIp`, `Lookup`, `PutSet` or `AddToSet`, `Greet`, `GetMail`, `ReplayMail`, `WipeMail` |
| OFFLINE frame | `Offline`, `LeaveGet`, `LeaveSet`, `LeaveMap`; also from an address that is not registered, and again |
| message | `Send` (with the echo to the sender's channels), `Route`, `WriteTo` or `GetStore`, `StoreMail`; `RefuseFrame` |
| end of a connection | `Disconnect` (the peer is gone, `channelMap` does not know), then `Inactive`, `Unregister`, `DropMap`, `LeaveGet`, `LeaveSet` |
| redis, process | `RedisFails` at any call, `Crash` (memory is emptied, redis stays) |

A message written to a channel whose peer has left is lost in the code and in the
model (`missed`, as long as `channelInactive` is still to drop the channel). The JWT
check of a token frame is not modelled beyond the user it yields. An address is used
once: a port that returns while its old key is still in redis is left out.

### Accounts

The row of a user is what the code branches on: the number of rows with the name,
account status, online status. `lockAccount` is a global transaction of two
branches (`saveUser`, `logout`), with `holder` the Seata row lock and `prior` the
undo log; `Rollback` restores the row, refuses if somebody wrote the row in the
meantime (`Stuck`), and leaves redis alone. Seata's part is external: it is
modelled from how `fish-ums` uses it.

An unlock is `UnlockBegin`, `UnlockTask` (the virtual thread of `batchSaveUser`, which
writes NORMAL or throws) and `UnlockAnswer`, which reports success in either case, as
`batchSaveUser` waits for its threads and does not ask how they ended. `promised` is
what `Commit` or `UnlockAnswer` reported, not what the row says. `tainted[t]` records
that a lock and an unlock overlapped or that a task threw, `doubtful[u]` that the last
answer about *u* came of such a one, or that an unlock died after its task and before its
answer.

An unlock of several users is one request per user here: their tasks share nothing.
Refused requests change nothing and are no steps. Left out: a Feign callee that
outlives its caller's time-out, changing passwords and profile fields (nothing else
reads them), and the RSA key pairs of the login page. The session's time to live is
modelled as present or not, not by its length (the comment at `UserServiceImpl`
line 79 says 2 hours, the constant is 24).

### MovieSearch

`quota[u]` and `timed[u]` are the bucket and whether it expires at `Midnight`. A
lease, as the aspect takes it for these endpoints, is never released by its
holder: `leased` shrinks by `LeaseExpires` only, at any time, whatever crawls below it.
Parsing pages is a choice of what was found, once or twice: in a search of several
pages `toParseSearchResultHtml` parses page 1 a second time with the others
(`SearchParsed`). A film has at most two documents (a third would add nothing).
When Feign gives up, `user` of the request becomes `None` and the crawl goes on.

| code | actions |
|---|---|
| `searchTvMovieByTitle` | `QuotaGet`, `QuotaSet`, `QuotaExpire`, `QuotaReget` or `QuotaRefuse`, `QuotaTake` |
| `DistributedLockAspect` | `TryLock`, `LeaseExpires` |
| `crawlMoviesByName` | `SearchParsed`; `UpsertMatch`, `UpsertInsert` per thread; `SearchDone` |
| `findTvMovieById`, `crawlEpisodesByMovieId` | `Click`, `Load`, `SaveEpisodes` |
| failures, time | `Fails`, `FeignTimesOut`, `Midnight` |

`SaveEpisodes` saves as `saveMv` does, by title and address: to the first document of
the film, whichever was loaded. A page that lists nothing to play leaves the status as
it was loaded (`topParsePlayUrl` returns before it sets COMPLETED): INIT stays INIT,
and a film that was COMPLETED is saved so without episodes (`EMPTY`).

History: `overlaps[u]` counts the searches of a user that began during another one,
`raced` the films two inserts of which ran at once although the lease works (one list,
two titles, a crawl past its lease), `overrun` the crawls past their lease.

### ArticleLists

`list[q]` is the version of what Mongo answers to request *q* (class, page,
size); a save raises it for the class the article leaves, the class it joins and
the requests for all classes. `entry[k]` is the copy under a redis key.

| code | actions |
|---|---|
| `listCreations` with `@Cacheable` | `Lookup`, `TryLock` or `Refuse`, `Query` or `QueryFails`, `Unlock`, `Fill`; `ListerDies`, then `LeaseExpires` |
| `saveCreation`, `deleteCreationsCache` | `Save`; `Scan` (one key of the scan, in any order), `Delete` (one key); `DeletionBreaksOff` |
| time to live of 2 h | `Expire` |

The key writes page and size one behind the other, so page 1 of 15 articles and
page 11 of 5 are both `115` and answer for each other; `Key` does the same, and
the run uses that pair. History: whether a copy was old when it was stored
(third field of an entry) and what the lists were when a deletion broke off (`cut`).

### Pictures

`quota` and `timed` as in `MovieSearch`. `count` is `picSearchCount`, which both
crawl tasks of a search read. The lease of a page is taken by `DistributedLockAspect`
and runs out by time only (`LeaseExpires`), whether the work below it is done or not:
`OkHttpConfig` bounds connecting and each read, not a call, so crawls of one page
overlap as those of two pages do.

| code | actions |
|---|---|
| `searchPics` | `QuotaGet`, `QuotaSet`, `QuotaExpire`, `QuotaReget`, `ResetCount`, `Crawl8k`, `Crawl4k` (two tasks), `QuotaPut`; `WebDies` |
| `crawl8kPic` | `Crawl8k` (lease, page fetched), `Load8k`, `Retire` or `RetireFails` per picture, `Renew` (starts the threads) |
| thread of a picture | `FindTitle`, then `SaveFound` or `InsertFound`; `RenewerFails` |
| `crawl4kPic` | `Crawl4k`, `FindOrInsert`, `InsertSmall`, `AdderFails` |
| process, redis | `DasDies`, `LeaseExpires`, `Midnight` |

`Crawl8k` and `Crawl4k` take the read of the counter, the Feign call, the lease
and the fetch in one step: until the first query of Mongo none of them touches
anything another thread reads, except the counter, whose value they take with
them. Feign's time-out ends the wait and nothing else, so a task is over as soon
as it asked. A picture is what decides whether it is on the wall: type and status.

### MenuAdmin

A page has a table (`shown`), the text it was asked for last (`searched`) and list
requests under way (`asks`), whose answers arrive in any order. A layer (`dialog`)
covers the page while it is open. `from[t]` is the page a request of a confirmation
will read its table again for, which it does even if the layer was closed by hand, or
has been answered already (`menuList.html` l.127-136, 155-164); `open[t]` says whether
its layer is still there to be closed. `tasks[i][s]` counts virtual threads that will
set the status of row *i*.

| code | actions |
|---|---|
| `$initTable`, `$reload` of `tools.js` | `InitTable`, `Search`, `Reload` in `CloseLayer` and `Answer`; `ListArrives`, `ListFails` |
| layers of `menuList.html` | `AddMenu`, `UpdateMenu`, `InvalidateOrActivate`, `CloseLayer`; `SaveNew`, `SaveChanged`, `Confirm` send, `Answer` receives |
| `addMenu` | `AddCount`, `AddInsert` |
| `updateMenu` | `UpdateRead`, `UpdateWrite` |
| `invalidateMenus`, `activeMenus` | `Spawn`, then `RunTask` or `TaskDies` per row |
| any request | `RequestFails` |

The status switch of `menuUpdate.html` (line 36) is a checkbox: on, it sends
`NORMAL`; off, it is not sent, and `updateMenu` keeps the status it read. So the
form can activate a menu but never invalidate one; only the button does that.
`userList.html` is the same page in front of `Accounts`.

## Runs

| run | instance | shows |
|---|---|---|
| `CreationCache_races` | 1 article, 2 readers, 2 savers, 3 versions, 2 notifications under way, 3 attempts, 1 fault; 436 000 states | one query per article; no blank copies; the listener keeps up; no false alarm; every entry is a copy of Mongo (`CacheContract`) |
| `CreationCache_settles` | 1 article and 1 unknown id, fair; 348 000 states | notifications end, the cache becomes fresh, locks come free, unknown ids are parked |
| `Chat_loops` | 1 user, 2 connections on 2 loops, OFFLINE frames at any time, 1 failed call, 1 crash, fair; 623 000 states | the counter follows the registered addresses and reaches 0, but for the named accidents |
| `Chat_races` | 2 users, 3 connections on 3 loops, 2 messages, 1 failed call, 1 crash; 875 000 states | stored messages stay, are replayed once and in order, and wait for nobody who is online, but for the named accidents |
| `Chat_leak` | one loop, OFFLINE frames | finding: a dead channel swallows messages |
| `Chat_wipe` | a sender and a recipient on two loops, no failures | finding: a login deletes a message unread |
| `Accounts_races` | 1 user, 3 requests at once, 2 faults; 494 000 states | lock keeps out, sessions expire, status as reported, online shown |
| `MovieSearch_races` | 1 user, 2 requests at once, 2 titles, 1 film listed once or twice, quota 2, 1 overlap a day; 1 443 000 states | quota and overlaps, one document unless inserts race, no stale save |
| `MovieSearch_refused` | 1 user, 1 request at a time | finding: the quota never comes back |
| `ArticleLists_races` | 2 readers, 2 savers, 2 requests with one key, 3 saves, 2 faults, fair; 273 000 states | a list older than the last save was late or is left over from a broken deletion; lists become fresh for good |
| `Pictures_wall` | 2 searches, 1 picture on any page, pages 0 and 1, quota 2, leases that end at any time, 1 fault; 1 044 000 states | pages in range, the wall is the page crawled last, titles doubled only by races |
| `MenuAdmin_pages` | 2 administrators, 2 names, 2 rows, 2 list requests under way, 4 clicks, 1 fault, fair; 647 000 states | status as asked and in the end applied, names doubled only together, the table shows what was searched last |

Why the bounds are enough. Articles, users, titles and films do not share state
with one another (locks, keys and rows are per id), so one of each shows the
races, and two users appear where they meet (a sender and a recipient). Two readers and
two savers give every pairwise overlap, with the listener as a third party; a
third version lets a save fall between two others. Three requests on one account
are what it takes to have a lock, a login and a logout overlap; two faults let a
rollback be hit as well. A quota of two distinguishes the first search, the one
that spends the last, and the one refused; the code's 5 adds nothing. Two requests
of `MovieSearch_races` may be two searches of the user at once, a search and a click, or
a crawl nobody waits for and its retry; two titles find the one film, so inserts race in
every way `raced` names.

In `Chat_loops` two connections on two loops are what it takes for two handlers of one
user to have the counter in hand; `MaxCount` 3 leaves room for what an accident adds.
In `Chat_races` the sender writes from two connections, so two senders meet in one
mailbox, while the recipient sends its token again and again, leaves at any step, or is
cut off by the crash; counters are not its question, so `MaxCount` is 1. Two logins of one
recipient at once are not in that run; the theorems cover them.

In `ArticleLists` readers of one request meet on its lock, and two requests meet
only under a shared key, so two requests with one key cover all lists; three
saves by two savers let a save fall behind another saver's scan. In `Pictures`
documents of different titles never meet; two searches give two crawls of each
kind, and page 2 is the one beyond the reset, which only an overlap reaches. In
`MenuAdmin` four clicks are two full uses of the page (open a layer, send it) by
two administrators or by one, and two requests under way are what an answer needs
to overtake another.

Deadlock is checked in the runs of the article cache, the article lists and the film
search. In
`Chat` every connection may be closed for good, in `Accounts` two rows with one
name refuse every request, in `Pictures` and `MenuAdmin` searches and clicks are
bounded, so those runs switch it off.

## Fairness

Only what the runtime provides is assumed. `CreationCache`: weak fairness of
each reader's and saver's next call (a request thread runs on), of the executor's
sends, of the listener (container thread and broker), of redis's clock (leases and
time to live). Nobody has to ask, save or fail. `Chat`: weak fairness of a loop in
the middle of a handler, and of nothing else: that a connection ends is where the
property begins. `ArticleLists`: weak fairness of request threads and of redis's clock.
`MenuAdmin`: weak fairness of a virtual thread that was started; nobody has to
click. Faults are bounded, so that recovery is judged after the last one.

`OfflineInTheEnd` excepts crashes and broken handlers: after one, nobody takes down the
counters of connections that died with it. `EventuallyFresh` (of both caches) rests on `Expire`: a
late fill, a lost notification or a deletion that broke off is repaired by the
time to live and nothing else.

## Proofs

All of them hold for any values of the constants that meet the assumptions named
in the modules.

Article cache, under `ActorsAssumption` (the names for free lock, dead owner and
listener are not readers; known and unknown ids are disjoint) and
`BoundsAssumption` (bounds are naturals, at least one attempt):

* `TypeCorrect`: `TypeOK` is inductive by itself; one lemma per actor.
* `LockExclusion`: `OneQueryPerArticle` is not inductive, as it says nothing of the
  lock. `OwnersHold` (a reader in *query* or *release* owns the lock of its article)
  is, and implies it: a lease expires only after its owner died, and `unlock` of a
  refused reader throws without releasing.
* `KeepsUp`: strengthened by `FreshInHand`: what the listener holds is current,
  or a newer notification is pending, or its loss is on record. The lemmas follow
  a notification from saver to executor to queue to listener (`OnTheWayKept`) and
  a recorded loss (`LostKept`).
* `NoFalseAlarm`: `Undisturbed` says what an attempt nobody touched has in hand at
  each place.
* `NoBlankArticle`: `BlankInv` adds that an article that is absent has not been
  announced (`Untouched`) and that a blank copy in anybody's hand is of an absent
  one (`BlanksInHand`).
* `UnknownParked`: `NoNullInHand`: as fms forbids cached nulls, what the listener is
  about to compare is no null, whoever lies under the key; it differs from the null
  of Mongo, so only `Park` leads to the acknowledgement.
* `CacheKeepsContract`: refinement. `copies` maps each actor's locals to the
  contract's copies; each step is shown to be a `Take`, `Drop`, `Install`, `Save`,
  `Evict` or a stutter. `Found` (what `@Cacheable` stores was found) is the
  invariant it needs.

Article lists (`ArticleListsProofs`):

* `ListsTypeCorrect`: types; a reader on its way has a request, and a copy lies under
  the key of its request.
* `SavesEmptyLists`: `OldOnlyIfLate` is inductive together with the types: a save
  that makes a copy old puts its key ahead of the saver's scan, the scan takes it
  to the batch, and only a deletion, a broken deletion or a late fill ends that.

Pictures (`PicturesProofs`):

* `PicturesTypeCorrect`: the types of both services; a search that goes on has read a
  number above 0, whatever expired between its calls. Nothing is assumed of leases.
* `PagesStayInRange`: `OneSearch` says that while searches have not overlapped, at
  most one is under way and its place bounds the counter.
* `TitlesDoubledByRaces`: `Exist` (documents of a title are numbered without
  gaps) and `RaceInv` (a thread about to insert is alone unless the title is in
  `raced`, and then nobody else has inserted it).
* `WallFollowsLastCrawl`: while the run is clean, `OneCrawl` is under way, and the
  invariant follows it: before its threads start, it holds the wanted page and all
  that is still on the wall (`Replacing`); afterwards what is on the wall or has a
  thread is wanted, and what is wanted is on the wall, has a thread or is a 4k picture
  (`Replaced`).

Accounts (`AccountsProofs`), under `HoldersAssumption` (*free* and *stuck* are no
threads) and `FaultsAssumption`:

* `AccountsTypeCorrect`: types, and that a lock transaction is at one of its places
  and holds the row of its user (`AtWork`): undoing needs no other lock.
* `SessionsExpire`: a session without a time to live is one whose login is between
  *set* and *expire*, or stopped there.
* `LocksAreAtomic`: with no lock under way or stuck and no unlock about to answer, the
  status is what the last answer said, unless that answer is in doubt. `UndoKnown`: what
  an untainted lock would restore is what was promised before it; `UnlockDone`: an
  untainted unlock about to answer has written; `OverlapSeen`: a lock and an unlock of one
  user under way at once are both tainted.
* `LockedUsersAreOut`: a login that nothing overlapped sees its account NORMAL and
  nobody logging it out (`Alone`), so it cannot bring back a user whom a lock has
  thrown out; the places of a lock say how far out its user is (`OutInv`).
* `SessionsAreOnline`: the same for the online mark, which a login writes after its
  session and a logout takes away after deleting it (`Shown`).

Menus (`MenuAdminProofs`), under `NamesAssumption` (the empty search text is no name)
and `BoundsAssumption`:

* `MenusTypeCorrect`: forms are about one row; tables, layers and requests are about
  rows that exist.
* `PagesShowLastAsked`: `YoungestAsks`: while no answer overtook another one, the
  youngest request under way asks for what the search box says.
* `NamesDoubledByRaces`: `TwinsComing`: who is about to insert a name that is taken,
  or that another one is about to insert, is on record.
* `StatusIsAsked`: `Quiet` says what holds of a row nobody got in the way of: it has
  the status asked for, or one thread is about to give it that, and then nobody has
  its form open; what forms and saves saw of it is not NORMAL unless it is asked to
  be (`FormsKnow`, `SavesKnow`), and one save at a time is under way.

Film search (`MovieSearchProofs`), under `KeysAssumption` (a title is no document),
`QuotaAssumption`, `ThreadsAssumption` (finitely many threads) and `BoundsAssumption`, and
no hypothesis on users, titles, lists or leases:

* `MoviesTypeCorrect`: a search under way has read a number above 0, which is why no
  quota turns negative.
* `QuotaIsKept`: `Lasts` balances what is spent, what the bucket holds and what the
  searches under way have read against the quota and the overlaps: each search that
  reads a number another one has read was counted as an overlap when it began.
* `OneDocUnlessRaced`: `Locked` (two crawls of a key at once are both past a lease, the
  others are under theirs) gives `OneInsert`: a film nothing raced for has one insert
  under way, and then no document.
* `EpisodesStay`: `NotOlder`: a crawl under its lease that loaded INIT still finds INIT
  when it saves, if the film has one document; so only a search, a second document or a
  crawl past its lease can write INIT over COMPLETED.

Chat (`ChatProofs`), under `ChatAssumption`, for any loops, crashes and failed calls and
OFFLINE frames in any order:

* `ChatTypeCorrect`: where a message is handled there is one (`Messaging`).
* `MailInOrder`: `ListedInv`: mailboxes, and what handlers have read of them and may
  write back late, list messages in the order of `stored`.
* `StoredMailIsKept`: `KeptInv`: a mailbox and a copy of it in somebody's hand differ
  only in messages that are safe: replayed, or on record as missed or unseen.
* `DeliveredOnceUnlessUnwiped`: `OnceInv`: a message that was replayed and is still in a
  mailbox, or in the copy of a sender, is about to be wiped, and one login at a time has
  it in hand, or it is in `unwiped`. `FreshInv` and `RightInv` say whose message it is.
* `MailWaitsForAbsent`: `AwayInv`: mail of somebody in `channelMap` is about to be
  replayed or wiped, and nobody is storing more, or the user is in `late`.
* `CountRegistered`, `CountCovers`, for finitely many channels: `Balanced` says by how much
  the counter is ahead of or behind the registered addresses (`Carried`) and the live
  ones (`Live`), at each place of each handler, and that one handler of a user at a time
  has it in hand, for users not in `tangled`. A crash, or a handler that breaks off
  (`cut`), turns the equality into a bound.

None of these says that the accidents cannot happen: they can, on the ten loops of
`NettyServer`. They say that the accidents named are all there are.

Only model-checked: the liveness properties `NotificationsEnd`, `EventuallyFresh`,
`LockComesFree`, `OfflineInTheEnd` and `AskedHappens` (fairness is out of the prover's
reach). Every invariant and action property of a passing run is stated by a theorem.

## Findings

1. `NothingLost` with OFFLINE frames: OFFLINE of one of several connections
   forgets the address, so `channelInactive` returns early and the dead channel
   stays in `channelMap`; later messages are written to it instead of the mailbox.
2. `StoredIsReplayed`: a message stored between the read of the mailbox at a login and
   its deletion is deleted unread; two loops suffice, nothing need fail.
3. `RefusedHasSpent`: `bucket.set(--crawlNum)` drops the time to live, so the count
   "of today" is carried over midnight and ends at 0 for good.

Visible in the models, without a run of their own: a refused reader's `finally`
asks `isLocked()`, which is true because somebody else holds the lock, and
`unlock()` then throws `IllegalMonitorStateException` in place of
"当前请求人数过多, 请稍后再试" (`AnswerRefused`); two registrations can insert one name, after
which nobody logs in under it (`Accounts`); two pages of article lists share a
key (`Key`); the form of a menu cannot invalidate it (`SaveChanged`); an unlock whose task threw is
reported as a success (`UnlockAnswer`); page 1 of a longer search is upserted twice, so a
new film may get two documents, and a click on the second answers without episodes for
as long as it exists, because they are saved to the first (`SaveEpisodes`).

## Not modelled

Parsing, page formats, SQL and Mongo query syntax, cryptography, the contents of
articles and memos, templates, deployment and configuration. Images are single
GridFS calls. The rest is planned. Of the management pages: paging of the table,
columns other than name and status, the login page and its RSA keys.

## Plan

Done: article cache with its contract and proofs; chat; accounts, film search,
article lists, pictures, menus and their page, each with proofs of the safety
properties its runs check.

1. News: crawls with the watchdog form of the lock against `removeNews`; Nunu's
   `getM3u8Resource`. Abstract specification: a store of titles, one document each,
   which `Pictures` would implement when no title races.
2. Footsteps (delayed insert against saved positions, unique key) and personal menus
   (parallel saves that swallow failures). Run: 1 user with 2 reads and the player.
3. `Algorithms`: `CollectionUtils.partition` and `partitionList` against a
   reference partition, the block arithmetic of `encryptSeg`/`decryptSeg`,
   `PlayMovie.compareTo` over lists with unnumbered episodes, the todo items of a
   memo, `getSameDayExpirationTime`; without RECURSIVE, so that lemmas can be
   proved.
4. `listChatUsers` as a reader of the counters of `Chat`.
5. Two logins of one recipient at once in a run of `Chat`, once a bound is found that keeps
   it small.

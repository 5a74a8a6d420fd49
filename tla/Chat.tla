-------------------------------- MODULE Chat --------------------------------
(***************************************************************************)
(* The chat server of fish-chat: NettyServerHandler (login by token frame, *)
(* channelInactive) and WebSocketFrameHandler (OFFLINE frame, message).    *)
(* Who is connected is kept in memory, in the static channelMap; how many  *)
(* connections a user has, which address is registered and the mailbox of  *)
(* a user are kept in redis.                                               *)
(*                                                                         *)
(* A channel belongs to one of the worker loops (NettyServer l.42 has ten);*)
(* a loop runs one handler at a time and different loops run side by side, *)
(* so each call to redis and each access to channelMap is one step.  A key *)
(* that only the handlers of one channel use (its fish:userIp) is read     *)
(* together with the step before it.  An address is used once.             *)
(*                                                                         *)
(* Nothing ties the calls of a handler together.  History variables record *)
(* whom and which message that has hit, and how.                           *)
(***************************************************************************)
EXTENDS Naturals, Sequences, FiniteSets

CONSTANTS
  Users, Channels, Loops, Msgs,
  UserOf,        \* UserOf[c]: the user in the token of channel c
  LoopOf,        \* LoopOf[c]: the worker loop netty registered c with
  Sender, Recipient,          \* of a message
  TokenFrames, OfflineFrames, \* channels whose client may send its token, OFFLINE
  MaxCount,      \* bound: no connection of a user is added to so many counted
  MaxCrashes, MaxFaults       \* bounds: server crashes, failed redis calls

ASSUME ChatAssumption ==
  /\ UserOf \in [Channels -> Users] /\ LoopOf \in [Channels -> Loops]
  /\ Sender \in [Msgs -> Users] /\ Recipient \in [Msgs -> Users]
  /\ TokenFrames \subseteq Channels /\ OfflineFrames \subseteq Channels
  /\ MaxCount \in Nat /\ MaxCrashes \in Nat /\ MaxFaults \in Nat

VARIABLES
  conn,      \* conn[c]: "new", "open", "gone" (the peer has left), "closing"
             \* (close() called) or "closed" (channelInactive was called)
  known,     \* keys of channelMap
  sets,      \* sets[u]: channelMap.get(u), {} when u is no key
  ip,        \* ip[c]: fish:userIp:<address of c> holds a name
  count,     \* count[u]: fish:chat:<u>, 0 when absent
  mail,      \* mail[u]: fish:chatContent:<u>, its pieces
  pc,        \* pc[c]: place of the handler running for c
  num,       \* num[c]: the local num
  loggedIn,  \* loggedIn[c]: the local rIp has text
  detached,  \* detached[c]: the local set was replaced in channelMap
  text,      \* text[c]: the local content
  msg,       \* msg[c]: the message being handled
  \* history: counters
  tangled,   \* users two of whose handlers had the counter in hand at once, or
             \* whose counter missed a login or saw a leave too many
  cut,       \* users one of whose leaves, or first logins, broke off
  \* history: messages
  sent,      \* messages a client has sent
  stored,    \* messages put in a mailbox, in that order
  got,       \* got[m]: times m was written to an open connection, at most 2
  missed,    \* messages written to none but connections about to be told dead
  unseen,    \* messages stored while another handler had the mailbox in hand
  unwiped,   \* messages that were replayed and may be in a mailbox again
  late,      \* users who came online while a message to them was being stored,
             \* or whose login broke off before the mailbox was empty
  crashes, faults

netVars   == <<conn, known, sets>>
redisVars == <<ip, count, mail>>
localVars == <<num, loggedIn, detached, text, msg>>
countHist == <<tangled, cut>>
mailHist  == <<sent, stored, got, missed, unseen, unwiped, late>>
bounds    == <<crashes, faults>>
vars == <<netVars, redisVars, pc, localVars, countHist, mailHist, bounds>>

NoMsg == "none"
Pieces(s) == {s[k] : k \in 1 .. Len(s)}

Init ==
  /\ conn = [c \in Channels |-> "new"]
  /\ known = {} /\ sets = [u \in Users |-> {}]
  /\ ip = [c \in Channels |-> FALSE]
  /\ count = [u \in Users |-> 0]
  /\ mail = [u \in Users |-> <<>>]
  /\ pc = [c \in Channels |-> "idle"]
  /\ num = [c \in Channels |-> 0]
  /\ loggedIn = [c \in Channels |-> FALSE]
  /\ detached = [c \in Channels |-> FALSE]
  /\ text = [c \in Channels |-> <<>>]
  /\ msg = [c \in Channels |-> NoMsg]
  /\ tangled = {} /\ cut = {}
  /\ sent = {} /\ stored = <<>> /\ got = [m \in Msgs |-> 0]
  /\ missed = {} /\ unseen = {} /\ unwiped = {} /\ late = {}
  /\ crashes = 0 /\ faults = 0

-----------------------------------------------------------------------------
\* The loop of c is between two events.
LoopFree(c) == \A d \in Channels : LoopOf[d] = LoopOf[c] => pc[d] = "idle"

\* Frames the peer sent before it left are still read.
Readable(c) == conn[c] \in {"open", "gone"} /\ LoopFree(c)

At(c, place) == pc[c] = place
Goto(c, place) == pc' = [pc EXCEPT ![c] = place]

\* The handler of c returns; its locals go with it.
Finish(c) == /\ Goto(c, "idle")
             /\ num' = [num EXCEPT ![c] = 0]
             /\ loggedIn' = [loggedIn EXCEPT ![c] = FALSE]
             /\ detached' = [detached EXCEPT ![c] = FALSE]
             /\ text' = [text EXCEPT ![c] = <<>>]
             /\ msg' = [msg EXCEPT ![c] = NoMsg]

\* Another loop is about to change the HashSet of u while it is iterated, or
\* iterates while it is changed: neither side is synchronised.
Contended(c, u) == \E d \in Channels : /\ LoopOf[d] # LoopOf[c] /\ UserOf[d] = u
                                       /\ pc[d] \in {"add", "leaveMap", "dropMap"}

\* A write reaches the peer if the channel is still open.
Delivered(ms, to) == got' = [m \in Msgs |->
                       IF m \in ms /\ (\E c \in to : conn[c] = "open") /\ got[m] < 2
                       THEN got[m] + 1 ELSE got[m]]

\* The server has not got round to taking c out of channelMap.
Dying(c) == conn[c] \in {"gone", "closing"} \/ pc[c] \in {"unregister", "dropMap"}

\* Written to channels that are dead, of which one at least was about to be dropped.
Missed(ms, to) == missed' = IF (\E c \in to : Dying(c)) /\ ~\E c \in to : conn[c] = "open"
                            THEN missed \cup ms ELSE missed

Connect(c) ==
  /\ conn[c] = "new"
  /\ conn' = [conn EXCEPT ![c] = "open"]
  /\ UNCHANGED <<known, sets, redisVars, pc, localVars, countHist, mailHist, bounds>>

\* The peer closes, or the network does.  The loop of c hears of it later.
Disconnect(c) ==
  /\ conn[c] = "open"
  /\ conn' = [conn EXCEPT ![c] = "gone"]
  /\ UNCHANGED <<known, sets, redisVars, pc, localVars, countHist, mailHist, bounds>>

-----------------------------------------------------------------------------
(* A token frame: NettyServerHandler.channelRead.                          *)

ChannelsOf(u) == {c \in Channels : UserOf[c] = u}

\* The bound: another connection of u may count.
Room(u) == count[u] < MaxCount /\ \A d \in ChannelsOf(u) : num[d] < MaxCount

Token(c) ==
  /\ c \in TokenFrames
  /\ Readable(c) /\ (ip[c] \/ Room(UserOf[c]))
  /\ loggedIn' = [loggedIn EXCEPT ![c] = ip[c]]
  /\ Goto(c, "getCount")
  /\ UNCHANGED <<netVars, redisVars, num, detached, text, msg, countHist, mailHist, bounds>>

\* Has read the counter and will write it.
Reckons(c) == pc[c] \in {"firstCount", "nextIp", "nextCount", "leaveSet", "dropSet"}

\* The counter of the user of c is read by one who will write it.
Reckon(c) == tangled' = IF \E d \in Channels \ {c} : UserOf[d] = UserOf[c] /\ Reckons(d)
                        THEN tangled \cup {UserOf[c]} ELSE tangled

\* Faulty variant: the address is not asked about, every token counts.
GetCountEachTime(c) ==
  /\ At(c, "getCount")
  /\ num' = [num EXCEPT ![c] = count[UserOf[c]]]
  /\ Goto(c, IF count[UserOf[c]] = 0 THEN "firstCount" ELSE "nextIp") /\ Reckon(c)
  /\ UNCHANGED <<netVars, redisVars, loggedIn, detached, text, msg, cut, mailHist, bounds>>

GetCount(c) ==
  /\ At(c, "getCount")
  /\ num' = [num EXCEPT ![c] = count[UserOf[c]]]
  /\ \/ count[UserOf[c]] = 0 /\ Goto(c, "firstCount") /\ Reckon(c)
     \/ count[UserOf[c]] # 0 /\ ~loggedIn[c] /\ Goto(c, "nextIp") /\ Reckon(c)
     \/ count[UserOf[c]] # 0 /\ loggedIn[c] /\ Goto(c, "lookup") /\ UNCHANGED tangled
  /\ UNCHANGED <<netVars, redisVars, loggedIn, detached, text, msg, cut, mailHist, bounds>>

\* Faulty variant: bucket.set(num) on a later login.
SetCountStuck(c) ==
  /\ pc[c] \in {"firstCount", "nextCount"}
  /\ count' = [count EXCEPT ![UserOf[c]] = IF At(c, "firstCount") THEN 1 ELSE num[c]]
  /\ Goto(c, IF At(c, "firstCount") THEN "firstIp" ELSE "lookup")
  /\ UNCHANGED <<netVars, ip, mail, localVars, countHist, mailHist, bounds>>

\* bucket.set(1) on the first login, bucket.set(num + 1) on a later one.
SetCount(c) ==
  /\ pc[c] \in {"firstCount", "nextCount"}
  /\ count' = [count EXCEPT ![UserOf[c]] = num[c] + 1]
  /\ Goto(c, IF At(c, "firstCount") THEN "firstIp" ELSE "lookup")
  /\ UNCHANGED <<netVars, ip, mail, localVars, countHist, mailHist, bounds>>

SetIp(c) ==
  /\ pc[c] \in {"firstIp", "nextIp"}
  /\ ip' = [ip EXCEPT ![c] = TRUE]
  /\ Goto(c, IF At(c, "nextIp") THEN "nextCount" ELSE "lookup")
  /\ UNCHANGED <<netVars, count, mail, localVars, countHist, mailHist, bounds>>

\* channelMap.get(user), CollectionUtils.isEmpty
Lookup(c) ==
  /\ At(c, "lookup")
  /\ Goto(c, IF sets[UserOf[c]] = {} THEN "put" ELSE "add")
  /\ UNCHANGED <<netVars, redisVars, localVars, countHist, mailHist, bounds>>

To(c) == Recipient[msg[c]]

\* A sender has found u offline and is not through with the mailbox.
Storing(u) == \E d \in Channels : pc[d] \in {"getStore", "store"} /\ To(d) = u

ComesOnline(u) == late' = IF Storing(u) THEN late \cup {u} ELSE late

\* channelMap.put(user, a fresh set): whoever holds the old set holds garbage.
PutSet(c) ==
  /\ At(c, "put")
  /\ known' = known \cup {UserOf[c]}
  /\ sets' = [sets EXCEPT ![UserOf[c]] = {c}]
  /\ detached' = [d \in Channels |->
                    detached[d] \/ (At(d, "add") /\ UserOf[d] = UserOf[c])]
  /\ Goto(c, "greet") /\ ComesOnline(UserOf[c])
  /\ UNCHANGED <<conn, redisVars, num, loggedIn, text, msg, countHist, sent, stored,
                 got, missed, unseen, unwiped, bounds>>

\* channels.add(channel); two unsynchronised changes of one HashSet may lose one.
AddToSet(c) ==
  /\ At(c, "add")
  /\ \/ ~detached[c] /\ sets' = [sets EXCEPT ![UserOf[c]] = @ \cup {c}]
     \/ (detached[c] \/ Contended(c, UserOf[c])) /\ UNCHANGED sets
  /\ Goto(c, "greet") /\ ComesOnline(UserOf[c])
  /\ UNCHANGED <<conn, known, redisVars, localVars, countHist, sent, stored, got,
                 missed, unseen, unwiped, bounds>>

\* The login of u ends here, whatever waits for u.
LeftWaiting(u) == late' = IF mail[u] # <<>> THEN late \cup {u} ELSE late

\* The ONLINE broadcast walks every set: a ConcurrentModificationException ends
\* the handler before the mailbox is looked at.
Greet(c) ==
  /\ At(c, "greet")
  /\ \/ Goto(c, "getMail") /\ UNCHANGED <<localVars, late>>
     \/ (\E u \in Users : Contended(c, u)) /\ Finish(c) /\ LeftWaiting(UserOf[c])
  /\ UNCHANGED <<netVars, redisVars, countHist, sent, stored, got, missed, unseen,
                 unwiped, bounds>>

\* c has read the mailbox of its user and not yet deleted it.
Emptying(c) == pc[c] \in {"replay", "wipe"}

GetMail(c) ==
  /\ At(c, "getMail")
  /\ \/ mail[UserOf[c]] = <<>> /\ Finish(c) /\ UNCHANGED unwiped
     \/ /\ mail[UserOf[c]] # <<>>
        /\ text' = [text EXCEPT ![c] = mail[UserOf[c]]]
        /\ Goto(c, "replay")
        /\ unwiped' = unwiped \cup {m \in Pieces(mail[UserOf[c]]) :
                                      \E d \in Channels : Emptying(d) /\ m \in Pieces(text[d])}
        /\ UNCHANGED <<num, loggedIn, detached, msg>>
  /\ UNCHANGED <<netVars, redisVars, countHist, sent, stored, got, missed, unseen,
                 late, bounds>>

\* split("<///>"), one frame a piece.
ReplayMail(c) ==
  /\ At(c, "replay")
  /\ Delivered(Pieces(text[c]), {c}) /\ Missed(Pieces(text[c]), {c})
  /\ Goto(c, "wipe")
  /\ UNCHANGED <<netVars, redisVars, localVars, countHist, sent, stored, unseen,
                 unwiped, late, bounds>>

\* Faulty variant: chatBucket.delete() is missing.
WipeNothing(c) ==
  /\ At(c, "wipe") /\ Finish(c)
  /\ UNCHANGED <<netVars, redisVars, countHist, mailHist, bounds>>

\* A sender that has the old content in hand writes it back.
WipeMail(c) ==
  /\ At(c, "wipe")
  /\ mail' = [mail EXCEPT ![UserOf[c]] = <<>>]
  /\ unwiped' = unwiped \cup {m \in Pieces(text[c]) :
                                \E d \in Channels : At(d, "store") /\ m \in Pieces(text[d])}
  /\ late' = IF Storing(UserOf[c]) THEN late ELSE late \ {UserOf[c]}
  /\ Finish(c)
  /\ UNCHANGED <<netVars, ip, count, countHist, sent, stored, got, missed, unseen,
                 bounds>>

-----------------------------------------------------------------------------
(* Any other frame: WebSocketFrameHandler.channelRead0.                    *)

\* Neither a token nor a user in channelMap: the connection is closed.
RefuseFrame(c) ==
  /\ Readable(c) /\ UserOf[c] \notin known
  /\ conn' = [conn EXCEPT ![c] = "closing"]
  /\ UNCHANGED <<known, sets, redisVars, pc, localVars, countHist, mailHist, bounds>>

\* An OFFLINE frame unregisters the address first.  Whether it was registered is
\* not asked: a second OFFLINE counts down again.
Offline(c) ==
  /\ c \in OfflineFrames
  /\ Readable(c) /\ UserOf[c] \in known
  /\ ip' = [ip EXCEPT ![c] = FALSE]
  /\ tangled' = IF ip[c] THEN tangled ELSE tangled \cup {UserOf[c]}
  /\ Goto(c, "leaveGet")
  /\ UNCHANGED <<netVars, count, mail, localVars, cut, mailHist, bounds>>

\* num = bucket.get(), of an OFFLINE frame and of channelInactive
LeaveGet(c) ==
  /\ pc[c] \in {"leaveGet", "dropGet"}
  /\ num' = [num EXCEPT ![c] = count[UserOf[c]]]
  /\ Goto(c, IF At(c, "leaveGet") THEN "leaveSet" ELSE "dropSet") /\ Reckon(c)
  /\ UNCHANGED <<netVars, redisVars, loggedIn, detached, text, msg, cut, mailHist, bounds>>

\* Faulty variant: counts down without looking at num.
LeaveSetUnguarded(c) ==
  /\ pc[c] \in {"leaveSet", "dropSet"}
  /\ count' = [count EXCEPT ![UserOf[c]] = num[c] - 1]
  /\ Finish(c)
  /\ UNCHANGED <<netVars, ip, mail, countHist, mailHist, bounds>>

\* One of several connections: count down and return, which for an OFFLINE frame
\* leaves the channel in channelMap.  The last one: delete the key.
LeaveSet(c) ==
  /\ pc[c] \in {"leaveSet", "dropSet"}
  /\ \/ /\ num[c] > 1
        /\ count' = [count EXCEPT ![UserOf[c]] = num[c] - 1]
        /\ Finish(c)
     \/ /\ num[c] <= 1
        /\ count' = [count EXCEPT ![UserOf[c]] = 0]
        /\ \/ At(c, "leaveSet") /\ Goto(c, "leaveMap") /\ UNCHANGED localVars
           \/ At(c, "dropSet") /\ Finish(c)
  /\ UNCHANGED <<netVars, ip, mail, countHist, mailHist, bounds>>

\* activeChannels.removeIf(...), which may throw or lose the change when another
\* loop changes the set, and the broadcast, after which nothing follows.
LeaveMap(c) ==
  /\ At(c, "leaveMap")
  /\ \/ sets' = [sets EXCEPT ![UserOf[c]] = @ \ {c}]
     \/ Contended(c, UserOf[c]) /\ UNCHANGED sets
  /\ Finish(c)
  /\ UNCHANGED <<conn, known, redisVars, countHist, mailHist, bounds>>

\* A message: echoed to the sender's own channels first, where a
\* ConcurrentModificationException drops it.
Send(c, m) ==
  /\ Readable(c) /\ UserOf[c] \in known
  /\ UserOf[c] = Sender[m] /\ m \notin sent
  /\ sent' = sent \cup {m}
  /\ \/ msg' = [msg EXCEPT ![c] = m] /\ Goto(c, "route")
     \/ Contended(c, UserOf[c]) /\ UNCHANGED <<pc, msg>>
  /\ UNCHANGED <<netVars, redisVars, num, loggedIn, detached, text, countHist, stored,
                 got, missed, unseen, unwiped, late, bounds>>

\* Faulty variant: online or not, the message is stored.
RouteToStore(c) ==
  /\ At(c, "route") /\ Goto(c, "getStore")
  /\ UNCHANGED <<netVars, redisVars, localVars, countHist, mailHist, bounds>>

\* containsKey and a set that is not empty
Route(c) ==
  /\ At(c, "route")
  /\ Goto(c, IF sets[To(c)] # {} THEN "write" ELSE "getStore")
  /\ UNCHANGED <<netVars, redisVars, localVars, countHist, mailHist, bounds>>

\* forEach over the set as it is now; it may throw before the first write
WriteTo(c) ==
  /\ At(c, "write")
  /\ \/ Delivered({msg[c]}, sets[To(c)]) /\ Missed({msg[c]}, sets[To(c)])
     \/ Contended(c, To(c)) /\ UNCHANGED <<got, missed>>
  /\ Finish(c)
  /\ UNCHANGED <<netVars, redisVars, countHist, sent, stored, unseen, unwiped, late, bounds>>

GetStore(c) ==
  /\ At(c, "getStore")
  /\ text' = [text EXCEPT ![c] = mail[To(c)]]
  /\ Goto(c, "store")
  /\ UNCHANGED <<netVars, redisVars, num, loggedIn, detached, msg, countHist, mailHist, bounds>>

\* c has read the mailbox of u and will write or delete it.
Holds(c, u) == \/ At(c, "store") /\ To(c) = u
               \/ Emptying(c) /\ UserOf[c] = u

\* c puts its message in the mailbox.
Stores(c) ==
  /\ stored' = Append(stored, msg[c])
  /\ unseen' = IF \E d \in Channels \ {c} : Holds(d, To(c)) THEN unseen \cup {msg[c]} ELSE unseen
  /\ Finish(c)
  /\ UNCHANGED <<netVars, ip, count, countHist, sent, got, missed, unwiped, late, bounds>>

\* Faulty variants: the old content is overwritten; it is appended to the new.
StoreOver(c) ==
  /\ At(c, "store") /\ Stores(c)
  /\ mail' = [mail EXCEPT ![To(c)] = <<msg[c]>>]

StoreInFront(c) ==
  /\ At(c, "store") /\ Stores(c)
  /\ mail' = [mail EXCEPT ![To(c)] = <<msg[c]>> \o text[c]]

StoreMail(c) ==
  /\ At(c, "store") /\ Stores(c)
  /\ mail' = [mail EXCEPT ![To(c)] = Append(text[c], msg[c])]

-----------------------------------------------------------------------------
(* The connection ends: NettyServerHandler.channelInactive.                *)

\* Faulty variant: the event is ignored, only the address is forgotten.
InactiveIgnored(c) ==
  /\ conn[c] \in {"gone", "closing"} /\ LoopFree(c)
  /\ conn' = [conn EXCEPT ![c] = "closed"]
  /\ ip' = [ip EXCEPT ![c] = FALSE]
  /\ UNCHANGED <<known, sets, count, mail, pc, localVars, countHist, mailHist, bounds>>

\* An address that is not registered: return at once, channelMap untouched.
Inactive(c) ==
  /\ conn[c] \in {"gone", "closing"} /\ LoopFree(c)
  /\ conn' = [conn EXCEPT ![c] = "closed"]
  /\ IF ip[c] THEN Goto(c, "unregister") ELSE UNCHANGED pc
  /\ UNCHANGED <<known, sets, redisVars, localVars, countHist, mailHist, bounds>>

Unregister(c) ==
  /\ At(c, "unregister")
  /\ ip' = [ip EXCEPT ![c] = FALSE]
  /\ Goto(c, "dropMap")
  /\ UNCHANGED <<netVars, count, mail, localVars, countHist, mailHist, bounds>>

\* removeIf throws under contention (the count is not taken down then), or
\* loses the change.
DropMap(c) ==
  /\ At(c, "dropMap")
  /\ \/ /\ sets' = [sets EXCEPT ![UserOf[c]] = @ \ {c}]
        /\ Goto(c, "dropGet") /\ UNCHANGED <<localVars, cut>>
     \/ /\ Contended(c, UserOf[c]) /\ UNCHANGED sets
        /\ Goto(c, "dropGet") /\ UNCHANGED <<localVars, cut>>
     \/ /\ Contended(c, UserOf[c]) /\ UNCHANGED sets
        /\ Finish(c) /\ cut' = cut \cup {UserOf[c]}
  /\ UNCHANGED <<conn, known, redisVars, tangled, mailHist, bounds>>

-----------------------------------------------------------------------------
\* Places at which a handler that breaks off leaves a counter that counts an
\* address no longer, or not yet, registered, or an address nobody will take down.
LeavesAddress == {"firstIp", "unregister", "dropMap", "leaveGet", "leaveSet", "dropGet", "dropSet"}

\* A redis call throws: netty logs the exception, the handler is over.  A failed
\* get of fish:userIp leaves what a failed call after it leaves.
RedisFails(c) ==
  /\ pc[c] \in {"getCount", "firstCount", "nextCount", "firstIp", "nextIp",
                "getMail", "wipe", "unregister", "leaveGet", "dropGet",
                "leaveSet", "dropSet", "getStore", "store"}
  /\ faults < MaxFaults /\ faults' = faults + 1
  /\ tangled' = IF At(c, "nextCount") THEN tangled \cup {UserOf[c]} ELSE tangled
  /\ cut' = IF pc[c] \in LeavesAddress THEN cut \cup {UserOf[c]} ELSE cut
  /\ unwiped' = IF At(c, "wipe") THEN unwiped \cup Pieces(text[c]) ELSE unwiped
  /\ late' = IF pc[c] \in {"getMail", "wipe"} /\ mail[UserOf[c]] # <<>>
             THEN late \cup {UserOf[c]} ELSE late
  /\ Finish(c)
  /\ UNCHANGED <<netVars, redisVars, sent, stored, got, missed, unseen, crashes>>

\* The process dies and starts again: memory is gone, redis is not, and the
\* connections ended without channelInactive.
Crash ==
  /\ crashes < MaxCrashes /\ crashes' = crashes + 1
  /\ conn' = [c \in Channels |-> IF conn[c] = "new" THEN "new" ELSE "closed"]
  /\ known' = {} /\ sets' = [u \in Users |-> {}]
  /\ pc' = [c \in Channels |-> "idle"]
  /\ num' = [c \in Channels |-> 0]
  /\ loggedIn' = [c \in Channels |-> FALSE]
  /\ detached' = [c \in Channels |-> FALSE]
  /\ text' = [c \in Channels |-> <<>>]
  /\ msg' = [c \in Channels |-> NoMsg]
  /\ unwiped' = unwiped \cup UNION {Pieces(text[c]) : c \in {d \in Channels : Emptying(d)}}
  /\ UNCHANGED <<redisVars, countHist, sent, stored, got, missed, unseen, late, faults>>

HandlerStep(c) ==
  \/ GetCount(c) \/ SetCount(c) \/ SetIp(c) \/ Lookup(c) \/ PutSet(c)
  \/ AddToSet(c) \/ Greet(c) \/ GetMail(c) \/ ReplayMail(c) \/ WipeMail(c)
  \/ LeaveGet(c) \/ LeaveSet(c) \/ LeaveMap(c)
  \/ Route(c) \/ WriteTo(c) \/ GetStore(c) \/ StoreMail(c)
  \/ Unregister(c) \/ DropMap(c)

Event(c) == \/ Connect(c) \/ Disconnect(c) \/ Token(c) \/ RefuseFrame(c)
            \/ Offline(c) \/ Inactive(c) \/ \E m \in Msgs : Send(c, m)

Next == \/ \E c \in Channels : Event(c) \/ HandlerStep(c) \/ RedisFails(c)
        \/ Crash

Spec == Init /\ [][Next]_vars

\* A loop runs the handler it is in.
Fairness == \A c \in Channels : WF_vars(HandlerStep(c))

FairSpec == Spec /\ Fairness

-----------------------------------------------------------------------------
(* Properties.                                                             *)

ConnStates == {"new", "open", "gone", "closing", "closed"}
Places == {"idle", "getCount", "firstCount", "firstIp", "nextIp", "nextCount",
           "lookup", "put", "add", "greet", "getMail", "replay", "wipe",
           "leaveGet", "leaveSet", "leaveMap", "unregister", "dropMap", "dropGet",
           "dropSet", "route", "write", "getStore", "store"}

\* Types of the variables; no interleaving of logins and leaves takes a counter
\* below zero.
TypeOK ==
  /\ conn \in [Channels -> ConnStates]
  /\ known \subseteq Users /\ sets \in [Users -> SUBSET Channels]
  /\ ip \in [Channels -> BOOLEAN]
  /\ count \in [Users -> Nat]
  /\ mail \in [Users -> Seq(Msgs)]
  /\ pc \in [Channels -> Places]
  /\ num \in [Channels -> Nat]
  /\ loggedIn \in [Channels -> BOOLEAN] /\ detached \in [Channels -> BOOLEAN]
  /\ text \in [Channels -> Seq(Msgs)]
  /\ msg \in [Channels -> Msgs \cup {NoMsg}]
  /\ tangled \subseteq Users /\ cut \subseteq Users /\ late \subseteq Users
  /\ sent \subseteq Msgs /\ stored \in Seq(Msgs) /\ got \in [Msgs -> 0 .. 2]
  /\ missed \subseteq Msgs /\ unseen \subseteq Msgs /\ unwiped \subseteq Msgs
  /\ crashes \in 0 .. MaxCrashes /\ faults \in 0 .. MaxFaults

Quiet(u) == \A c \in ChannelsOf(u) : pc[c] = "idle"
Registered(u) == {c \in ChannelsOf(u) : ip[c]}
Waiting(m) == m \in Pieces(mail[Recipient[m]])

\* Until the server dies the number under fish:chat:<user> is the number of
\* addresses registered for the user (NettyServerHandler l.107, "ip未登录过才能加1";
\* l.58-64), on whatever loops the connections are, but for the users two of whose
\* handlers had the number in hand at once, who sent OFFLINE unregistered, or one
\* of whose handlers broke off between number and address.
CountIsRegistered ==
  crashes = 0 => \A u \in Users \ (tangled \cup cut) :
    Quiet(u) => count[u] = Cardinality(Registered(u))

\* Crashes, and leaves that break off, leave the number too high for ever, never
\* too low: a user with a registered connection is shown offline only after two of
\* their handlers had the number in hand, an OFFLINE unregistered, or a failed set.
CountCoversOpen ==
  \A u \in Users \ tangled : Quiet(u) =>
    count[u] >= Cardinality({c \in Registered(u) : conn[c] = "open"})

\* When all connections of a user have ended the user is shown offline in the end,
\* unless the server died or one of the above happened to them.
OfflineInTheEnd ==
  \A u \in Users : (\A c \in ChannelsOf(u) : conn[c] = "closed")
                     ~> \/ count[u] = 0
                        \/ crashes > 0 \/ u \in tangled \cup cut

\* Whatever loops, crashes and failed calls: a message put in a mailbox stays there
\* until it is written to a connection of the recipient (WebSocketFrameHandler
\* l.76-83, NettyServerHandler l.123-134), but for one that was stored while another
\* handler had read the mailbox and was going to write or delete it, and one
\* replayed to a connection that had just been left.
StoredIsKept == \A m \in Pieces(stored) : \/ Waiting(m) \/ got[m] > 0
                                          \/ m \in missed \cup unseen

\* A mailbox is replayed twice only if its deletion failed or the process died
\* before it, two logins had it in hand, or a sender wrote the old content back.
DeliveredOnce == \A m \in Msgs : got[m] > 1 => m \in unwiped

\* Nobody with a channel in channelMap has mail waiting, unless they came online
\* between a sender's look at channelMap and its write of the mailbox
\* (WebSocketFrameHandler l.71-83), or their login broke off before line 134 of
\* NettyServerHandler.
MailboxOnlyWhenAway ==
  \A u \in Users : mail[u] # <<>> /\ sets[u] # {} /\ Quiet(u) => u \in late

\* However stores, logins and failures overlap, a mailbox lists messages once
\* each and in the order in which they were stored: a stale write-back may drop
\* pieces or bring replayed ones back, it never turns two round
\* (WebSocketFrameHandler l.77-83).
MailboxInSendOrder ==
  \A u \in Users : \A j, k \in 1 .. Len(mail[u]) : j < k =>
    \E p, q \in 1 .. Len(stored) : p < q /\ stored[p] = mail[u][j] /\ stored[q] = mail[u][k]

InHand(m) == \E c \in Channels : msg[c] = m

\* A message reached an open connection of the recipient or is in the mailbox
\* (WebSocketFrameHandler l.72 "如果用户在线则直接同步消息", l.76 "若用户不在线,
\* 则将消息存入redis"), but for one written to a connection just left.
NothingLost == \A m \in sent : InHand(m) \/ got[m] > 0 \/ Waiting(m) \/ m \in missed

\* A message stored for later ("若用户不在线, 则将消息存入redis") is replayed at a
\* login (NettyServerHandler l.123 "同步历史消息"), not deleted unread.
StoredIsReplayed == \A m \in Pieces(stored) : Waiting(m) \/ got[m] > 0 \/ m \in missed
=============================================================================

--------------------------- MODULE MenuAdminProofs ---------------------------
(***************************************************************************)
(* For any administrators, menus and numbers of requests: types, a page at *)
(* rest shows what it asked for last unless answers crossed, and two menus *)
(* have one name only if they were added or renamed at once.               *)
(***************************************************************************)
EXTENDS MenuAdmin, FiniteSetTheorems, SequenceTheorems, TLAPS

USE NamesAssumption, BoundsAssumption

-----------------------------------------------------------------------------
(* Requests taken out of those under way.                                  *)

LEMMA WithoutFirst ==
  ASSUME NEW S, NEW s \in Seq(S), s # <<>>
  PROVE  /\ RemoveAt(s, 1) \in Seq(S) /\ Len(RemoveAt(s, 1)) = Len(s) - 1
         /\ \A i \in 1 .. Len(s) - 1 : RemoveAt(s, 1)[i] = s[i + 1]
<1>1. /\ SubSeq(s, 2, Len(s)) \in Seq(S) /\ Len(SubSeq(s, 2, Len(s))) = Len(s) - 1
      /\ \A i \in 1 .. Len(s) - 1 : SubSeq(s, 2, Len(s))[i] = s[i + 1]
  <2>1. Tail(s) = SubSeq(s, 2, Len(s))
    BY TailIsSubSeq
  <2> QED BY <2>1, HeadTailProperties
<1>2. SubSeq(s, 1, 0) = <<>>
  BY SubSeqEmpty
<1>3. RemoveAt(s, 1) = SubSeq(s, 1, 0) \o SubSeq(s, 2, Len(s))
  BY DEF RemoveAt
<1>4. RemoveAt(s, 1) = SubSeq(s, 2, Len(s))
  BY <1>1, <1>2, <1>3, ConcatEmptySeq
<1> QED BY <1>1, <1>4

LEMMA WithoutAny ==
  ASSUME NEW S, NEW s \in Seq(S), NEW k \in DOMAIN s PROVE RemoveAt(s, k) \in Seq(S)
  BY DEF RemoveAt

-----------------------------------------------------------------------------
(* Type correctness.                                                       *)

Rows == [name : Names, status : Statuses]

RowTypes ==
  /\ menus \in Seq(Rows) /\ Len(menus) \in Ids
  /\ tasks \in [Ids -> [Statuses -> Nat]]

RequestTypes ==
  /\ pc \in [Threads -> Places] /\ req \in [Threads -> Requests]
  /\ from \in [Threads -> Admins \cup {None}] /\ open \in [Threads -> BOOLEAN]
  /\ \A t \in Threads : /\ open[t] => from[t] \in Admins
                        /\ pc[t] \in {"count", "insert", "read", "write"}
                             => req[t].name \in Names
                        /\ pc[t] = "spawn" => req[t].status \in Statuses
                        /\ req[t].ids \subseteq DOMAIN menus

LayerTypes ==
  /\ dialog \in [Admins -> Layers]
  /\ \A a \in Admins : /\ dialog[a].kind = "update" => Cardinality(dialog[a].ids) = 1
                       /\ dialog[a].ids \subseteq DOMAIN menus

TableTypes ==
  /\ asks \in [Admins -> Seq(Filters)] /\ searched \in [Admins -> Filters]
  /\ shown \in [Admins -> [filter : Filters, ids : SUBSET DOMAIN menus]]
  /\ crossed \in [Admins -> BOOLEAN]

HistTypes ==
  /\ asked \in [Ids -> Statuses] /\ muddled \in [Ids -> BOOLEAN]
  /\ twins \subseteq Names
  /\ clicks \in 0 .. MaxClicks /\ faults \in 0 .. MaxFaults

Types == RowTypes /\ RequestTypes /\ LayerTypes /\ TableTypes /\ HistTypes

LEMMA TypesGiveTypeOK == Types => TypeOK
  BY DEF Types, RowTypes, RequestTypes, LayerTypes, TableTypes, HistTypes, TypeOK,
     Rows

LEMMA InitTypes == Init => Types
<1> SUFFICES ASSUME Init PROVE Types
  OBVIOUS
<1>1. PICK n \in Names : menus = <<[name |-> n, status |-> "NORMAL"]>>
  BY DEF Init
<1>2. menus \in Seq(Rows) /\ Len(menus) = 1 /\ DOMAIN menus = {1}
  BY <1>1 DEF Statuses, Rows
<1>3. RowTypes
  BY <1>2 DEF Init, RowTypes, Ids
<1>4. RequestTypes
  BY DEF Init, RequestTypes, Places, Requests, NoRequest, Filters, Statuses
<1>5. LayerTypes
  BY DEF Init, LayerTypes, Layers, NoLayer, Statuses
<1>6. TableTypes
  BY <1>2 DEF Init, TableTypes, Filters
<1>7. HistTypes
  BY DEF Init, HistTypes, Statuses
<1> QED BY <1>3, <1>4, <1>5, <1>6, <1>7 DEF Types

LEMMA RowChanged ==
  ASSUME NEW S, NEW s \in Seq(S), NEW i, NEW e, i \in DOMAIN s => e \in S
  PROVE  [s EXCEPT ![i] = e] \in Seq(S) /\ Len([s EXCEPT ![i] = e]) = Len(s)
<1>1. CASE i \in DOMAIN s
  BY <1>1, ExceptSeq, LenProperties
<1>2. CASE i \notin DOMAIN s
  <2>1. s \in [1 .. Len(s) -> S] /\ DOMAIN s = 1 .. Len(s)
    BY LenProperties
  <2>2. [s EXCEPT ![i] = e] = s
    BY <1>2, <2>1
  <2> QED BY <2>2
<1> QED BY <1>1, <1>2

\* Rows are only added.
LEMMA RowsTyped ==
  ASSUME Types, [Next]_vars PROVE RowTypes' /\ DOMAIN menus \subseteq DOMAIN menus'
<1>1. CASE UNCHANGED rowVars
  BY <1>1 DEF Types, RowTypes, rowVars
<1>2. ASSUME NEW t \in Threads, AddInsert(t)
      PROVE  RowTypes' /\ DOMAIN menus \subseteq DOMAIN menus'
  <2> DEFINE row == [name |-> req[t].name, status |-> "NORMAL"]
  <2>1. row \in Rows /\ Len(menus) < MaxRows
    BY <1>2 DEF AddInsert, At, Types, RequestTypes, Statuses, Rows
  <2>2. menus' = Append(menus, row) /\ tasks' = tasks
    BY <1>2 DEF AddInsert
  <2> HIDE DEF row
  <2> QED BY <2>1, <2>2 DEF Types, RowTypes, Ids
<1>3. ASSUME NEW t \in Threads, UpdateWrite(t)
      PROVE  RowTypes' /\ DOMAIN menus \subseteq DOMAIN menus'
  <2> DEFINE status == IF req[t].status = "unsent" THEN req[t].row ELSE req[t].status
             row == [name |-> req[t].name, status |-> status]
  <2>1. row \in Rows
    BY <1>3 DEF UpdateWrite, Write, At, Types, RequestTypes, Requests, Rows
  <2>2. PICK i \in req[t].ids : menus' = [menus EXCEPT ![i] = row]
    BY <1>3 DEF UpdateWrite, Write
  <2>3. tasks' = tasks
    BY <1>3 DEF UpdateWrite, Write
  <2> HIDE DEF row, status
  <2>4. menus' \in Seq(Rows) /\ Len(menus') = Len(menus)
    <3>1. menus \in Seq(Rows)
      BY DEF Types, RowTypes
    <3> QED BY <2>1, <2>2, <3>1, RowChanged
  <2> QED BY <2>3, <2>4 DEF Types, RowTypes
<1>4. ASSUME NEW t \in Threads, Spawn(t)
      PROVE  RowTypes' /\ DOMAIN menus \subseteq DOMAIN menus'
  <2>1. ASSUME NEW i \in Ids
        PROVE  [tasks[i] EXCEPT ![req[t].status] = @ + 1] \in [Statuses -> Nat]
    <3>1. tasks[i] \in [Statuses -> Nat]
      BY DEF Types, RowTypes
    <3>2. ASSUME NEW f \in [Statuses -> Nat], NEW x \in Statuses
          PROVE  [f EXCEPT ![x] = @ + 1] \in [Statuses -> Nat]
      OBVIOUS
    <3>3. req[t].status \in Statuses
      BY <1>4 DEF Spawn, Start, At, Types, RequestTypes
    <3> QED BY <3>1, <3>2, <3>3
  <2>2. tasks' \in [Ids -> [Statuses -> Nat]] /\ menus' = menus
    BY <1>4, <2>1 DEF Spawn, Start, Types, RowTypes
  <2> QED BY <2>2 DEF Types, RowTypes
<1>5. ASSUME NEW i \in Ids, NEW s \in Statuses, RunTask(i, s) \/ TaskDies(i, s)
      PROVE  RowTypes' /\ DOMAIN menus \subseteq DOMAIN menus'
  <2>1. tasks' \in [Ids -> [Statuses -> Nat]]
    <3>1. tasks \in [Ids -> [Statuses -> Nat]] /\ tasks[i] \in [Statuses -> Nat]
      BY DEF Types, RowTypes
    <3>2. tasks' = [tasks EXCEPT ![i] = [tasks[i] EXCEPT ![s] = @ - 1]] /\ tasks[i][s] > 0
      BY <1>5 DEF RunTask, TaskDies
    <3>3. [tasks[i] EXCEPT ![s] = @ - 1] \in [Statuses -> Nat]
      BY <3>1, <3>2
    <3> QED BY <3>1, <3>2, <3>3
  <2>2. CASE RunTask(i, s)
    <3>1. menus' = [menus EXCEPT ![i] = [menus[i] EXCEPT !.status = s]]
      BY <2>2 DEF RunTask
    <3>2. ASSUME i \in DOMAIN menus
          PROVE  [menus[i] EXCEPT !.status = s] \in Rows
      <4>1. menus[i] \in Rows
        BY <3>2, ElementOfSeq, LenProperties DEF Types, RowTypes
      <4> QED BY <4>1 DEF Rows
    <3>3. menus' \in Seq(Rows) /\ Len(menus') = Len(menus)
      <4>1. menus \in Seq(Rows)
        BY DEF Types, RowTypes
      <4> DEFINE row == [menus[i] EXCEPT !.status = s]
      <4>2. menus' = [menus EXCEPT ![i] = row] /\ (i \in DOMAIN menus => row \in Rows)
        BY <3>1, <3>2
      <4> HIDE DEF row
      <4>3. menus' \in Seq(Rows)
        BY <4>1, <4>2, RowChanged
      <4>4. Len(menus') = Len(menus)
        BY <4>1, <4>2, RowChanged
      <4> QED BY <4>3, <4>4
    <3> QED BY <2>1, <3>3 DEF Types, RowTypes
  <2>3. CASE TaskDies(i, s)
    BY <2>1, <2>3 DEF TaskDies, Types, RowTypes
  <2> QED BY <1>5, <2>2, <2>3
<1> QED
  BY <1>1, <1>2, <1>3, <1>4, <1>5, ZenonT(60)
  DEF Next, OnPage, Serve, InitTable, Search, CloseLayer,
     AddMenu, UpdateMenu, InvalidateOrActivate, Open, ListArrives, ListFails, Show, SaveNew,
     SaveChanged, Confirm, Send, AddCount, UpdateRead, Answer, RequestFails, vars

\* A request of a page, as Send leaves it.
LEMMA SentTyped ==
  ASSUME Types, NEW a \in Admins, NEW t \in Threads, NEW place \in Places, NEW r \in Requests,
         Send(a, t, place, r), UNCHANGED menus, r.ids \subseteq DOMAIN menus,
         place \in {"count", "read"} => r.name \in Names, place \notin {"insert", "write"},
         place = "spawn" => r.status \in Statuses
  PROVE  RequestTypes'
  BY DEF Send, Goto, Types, RequestTypes

\* A thread goes on with its request, or is done.
LEMMA ServedTyped ==
  ASSUME Types, DOMAIN menus \subseteq DOMAIN menus', NEW t \in Threads,
         \/ Finish(t)
         \/ /\ UNCHANGED <<req, from, open>>
            /\ \/ Goto(t, "answer")
               \/ Goto(t, "insert") /\ pc[t] = "count"
  PROVE  RequestTypes'
<1>1. CASE Finish(t)
  BY <1>1 DEF Finish, Goto, Types, RequestTypes, NoRequest, Requests, Places, Filters, Statuses
<1>2. CASE UNCHANGED <<req, from, open>> /\ Goto(t, "answer")
  BY <1>2 DEF Goto, Types, RequestTypes, Places
<1>3. CASE UNCHANGED <<req, from, open>> /\ Goto(t, "insert") /\ pc[t] = "count"
  BY <1>3 DEF Goto, Types, RequestTypes, Places
<1> QED BY <1>1, <1>2, <1>3

\* A layer closes, and the page may be loaded again.
LEMMA ShutTyped ==
  ASSUME Types, NEW a \in Admins, UNCHANGED <<pc, req>>, Shut(a),
         \/ UNCHANGED from
         \/ from' = [t \in Threads |-> IF from[t] = a THEN None ELSE from[t]],
         DOMAIN menus \subseteq DOMAIN menus'
  PROVE  RequestTypes'
<1>1. from' \in [Threads -> Admins \cup {None}] /\ open' \in [Threads -> BOOLEAN]
  BY DEF Shut, Types, RequestTypes
<1>2. \A t \in Threads : open'[t] => from'[t] \in Admins
  BY DEF Shut, Types, RequestTypes
<1> QED BY <1>1, <1>2 DEF Types, RequestTypes

\* An answer closes the layer it was confirmed in, or none.
LEMMA AnswerShuts ==
  ASSUME Types, NEW t \in Threads, Answer(t)
  PROVE  \/ UNCHANGED dialog
         \/ from[t] \in Admins /\ dialog' = [dialog EXCEPT ![from[t]] = NoLayer]
  BY DEF Answer, Shut, Types, RequestTypes

LEMMA RequestsTyped ==
  ASSUME Types, [Next]_vars PROVE RequestTypes'
<1>0. DOMAIN menus \subseteq DOMAIN menus'
  BY RowsTyped
<1>1. CASE UNCHANGED reqVars
  BY <1>0, <1>1 DEF Types, RequestTypes, reqVars
<1>2. ASSUME NEW a \in Admins, NEW t \in Threads, SaveNew(a, t) PROVE RequestTypes'
  <2>1. PICK n \in Names : Send(a, t, "count", [NoRequest EXCEPT !.name = n])
    BY <1>2 DEF SaveNew
  <2> DEFINE r == [NoRequest EXCEPT !.name = n]
  <2>2. r \in Requests /\ r.ids = {} /\ r.name = n /\ "count" \in Places
    BY DEF NoRequest, Requests, Filters, Statuses, Places
  <2>3. Send(a, t, "count", r) /\ UNCHANGED menus
    BY <2>1 DEF Send, rowVars
  <2> HIDE DEF r
  <2> QED BY <2>2, <2>3, SentTyped
<1>3. ASSUME NEW a \in Admins, NEW t \in Threads, SaveChanged(a, t) PROVE RequestTypes'
  <2>1. PICK n \in Names, sent \in {"NORMAL", "unsent"} :
          Send(a, t, "read", [NoRequest EXCEPT !.ids = dialog[a].ids, !.name = n,
                                !.status = sent, !.loaded = dialog[a].loaded])
    BY <1>3 DEF SaveChanged
  <2> DEFINE r == [NoRequest EXCEPT !.ids = dialog[a].ids, !.name = n,
                                    !.status = sent, !.loaded = dialog[a].loaded]
  <2>2. r \in Requests /\ r.ids = dialog[a].ids /\ r.name = n /\ "read" \in Places
    BY DEF NoRequest, Requests, Filters, Statuses, Places, Types, LayerTypes, Layers
  <2>3. Send(a, t, "read", r) /\ UNCHANGED menus /\ dialog[a].ids \subseteq DOMAIN menus
    BY <2>1 DEF Send, rowVars, Types, LayerTypes
  <2> HIDE DEF r
  <2> QED BY <2>2, <2>3, SentTyped
<1>4. ASSUME NEW a \in Admins, NEW t \in Threads, Confirm(a, t) PROVE RequestTypes'
  <2> DEFINE r == [NoRequest EXCEPT !.ids = dialog[a].ids, !.status = Wanted(dialog[a].kind)]
  <2>1. /\ r \in Requests /\ r.ids = dialog[a].ids /\ r.status \in Statuses
        /\ "spawn" \in Places
    BY DEF NoRequest, Requests, Filters, Statuses, Places, Types, LayerTypes, Layers, Wanted
  <2>2. Send(a, t, "spawn", r) /\ UNCHANGED menus /\ dialog[a].ids \subseteq DOMAIN menus
    BY <1>4 DEF Confirm, Send, rowVars, Types, LayerTypes
  <2> HIDE DEF r
  <2> QED BY <2>1, <2>2, SentTyped
<1>5. ASSUME NEW t \in Threads, UpdateRead(t) PROVE RequestTypes'
  <2>1. PICK i \in req[t].ids : req' = [req EXCEPT ![t].row = menus[i].status]
    BY <1>5 DEF UpdateRead
  <2>2. menus[i].status \in Statuses
    <3>1. menus \in Seq(Rows) /\ i \in DOMAIN menus
      BY DEF Types, RowTypes, RequestTypes
    <3>2. menus[i] \in Rows
      BY <3>1, ElementOfSeq, LenProperties
    <3> QED BY <3>2 DEF Rows
  <2>3. [req[t] EXCEPT !.row = menus[i].status] \in Requests
    BY <2>2 DEF Types, RequestTypes, Requests
  <2>4. req' = [req EXCEPT ![t] = [req[t] EXCEPT !.row = menus[i].status]]
    BY <2>1
  <2>5. /\ pc' = [pc EXCEPT ![t] = "write"] /\ pc[t] = "read" /\ UNCHANGED <<from, open>>
        /\ "write" \in Places
    BY <1>5 DEF UpdateRead, Goto, At, Places
  <2>6. req' \in [Threads -> Requests]
    BY <2>3, <2>4 DEF Types, RequestTypes
  <2>7. \A x \in Threads : req'[x].ids = req[x].ids /\ req'[x].name = req[x].name
                             /\ req'[x].status = req[x].status
    BY <2>4 DEF Types, RequestTypes, Requests
  <2> QED BY <1>0, <2>5, <2>6, <2>7 DEF Types, RequestTypes
<1>6. ASSUME NEW t \in Threads, Answer(t) PROVE RequestTypes'
  <2>1. from' \in [Threads -> Admins \cup {None}] /\ from'[t] = None
    BY <1>6 DEF Answer, Types, RequestTypes
  <2>2. open' \in [Threads -> BOOLEAN] /\ ~open'[t]
    BY <1>6 DEF Answer, Shut, Types, RequestTypes
  <2>3. \A x \in Threads : open'[x] => from'[x] \in Admins
    BY <1>6, <2>1, <2>2 DEF Answer, Shut, Types, RequestTypes
  <2>4. pc' = [pc EXCEPT ![t] = "idle"] /\ req' = [req EXCEPT ![t] = NoRequest]
    BY <1>6 DEF Answer, Goto
  <2>5. NoRequest \in Requests /\ NoRequest.ids = {} /\ "idle" \in Places
    BY DEF NoRequest, Requests, Places, Filters, Statuses
  <2> QED BY <1>0, <2>1, <2>2, <2>3, <2>4, <2>5 DEF Types, RequestTypes
<1>7. ASSUME NEW t \in Threads,
             \/ AddCount(t) \/ AddInsert(t) \/ UpdateWrite(t) \/ Spawn(t) \/ RequestFails(t)
      PROVE  RequestTypes'
  BY <1>0, <1>7, ServedTyped DEF AddCount, AddInsert, UpdateWrite, Write, Spawn, Start,
     RequestFails, At
<1>8. ASSUME NEW a \in Admins, InitTable(a) \/ CloseLayer(a) PROVE RequestTypes'
  BY <1>0, <1>8, ShutTyped DEF InitTable, CloseLayer
<1> QED
  BY <1>1, <1>2, <1>3, <1>4, <1>5, <1>6, <1>7, <1>8 DEF Next, OnPage, Serve, Search, AddMenu,
     UpdateMenu, InvalidateOrActivate, Open, ListArrives, ListFails, Show, RunTask, TaskDies,
     vars

LEMMA LayersTyped ==
  ASSUME Types, [Next]_vars PROVE LayerTypes'
<1>0. DOMAIN menus \subseteq DOMAIN menus'
  BY RowsTyped
<1>1. CASE UNCHANGED dialog
  BY <1>0, <1>1 DEF Types, LayerTypes
<1>2. ASSUME NEW a \in Admins, NEW l \in Layers, l.ids \subseteq DOMAIN menus,
             l.kind = "update" => Cardinality(l.ids) = 1, dialog' = [dialog EXCEPT ![a] = l]
      PROVE  LayerTypes'
  BY <1>0, <1>2 DEF Types, LayerTypes
<1>3. NoLayer \in Layers /\ NoLayer.ids = {} /\ NoLayer.kind = "none"
  BY DEF NoLayer, Layers, Statuses
<1>4. ASSUME NEW a \in Admins, InitTable(a) \/ CloseLayer(a) PROVE LayerTypes'
  BY <1>2, <1>3, <1>4 DEF InitTable, CloseLayer, Shut
<1>5. ASSUME NEW t \in Threads, Answer(t) PROVE LayerTypes'
  BY <1>1, <1>2, <1>3, <1>5, AnswerShuts
<1>6. ASSUME NEW a \in Admins, NEW kind \in {"add", "update", "invalidate", "active"},
             NEW ids \in SUBSET DOMAIN menus, NEW status \in Statuses,
             Open(a, kind, ids, status), kind = "update" => Cardinality(ids) = 1
      PROVE  LayerTypes'
  <2> DEFINE l == [kind |-> kind, ids |-> ids, loaded |-> status]
  <2>1. DOMAIN menus \subseteq Ids
    BY LenProperties DEF Types, RowTypes, Ids
  <2>2. l \in Layers /\ l.ids = ids /\ l.kind = kind
    BY <2>1 DEF Layers
  <2>3. dialog' = [dialog EXCEPT ![a] = l]
    BY <1>6 DEF Open
  <2> HIDE DEF l
  <2> QED BY <1>2, <1>6, <2>2, <2>3
<1>7. ASSUME NEW a \in Admins, AddMenu(a) PROVE LayerTypes'
  BY <1>6, <1>7 DEF AddMenu, Statuses
<1>8. ASSUME NEW a \in Admins, UpdateMenu(a) PROVE LayerTypes'
  <2>1. PICK i \in shown[a].ids : Open(a, "update", {i}, menus[i].status)
    BY <1>8 DEF UpdateMenu
  <2>2. i \in DOMAIN menus /\ menus \in Seq(Rows)
    BY DEF Types, TableTypes, RowTypes
  <2>3. menus[i].status \in Statuses
    <3>1. menus[i] \in Rows
      BY <2>2, ElementOfSeq, LenProperties
    <3> QED BY <3>1 DEF Rows
  <2>4. Cardinality({i}) = 1
    BY FS_Singleton
  <2> QED BY <1>6, <2>1, <2>2, <2>3, <2>4
<1>9. ASSUME NEW a \in Admins, InvalidateOrActivate(a) PROVE LayerTypes'
  <2>1. PICK ids \in SUBSET shown[a].ids \ {{}}, kind \in {"invalidate", "active"} :
          Open(a, kind, ids, "NORMAL")
    BY <1>9 DEF InvalidateOrActivate
  <2>2. ids \in SUBSET DOMAIN menus
    BY DEF Types, TableTypes
  <2> QED BY <1>6, <2>1, <2>2 DEF Statuses
<1> QED
  BY <1>1, <1>4, <1>5, <1>7, <1>8, <1>9, ZenonT(60)
  DEF Next, OnPage, Serve, Search, ListArrives, ListFails,
     Show, SaveNew, SaveChanged, Confirm, Send, AddCount, AddInsert, UpdateRead, UpdateWrite,
     Write, Spawn, Start, RequestFails, RunTask, TaskDies, vars

-----------------------------------------------------------------------------
(* What a page asks for and what it shows.                                 *)

\* As long as no answer overtook another one, the youngest request under way asks
\* for what the search box says; with none under way the table answers it.
YoungestAsks ==
  \A a \in Admins : ~crossed[a] => IF asks[a] = <<>> THEN shown[a].filter = searched[a]
                                   ELSE asks[a][Len(asks[a])] = searched[a]

TableInv == TableTypes /\ YoungestAsks

LEMMA ReloadKeeps ==
  ASSUME TableInv, DOMAIN menus \subseteq DOMAIN menus', NEW a \in Admins, NEW f \in Filters,
         Reload(a, f)
  PROVE  TableInv'
<1>1. /\ Append(asks[a], f) \in Seq(Filters) /\ Append(asks[a], f) # <<>>
      /\ Append(asks[a], f)[Len(Append(asks[a], f))] = f
  <2>1. asks[a] \in Seq(Filters)
    BY DEF TableInv, TableTypes
  <2> QED BY <2>1
<1>2. TableTypes'
  BY <1>1 DEF Reload, TableInv, TableTypes
<1>3. YoungestAsks'
  BY <1>1 DEF Reload, TableInv, TableTypes, YoungestAsks
<1> QED BY <1>2, <1>3 DEF TableInv

LEMMA ShowKeeps ==
  ASSUME TableInv, UNCHANGED menus, NEW a \in Admins, NEW k, NEW ids \in SUBSET DOMAIN menus,
         Show(a, k, ids)
  PROVE  TableInv'
<1>1. asks[a] \in Seq(Filters) /\ k \in DOMAIN asks[a] /\ asks[a][k] \in Filters
  BY ElementOfSeq, LenProperties DEF Show, TableInv, TableTypes
<1>2. RemoveAt(asks[a], k) \in Seq(Filters)
  BY <1>1, WithoutAny
<1>3. TableTypes'
  BY <1>1, <1>2 DEF Show, TableInv, TableTypes
<1>4. ASSUME NEW b \in Admins, ~crossed'[b]
      PROVE  IF asks'[b] = <<>> THEN shown'[b].filter = searched'[b]
             ELSE asks'[b][Len(asks'[b])] = searched'[b]
  <2>1. CASE b # a
    BY <1>4, <2>1 DEF Show, TableInv, TableTypes, YoungestAsks
  <2>2. CASE b = a
    <3>1. /\ k = 1 /\ ~crossed[a] /\ asks[a] # <<>>
          /\ asks[a][Len(asks[a])] = searched[a]
      <4>1. crossed' = [crossed EXCEPT ![a] = @ \/ k > 1] /\ crossed \in [Admins -> BOOLEAN]
        BY DEF Show, TableInv, TableTypes
      <4>2. ~crossed[a] /\ ~(k > 1)
        BY <1>4, <2>2, <4>1
      <4>3. k \in 1 .. Len(asks[a]) /\ Len(asks[a]) \in Nat
        BY <1>1, LenProperties
      <4>4. k = 1 /\ asks[a] # <<>>
        BY <4>2, <4>3, EmptySeq
      <4> QED BY <4>2, <4>4 DEF TableInv, YoungestAsks
    <3>2. /\ asks'[a] = RemoveAt(asks[a], 1) /\ searched'[a] = searched[a]
          /\ shown'[a].filter = asks[a][1]
      BY <3>1 DEF Show, TableInv, TableTypes
    <3>3. /\ asks'[a] \in Seq(Filters) /\ Len(asks'[a]) = Len(asks[a]) - 1
          /\ \A i \in 1 .. Len(asks[a]) - 1 : asks'[a][i] = asks[a][i + 1]
      BY <1>1, <3>1, <3>2, WithoutFirst
    <3>4. CASE asks'[a] = <<>>
      BY <1>1, <2>2, <3>1, <3>2, <3>3, <3>4
    <3>5. CASE asks'[a] # <<>>
      <4>1. Len(asks[a]) \in Nat /\ Len(asks[a]) > 1
        BY <1>1, <3>3, <3>5, EmptySeq, LenProperties
      <4>2. asks'[a][Len(asks[a]) - 1] = asks[a][Len(asks[a])]
        BY <3>3, <4>1
      <4> QED BY <2>2, <3>1, <3>2, <3>3, <3>5, <4>2
    <3> QED BY <3>4, <3>5
  <2> QED BY <2>1, <2>2
<1> QED BY <1>3, <1>4 DEF TableInv, YoungestAsks

LEMMA TablesKept ==
  ASSUME Types, YoungestAsks, [Next]_vars PROVE TableInv'
<1>0. DOMAIN menus \subseteq DOMAIN menus' /\ TableInv
  BY RowsTyped DEF Types, TableInv
<1>1. CASE UNCHANGED listVars
  BY <1>0, <1>1 DEF TableInv, TableTypes, YoungestAsks, listVars
<1>2. ASSUME NEW a \in Admins, InitTable(a) PROVE TableInv'
  <2>1. /\ asks' = [asks EXCEPT ![a] = <<All>>]
        /\ searched' = [searched EXCEPT ![a] = All]
        /\ shown' = [shown EXCEPT ![a] = [filter |-> All, ids |-> {}]]
        /\ crossed' = [crossed EXCEPT ![a] = FALSE]
    BY <1>2 DEF InitTable
  <2>2. All \in Filters /\ <<All>> \in Seq(Filters) /\ Len(<<All>>) = 1 /\ <<All>>[1] = All
    BY DEF Filters
  <2> QED BY <1>0, <2>1, <2>2 DEF TableInv, TableTypes, YoungestAsks
<1>3. ASSUME NEW a \in Admins, NEW k, ListArrives(a, k) \/ ListFails(a, k) PROVE TableInv'
  <2>1. PICK ids \in SUBSET DOMAIN menus : Show(a, k, ids)
    BY <1>3 DEF ListArrives, ListFails, Matching
  <2>2. UNCHANGED menus
    BY <2>1 DEF Show, rowVars
  <2> QED BY <1>0, <2>1, <2>2, ShowKeeps
<1>4. ASSUME NEW a \in Admins, Search(a) \/ CloseLayer(a) PROVE TableInv'
  BY <1>0, <1>1, <1>4, ReloadKeeps DEF Search, CloseLayer, TableInv, TableTypes
<1>5. ASSUME NEW t \in Threads, Answer(t) PROVE TableInv'
  <2>1. CASE from[t] \in Admins
    BY <1>0, <1>1, <1>5, <2>1, ReloadKeeps DEF Answer, TableInv, TableTypes
  <2>2. CASE from[t] \notin Admins
    BY <1>1, <1>5, <2>2 DEF Answer, Types, RequestTypes
  <2> QED BY <2>1, <2>2
<1> QED
  BY <1>1, <1>2, <1>3, <1>4, <1>5, ZenonT(60) DEF Next, OnPage, Serve, AddMenu, UpdateMenu,
     InvalidateOrActivate, Open, SaveNew, SaveChanged, Confirm, Send, AddCount, AddInsert,
     UpdateRead, UpdateWrite, Write, Spawn, Start, RequestFails, RunTask, TaskDies, vars

-----------------------------------------------------------------------------
(* Marks and bounds, and the theorems so far.                              *)

LEMMA BoundsTyped ==
  ASSUME Types, [Next]_vars PROVE clicks' \in 0 .. MaxClicks /\ faults' \in 0 .. MaxFaults
<1>1. clicks \in 0 .. MaxClicks /\ faults \in 0 .. MaxFaults
  BY DEF Types, HistTypes
<1>2. Click => clicks' \in 0 .. MaxClicks
  BY <1>1 DEF Click
<1>3. Fault => faults' \in 0 .. MaxFaults
  BY <1>1 DEF Fault
<1>4. UNCHANGED clicks \/ Click
  BY ZenonT(60) DEF Next, OnPage, Serve, InitTable, Search, CloseLayer, AddMenu, UpdateMenu,
     InvalidateOrActivate, Open, ListArrives, ListFails, Show, SaveNew, SaveChanged, Confirm,
     Send, AddCount, AddInsert, UpdateRead, UpdateWrite, Write, Spawn, Start, Answer,
     RequestFails, RunTask, TaskDies, vars
<1>5. UNCHANGED faults \/ Fault
  BY ZenonT(60) DEF Next, OnPage, Serve, InitTable, Search, CloseLayer, AddMenu, UpdateMenu,
     InvalidateOrActivate, Open, ListArrives, ListFails, Show, SaveNew, SaveChanged, Confirm,
     Send, AddCount, AddInsert, UpdateRead, UpdateWrite, Write, Spawn, Start, Answer,
     RequestFails, RunTask, TaskDies, vars
<1> QED BY <1>1, <1>2, <1>3, <1>4, <1>5

LEMMA MarksTyped ==
  ASSUME Types, [Next]_vars
  PROVE  /\ asked' \in [Ids -> Statuses] /\ muddled' \in [Ids -> BOOLEAN]
         /\ twins' \subseteq Names
<1> DEFINE OK == /\ asked \in [Ids -> Statuses] /\ muddled \in [Ids -> BOOLEAN]
                 /\ twins \subseteq Names
<1>1. OK
  BY DEF Types, HistTypes
<1>2. CASE asked' = asked /\ muddled' = muddled /\ twins' = twins
  BY <1>1, <1>2
<1>3. ASSUME NEW t \in Threads, AddCount(t) PROVE OK'
  BY <1>1, <1>3 DEF AddCount, At, Types, RequestTypes
<1>4. ASSUME NEW t \in Threads, AddInsert(t) PROVE OK'
  BY <1>1, <1>4 DEF AddInsert, Statuses
<1>5. ASSUME NEW t \in Threads, UpdateWrite(t) PROVE OK'
  <2>1. asked' \in [Ids -> Statuses]
    BY <1>1, <1>5 DEF UpdateWrite, Write, Statuses
  <2>2. twins' \subseteq Names
    BY <1>1, <1>5 DEF UpdateWrite, Write, At, Types, RequestTypes
  <2> QED BY <1>1, <1>5, <2>1, <2>2 DEF UpdateWrite, Write
<1>6. ASSUME NEW t \in Threads, Spawn(t) PROVE OK'
  <2>1. req[t].status \in Statuses
    BY <1>6 DEF Spawn, Start, At, Types, RequestTypes
  <2>2. asked' \in [Ids -> Statuses]
    BY <1>1, <1>6, <2>1 DEF Spawn, Start
  <2>3. \A i \in Ids : Busy(i) \in BOOLEAN
    BY DEF Busy, Spawned, Updating, FormOpen
  <2>4. muddled' \in [Ids -> BOOLEAN]
    BY <1>1, <1>6, <2>3 DEF Spawn, Start
  <2> QED BY <1>1, <1>6, <2>2, <2>4 DEF Spawn, Start
<1>7. ASSUME NEW i \in Ids, NEW s \in Statuses, TaskDies(i, s) PROVE OK'
  BY <1>1, <1>7 DEF TaskDies
<1>8. ASSUME NEW a \in Admins, UpdateMenu(a) PROVE OK'
  <2>1. PICK i \in shown[a].ids : /\ Open(a, "update", {i}, menus[i].status)
                                  /\ muddled' = [muddled EXCEPT ![i] = @ \/ Busy(i)]
    BY <1>8 DEF UpdateMenu
  <2> QED BY <1>1, <2>1 DEF Open
<1>9. ASSUME NEW a \in Admins, NEW t \in Threads, SaveChanged(a, t) PROVE OK'
  BY <1>1, <1>9 DEF SaveChanged, Send
<1> QED
  BY <1>2, <1>3, <1>4, <1>5, <1>6, <1>7, <1>8, <1>9, ZenonT(60) DEF Next, OnPage,
     Serve, InitTable, Search, CloseLayer, AddMenu, InvalidateOrActivate, Open, ListArrives,
     ListFails, Show, SaveNew, Confirm, Send, UpdateRead, Answer, RequestFails, RunTask, vars,
     histVars

LEMMA NextTypes ==
  ASSUME Types, YoungestAsks, [Next]_vars PROVE Types' /\ YoungestAsks'
  BY RowsTyped, RequestsTyped, LayersTyped, TablesKept, BoundsTyped, MarksTyped
  DEF Types, TableInv, HistTypes

LEMMA PagesTyped == Spec => [](Types /\ YoungestAsks)
<1>1. Init => YoungestAsks
  BY DEF Init, YoungestAsks
<1>2. Types /\ YoungestAsks /\ [Next]_vars => (Types /\ YoungestAsks)'
  BY NextTypes
<1> QED BY <1>1, <1>2, InitTypes, PTL DEF Spec

\* The variables have their types: a form is about one row, a table shows rows
\* that exist, and so what is sent from them is about such rows.
THEOREM MenusTypeCorrect == Spec => []TypeOK
  BY PagesTyped, TypesGiveTypeOK, PTL

\* A page at rest shows what it asked for last, unless an answer overtook an older
\* one; however many requests are under way and whichever of them fail.
THEOREM PagesShowLastAsked == Spec => []ShowsLastAsked
<1>1. YoungestAsks => ShowsLastAsked
  BY DEF YoungestAsks, ShowsLastAsked
<1> QED BY <1>1, PagesTyped, PTL

-----------------------------------------------------------------------------
(* Names.                                                                  *)

\* Whoever is about to insert a name that is taken, or that another one is about
\* to insert, makes twins.
TwinsComing ==
  \A t \in Threads : pc[t] = "insert" =>
    /\ \A i \in DOMAIN menus : menus[i].name = req[t].name => req[t].name \in twins
    /\ \A x \in Threads : x # t /\ pc[x] = "insert" /\ req[x].name = req[t].name
                            => req[t].name \in twins

NamesInv == DoubledOnlyTogether /\ TwinsComing

LEMMA NamesKept ==
  ASSUME Types, NamesInv, [Next]_vars PROVE NamesInv'
<1>1. ASSUME NEW t \in Threads, AddCount(t) PROVE NamesInv'
  <2>1. CASE Finish(t) /\ UNCHANGED <<menus, twins>>
    BY <2>1 DEF Finish, Goto, NamesInv, DoubledOnlyTogether, TwinsComing, Types, RequestTypes
  <2>2. CASE Matching(req[t].name) = {} /\ Goto(t, "insert") /\ UNCHANGED <<menus, req>>
    <3>1. \A i \in DOMAIN menus : menus[i].name # req[t].name
      BY <2>2 DEF Matching
    <3>2. twins' = IF Inserting(req[t].name) THEN twins \cup {req[t].name} ELSE twins
      BY <1>1, <2>2 DEF AddCount
    <3> QED BY <2>2, <3>1, <3>2 DEF Goto, Inserting, At, NamesInv, DoubledOnlyTogether,
               TwinsComing, Types, RequestTypes
  <2> QED BY <1>1, <2>1, <2>2 DEF AddCount, rowVars
<1>2. ASSUME NEW t \in Threads, AddInsert(t) PROVE NamesInv'
  <2> DEFINE n == Len(menus) + 1
             row == [name |-> req[t].name, status |-> "NORMAL"]
  <2>1. /\ menus' = Append(menus, row) /\ pc[t] = "insert" /\ pc' = [pc EXCEPT ![t] = "answer"]
        /\ UNCHANGED <<req, twins>>
    BY <1>2 DEF AddInsert, At, Goto
  <2>2. /\ DOMAIN menus = 1 .. Len(menus) /\ Len(menus) \in Nat
        /\ menus \in Seq(Rows)
    BY LenProperties DEF Types, RowTypes
  <2>3. /\ DOMAIN menus' = 1 .. n /\ menus'[n].name = req[t].name
        /\ \A i \in DOMAIN menus : menus'[i] = menus[i]
    BY <2>1, <2>2
  <2>4. DoubledOnlyTogether'
    BY <2>1, <2>2, <2>3 DEF NamesInv, DoubledOnlyTogether, TwinsComing
  <2>5. TwinsComing'
    BY <2>1, <2>2, <2>3 DEF NamesInv, TwinsComing, Types, RequestTypes
  <2> QED BY <2>4, <2>5 DEF NamesInv
<1>3. ASSUME NEW t \in Threads, UpdateWrite(t) PROVE NamesInv'
  <2>1. PICK i, s :
          /\ i \in req[t].ids
          /\ menus' = [menus EXCEPT ![i] = [name |-> req[t].name, status |-> s]]
          /\ twins' = IF menus[i].name = req[t].name THEN twins
                      ELSE twins \cup {req[t].name}
    BY <1>3 DEF UpdateWrite, Write
  <2>2. i \in DOMAIN menus /\ menus \in [DOMAIN menus -> Rows]
    BY <2>1, LenProperties DEF Types, RowTypes, RequestTypes
  <2>3. /\ DOMAIN menus' = DOMAIN menus /\ menus'[i].name = req[t].name
        /\ \A j \in DOMAIN menus : j # i => menus'[j] = menus[j]
    BY <2>1, <2>2
  <2>4. pc' = [pc EXCEPT ![t] = "answer"] /\ UNCHANGED req
    BY <1>3 DEF UpdateWrite, Write, Goto
  <2>5. DoubledOnlyTogether'
    BY <2>1, <2>2, <2>3 DEF NamesInv, DoubledOnlyTogether
  <2>6. TwinsComing'
    BY <2>1, <2>2, <2>3, <2>4 DEF NamesInv, TwinsComing, Types, RequestTypes
  <2> QED BY <2>5, <2>6 DEF NamesInv
<1>4. ASSUME NEW i \in Ids, NEW s \in Statuses, RunTask(i, s) PROVE NamesInv'
  <2>1. menus' = [menus EXCEPT ![i] = [menus[i] EXCEPT !.status = s]] /\ UNCHANGED twins
        /\ UNCHANGED <<pc, req>>
    BY <1>4 DEF RunTask, reqVars, histVars
  <2>2. menus \in [DOMAIN menus -> Rows]
    BY LenProperties DEF Types, RowTypes
  <2>3. DOMAIN menus' = DOMAIN menus /\ \A j \in DOMAIN menus : menus'[j].name = menus[j].name
    BY <2>1, <2>2 DEF Rows
  <2> QED BY <2>1, <2>3 DEF NamesInv, DoubledOnlyTogether, TwinsComing
<1>5. ASSUME NEW t \in Threads, NEW place, place # "insert", Goto(t, place), NEW r,
             req' = [req EXCEPT ![t] = r], UNCHANGED <<menus, twins>>
      PROVE  NamesInv'
  BY <1>5 DEF Goto, NamesInv, DoubledOnlyTogether, TwinsComing, Types, RequestTypes
<1>6. ASSUME NEW t \in Threads, Answer(t) \/ RequestFails(t) \/ UpdateRead(t) PROVE NamesInv'
  BY <1>5, <1>6 DEF Answer, RequestFails, UpdateRead, Finish, Goto, rowVars, histVars
<1>7. ASSUME NEW a \in Admins, NEW t \in Threads,
             SaveNew(a, t) \/ SaveChanged(a, t) \/ Confirm(a, t)
      PROVE  NamesInv'
  BY <1>5, <1>7 DEF SaveNew, SaveChanged, Confirm, Send, rowVars
<1>8. ASSUME NEW t \in Threads, Spawn(t) PROVE NamesInv'
  BY <1>8 DEF Spawn, Start, Goto, NamesInv, DoubledOnlyTogether, TwinsComing, Types, RequestTypes
<1>9. CASE UNCHANGED <<menus, pc, req, twins>>
  BY <1>9 DEF NamesInv, DoubledOnlyTogether, TwinsComing
<1> QED
  BY <1>1, <1>2, <1>3, <1>4, <1>6, <1>7, <1>8, <1>9 DEF Next, OnPage, Serve, InitTable, Search,
     CloseLayer, AddMenu, UpdateMenu, InvalidateOrActivate, Open, ListArrives, ListFails, Show,
     TaskDies, vars, rowVars, reqVars, histVars

\* Two menus have one name only if both were being added at once or one of them was
\* renamed to it.
THEOREM NamesDoubledByRaces == Spec => []DoubledOnlyTogether
<1>1. Init => NamesInv
  BY DEF Init, NamesInv, DoubledOnlyTogether, TwinsComing
<1>2. (Types /\ YoungestAsks) /\ NamesInv /\ [Next]_vars => NamesInv'
  BY NamesKept
<1>3. NamesInv => DoubledOnlyTogether
  BY DEF NamesInv
<1> QED BY <1>1, <1>2, <1>3, PagesTyped, PTL DEF Spec

-----------------------------------------------------------------------------
(* The status of a menu.                                                   *)

IsForm(a, i) == dialog[a].kind = "update" /\ i \in dialog[a].ids
Saves(t, i) == pc[t] \in {"read", "write"} /\ i \in req[t].ids

\* Forms are about one row and send NORMAL or nothing.
OneRow ==
  /\ \A a \in Admins : dialog[a].kind = "update" => \E i : dialog[a].ids = {i}
  /\ \A t \in Threads : pc[t] \in {"read", "write"}
                          => /\ \E i : req[t].ids = {i}
                             /\ req[t].status \in {"NORMAL", "unsent"}

NoGhosts == \A i \in Ids \ DOMAIN menus : ~Spawned(i)

\* A row nobody got in the way of: it has the status asked for, or one thread is
\* about to give it that and nobody else writes it.
Settled(i) == ~Spawned(i) => menus[i].status = asked[i]
OneTask(i) ==
  Spawned(i) => /\ tasks[i][asked[i]] = 1
                /\ \A s \in Statuses : s # asked[i] => tasks[i][s] = 0
                /\ ~Updating(i) /\ ~FormOpen(i)

\* Forms and saves that saw the row NORMAL are of a row that is asked to be so.
FormsKnow(i) ==
  \A a \in Admins : IsForm(a, i) /\ dialog[a].loaded = "NORMAL" => asked[i] = "NORMAL"
SavesKnow(i) ==
  \A t \in Threads : Saves(t, i) =>
    /\ req[t].loaded = "NORMAL" => asked[i] = "NORMAL"
    /\ pc[t] = "write" => req[t].row = menus[i].status
OneSave(i) == \A t, x \in Threads : Saves(t, i) /\ Saves(x, i) => t = x

Quiet(i) == Settled(i) /\ OneTask(i) /\ FormsKnow(i) /\ SavesKnow(i) /\ OneSave(i)

QuietInv == \A i \in DOMAIN menus : ~muddled[i] => Quiet(i)

StatusInv == OneRow /\ NoGhosts /\ QuietInv

\* What is done elsewhere leaves a quiet row quiet.
LEMMA QuietElsewhere ==
  ASSUME NEW i \in DOMAIN menus, Quiet(i),
         menus'[i] = menus[i], tasks'[i] = tasks[i], asked'[i] = asked[i],
         \A a \in Admins : IsForm(a, i)' => IsForm(a, i) /\ dialog'[a] = dialog[a],
         \A t \in Threads : Saves(t, i)' => Saves(t, i) /\ req'[t] = req[t] /\ pc'[t] = pc[t]
  PROVE  Quiet(i)'
<1>1. Spawned(i)' = Spawned(i)
  BY DEF Spawned
<1>2. (Updating(i)' => Updating(i)) /\ (FormOpen(i)' => FormOpen(i))
  BY DEF Updating, FormOpen, IsForm, Saves
<1>3. Settled(i)' /\ OneTask(i)'
  BY <1>1, <1>2 DEF Quiet, Settled, OneTask
<1>4. FormsKnow(i)'
  BY DEF Quiet, FormsKnow
<1>5. SavesKnow(i)'
  BY DEF Quiet, SavesKnow
<1>6. OneSave(i)'
  BY DEF Quiet, OneSave
<1> QED BY <1>3, <1>4, <1>5, <1>6 DEF Quiet

LEMMA FormsKept ==
  ASSUME Types, OneRow, [Next]_vars PROVE OneRow'
<1>1. \A a \in Admins : dialog'[a].kind = "update" => \E i : dialog'[a].ids = {i}
  <2>1. CASE UNCHANGED dialog
    BY <2>1 DEF OneRow
  <2>2. ASSUME NEW a \in Admins, NEW l, dialog' = [dialog EXCEPT ![a] = l],
               l.kind = "update" => \E i : l.ids = {i}
        PROVE  \A b \in Admins : dialog'[b].kind = "update" => \E i : dialog'[b].ids = {i}
    BY <2>2 DEF OneRow, Types, LayerTypes
  <2>3. ASSUME NEW t \in Threads, Answer(t)
        PROVE  UNCHANGED dialog \/ \E a \in Admins : dialog' = [dialog EXCEPT ![a] = NoLayer]
    BY <2>3, AnswerShuts
  <2>4. ASSUME NEW a \in Admins, UpdateMenu(a)
        PROVE  \A b \in Admins : dialog'[b].kind = "update" => \E i : dialog'[b].ids = {i}
    <3>1. PICK i \in shown[a].ids : Open(a, "update", {i}, menus[i].status)
      BY <2>4 DEF UpdateMenu
    <3> DEFINE l == [kind |-> "update", ids |-> {i}, loaded |-> menus[i].status]
    <3>2. dialog' = [dialog EXCEPT ![a] = l] /\ l.ids = {i}
      BY <3>1 DEF Open
    <3> HIDE DEF l
    <3> QED BY <2>2, <3>2
  <2>5. ASSUME NEW a \in Admins, AddMenu(a) \/ InvalidateOrActivate(a)
        PROVE  \A b \in Admins : dialog'[b].kind = "update" => \E i : dialog'[b].ids = {i}
    <3>1. PICK kind, ids : Open(a, kind, ids, "NORMAL") /\ kind # "update"
      BY <2>5 DEF AddMenu, InvalidateOrActivate
    <3> DEFINE l == [kind |-> kind, ids |-> ids, loaded |-> "NORMAL"]
    <3>2. dialog' = [dialog EXCEPT ![a] = l] /\ l.kind # "update"
      BY <3>1 DEF Open
    <3> HIDE DEF l
    <3> QED BY <2>2, <3>2
  <2>6. NoLayer.kind # "update"
    BY DEF NoLayer
  <2> QED
    BY <2>1, <2>2, <2>3, <2>4, <2>5, <2>6, ZenonT(60)
    DEF Next, OnPage, Serve, InitTable, Shut, Search,
       CloseLayer, ListArrives, ListFails, Show, SaveNew, SaveChanged, Confirm, Send, AddCount,
       AddInsert, UpdateRead, UpdateWrite, Write, Spawn, Start, RequestFails, RunTask, TaskDies,
       vars
<1> DEFINE Good(t) == pc[t] \in {"read", "write"}
                        => (\E i : req[t].ids = {i}) /\ req[t].status \in {"NORMAL", "unsent"}
<1>2. \A t \in Threads : Good(t)
  BY DEF OneRow
<1>3. \A t \in Threads : Good(t)'
  <2>1. CASE UNCHANGED <<pc, req>>
    BY <1>2, <2>1
  <2>2. ASSUME NEW t \in Threads, NEW place, Goto(t, place), place \notin {"read", "write"},
               \A x \in Threads \ {t} : req'[x] = req[x]
        PROVE  \A x \in Threads : Good(x)'
    BY <1>2, <2>2 DEF Goto, Types, RequestTypes
  <2>3. ASSUME NEW a \in Admins, NEW t \in Threads, SaveChanged(a, t)
        PROVE  \A x \in Threads : Good(x)'
    <3>1. PICK n \in Names, sent \in {"NORMAL", "unsent"} :
            Send(a, t, "read", [NoRequest EXCEPT !.ids = dialog[a].ids, !.name = n,
                                  !.status = sent, !.loaded = dialog[a].loaded])
      BY <2>3 DEF SaveChanged
    <3>2. /\ pc' = [pc EXCEPT ![t] = "read"] /\ req'[t].ids = dialog[a].ids
          /\ req'[t].status = sent /\ \A x \in Threads \ {t} : req'[x] = req[x]
      BY <3>1 DEF Send, Goto, NoRequest, Types, RequestTypes
    <3>3. \E i : dialog[a].ids = {i}
      BY <2>3 DEF SaveChanged, OneRow
    <3> QED BY <1>2, <3>2, <3>3 DEF Types, RequestTypes
  <2>4. ASSUME NEW t \in Threads, UpdateRead(t) PROVE \A x \in Threads : Good(x)'
    <3>1. PICK s : req' = [req EXCEPT ![t] = [req[t] EXCEPT !.row = s]]
      BY <2>4 DEF UpdateRead
    <3>2. pc[t] = "read" /\ pc' = [pc EXCEPT ![t] = "write"]
      BY <2>4 DEF UpdateRead, At, Goto
    <3>3. /\ req'[t].ids = req[t].ids /\ req'[t].status = req[t].status
          /\ \A x \in Threads \ {t} : req'[x] = req[x]
      BY <3>1 DEF Types, RequestTypes, Requests
    <3> QED BY <1>2, <3>2, <3>3 DEF Types, RequestTypes
  <2>5. ASSUME NEW a \in Admins, NEW t \in Threads, SaveNew(a, t) \/ Confirm(a, t)
        PROVE  \A x \in Threads : Good(x)'
    BY <2>2, <2>5 DEF SaveNew, Confirm, Send, Types, RequestTypes
  <2>6. ASSUME NEW t \in Threads,
               \/ AddCount(t) \/ AddInsert(t) \/ UpdateWrite(t) \/ Spawn(t) \/ Answer(t)
               \/ RequestFails(t)
        PROVE  \A x \in Threads : Good(x)'
    BY <2>2, <2>6 DEF AddCount, AddInsert, UpdateWrite, Write, Spawn, Start, Answer,
       RequestFails, Finish, Types, RequestTypes
  <2> HIDE DEF Good
  <2> QED
    BY <2>1, <2>3, <2>4, <2>5, <2>6 DEF Next, OnPage, Serve, InitTable, Search, CloseLayer,
       AddMenu, UpdateMenu, InvalidateOrActivate, Open, ListArrives, ListFails, Show, RunTask,
       TaskDies, vars, reqVars
<1> QED BY <1>1, <1>3 DEF OneRow

LEMMA GhostsKept ==
  ASSUME Types, NoGhosts, [Next]_vars PROVE NoGhosts'
<1>0. DOMAIN menus \subseteq DOMAIN menus'
  BY RowsTyped
<1>1. CASE UNCHANGED tasks
  BY <1>0, <1>1 DEF NoGhosts, Spawned
<1>2. ASSUME NEW t \in Threads, Spawn(t) PROVE NoGhosts'
  <2>1. req[t].ids \subseteq DOMAIN menus
    BY DEF Types, RequestTypes
  <2>2. \A i \in Ids \ DOMAIN menus : tasks'[i] = tasks[i]
    BY <1>2, <2>1 DEF Spawn, Start
  <2> QED BY <1>0, <2>2 DEF NoGhosts, Spawned
<1>3. ASSUME NEW i \in Ids, NEW s \in Statuses, RunTask(i, s) \/ TaskDies(i, s) PROVE NoGhosts'
  <2>1. Spawned(i)
    BY <1>3 DEF RunTask, TaskDies, Spawned
  <2>2. \A j \in Ids : j # i => tasks'[j] = tasks[j]
    <3>1. tasks' = [tasks EXCEPT ![i] = [tasks[i] EXCEPT ![s] = @ - 1]]
      BY <1>3 DEF RunTask, TaskDies
    <3>2. tasks \in [Ids -> [Statuses -> Nat]]
      BY DEF Types, RowTypes
    <3> QED BY <3>1, <3>2
  <2> QED BY <1>0, <2>1, <2>2 DEF NoGhosts, Spawned
<1> QED
  BY <1>1, <1>2, <1>3, ZenonT(60)
  DEF Next, OnPage, Serve, InitTable, Search, CloseLayer, AddMenu,
     UpdateMenu, InvalidateOrActivate, Open, ListArrives, ListFails, Show, SaveNew, SaveChanged,
     Confirm, Send, AddCount, AddInsert, UpdateRead, UpdateWrite, Write, Answer, RequestFails,
     vars, rowVars

\* The actions on a page, requests that end, and threads that die change no row.
LEMMA QuietAside ==
  ASSUME Types, QuietInv, UNCHANGED <<menus, asked>>,
         \A i \in DOMAIN menus : muddled[i] => muddled'[i],
         \A i \in DOMAIN menus : ~muddled'[i] =>
           /\ tasks'[i] = tasks[i]
           /\ \A a \in Admins : IsForm(a, i)' => IsForm(a, i) /\ dialog'[a] = dialog[a]
           /\ \A t \in Threads : Saves(t, i)' => Saves(t, i) /\ req'[t] = req[t] /\ pc'[t] = pc[t]
  PROVE  QuietInv'
<1> SUFFICES ASSUME NEW i \in DOMAIN menus, ~muddled'[i] PROVE Quiet(i)'
  BY DEF QuietInv
<1>1. Quiet(i)
  BY DEF QuietInv
<1> QED BY <1>1, QuietElsewhere

\* A form is opened on row i.
LEMMA QuietOpen ==
  ASSUME Types, QuietInv, NEW a \in Admins, UpdateMenu(a) PROVE QuietInv'
<1>1. PICK i \in shown[a].ids :
        /\ Open(a, "update", {i}, menus[i].status)
        /\ muddled' = [muddled EXCEPT ![i] = @ \/ Busy(i)]
  BY DEF UpdateMenu
<1>2. /\ UNCHANGED <<menus, tasks, pc, req, asked>>
      /\ dialog' = [dialog EXCEPT ![a] = [kind |-> "update", ids |-> {i},
                                          loaded |-> menus[i].status]]
  BY <1>1 DEF Open, rowVars, reqVars
<1>3. \A b \in Admins \ {a} : dialog'[b] = dialog[b]
  BY <1>2 DEF Types, LayerTypes
<1>4. /\ dialog'[a].kind = "update" /\ dialog'[a].ids = {i}
      /\ dialog'[a].loaded = menus[i].status
  BY <1>2 DEF Types, LayerTypes
<1>5. ASSUME NEW j \in DOMAIN menus, ~muddled'[j] PROVE Quiet(j)'
  <2>1. Quiet(j) /\ (j = i => ~Busy(i))
    <3>1. muddled \in [Ids -> BOOLEAN] /\ j \in Ids
      BY LenProperties DEF Types, HistTypes, RowTypes, Ids
    <3>2. ~muddled[j] /\ (j = i => ~Busy(i))
      BY <1>1, <1>5, <3>1
    <3> QED BY <3>2 DEF QuietInv
  <2>2. CASE j # i
    <3>1. \A b \in Admins : IsForm(b, j)' => IsForm(b, j) /\ dialog'[b] = dialog[b]
      BY <1>3, <1>4, <2>2 DEF IsForm
    <3> QED BY <1>2, <2>1, <3>1, QuietElsewhere DEF Saves
  <2>3. CASE j = i
    <3>1. ~Spawned(i) /\ ~Updating(i) /\ ~FormOpen(i) /\ menus[i].status = asked[i]
      BY <2>1, <2>3 DEF Busy, Quiet, Settled
    <3>2. ~Spawned(i)' /\ ~Updating(i)'
      BY <1>2, <3>1 DEF Spawned, Updating
    <3>3. Settled(i)' /\ OneTask(i)'
      BY <1>2, <3>1, <3>2 DEF Settled, OneTask
    <3>4. FormsKnow(i)'
      BY <1>2, <1>3, <1>4, <3>1 DEF FormsKnow, IsForm, FormOpen
    <3>5. SavesKnow(i)' /\ OneSave(i)'
      BY <3>2 DEF SavesKnow, OneSave, Saves, Updating
    <3> QED BY <2>3, <3>3, <3>4, <3>5 DEF Quiet
  <2> QED BY <2>2, <2>3
<1> QED BY <1>2, <1>5 DEF QuietInv

\* The form of row i is sent.
LEMMA QuietSend ==
  ASSUME Types, OneRow, QuietInv, NEW a \in Admins, NEW t \in Threads, SaveChanged(a, t)
  PROVE  QuietInv'
<1>1. PICK n \in Names, sent \in {"NORMAL", "unsent"} :
        Send(a, t, "read", [NoRequest EXCEPT !.ids = dialog[a].ids, !.name = n,
                              !.status = sent, !.loaded = dialog[a].loaded])
  BY DEF SaveChanged
<1>2. /\ UNCHANGED <<menus, tasks, dialog, asked>> /\ pc' = [pc EXCEPT ![t] = "read"]
      /\ req'[t].ids = dialog[a].ids /\ req'[t].loaded = dialog[a].loaded
      /\ \A x \in Threads \ {t} : req'[x] = req[x] /\ pc'[x] = pc[x]
  BY <1>1 DEF Send, Goto, NoRequest, rowVars, Types, RequestTypes
<1>3. pc'[t] = "read" /\ dialog[a].kind = "update"
  BY <1>2 DEF SaveChanged, Types, RequestTypes
<1>4. ASSUME NEW j \in DOMAIN menus, ~muddled'[j] PROVE Quiet(j)'
  <2>1. Quiet(j) /\ (j \in dialog[a].ids => ~Spawned(j) /\ ~Updating(j))
    <3>1. muddled \in [Ids -> BOOLEAN] /\ j \in Ids
      BY LenProperties DEF Types, HistTypes, RowTypes, Ids
    <3>2. ~muddled[j] /\ (j \in dialog[a].ids => ~Spawned(j) /\ ~Updating(j))
      BY <1>4, <3>1 DEF SaveChanged
    <3> QED BY <3>2 DEF QuietInv
  <2>2. CASE j \notin dialog[a].ids
    <3>1. \A x \in Threads : Saves(x, j)' => Saves(x, j) /\ req'[x] = req[x] /\ pc'[x] = pc[x]
      BY <1>2, <2>2 DEF Saves
    <3> QED BY <1>2, <2>1, <3>1, QuietElsewhere DEF IsForm
  <2>3. CASE j \in dialog[a].ids
    <3>1. ~Spawned(j)' /\ ~Spawned(j) /\ \A x \in Threads : Saves(x, j)' => x = t
      BY <1>2, <2>1, <2>3 DEF Spawned, Updating, Saves
    <3>2. Settled(j)' /\ OneTask(j)' /\ FormsKnow(j)'
      BY <1>2, <2>1, <3>1 DEF Quiet, Settled, OneTask, FormsKnow, IsForm
    <3>3. SavesKnow(j)' /\ OneSave(j)'
      BY <1>2, <1>3, <2>1, <2>3, <3>1 DEF Quiet, FormsKnow, IsForm, SavesKnow, OneSave
    <3> QED BY <3>2, <3>3 DEF Quiet
  <2> QED BY <2>2, <2>3
<1> QED BY <1>2, <1>4 DEF QuietInv

\* The row of an update is read ...
LEMMA QuietRead ==
  ASSUME Types, OneRow, QuietInv, NEW t \in Threads, UpdateRead(t) PROVE QuietInv'
<1>1. PICK i \in req[t].ids : req' = [req EXCEPT ![t] = [req[t] EXCEPT !.row = menus[i].status]]
  BY DEF UpdateRead
<1>2. /\ UNCHANGED <<menus, tasks, dialog, asked, muddled>>
      /\ pc[t] = "read" /\ pc' = [pc EXCEPT ![t] = "write"]
  BY DEF UpdateRead, At, Goto, rowVars, histVars
<1>3. /\ req'[t].ids = {i} /\ req[t].ids = {i} /\ req'[t].loaded = req[t].loaded
      /\ req'[t].row = menus[i].status /\ pc'[t] = "write"
      /\ \A x \in Threads \ {t} : req'[x] = req[x] /\ pc'[x] = pc[x]
  BY <1>1, <1>2 DEF OneRow, Types, RequestTypes, Requests
<1>4. ASSUME NEW j \in DOMAIN menus, ~muddled'[j] PROVE Quiet(j)'
  <2>1. Quiet(j)
    BY <1>2, <1>4 DEF QuietInv
  <2>2. \A x \in Threads : Saves(x, j)' = Saves(x, j)
    BY <1>2, <1>3 DEF Saves
  <2>3. (Spawned(j)' = Spawned(j)) /\ (Updating(j)' = Updating(j)) /\ (FormOpen(j)' = FormOpen(j))
    BY <1>2, <2>2 DEF Spawned, Updating, FormOpen, Saves
  <2>4. Settled(j)' /\ OneTask(j)' /\ FormsKnow(j)' /\ OneSave(j)'
    BY <1>2, <2>1, <2>2, <2>3 DEF Quiet, Settled, OneTask, FormsKnow, IsForm, OneSave
  <2>5. SavesKnow(j)'
    BY <1>2, <1>3, <2>1, <2>2 DEF Quiet, SavesKnow, Saves
  <2> QED BY <2>4, <2>5 DEF Quiet
<1> QED BY <1>2, <1>4 DEF QuietInv

\* ... and written.
LEMMA QuietWrite ==
  ASSUME Types, OneRow, QuietInv, NEW t \in Threads, UpdateWrite(t) PROVE QuietInv'
<1> DEFINE status == IF req[t].status = "unsent" THEN req[t].row ELSE req[t].status
           on == req[t].status = "NORMAL" /\ req[t].loaded = "DISABLED"
<1>1. PICK i \in req[t].ids :
        /\ menus' = [menus EXCEPT ![i] = [name |-> req[t].name, status |-> status]]
        /\ asked' = IF on THEN [asked EXCEPT ![i] = "NORMAL"] ELSE asked
  BY DEF UpdateWrite, Write
<1>2. /\ UNCHANGED <<tasks, dialog, req, muddled>>
      /\ pc[t] = "write" /\ pc' = [pc EXCEPT ![t] = "answer"]
      /\ req[t].ids = {i} /\ req[t].status \in {"NORMAL", "unsent"}
  BY DEF UpdateWrite, Write, At, Goto, OneRow
<1>3. /\ menus \in [DOMAIN menus -> Rows] /\ i \in DOMAIN menus /\ i \in Ids
      /\ DOMAIN menus \subseteq Ids
      /\ pc'[t] = "answer" /\ \A x \in Threads \ {t} : pc'[x] = pc[x]
      /\ asked \in [Ids -> Statuses]
  <2>1. menus \in [DOMAIN menus -> Rows] /\ DOMAIN menus \subseteq Ids
    BY LenProperties DEF Types, RowTypes, Ids
  <2>2. i \in DOMAIN menus /\ asked \in [Ids -> Statuses] /\ pc \in [Threads -> Places]
    BY DEF Types, RequestTypes, HistTypes
  <2> QED BY <1>2, <2>1, <2>2
<1>4. /\ DOMAIN menus' = DOMAIN menus /\ menus'[i].status = status
      /\ asked'[i] = IF on THEN "NORMAL" ELSE asked[i]
      /\ \A j \in DOMAIN menus \ {i} : menus'[j] = menus[j] /\ asked'[j] = asked[j]
  BY <1>1, <1>3
<1>5. ASSUME NEW j \in DOMAIN menus, ~muddled'[j] PROVE Quiet(j)'
  <2>1. Quiet(j)
    BY <1>2, <1>5 DEF QuietInv
  <2>2. \A x \in Threads : Saves(x, j)' => Saves(x, j) /\ x # t
    BY <1>2, <1>3 DEF Saves
  <2>3. CASE j # i
    BY <1>2, <1>3, <1>4, <2>1, <2>2, <2>3, QuietElsewhere DEF IsForm
  <2>4. CASE j = i
    <3>1. Saves(t, i) /\ ~Spawned(i) /\ req[t].row = menus[i].status /\ menus[i].status = asked[i]
          /\ (req[t].loaded = "NORMAL" => asked[i] = "NORMAL")
      BY <1>2, <2>1, <2>4 DEF Saves, Quiet, OneTask, Settled, SavesKnow, Updating
    <3>2. ~Spawned(i)' /\ \A x \in Threads : ~Saves(x, i)'
      BY <1>2, <2>1, <2>2, <2>4, <3>1 DEF Spawned, Quiet, OneSave
    <3>3. asked'[i] = "NORMAL" \/ asked'[i] = asked[i]
      BY <1>4
    <3>4. Settled(i)'
      <4>1. req[t].loaded \in Statuses
        BY DEF Types, RequestTypes, Requests
      <4> QED BY <1>2, <1>4, <3>1, <4>1 DEF Settled, Statuses
    <3>5. OneTask(i)' /\ SavesKnow(i)' /\ OneSave(i)'
      BY <3>2 DEF OneTask, SavesKnow, OneSave
    <3>6. FormsKnow(i)'
      BY <1>2, <2>1, <2>4, <3>3 DEF Quiet, FormsKnow, IsForm
    <3> QED BY <2>4, <3>4, <3>5, <3>6 DEF Quiet
  <2> QED BY <2>3, <2>4
<1> QED BY <1>4, <1>5 DEF QuietInv

LEMMA QuietAdded ==
  ASSUME Types, NoGhosts, QuietInv, NEW t \in Threads, AddInsert(t) PROVE QuietInv'
<1>0. PICK n \in Nat : n = Len(menus) + 1
  BY LenProperties DEF Types, RowTypes
<1> DEFINE row == [name |-> req[t].name, status |-> "NORMAL"]
<1>1. /\ menus' = Append(menus, row) /\ asked' = [asked EXCEPT ![n] = "NORMAL"]
      /\ UNCHANGED <<tasks, dialog, req, muddled>>
      /\ pc[t] = "insert" /\ pc' = [pc EXCEPT ![t] = "answer"] /\ Len(menus) < MaxRows
  BY <1>0 DEF AddInsert, At, Goto
<1>2. /\ DOMAIN menus = 1 .. Len(menus) /\ Len(menus) \in Nat /\ menus \in Seq(Rows)
  BY LenProperties DEF Types, RowTypes
<1>3. /\ DOMAIN menus' = 1 .. n /\ menus'[n].status = "NORMAL" /\ n \in Ids
      /\ \A i \in DOMAIN menus : menus'[i] = menus[i]
  BY <1>0, <1>1, <1>2 DEF Ids
<1>4. asked'[n] = "NORMAL" /\ \A i \in DOMAIN menus : asked'[i] = asked[i]
  BY <1>0, <1>1, <1>2, <1>3 DEF Types, HistTypes
<1>5. \A x \in Threads, i \in Ids : Saves(x, i)' => Saves(x, i) /\ pc'[x] = pc[x]
  BY <1>1 DEF Saves, Types, RequestTypes
<1>6. ASSUME NEW i \in DOMAIN menus, ~muddled'[i] PROVE Quiet(i)'
  <2>1. Quiet(i) /\ i \in Ids
    BY <1>1, <1>2, <1>6 DEF QuietInv, Ids
  <2> QED BY <1>1, <1>3, <1>4, <1>5, <2>1, QuietElsewhere DEF IsForm
<1>7. Quiet(n)'
  <2>1. n \in Ids \ DOMAIN menus
    BY <1>0, <1>2, <1>3
  <2>2. ~Spawned(n)'
    BY <1>1, <2>1 DEF NoGhosts, Spawned
  <2>3. (\A a \in Admins : ~IsForm(a, n)') /\ (\A x \in Threads : ~Saves(x, n)')
    BY <1>1, <1>5, <2>1 DEF IsForm, Saves, Types, LayerTypes, RequestTypes
  <2> QED BY <1>3, <1>4, <2>2, <2>3 DEF Quiet, Settled, OneTask, FormsKnow, SavesKnow, OneSave
<1>8. DOMAIN menus' = DOMAIN menus \cup {n}
  BY <1>0, <1>2, <1>3
<1> QED BY <1>6, <1>7, <1>8 DEF QuietInv

\* A confirmation is served: its rows are asked for anew.
LEMMA QuietSpawn ==
  ASSUME Types, QuietInv, NEW t \in Threads, Spawn(t) PROVE QuietInv'
<1> DEFINE want == req[t].status
<1>1. /\ UNCHANGED <<menus, dialog, req>>
      /\ pc[t] = "spawn" /\ pc' = [pc EXCEPT ![t] = "answer"]
      /\ tasks' = [i \in Ids |-> IF i \in req[t].ids THEN [tasks[i] EXCEPT ![want] = @ + 1]
                                 ELSE tasks[i]]
      /\ asked' = [i \in Ids |-> IF i \in req[t].ids THEN want ELSE asked[i]]
      /\ muddled' = [i \in Ids |-> IF i \in req[t].ids THEN Busy(i) ELSE muddled[i]]
  BY DEF Spawn, Start, At, Goto
<1>2. DOMAIN menus \subseteq Ids /\ want \in Statuses
  BY <1>1, LenProperties DEF Types, RowTypes, RequestTypes, Ids
<1>3. \A x \in Threads, i \in Ids : Saves(x, i)' => Saves(x, i) /\ pc'[x] = pc[x]
  BY <1>1 DEF Saves, Types, RequestTypes
<1>4. ASSUME NEW i \in DOMAIN menus, ~muddled'[i] PROVE Quiet(i)'
  <2>0. i \in Ids
    BY <1>2
  <2>1. CASE i \notin req[t].ids
    <3>1. Quiet(i) /\ tasks'[i] = tasks[i] /\ asked'[i] = asked[i]
      BY <1>1, <1>4, <2>0, <2>1 DEF QuietInv
    <3> QED BY <1>1, <1>3, <2>0, <3>1, QuietElsewhere DEF IsForm
  <2>2. CASE i \in req[t].ids
    <3>1. ~Spawned(i) /\ ~Updating(i) /\ ~FormOpen(i)
      BY <1>1, <1>4, <2>0, <2>2 DEF Busy
    <3>2. tasks[i] \in [Statuses -> Nat] /\ \A s \in Statuses : tasks[i][s] = 0
      BY <2>0, <3>1 DEF Spawned, Types, RowTypes
    <3>3. /\ asked'[i] = want /\ tasks'[i][want] = 1
          /\ \A s \in Statuses : s # want => tasks'[i][s] = 0
      BY <1>1, <1>2, <2>0, <2>2, <3>2
    <3>4. (\A a \in Admins : ~IsForm(a, i)') /\ (\A x \in Threads : ~Saves(x, i)')
      BY <1>1, <1>3, <2>0, <3>1 DEF FormOpen, Updating, IsForm, Saves
    <3>5. Spawned(i)' /\ ~Updating(i)' /\ ~FormOpen(i)'
      BY <1>2, <3>3, <3>4 DEF Spawned, Updating, FormOpen, IsForm, Saves
    <3>6. Settled(i)' /\ OneTask(i)'
      BY <3>3, <3>5 DEF Settled, OneTask
    <3>7. FormsKnow(i)' /\ SavesKnow(i)' /\ OneSave(i)'
      BY <3>4 DEF FormsKnow, SavesKnow, OneSave
    <3> QED BY <3>6, <3>7 DEF Quiet
  <2> QED BY <2>1, <2>2
<1> QED BY <1>1, <1>4 DEF QuietInv

LEMMA QuietRun ==
  ASSUME Types, QuietInv, NEW i \in Ids, NEW s \in Statuses, RunTask(i, s) PROVE QuietInv'
<1>1. /\ UNCHANGED <<pc, req, dialog, asked, muddled>> /\ tasks[i][s] > 0
      /\ tasks' = [tasks EXCEPT ![i] = [tasks[i] EXCEPT ![s] = @ - 1]]
      /\ menus' = [menus EXCEPT ![i] = [menus[i] EXCEPT !.status = s]]
  BY DEF RunTask, reqVars, histVars
<1>2. /\ menus \in [DOMAIN menus -> Rows] /\ DOMAIN menus \subseteq Ids
      /\ tasks \in [Ids -> [Statuses -> Nat]]
  BY LenProperties DEF Types, RowTypes, Ids
<1>3. /\ DOMAIN menus' = DOMAIN menus
      /\ \A j \in DOMAIN menus \ {i} : menus'[j] = menus[j] /\ tasks'[j] = tasks[j]
  BY <1>1, <1>2
<1>4. ASSUME NEW j \in DOMAIN menus, ~muddled'[j] PROVE Quiet(j)'
  <2>1. Quiet(j)
    BY <1>1, <1>4 DEF QuietInv
  <2>2. CASE j # i
    BY <1>1, <1>3, <2>1, <2>2, QuietElsewhere DEF IsForm, Saves
  <2>3. CASE j = i
    <3>1. Spawned(i)
      BY <1>1 DEF Spawned
    <3>2. /\ tasks[i][asked[i]] = 1 /\ ~Updating(i) /\ ~FormOpen(i)
          /\ \A x \in Statuses : x # asked[i] => tasks[i][x] = 0
      BY <2>1, <2>3, <3>1 DEF Quiet, OneTask
    <3>3. s = asked[i] /\ ~Spawned(i)' /\ menus'[i].status = s
      <4>1. s = asked[i]
        BY <1>1, <3>2
      <4>2. \A x \in Statuses : tasks'[i][x] = 0
        BY <1>1, <1>2, <3>2, <4>1
      <4>3. menus'[i].status = s
        BY <1>1, <1>2, <2>3 DEF Rows
      <4> QED BY <4>1, <4>2, <4>3 DEF Spawned
    <3>4. (\A a \in Admins : ~IsForm(a, i)') /\ (\A x \in Threads : ~Saves(x, i)')
      BY <1>1, <3>2 DEF FormOpen, Updating, IsForm, Saves
    <3> QED BY <1>1, <2>3, <3>3, <3>4
            DEF Quiet, Settled, OneTask, FormsKnow, SavesKnow, OneSave
  <2> QED BY <2>2, <2>3
<1> QED BY <1>3, <1>4 DEF QuietInv

LEMMA QuietDies ==
  ASSUME Types, QuietInv, NEW i \in Ids, NEW s \in Statuses, TaskDies(i, s) PROVE QuietInv'
<1>1. /\ UNCHANGED <<menus, asked, pc, req, dialog>>
      /\ tasks' = [tasks EXCEPT ![i] = [tasks[i] EXCEPT ![s] = @ - 1]]
      /\ muddled' = [muddled EXCEPT ![i] = TRUE]
  BY DEF TaskDies, reqVars
<1>2. /\ muddled \in [Ids -> BOOLEAN] /\ tasks \in [Ids -> [Statuses -> Nat]]
      /\ DOMAIN menus \subseteq Ids
  BY LenProperties DEF Types, RowTypes, HistTypes, Ids
<1>3. /\ \A j \in DOMAIN menus : muddled[j] => muddled'[j]
      /\ \A j \in DOMAIN menus : ~muddled'[j] => tasks'[j] = tasks[j]
  BY <1>1, <1>2
<1> QED BY <1>1, <1>3, QuietAside DEF IsForm, Saves

LEMMA QuietKept ==
  ASSUME Types, StatusInv, [Next]_vars PROVE StatusInv'
<1> USE DEF StatusInv
<1>0. OneRow' /\ NoGhosts'
  BY FormsKept, GhostsKept
<1>1. CASE UNCHANGED <<rowVars, pc, req, dialog, asked, muddled>>
  <2>1. QuietInv'
    BY <1>1, QuietAside DEF IsForm, Saves, rowVars
  <2> QED BY <1>0, <2>1
\* Requests that say nothing of a status.
<1>2. ASSUME NEW t \in Threads, NEW place, Goto(t, place), place \notin {"read", "write"},
             \A x \in Threads \ {t} : req'[x] = req[x], UNCHANGED <<rowVars, asked, muddled>>,
             \A a \in Admins, i \in DOMAIN menus :
               IsForm(a, i)' => IsForm(a, i) /\ dialog'[a] = dialog[a]
      PROVE  QuietInv'
  <2>1. \A x \in Threads, i \in DOMAIN menus :
          Saves(x, i)' => Saves(x, i) /\ req'[x] = req[x] /\ pc'[x] = pc[x]
    BY <1>2 DEF Saves, Goto, Types, RequestTypes
  <2> QED BY <1>2, <2>1, QuietAside DEF rowVars
<1>3. ASSUME NEW a \in Admins, NEW l, dialog' = [dialog EXCEPT ![a] = l], l.kind # "update"
      PROVE  \A b \in Admins, i \in DOMAIN menus :
               IsForm(b, i)' => IsForm(b, i) /\ dialog'[b] = dialog[b]
  BY <1>3 DEF IsForm, Types, LayerTypes
<1>4. NoLayer.kind # "update"
  BY DEF NoLayer
<1>5. ASSUME NEW a \in Admins, InitTable(a) \/ CloseLayer(a) PROVE QuietInv'
  BY <1>3, <1>4, <1>5, QuietAside DEF InitTable, CloseLayer, Shut, rowVars, histVars, Saves
<1>6. ASSUME NEW a \in Admins, AddMenu(a) \/ InvalidateOrActivate(a) PROVE QuietInv'
  <2>1. PICK kind, ids : Open(a, kind, ids, "NORMAL") /\ kind # "update" /\ UNCHANGED muddled
    BY <1>6 DEF AddMenu, InvalidateOrActivate
  <2> DEFINE l == [kind |-> kind, ids |-> ids, loaded |-> "NORMAL"]
  <2>2. /\ dialog' = [dialog EXCEPT ![a] = l] /\ l.kind # "update"
        /\ UNCHANGED <<menus, tasks, pc, req, asked, muddled>>
    BY <2>1 DEF Open, rowVars, reqVars
  <2> HIDE DEF l
  <2> QED BY <1>3, <2>2, QuietAside DEF Saves
<1>7. ASSUME NEW a \in Admins, NEW t \in Threads, SaveNew(a, t) \/ Confirm(a, t) PROVE QuietInv'
  BY <1>2, <1>7 DEF SaveNew, Confirm, Send, Types, RequestTypes, IsForm
<1>8. ASSUME NEW t \in Threads, AddCount(t) \/ RequestFails(t) PROVE QuietInv'
  BY <1>2, <1>8 DEF AddCount, RequestFails, Finish, Types, RequestTypes, IsForm, histVars
<1>9. ASSUME NEW t \in Threads, Answer(t) PROVE QuietInv'
  <2>1. \A b \in Admins, i \in DOMAIN menus :
          IsForm(b, i)' => IsForm(b, i) /\ dialog'[b] = dialog[b]
    <3>1. CASE from[t] \in Admins /\ dialog' = [dialog EXCEPT ![from[t]] = NoLayer]
      BY <1>3, <1>4, <3>1 DEF IsForm
    <3>2. CASE UNCHANGED dialog
      BY <3>2 DEF IsForm
    <3> QED BY <1>9, <3>1, <3>2, AnswerShuts
  <2> QED BY <1>2, <1>9, <2>1 DEF Answer, histVars, Types, RequestTypes
<1>10. ASSUME NEW a \in Admins, OnPage(a) PROVE StatusInv'
  BY <1>0, <1>1, <1>5, <1>6, <1>7, <1>10, QuietOpen, QuietSend DEF OnPage, Search, ListArrives,
     ListFails, Show, reqVars, histVars
<1>11. ASSUME NEW t \in Threads, Serve(t) PROVE StatusInv'
  BY <1>0, <1>8, <1>9, <1>11, QuietAdded, QuietRead, QuietWrite, QuietSpawn DEF Serve
<1>12. ASSUME NEW i \in Ids, NEW s \in Statuses, RunTask(i, s) \/ TaskDies(i, s)
       PROVE  StatusInv'
  BY <1>0, <1>12, QuietRun, QuietDies
<1>13. CASE UNCHANGED vars
  BY <1>1, <1>13 DEF vars, reqVars, histVars
<1> QED BY <1>10, <1>11, <1>12, <1>13 DEF Next

\* With its threads run a menu has the status last asked for, whatever forms were
\* saved since, unless writers of its row overlapped or one of them died.
THEOREM StatusIsAsked == Spec => []StatusAsAsked
<1>1. Init => StatusInv
  <2> SUFFICES ASSUME Init PROVE StatusInv
    OBVIOUS
  <2>1. PICK n \in Names : menus = <<[name |-> n, status |-> "NORMAL"]>>
    BY DEF Init
  <2>2. menus[1].status = "NORMAL" /\ DOMAIN menus = {1} /\ 1 \in Ids
    BY <2>1 DEF Ids
  <2>3. OneRow
    BY DEF Init, OneRow, NoLayer
  <2>4. \A i \in Ids : ~Spawned(i)
    BY DEF Init, Spawned
  <2>5. /\ \A a \in Admins, i \in Ids : ~IsForm(a, i)
        /\ \A t \in Threads, i \in Ids : ~Saves(t, i)
    BY DEF Init, IsForm, Saves, NoLayer
  <2>6. asked[1] = "NORMAL"
    BY <2>2 DEF Init
  <2>7. Quiet(1)
    BY <2>2, <2>4, <2>5, <2>6 DEF Quiet, Settled, OneTask, FormsKnow, SavesKnow, OneSave
  <2> QED BY <2>2, <2>3, <2>4, <2>7 DEF StatusInv, NoGhosts, QuietInv
<1>2. (Types /\ YoungestAsks) /\ StatusInv /\ [Next]_vars => StatusInv'
  BY QuietKept
<1>3. StatusInv => StatusAsAsked
  BY DEF StatusInv, QuietInv, Quiet, Settled, StatusAsAsked
<1> QED BY <1>1, <1>2, <1>3, PagesTyped, PTL DEF Spec
=============================================================================

------------------------------ MODULE MenuAdmin ------------------------------
(***************************************************************************)
(* The menus of the site and the pages that manage them.  A page of        *)
(* fish-ums (menuList.html on the table of tools.js) lists the rows of     *)
(* f_menu, and adds, changes, invalidates and activates them through       *)
(* fish-user (MenuServiceImpl).  The list of users (userList.html) is the  *)
(* same page over Accounts.                                                *)
(*                                                                         *)
(* A page asks for a list and shows whichever answer arrives: nothing ties *)
(* an answer to the request the page sent last.  invalidate and active     *)
(* answer once they have started a virtual thread for each row; update     *)
(* reads a row and writes it back whole, and its form has held the status  *)
(* since it was opened.                                                    *)
(*                                                                         *)
(* A row is what the code branches on: name and status.  Its id is its     *)
(* place in menus (rows are never deleted).  Pages of the list, the other  *)
(* columns and the wording of answers are left out.                        *)
(***************************************************************************)
EXTENDS Integers, Sequences, FiniteSets, SequencesExt

CONSTANTS Admins,     \* administrators, each with the page open
          Threads,    \* request threads of fish-user
          Names,      \* names of menus, none contained in another
          All,        \* the empty search text, which every name matches
          None,       \* nobody
          MaxRows, MaxAsks, \* bounds: rows, list requests under way on a page
          MaxClicks,  \* bound: what administrators do in one behaviour
          MaxFaults   \* bound: failures in one behaviour

ASSUME NamesAssumption == All \notin Names
ASSUME NobodyAssumption == None \notin Admins
ASSUME BoundsAssumption == /\ {MaxClicks, MaxFaults} \subseteq Nat
                           /\ {MaxRows, MaxAsks} \subseteq Nat \ {0}

VARIABLES
  menus,    \* the rows of f_menu: [name, status]
  tasks,    \* tasks[i][s]: virtual threads that will set the status of i to s
  pc, req,  \* request threads: place; what was sent (loaded: with which status
            \* its form was opened), status of the row it read
  from,     \* the administrator whose page is read again when the request, a
            \* confirmation, is answered, or None
  open,     \* is the layer that was confirmed still open?
  dialog,   \* the layer open on the page: kind, rows, status its form holds
  asks,     \* asks[a]: list requests under way, oldest first, as search texts
  searched, \* the text in the search box, which the page sent last
  shown,    \* the table: search text it answers, rows
  crossed,  \* did an answer overtake an older one since the page was at rest? (history)
  asked,    \* asked[i]: the status last asked for (history)
  muddled,  \* muddled[i]: did writers of i overlap, or one die, since then? (history)
  twins,    \* names two requests added at once, or a row was renamed to (history)
  clicks, faults

rowVars  == <<menus, tasks>>
reqVars  == <<pc, req, from, open>>
listVars == <<asks, searched, shown, crossed>>
histVars == <<asked, muddled, twins>>
vars == <<rowVars, reqVars, dialog, listVars, histVars, clicks, faults>>

Ids == 1 .. MaxRows
Statuses == {"NORMAL", "DISABLED"}
Filters == Names \cup {All}
Requests == [ids : SUBSET Ids, name : Filters, status : Statuses \cup {"unsent"},
             loaded : Statuses, row : Statuses]
NoRequest == [ids |-> {}, name |-> All, status |-> "unsent", loaded |-> "NORMAL",
              row |-> "NORMAL"]
Layers == [kind : {"none", "add", "update", "invalidate", "active"},
           ids : SUBSET Ids, loaded : Statuses]
NoLayer == [kind |-> "none", ids |-> {}, loaded |-> "NORMAL"]
Places == {"idle", "count", "insert", "read", "write", "spawn", "answer"}

\* One menu, and every page shows it.
Init ==
  /\ \E n \in Names : menus = <<[name |-> n, status |-> "NORMAL"]>>
  /\ tasks = [i \in Ids |-> [s \in Statuses |-> 0]]
  /\ pc = [t \in Threads |-> "idle"]
  /\ req = [t \in Threads |-> NoRequest]
  /\ from = [t \in Threads |-> None]
  /\ open = [t \in Threads |-> FALSE]
  /\ dialog = [a \in Admins |-> NoLayer]
  /\ asks = [a \in Admins |-> <<>>]
  /\ searched = [a \in Admins |-> All]
  /\ shown = [a \in Admins |-> [filter |-> All, ids |-> {1}]]
  /\ crossed = [a \in Admins |-> FALSE]
  /\ asked = [i \in Ids |-> "NORMAL"]
  /\ muddled = [i \in Ids |-> FALSE]
  /\ twins = {}
  /\ clicks = 0
  /\ faults = 0

At(t, place) == pc[t] = place
Goto(t, place) == pc' = [pc EXCEPT ![t] = place]
Click == clicks < MaxClicks /\ clicks' = clicks + 1
Fault == faults < MaxFaults /\ faults' = faults + 1

\* The request thread is done; nobody waits for it any more.
Finish(t) == /\ Goto(t, "idle")
             /\ req' = [req EXCEPT ![t] = NoRequest]
             /\ from' = [from EXCEPT ![t] = None]
             /\ open' = [open EXCEPT ![t] = FALSE]

\* The layer of the page goes away.
Shut(a) == /\ dialog' = [dialog EXCEPT ![a] = NoLayer]
           /\ open' = [t \in Threads |-> open[t] /\ from[t] # a]

Spawned(i) == \E s \in Statuses : tasks[i][s] > 0
Updating(i) == \E t \in Threads : pc[t] \in {"read", "write"} /\ i \in req[t].ids
FormOpen(i) == \E a \in Admins : dialog[a].kind = "update" /\ i \in dialog[a].ids

\* Somebody is about to write the row.
Busy(i) == Spawned(i) \/ Updating(i) \/ FormOpen(i)

-----------------------------------------------------------------------------
(* tools.js and the table of layui                                         *)

\* name LIKE '%text%' and del_flag 0
Matching(f) == {i \in DOMAIN menus : f = All \/ menus[i].name = f}

\* $initTable: the page is loaded again.  What the old page waited for is gone.
InitTable(a) ==
  /\ Click
  /\ asks' = [asks EXCEPT ![a] = <<All>>]
  /\ searched' = [searched EXCEPT ![a] = All]
  /\ shown' = [shown EXCEPT ![a] = [filter |-> All, ids |-> {}]]
  /\ crossed' = [crossed EXCEPT ![a] = FALSE]
  /\ from' = [t \in Threads |-> IF from[t] = a THEN None ELSE from[t]]
  /\ Shut(a)
  /\ UNCHANGED <<rowVars, pc, req, histVars, faults>>

\* Faulty variant: the search text is not handed to the table.
ReloadUnfiltered(a, f) ==
  /\ Len(asks[a]) < MaxAsks
  /\ asks' = [asks EXCEPT ![a] = Append(@, All)]
  /\ searched' = [searched EXCEPT ![a] = f]
  /\ crossed' = [crossed EXCEPT ![a] = @ /\ asks[a] # <<>>]
  /\ UNCHANGED shown

\* $reload: the table asks for the first page of what the search box says.
Reload(a, f) ==
  /\ Len(asks[a]) < MaxAsks
  /\ asks' = [asks EXCEPT ![a] = Append(@, f)]
  /\ searched' = [searched EXCEPT ![a] = f]
  /\ crossed' = [crossed EXCEPT ![a] = @ /\ asks[a] # <<>>]
  /\ UNCHANGED shown

Show(a, k, ids) ==
  /\ k \in DOMAIN asks[a]
  /\ shown' = [shown EXCEPT ![a] = [filter |-> asks[a][k], ids |-> ids]]
  /\ asks' = [asks EXCEPT ![a] = RemoveAt(@, k)]
  /\ crossed' = [crossed EXCEPT ![a] = @ \/ k > 1]
  /\ UNCHANGED <<searched, rowVars, reqVars, dialog, histVars, clicks>>

\* An answer arrives, any of those under way: its rows replace the table's, and
\* the ticks set in it are gone.
ListArrives(a, k) == /\ k \in DOMAIN asks[a]
                     /\ Show(a, k, Matching(asks[a][k]))
                     /\ UNCHANGED faults

\* The request fails.  parseData makes an error answer a list of no rows.
ListFails(a, k) == Show(a, k, {}) /\ Fault

\* Confirm or reset beside the search box; a layer covers them.
Search(a) == /\ dialog[a] = NoLayer /\ Click
             /\ \E f \in Filters : Reload(a, f)
             /\ UNCHANGED <<rowVars, reqVars, dialog, histVars, faults>>

-----------------------------------------------------------------------------
(* The layers of menuList.html                                             *)

Open(a, kind, ids, status) ==
  /\ dialog[a] = NoLayer /\ Click
  /\ dialog' = [dialog EXCEPT ![a] = [kind |-> kind, ids |-> ids, loaded |-> status]]
  /\ UNCHANGED <<rowVars, reqVars, listVars, asked, twins, faults>>

AddMenu(a) == Open(a, "add", {}, "NORMAL") /\ UNCHANGED muddled

\* Faulty variant: several ticked rows are taken.
UpdateSeveral(a) ==
  \E ids \in SUBSET shown[a].ids \ {{}} :
    /\ Open(a, "update", ids, menus[CHOOSE i \in ids : TRUE].status)
    /\ muddled' = [i \in Ids |-> muddled[i] \/ (i \in ids /\ Busy(i))]

\* One ticked row; the form is filled with the row as it is now (findMenuById).
UpdateMenu(a) ==
  \E i \in shown[a].ids :
    /\ Open(a, "update", {i}, menus[i].status)
    /\ muddled' = [muddled EXCEPT ![i] = @ \/ Busy(i)]

\* The ticked rows are taken when the button is pressed, before the confirmation.
InvalidateOrActivate(a) ==
  \E ids \in SUBSET shown[a].ids \ {{}}, kind \in {"invalidate", "active"} :
    Open(a, kind, ids, "NORMAL") /\ UNCHANGED muddled

\* Closed by the administrator, or one second after its form was saved.  What a
\* form still waits for arrives nowhere, and its page is read again; a
\* confirmation that was sent waits on.
CloseLayer(a) ==
  /\ dialog[a] # NoLayer
  /\ Shut(a)
  /\ IF dialog[a].kind \in {"add", "update"} THEN Reload(a, searched[a])
     ELSE UNCHANGED listVars
  /\ UNCHANGED <<rowVars, pc, req, from, histVars, clicks, faults>>

\* A button of the layer sends a request.  It can be pressed again.
Send(a, t, place, r) ==
  /\ At(t, "idle") /\ Click
  /\ Goto(t, place)
  /\ req' = [req EXCEPT ![t] = r]
  /\ from' = [from EXCEPT ![t] = IF place = "spawn" THEN a ELSE None]
  /\ open' = [open EXCEPT ![t] = place = "spawn"]
  /\ UNCHANGED <<rowVars, dialog, listVars, asked, twins, faults>>

SaveNew(a, t) ==
  /\ dialog[a].kind = "add"
  /\ \E n \in Names : Send(a, t, "count", [NoRequest EXCEPT !.name = n])
  /\ UNCHANGED muddled

\* The switch is sent as NORMAL when on; off it is not sent at all, and then the
\* status is kept.  It stands as it was loaded unless the administrator moved it.
SaveChanged(a, t) ==
  /\ dialog[a].kind = "update"
  /\ \E n \in Names, sent \in {"NORMAL", "unsent"} :
       Send(a, t, "read", [NoRequest EXCEPT !.ids = dialog[a].ids, !.name = n,
                             !.status = sent, !.loaded = dialog[a].loaded])
  /\ muddled' = [i \in Ids |-> muddled[i] \/ (i \in dialog[a].ids
                                               /\ (Spawned(i) \/ Updating(i)))]

Wanted(kind) == IF kind = "active" THEN "NORMAL" ELSE "DISABLED"

Confirm(a, t) ==
  /\ dialog[a].kind \in {"invalidate", "active"}
  /\ Send(a, t, "spawn", [NoRequest EXCEPT !.ids = dialog[a].ids,
                                           !.status = Wanted(dialog[a].kind)])
  /\ UNCHANGED muddled

\* After success a confirmation closes its layer, if that is still open, and reads
\* the page again, the second and the late answer of a layer too; a form stays
\* for one second (CloseLayer).
Answer(t) ==
  /\ At(t, "answer")
  /\ IF from[t] # None THEN Reload(from[t], searched[from[t]]) ELSE UNCHANGED listVars
  /\ IF open[t] THEN Shut(from[t]) ELSE UNCHANGED <<dialog, open>>
  /\ Goto(t, "idle")
  /\ req' = [req EXCEPT ![t] = NoRequest]
  /\ from' = [from EXCEPT ![t] = None]
  /\ UNCHANGED <<rowVars, histVars, clicks, faults>>

-----------------------------------------------------------------------------
(* fish-user: MenuServiceImpl                                              *)

Inserting(n) == \E t \in Threads : At(t, "insert") /\ req[t].name = n

\* Faulty variant: the count is not looked at.
AddUncounted(t) ==
  /\ At(t, "count")
  /\ Goto(t, "insert")
  /\ twins' = IF Inserting(req[t].name) THEN twins \cup {req[t].name} ELSE twins
  /\ UNCHANGED <<rowVars, req, from, open, dialog, listVars, asked, muddled, clicks,
                 faults>>

\* addMenu: selectCount; a name that is taken is refused and the form stays.
AddCount(t) ==
  /\ At(t, "count")
  /\ IF Matching(req[t].name) # {}
     THEN Finish(t) /\ UNCHANGED twins
     ELSE /\ Goto(t, "insert")
          /\ twins' = IF Inserting(req[t].name) THEN twins \cup {req[t].name}
                      ELSE twins
          /\ UNCHANGED <<req, from, open>>
  /\ UNCHANGED <<rowVars, dialog, listVars, asked, muddled, clicks, faults>>

\* insert; a switch that is off leaves the status to the default of the column.
AddInsert(t) ==
  /\ At(t, "insert") /\ Len(menus) < MaxRows
  /\ menus' = Append(menus, [name |-> req[t].name, status |-> "NORMAL"])
  /\ asked' = [asked EXCEPT ![Len(menus) + 1] = "NORMAL"]
  /\ Goto(t, "answer")
  /\ UNCHANGED <<tasks, req, from, open, dialog, listVars, muddled, twins, clicks,
                 faults>>

\* updateMenu: selectById
UpdateRead(t) ==
  /\ At(t, "read")
  /\ \E i \in req[t].ids : req' = [req EXCEPT ![t].row = menus[i].status]
  /\ Goto(t, "write")
  /\ UNCHANGED <<rowVars, from, open, dialog, listVars, histVars, clicks, faults>>

\* The row is written with what was sent and, for the rest, what was read.
Write(t, status) ==
  /\ At(t, "write")
  /\ \E i \in req[t].ids :
       /\ menus' = [menus EXCEPT ![i] = [name |-> req[t].name, status |-> status]]
       /\ twins' = IF menus[i].name = req[t].name THEN twins ELSE twins \cup {req[t].name}
       /\ asked' = IF req[t].status = "NORMAL" /\ req[t].loaded = "DISABLED"
                   THEN [asked EXCEPT ![i] = "NORMAL"] ELSE asked
  /\ Goto(t, "answer")
  /\ UNCHANGED <<tasks, req, from, open, dialog, listVars, muddled, clicks, faults>>

\* Faulty variant: a status that was not sent is taken for "off".
UpdateWriteOff(t) ==
  Write(t, IF req[t].status = "unsent" THEN "DISABLED" ELSE req[t].status)

\* updateById; the name is not checked against the other rows.
UpdateWrite(t) ==
  Write(t, IF req[t].status = "unsent" THEN req[t].row ELSE req[t].status)

Start(t, ids) ==
  /\ At(t, "spawn")
  /\ tasks' = [i \in Ids |-> IF i \in ids THEN [tasks[i] EXCEPT ![req[t].status] = @ + 1]
                             ELSE tasks[i]]
  /\ asked' = [i \in Ids |-> IF i \in req[t].ids THEN req[t].status ELSE asked[i]]
  /\ muddled' = [i \in Ids |-> IF i \in req[t].ids THEN Busy(i) ELSE muddled[i]]
  /\ Goto(t, "answer")
  /\ UNCHANGED <<menus, req, from, open, dialog, listVars, twins, clicks, faults>>

\* Faulty variant: only one of the rows gets its thread.
SpawnOne(t) == \E i \in req[t].ids : Start(t, {i})

\* invalidateMenus, activeMenus: a virtual thread for each row, none waited for.
Spawn(t) == Start(t, req[t].ids)

\* One of them: UPDATE f_menu SET STATUS ... WHERE ID ...
RunTask(i, s) ==
  /\ tasks[i][s] > 0
  /\ tasks' = [tasks EXCEPT ![i][s] = @ - 1]
  /\ menus' = [menus EXCEPT ![i].status = s]
  /\ UNCHANGED <<reqVars, dialog, listVars, histVars, clicks, faults>>

\* Its update fails or the process dies: nobody is told.
TaskDies(i, s) ==
  /\ tasks[i][s] > 0 /\ Fault
  /\ tasks' = [tasks EXCEPT ![i][s] = @ - 1]
  /\ muddled' = [muddled EXCEPT ![i] = TRUE]
  /\ UNCHANGED <<menus, reqVars, dialog, listVars, asked, twins, clicks>>

\* A request fails, or was served and its answer is lost: the layer stays open
\* (the page has no error handler) until it is closed.
RequestFails(t) ==
  /\ pc[t] # "idle" /\ Fault
  /\ Finish(t)
  /\ UNCHANGED <<rowVars, dialog, listVars, histVars, clicks>>

-----------------------------------------------------------------------------
OnPage(a) == \/ InitTable(a) \/ Search(a) \/ CloseLayer(a)
             \/ AddMenu(a) \/ UpdateMenu(a) \/ InvalidateOrActivate(a)
             \/ \E k \in 1 .. MaxAsks : ListArrives(a, k) \/ ListFails(a, k)
             \/ \E t \in Threads : SaveNew(a, t) \/ SaveChanged(a, t) \/ Confirm(a, t)

Serve(t) == \/ AddCount(t) \/ AddInsert(t) \/ UpdateRead(t) \/ UpdateWrite(t)
            \/ Spawn(t) \/ Answer(t) \/ RequestFails(t)

Next == \/ \E a \in Admins : OnPage(a)
        \/ \E t \in Threads : Serve(t)
        \/ \E i \in Ids, s \in Statuses : RunTask(i, s) \/ TaskDies(i, s)

Spec == Init /\ [][Next]_vars

\* A virtual thread that was started is run.
FairSpec == Spec /\ \A i \in Ids, s \in Statuses : WF_vars(RunTask(i, s))

-----------------------------------------------------------------------------
(* Properties.                                                             *)

\* Types of the variables; a change is about one row (menuList.html l.97), and a
\* table shows rows that exist.
TypeOK ==
  /\ menus \in Seq([name : Names, status : Statuses]) /\ Len(menus) \in Ids
  /\ tasks \in [Ids -> [Statuses -> Nat]]
  /\ pc \in [Threads -> Places] /\ req \in [Threads -> Requests]
  /\ from \in [Threads -> Admins \cup {None}] /\ open \in [Threads -> BOOLEAN]
  /\ dialog \in [Admins -> Layers]
  /\ asks \in [Admins -> Seq(Filters)] /\ searched \in [Admins -> Filters]
  /\ shown \in [Admins -> [filter : Filters, ids : SUBSET DOMAIN menus]]
  /\ crossed \in [Admins -> BOOLEAN]
  /\ asked \in [Ids -> Statuses] /\ muddled \in [Ids -> BOOLEAN]
  /\ twins \subseteq Names
  /\ clicks \in 0 .. MaxClicks /\ faults \in 0 .. MaxFaults
  /\ \A a \in Admins : dialog[a].kind = "update" => Cardinality(dialog[a].ids) = 1

\* With its threads run, a menu has the status last asked for, whoever saved its
\* form since: only writers that overlapped, or one that died, can leave another
\* (MenuServiceImpl l.57-84 writes whole rows, l.108-122 starts threads).
StatusAsAsked ==
  \A i \in DOMAIN menus : Spawned(i) \/ muddled[i] \/ menus[i].status = asked[i]

\* A menu that exists is refused ("菜单已存在", MenuServiceImpl l.50): two rows
\* have one name only if both were being added at once or one was renamed to it.
DoubledOnlyTogether ==
  \A i, j \in DOMAIN menus : i # j /\ menus[i].name = menus[j].name
                               => menus[i].name \in twins

\* A page at rest shows what it asked for last, unless an answer overtook an
\* older one on the way (tools.js l.23 gives the table nothing to tell them by).
ShowsLastAsked ==
  \A a \in Admins : asks[a] = <<>> /\ ~crossed[a] => shown[a].filter = searched[a]

\* "操作成功" comes before the work (MenuServiceImpl l.108-122), yet the work is
\* done: once administrators leave the pages alone every menu comes to the status
\* last asked for, unless writers of its row got in each other's way.
AskedHappens ==
  <>[](\A i \in DOMAIN menus : muddled[i] \/ menus[i].status = asked[i])
=============================================================================
